------------------------------ MODULE MCOJSWorker ------------------------------
(* Instances of OJSWorker for TLC. *)
EXTENDS OJSWorker

Fixed(c, n) == [cluster |-> c, replicas |-> n, scaled |-> FALSE,
                min |-> 0, max |-> 0, polls |-> TRUE]

Autoscaled(c, n, lo, hi) == [cluster |-> c, replicas |-> n, scaled |-> TRUE,
                             min |-> lo, max |-> hi, polls |-> TRUE]

\* An autoscaled worker that is not polled.
Unpolled(c, n, lo, hi) == [Autoscaled(c, n, lo, hi) EXCEPT !.polls = FALSE]

\* The OJSCluster changes, autoscaling is turned on and off, with polling and
\* without, and one is refused by the webhook.
LiveSpecs == {Fixed("a", 1), Autoscaled("b", 1, 1, 2), Unpolled("a", 1, 1, 2),
              Autoscaled("a", 1, 2, 1)}

\* The one the webhook refuses.
RefusedSpec == {Autoscaled("a", 1, 2, 1)}

\* Only the OJSCluster changes.
MovedSpecs == {Fixed("a", 1), Fixed("b", 1)}

\* The default of one replica, below what autoscaling is to keep.
ScaledSpec == {Autoscaled("a", 1, 2, 2)}

\* A worker whose controller comes to rest though it is autoscaled, and one the
\* webhook refuses.
DisturbedSpecs == {Unpolled("a", 1, 1, 2), Autoscaled("a", 1, 2, 1)}
=============================================================================
