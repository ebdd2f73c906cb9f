----------------------------- MODULE MCOJSCluster -----------------------------
(* Instances of OJSCluster for TLC. *)
EXTENDS OJSCluster

With(b, n, p, m) == [backend |-> b, replicas |-> n, budget |-> p, monitor |-> m,
                     scaled |-> FALSE, min |-> 0, max |-> 0]

\* The same with bounds of the workers that the webhook refuses.
Misfit(s) == [s EXCEPT !.scaled = TRUE, !.min = 2, !.max = 1]

\* The embedded redis turned on and off together with the replicas.
BackendSpecs == {With("external", 1, "disabled", FALSE),
                 With("redis", 2, "disabled", FALSE)}

\* The same, and an embedded backend that is not supported.
EditedSpecs == BackendSpecs \cup {With("unsupported", 1, "disabled", FALSE)}

\* The cluster is created and edited, but not deleted.
Undeleted == uids <= 1 /\ (uids = 1 => server # Absent /\ ~server.deleting)

\* Another type of external backend, a ServiceMonitor, and bounds that the
\* webhook refuses.
LiveSpecs == {With("external", 1, "disabled", FALSE),
              Misfit(With("lite", 1, "disabled", TRUE))}

\* A cluster with a disruption budget, one too small for it, and one with an
\* embedded backend that is not supported.
RecreatedSpecs == {With("external", 2, "minAvailable", FALSE),
                   With("external", 1, "minAvailable", FALSE),
                   With("unsupported", 1, "disabled", FALSE)}

\* Only the first cluster is disturbed, once, and one that was is not deleted.
FirstIsDisturbed == drifts + flaps > 0 => Undeleted /\ drifts + flaps = 1

\* Only the first cluster is deleted.
SecondStays == uids = 2 => server # Absent /\ ~server.deleting

\* A smaller and a larger cluster.
ScaledSpecs == {With("external", 1, "disabled", FALSE),
                With("external", 2, "disabled", FALSE)}

\* Another type of external backend.
MovedSpecs == {With("external", 1, "disabled", FALSE),
               With("lite", 1, "disabled", FALSE)}
=============================================================================
