---------------------- MODULE OJSWorkerConvergence_proofs ----------------------
(***************************************************************************)
(* Proof that the OJSWorker controller loses no wake-up: ConvergenceInv,   *)
(* together with type correctness and FinalizerInv, is inductive.          *)
(***************************************************************************)
EXTENDS OJSWorker_proofs

(***************************************************************************)
(* The inductive invariant.                                                *)
(***************************************************************************)

\* Nothing is queued, or still to be delivered by a watch.
Settled == ~queued /\ cacheFresh /\ freshChild = Kinds

\* The children that are dealt with before a step of Reconcile.
Before(step) == CASE step = "autoscaler" -> {"deployment"}
                  [] step = "status"     -> Kinds
                  [] OTHER               -> {}

\* Child k is as the stored specification asks.
AsWanted(k) == IF k = "deployment" \/ server.spec.scaled
               THEN ChildInPlace(k)
               ELSE children[k] = Absent

\* What is being deleted still has its finalizer, and a copy that the API server
\* would accept is of the stored object.
ObjectCopies ==
    /\ \A o \in {server, cached, local} :
         o # Absent /\ o.deleting => o.finalizer
    /\ localFresh =>
         /\ local.uid = server.uid /\ local.gen = server.gen
         /\ local.spec = server.spec /\ local.finalizer = server.finalizer
         /\ local.deleting = server.deleting

\* What the steps already done tell about the copy in hand.
LocalKnown ==
    /\ pc = "delete" => local.deleting
    /\ pc \notin {"idle", "delete"} => ~local.deleting
    /\ pc \notin Unmarked => local.finalizer

\* If the key is not queued and the watch of the workers has nothing to deliver,
\* a running call works on the stored object; if no watch has, every child it
\* has dealt with is as it should be.
PassSound ==
    /\ pc # "idle" /\ ~queued /\ cacheFresh => localFresh
    /\ pc # "idle" /\ Settled => \A k \in Before(pc) : AsWanted(k)

\* The watches tell nothing of a Deployment that somebody else controls.  So the
\* cache must not have one when a pass is over, or past the Deployment, and the
\* key is not queued: the end of that Deployment would wake nobody.  Nobody
\* else has an autoscaler of the worker's name.
NoForeignSeen ==
    /\ ~Foreign(children["autoscaler"]) /\ ~Foreign(cachedChild["autoscaler"])
    /\ /\ ~queued /\ cacheFresh /\ server # Absent
       /\ pc \in {"idle", "autoscaler", "status"}
       => ~Foreign(cachedChild["deployment"])

ConvergenceInv ==
    /\ ChildCopies
    /\ ObjectCopies
    /\ LocalKnown
    /\ PassSound
    /\ NoForeignSeen
    /\ NoLostWakeup

(***************************************************************************)
(* What the kinds of steps preserve.                                       *)
(***************************************************************************)

\* Child k is left as the running call wants it.
LeftRight(k) ==
    IF k = "deployment" \/ local.spec.scaled
    THEN /\ children'[k] # Absent
         /\ children'[k].owner = local.uid
         /\ children'[k].content = Desired(k, local.spec)
    ELSE children'[k] = Absent

\* Child k is left as the running call wants it, unless the watches will hear of
\* it.
Dealt(k) == freshChild' = Kinds => LeftRight(k)

\* What a request about child k leaves alone.
Touches(k) ==
    /\ UNCHANGED <<server, cached, cacheFresh, cachedChild>>
    /\ ChildCopies'
    /\ freshChild' \subseteq freshChild
    /\ \A j \in Kinds \ {k} : children'[j] = children[j]
    /\ ~Foreign(children'["autoscaler"])

\* The running call's copy is of a worker, so not of the rival.
LEMMA LocalUid ==
    ASSUME TypeInv, FinalizerInv, pc # "idle"
    PROVE  local.uid # RivalUid
<1>1. local # Absent /\ local.uid \in Nat /\ uids \in Nat /\ MaxUid \in Nat
  BY LocalType, StatusType, BoundsAssumption DEF TypeInv, TypeOK, Copies
<1>2. local.uid <= uids /\ uids <= MaxUid
  BY <1>1 DEF FinalizerInv
<1> QED BY <1>1, <1>2 DEF RivalUid

\* What CreateOrUpdate stores is a child object.
LEMMA EnsuredChildType ==
    ASSUME TypeInv, pc # "idle", NEW k \in Kinds
    PROVE  [owner   |-> local.uid,
            content |-> Desired(k, local.spec),
            rollout |-> IF children[k] = Absent THEN NoRollout
                        ELSE children[k].rollout] \in Children
<1>1. local.uid \in Nat /\ Desired(k, local.spec) \in Contents
  BY LocalType, StatusType, DesiredType
<1>2. NoRollout \in Rollouts
  BY DEF NoRollout, Rollouts
<1>3. children[k] # Absent => children[k].rollout \in Rollouts
  BY DEF TypeInv, TypeOK, Children
<1> QED BY <1>1, <1>2, <1>3 DEF Children

\* What CreateOrUpdate achieves when it reports success.
LEMMA EnsureEffect ==
    ASSUME TypeInv, FinalizerInv, ConvergenceInv, pc # "idle", NEW k \in Kinds,
           k = "deployment" \/ local.spec.scaled,
           NEW ACTION Done, NEW ACTION Failed, Ensure(k, Done, Failed)
    PROVE  Touches(k) /\ (Failed \/ (Done /\ Dealt(k)))
<1> DEFINE want == Desired(k, local.spec)
           new  == [owner |-> local.uid, content |-> want,
                    rollout |-> IF children[k] = Absent THEN NoRollout
                                ELSE children[k].rollout]
           seen == cachedChild[k]
           equal == /\ seen # Absent /\ seen.owner = local.uid
                    /\ seen.content = want
<1>1. /\ UNCHANGED <<server, cached, cacheFresh, cachedChild>>
      /\ \/ /\ UNCHANGED <<children, freshChild>>
            /\ Failed \/ (equal /\ Done)
         \/ /\ children' = [children EXCEPT ![k] = new]
            /\ freshChild' = IF new = children[k] THEN freshChild
                             ELSE freshChild \ {k}
            /\ Done \/ Failed
  <2>1. Seen(k) = seen
    BY DEF Seen, Watched, TypeInv, TypeOK
  <2> QED BY <2>1 DEF Ensure, CreateOrUpdate, objectVars
<1>2. /\ children \in [Kinds -> Children \cup {Absent}]
      /\ freshChild \subseteq Kinds
  BY DEF TypeInv, TypeOK
<1>3. new # Absent
  BY AbsentAssumption, EnsuredChildType
<1>4. new.owner = local.uid /\ new.content = want
  OBVIOUS
<1> HIDE DEF new
<1>5. ChildCopies' /\ \A j \in Kinds \ {k} : children'[j] = children[j]
  BY EnsureChildren DEF ConvergenceInv
<1>6. freshChild' \subseteq freshChild
  BY <1>1
<1>7. ~Foreign(children'["autoscaler"])
  <2>1. ~Foreign(children["autoscaler"]) /\ ~Foreign(new)
    BY <1>4, LocalUid DEF ConvergenceInv, NoForeignSeen, Foreign
  <2>2. \/ children'["autoscaler"] = children["autoscaler"]
        \/ children'["autoscaler"] = new
    BY <1>1, <1>2 DEF Kinds
  <2> QED BY <2>1, <2>2
<1>8. Failed \/ (Done /\ Dealt(k))
  <2>1. CASE UNCHANGED <<children, freshChild>> /\ equal /\ Done
    <3>1. freshChild' = Kinds => children'[k] = seen
      BY <2>1 DEF ConvergenceInv, ChildCopies
    <3> QED BY <2>1, <3>1 DEF Dealt, LeftRight
  <2>2. CASE children' = [children EXCEPT ![k] = new] /\ Done
    <3>1. children'[k] = new
      BY <1>2, <2>2
    <3> QED BY <1>3, <1>4, <2>2, <3>1 DEF Dealt, LeftRight
  <2> QED BY <1>1, <2>1, <2>2
<1> QED BY <1>1, <1>5, <1>6, <1>7, <1>8 DEF Touches

\* What DeleteChild achieves when it reports success: the watches hear of it.
LEMMA DeleteEffect ==
    ASSUME TypeInv, ConvergenceInv,
           NEW ACTION Done, NEW ACTION Failed,
           DeleteChild("autoscaler", Done, Failed)
    PROVE  Touches("autoscaler") /\ (Failed \/ (Done /\ Dealt("autoscaler")))
<1>1. /\ UNCHANGED <<server, cached, cacheFresh, cachedChild>>
      /\ \/ UNCHANGED <<children, freshChild>> /\ Failed
         \/ /\ children' = [children EXCEPT !["autoscaler"] = Absent]
            /\ freshChild' = freshChild \ {"autoscaler"}
            /\ Done \/ Failed
  BY DEF DeleteChild, objectVars
<1>2. ChildCopies'
  BY <1>1, ChildrenWritten DEF Kinds, ConvergenceInv
<1>3. /\ \A j \in Kinds \ {"autoscaler"} : children'[j] = children[j]
      /\ children'["autoscaler"] \in {children["autoscaler"], Absent}
  BY <1>1 DEF TypeInv, TypeOK, Kinds
<1>4. ~Foreign(children'["autoscaler"])
  BY <1>3 DEF ConvergenceInv, NoForeignSeen, Foreign
<1>5. Failed \/ (Done /\ Dealt("autoscaler"))
  BY <1>1 DEF Dealt, Kinds
<1> QED BY <1>1, <1>2, <1>3, <1>4, <1>5 DEF Touches

\* A step that goes on with the same copy, having dealt with child k or none.
LEMMA AdvanceInv ==
    ASSUME TypeInv, ConvergenceInv, pc # "idle", NEW next \in Steps \ {"idle"},
           NEW k, Touches(k), Goto(next, local, localFresh),
           LocalKnown',
           \A j \in Before(next) : (j # k /\ j \in Before(pc)) \/ Dealt(j),
           next \in {"autoscaler", "status"} =>
             pc = "autoscaler" \/ ~Foreign(cachedChild["deployment"])
    PROVE  ConvergenceInv'
<1>0. /\ pc' = next /\ pc' # "idle"
      /\ UNCHANGED <<local, localFresh, queued, server, cached, cacheFresh>>
      /\ UNCHANGED cachedChild
      /\ freshChild' \subseteq freshChild
      /\ \A j \in Kinds \ {k} : children'[j] = children[j]
  BY DEF Goto, Touches
<1>1. ChildCopies' /\ ObjectCopies'
  BY <1>0 DEF Touches, ConvergenceInv, ObjectCopies
<1>2. PassSound'
  <2>1. ~queued /\ cacheFresh => localFresh
    BY DEF ConvergenceInv, PassSound
  <2>2. ASSUME Settled', NEW j \in Before(next)
        PROVE  AsWanted(j)'
    <3>1. Settled /\ localFresh /\ freshChild' = Kinds /\ j \in Kinds
      BY <1>0, <2>1, <2>2 DEF Settled, TypeInv, TypeOK, Before, Kinds
    <3>2. local.uid = server.uid /\ local.spec = server.spec
      BY <3>1 DEF ConvergenceInv, ObjectCopies
    <3>3. CASE j # k /\ j \in Before(pc)
      <4>1. AsWanted(j) /\ children'[j] = children[j]
        BY <1>0, <3>1, <3>3 DEF ConvergenceInv, PassSound
      <4> QED BY <1>0, <4>1 DEF AsWanted, ChildInPlace
    <3>4. CASE Dealt(j)
      BY <1>0, <3>1, <3>2, <3>4 DEF Dealt, LeftRight, AsWanted, ChildInPlace
    <3> QED BY <2>2, <3>3, <3>4
  <2> QED BY <1>0, <2>1, <2>2 DEF PassSound
<1>3. NoForeignSeen'
  BY <1>0 DEF Touches, ConvergenceInv, NoForeignSeen, Foreign, RivalUid
<1>4. NoLostWakeup'
  BY <1>0 DEF NoLostWakeup, Quiescent
<1> QED BY <1>1, <1>2, <1>3, <1>4 DEF ConvergenceInv

\* A step that returns with the key queued, which claims nothing.
LEMMA RequeueInv ==
    ASSUME ConvergenceInv, Requeue, ChildCopies',
           cached' \in {server, cached},
           server' # Absent /\ server'.deleting => server'.finalizer,
           ~Foreign(children'["autoscaler"]),
           ~Foreign(cachedChild'["autoscaler"])
    PROVE  ConvergenceInv'
<1>1. pc' = "idle" /\ local' = Absent /\ ~localFresh' /\ queued'
  BY DEF Requeue, Return
<1>2. ObjectCopies'
  BY <1>1 DEF ConvergenceInv, ObjectCopies
<1>3. LocalKnown' /\ PassSound' /\ NoLostWakeup'
  BY <1>1 DEF LocalKnown, Unmarked, PassSound, NoLostWakeup, Quiescent
<1>4. NoForeignSeen'
  BY <1>1 DEF NoForeignSeen, Foreign, RivalUid
<1> QED BY <1>2, <1>3, <1>4 DEF ConvergenceInv

LEMMA RefusedInv ==
    ASSUME ConvergenceInv, Requeue, UNCHANGED <<objectVars, childVars, fails>>
    PROVE  ConvergenceInv'
BY RequeueInv DEF objectVars, childVars, ConvergenceInv, ChildCopies,
                  ObjectCopies, NoForeignSeen

\* A step that goes on and sends no request.
LEMMA SkipInv ==
    ASSUME TypeInv, ConvergenceInv, pc # "idle",
           NEW next \in Steps \ {"idle"}, Skip(next), LocalKnown',
           \A j \in Before(next) : j \in Before(pc) \/ Dealt(j),
           next \in {"autoscaler", "status"} => pc = "autoscaler"
    PROVE  ConvergenceInv'
<1> DEFINE none == "none"
<1>1. none \notin Kinds
  BY DEF Kinds
<1> HIDE DEF none
<1>2. UNCHANGED <<server, cached, cacheFresh, cachedChild, children, freshChild>>
  BY DEF Skip, objectVars, childVars
<1>3. Touches(none)
  BY <1>2 DEF Touches, ConvergenceInv, ChildCopies, NoForeignSeen
<1>4. \A j \in Before(next) : (j # none /\ j \in Before(pc)) \/ Dealt(j)
  BY <1>1 DEF Before, Kinds
<1> QED BY <1>3, <1>4, AdvanceInv DEF Skip

\* An Update of the object that returns with the key queued unless it succeeds.
LEMMA PutInv ==
    ASSUME TypeInv, ConvergenceInv, NEW STATE new, NEW ACTION Done,
           PutObject(new, Done, Requeue),
           localFresh => new = Absent \/ (new.deleting => new.finalizer),
           /\ Done /\ localFresh /\ Store(new) /\ UNCHANGED <<cached, childVars>>
           => ConvergenceInv'
    PROVE  ConvergenceInv'
<1>1. UNCHANGED <<cached, childVars>>
  BY DEF PutObject
<1>2. \/ Done /\ localFresh /\ Store(new)
      \/ Requeue /\ localFresh /\ server' = new
      \/ Requeue /\ UNCHANGED server
  BY DEF PutObject, Store
<1>3. CASE Done /\ localFresh /\ Store(new)
  BY <1>1, <1>3
<1>4. ASSUME Requeue, (localFresh /\ server' = new) \/ UNCHANGED server
      PROVE  ConvergenceInv'
  <2>1. server' # Absent /\ server'.deleting => server'.finalizer
    BY <1>4 DEF ConvergenceInv, ObjectCopies
  <2>2. /\ ChildCopies'
        /\ ~Foreign(children'["autoscaler"])
        /\ ~Foreign(cachedChild'["autoscaler"])
    BY <1>1 DEF ConvergenceInv, ChildCopies, NoForeignSeen, childVars
  <2> QED BY <1>1, <1>4, <2>1, <2>2, RequeueInv
<1> QED BY <1>2, <1>3, <1>4

(***************************************************************************)
(* The steps of Reconcile.                                                 *)
(***************************************************************************)

LEMMA StartReconcileInv ==
    ASSUME TypeInv, ConvergenceInv, StartReconcile
    PROVE  ConvergenceInv'
<1>1. UNCHANGED <<server, cached, cacheFresh, children, cachedChild, freshChild>>
  BY DEF StartReconcile, objectVars, childVars
<1>2. cacheFresh => cached = server
  BY DEF TypeInv, Copies
<1>3. ChildCopies' /\ ~Foreign(children'["autoscaler"])
        /\ ~Foreign(cachedChild'["autoscaler"])
  BY <1>1 DEF ConvergenceInv, ChildCopies, NoForeignSeen
<1>4. CASE cached = Absent
  <2>1. /\ pc = "idle" /\ UNCHANGED <<pc, local, localFresh>>
        /\ cacheFresh => server = Absent
    BY <1>2, <1>4 DEF StartReconcile
  <2>2. ObjectCopies' /\ LocalKnown'
    BY <1>1, <2>1 DEF ConvergenceInv, ObjectCopies, LocalKnown
  <2>3. PassSound' /\ NoForeignSeen' /\ NoLostWakeup'
    BY <1>1, <1>3, <2>1 DEF PassSound, NoForeignSeen, NoLostWakeup, Quiescent,
                            Foreign, RivalUid
  <2> QED BY <1>3, <2>2, <2>3 DEF ConvergenceInv
<1>5. CASE cached # Absent
  <2>1. /\ pc' = IF cached.deleting THEN "delete" ELSE "finalizer"
        /\ local' = cached /\ localFresh' = cacheFresh
    BY <1>5 DEF StartReconcile
  <2>2. ObjectCopies'
    BY <1>1, <1>2, <2>1 DEF ConvergenceInv, ObjectCopies
  <2>3. LocalKnown' /\ PassSound'
    BY <1>1, <2>1 DEF LocalKnown, Unmarked, PassSound, Before
  <2>4. NoForeignSeen' /\ NoLostWakeup'
    BY <1>3, <2>1 DEF NoForeignSeen, NoLostWakeup, Quiescent, Foreign, RivalUid
  <2> QED BY <1>3, <2>2, <2>3, <2>4 DEF ConvergenceInv
<1> QED BY <1>4, <1>5

LEMMA RemoveFinalizerInv ==
    ASSUME TypeInv, ConvergenceInv, RemoveFinalizer
    PROVE  ConvergenceInv'
<1>1. pc = "delete" /\ local.finalizer
  BY DEF RemoveFinalizer, ConvergenceInv, LocalKnown, ObjectCopies, TypeInv,
         Copies
<1>2. ASSUME Finish, Store(Absent), UNCHANGED <<cached, childVars>>
      PROVE  ConvergenceInv'
  <2>1. /\ pc' = "idle" /\ local' = Absent /\ ~localFresh' /\ server' = Absent
        /\ UNCHANGED <<cached, children, cachedChild, freshChild>>
    BY <1>2 DEF Finish, Return, Store, childVars
  <2>2. ChildCopies' /\ ObjectCopies' /\ NoForeignSeen'
    BY <2>1 DEF ConvergenceInv, ChildCopies, ObjectCopies, NoForeignSeen,
                Foreign, RivalUid
  <2>3. LocalKnown' /\ PassSound' /\ NoLostWakeup'
    BY <2>1 DEF LocalKnown, Unmarked, PassSound, NoLostWakeup
  <2> QED BY <2>2, <2>3 DEF ConvergenceInv
<1>3. CASE PutObject(Absent, Finish, Requeue)
  BY <1>2, <1>3, PutInv
<1>4. CASE Requeue /\ UNCHANGED <<objectVars, childVars, fails>>
  BY <1>4, RefusedInv
<1> QED BY <1>1, <1>3, <1>4 DEF RemoveFinalizer, PutWorker

LEMMA AddFinalizerInv ==
    ASSUME TypeInv, ConvergenceInv, AddFinalizer
    PROVE  ConvergenceInv'
<1>0. pc = "finalizer" /\ ~local.deleting
  BY DEF AddFinalizer, ConvergenceInv, LocalKnown
<1>1. CASE local.finalizer
  <2>1. Skip("cluster")
    BY <1>1 DEF AddFinalizer
  <2>2. LocalKnown'
    BY <1>0, <1>1, <2>1 DEF Skip, Goto, LocalKnown
  <2> QED BY <1>0, <2>1, <2>2, SkipInv DEF Steps, Before
<1>2. CASE ~local.finalizer
  <2> DEFINE new  == [server EXCEPT !.finalizer = TRUE]
             Done == Goto("cluster", new, TRUE)
  <2>1. PutWorker(new, Done, Requeue)
    BY <1>2 DEF AddFinalizer
  <2>2. localFresh => new.finalizer /\ ~new.deleting
    BY <1>0, LocalType DEF Objects, ConvergenceInv, ObjectCopies
  <2> HIDE DEF new
  <2>3. ASSUME Done, localFresh, Store(new), UNCHANGED <<cached, childVars>>
        PROVE  ConvergenceInv'
    <3>1. /\ pc' = "cluster" /\ local' = new /\ server' = new /\ localFresh'
          /\ UNCHANGED <<cached, children, cachedChild, freshChild>>
      BY <2>3 DEF Goto, Store, childVars
    <3>2. ChildCopies' /\ ObjectCopies' /\ NoForeignSeen'
      BY <2>2, <2>3, <3>1 DEF ConvergenceInv, ChildCopies, ObjectCopies,
                              NoForeignSeen, Foreign, RivalUid
    <3>3. LocalKnown' /\ PassSound' /\ NoLostWakeup'
      BY <2>2, <2>3, <3>1 DEF LocalKnown, PassSound, Before, NoLostWakeup,
                              Quiescent
    <3> QED BY <3>2, <3>3 DEF ConvergenceInv
  <2> HIDE DEF Done
  <2>4. CASE PutObject(new, Done, Requeue)
    BY <2>2, <2>3, <2>4, PutInv
  <2>5. CASE Requeue /\ UNCHANGED <<objectVars, childVars, fails>>
    BY <2>5, RefusedInv
  <2> QED BY <2>1, <2>4, <2>5 DEF PutWorker
<1> QED BY <1>1, <1>2

LEMMA ResolveClusterInv ==
    ASSUME TypeInv, ConvergenceInv, ResolveCluster
    PROVE  ConvergenceInv'
<1>1. PICK next \in {"deployment", "clusterNotFound"} : Skip(next)
  BY DEF ResolveCluster
<1>2. pc = "cluster" /\ ~local.deleting /\ local.finalizer
  BY DEF ResolveCluster, ConvergenceInv, LocalKnown, Unmarked
<1>3. LocalKnown'
  BY <1>1, <1>2 DEF Skip, Goto, LocalKnown
<1> QED BY <1>1, <1>2, <1>3, SkipInv DEF Steps, Kinds, Before

LEMMA ReportClusterNotFoundInv ==
    ASSUME TypeInv, ConvergenceInv, ReportClusterNotFound
    PROVE  ConvergenceInv'
<1> DEFINE new == [server EXCEPT !.status = MissingCluster(local)]
<1>1. pc = "clusterNotFound" /\ PutObject(new, Requeue, Requeue)
  BY DEF ReportClusterNotFound
<1>2. localFresh => (new.deleting => new.finalizer)
  BY <1>1, LocalType, AbsentAssumption DEF Objects, ConvergenceInv, ObjectCopies
<1>3. ASSUME Requeue, localFresh, Store(new), UNCHANGED <<cached, childVars>>
      PROVE  ConvergenceInv'
  <2>1. /\ server' = new
        /\ UNCHANGED <<cached, children, cachedChild, freshChild>>
    BY <1>3 DEF Store, childVars
  <2>2. /\ ChildCopies'
        /\ ~Foreign(children'["autoscaler"])
        /\ ~Foreign(cachedChild'["autoscaler"])
    BY <2>1 DEF ConvergenceInv, ChildCopies, NoForeignSeen
  <2> HIDE DEF new
  <2> QED BY <1>2, <1>3, <2>1, <2>2, RequeueInv
<1> HIDE DEF new
<1> QED BY <1>1, <1>2, <1>3, PutInv

\* Going on from one child to the next leaves what is known of the copy.
LEMMA ChildStepKnown ==
    ASSUME ConvergenceInv, pc \in Kinds, NEW next,
           next \in {"autoscaler", "status"}, Goto(next, local, localFresh)
    PROVE  LocalKnown'
BY DEF ConvergenceInv, LocalKnown, Goto, Kinds, Unmarked

\* A request about child k after which the pass goes on to step next, having
\* dealt with it, or returns with the key queued.
LEMMA RequestInv ==
    ASSUME TypeInv, ConvergenceInv, NEW k \in Kinds, pc = k,
           NEW next \in {"autoscaler", "status"},
           Touches(k),
           Requeue \/ (Goto(next, local, localFresh) /\ Dealt(k)),
           Before(next) = Before(k) \cup {k}, k \notin Before(k),
           k = "deployment" => ~Foreign(cachedChild["deployment"])
    PROVE  ConvergenceInv'
<1>1. CASE Requeue
  <2>1. /\ UNCHANGED <<server, cached>> /\ ChildCopies'
        /\ ~Foreign(children'["autoscaler"])
        /\ ~Foreign(cachedChild'["autoscaler"])
    BY DEF Touches, ConvergenceInv, NoForeignSeen
  <2>2. server' # Absent /\ server'.deleting => server'.finalizer
    BY <2>1 DEF ConvergenceInv, ObjectCopies
  <2> QED BY <1>1, <2>1, <2>2, RequeueInv
<1>2. CASE Goto(next, local, localFresh) /\ Dealt(k)
  <2>1. pc # "idle" /\ next \in Steps \ {"idle"}
    BY DEF Kinds, Steps
  <2>2. LocalKnown'
    BY <1>2, ChildStepKnown
  <2>3. \A j \in Before(next) : (j # k /\ j \in Before(pc)) \/ Dealt(j)
    BY <1>2
  <2>4. pc = "autoscaler" \/ ~Foreign(cachedChild["deployment"])
    BY DEF Kinds
  <2> QED BY <1>2, <2>1, <2>2, <2>3, <2>4, AdvanceInv
<1> QED BY <1>1, <1>2

LEMMA ReconcileWorkerDeploymentInv ==
    ASSUME TypeInv, FinalizerInv, ConvergenceInv, ReconcileWorkerDeployment
    PROVE  ConvergenceInv'
<1> DEFINE Done == Goto("autoscaler", local, localFresh)
<1>1. CASE Requeue /\ UNCHANGED <<objectVars, childVars, fails>>
  BY <1>1, RefusedInv
<1>2. CASE /\ ~Foreign(cachedChild["deployment"])
           /\ Ensure("deployment", Done, Requeue)
  <2>1. pc = "deployment" /\ pc # "idle" /\ "deployment" \in Kinds
    BY DEF ReconcileWorkerDeployment, Kinds
  <2>2. Touches("deployment") /\ (Requeue \/ (Done /\ Dealt("deployment")))
    BY <1>2, <2>1, EnsureEffect
  <2>3. /\ Before("autoscaler") = Before("deployment") \cup {"deployment"}
        /\ "deployment" \notin Before("deployment")
    BY DEF Before
  <2> QED BY <1>2, <2>1, <2>2, <2>3, RequestInv
<1> QED BY <1>1, <1>2 DEF ReconcileWorkerDeployment

LEMMA ReconcileWorkerHPAInv ==
    ASSUME TypeInv, FinalizerInv, ConvergenceInv, ReconcileWorkerHPA
    PROVE  ConvergenceInv'
<1> DEFINE Done == Goto("status", local, localFresh)
<1>0. /\ pc = "autoscaler" /\ pc # "idle" /\ "autoscaler" \in Kinds
      /\ Before("status") = Before("autoscaler") \cup {"autoscaler"}
      /\ "autoscaler" \notin Before("autoscaler")
  BY DEF ReconcileWorkerHPA, Kinds, Before
<1>1. CASE Requeue /\ UNCHANGED <<objectVars, childVars, fails>>
  BY <1>1, RefusedInv
<1>2. CASE local.spec.scaled /\ Ensure("autoscaler", Done, Requeue)
  <2>1. Touches("autoscaler") /\ (Requeue \/ (Done /\ Dealt("autoscaler")))
    BY <1>0, <1>2, EnsureEffect
  <2> QED BY <1>0, <2>1, RequestInv
<1>3. CASE DeleteChild("autoscaler", Done, Requeue)
  <2>1. Touches("autoscaler") /\ (Requeue \/ (Done /\ Dealt("autoscaler")))
    BY <1>3, DeleteEffect
  <2> QED BY <1>0, <2>1, RequestInv
<1>4. CASE /\ ~local.spec.scaled /\ cachedChild["autoscaler"] = Absent
           /\ Skip("status")
  <2>1. Done /\ UNCHANGED <<children, cachedChild, freshChild>>
    BY <1>4 DEF Skip, childVars
  <2>2. LocalKnown'
    BY <1>0, <2>1, ChildStepKnown
  <2>3. Dealt("autoscaler")
    BY <1>0, <1>4, <2>1 DEF Dealt, LeftRight, ConvergenceInv, ChildCopies
  <2>4. \A j \in Before("status") : j \in Before(pc) \/ Dealt(j)
    BY <1>0, <2>3
  <2> QED BY <1>0, <1>4, <2>2, <2>4, SkipInv DEF Steps
<1> QED BY <1>1, <1>2, <1>3, <1>4 DEF ReconcileWorkerHPA

\* The last step of a pass: the status it computes tells the truth.
LEMMA ReportCurrent ==
    ASSUME NEW o \in Objects, NEW dep \in Children
    PROVE  LET s == Report(o, dep)
               r == dep.rollout
           IN  /\ s.rollout = r
               /\ \A t \in CondTypes : s.conditions[t].gen = o.gen
               /\ s.phase # "Error"
               /\ s.phase = "Running" <=> r.ready = r.replicas /\ r.ready > 0
               /\ s.conditions["Ready"].status = "True"
                    <=> r.ready = r.replicas /\ r.ready > 0
               /\ s.conditions["Available"].status = "True" <=> r.ready > 0
               /\ s.conditions["Degraded"].status = "True"
                    <=> r.ready > 0 /\ r.ready # r.replicas
<1> DEFINE r       == dep.rollout
           phase   == PhaseOf(r)
           verdict == VerdictOf(phase)
           conds   == SetConditions(o.status.conditions, o.gen, verdict)
<1>1. r.ready \in Nat /\ r.replicas \in Nat
  BY DEF Children, Rollouts
<1>2. Report(o, dep) = [phase |-> phase, conditions |-> conds, rollout |-> r]
  BY AbsentAssumption DEF Report
<1>3. /\ phase = "Running" <=> r.ready = r.replicas /\ r.ready > 0
      /\ phase = "Pending" <=> ~(r.ready > 0)
      /\ phase = "Scaling" <=> r.ready > 0 /\ r.ready # r.replicas
      /\ phase # "Error"
  BY <1>1 DEF PhaseOf
<1>4. /\ DOMAIN verdict = CondTypes
      /\ verdict["Ready"] = "True" <=> phase = "Running"
      /\ verdict["Available"] = "True" <=> phase # "Pending"
      /\ verdict["Degraded"] = "True" <=> phase = "Scaling"
  BY DEF VerdictOf, CondTypes
<1> HIDE DEF verdict, phase, r
<1>5. ASSUME NEW t \in CondTypes
      PROVE  conds[t].status = verdict[t] /\ conds[t].gen = o.gen
  BY <1>4, <1>5 DEF SetConditions
<1>6. {"Ready", "Available", "Degraded"} \subseteq CondTypes
  BY DEF CondTypes
<1>7. /\ conds["Ready"].status = verdict["Ready"]
      /\ conds["Available"].status = verdict["Available"]
      /\ conds["Degraded"].status = verdict["Degraded"]
  <2> HIDE DEF conds
  <2> QED BY <1>5, <1>6
<1> HIDE DEF conds
<1> DEFINE s == Report(o, dep)
<1>8. s.rollout = r /\ s.phase = phase /\ s.conditions = conds
  BY <1>2
<1> HIDE DEF s
<1>9. \A t \in CondTypes : s.conditions[t].gen = o.gen
  BY <1>5, <1>8
<1>10. /\ s.conditions["Ready"].status = "True"
            <=> r.ready = r.replicas /\ r.ready > 0
       /\ s.conditions["Available"].status = "True" <=> r.ready > 0
       /\ s.conditions["Degraded"].status = "True"
            <=> r.ready > 0 /\ r.ready # r.replicas
  BY <1>3, <1>4, <1>7, <1>8
<1> QED BY <1>3, <1>8, <1>9, <1>10 DEF r, s

LEMMA FinishConverges ==
    ASSUME TypeInv, ConvergenceInv, pc = "status", localFresh, Finish,
           ~Polled(local),
           Store([server EXCEPT !.status =
                    Report(local, cachedChild["deployment"])]),
           UNCHANGED <<cached, childVars>>
    PROVE  ConvergenceInv'
<1> DEFINE dep == cachedChild["deployment"]
           new == [server EXCEPT !.status = Report(local, dep)]
<1>1. /\ server \in Objects /\ local \in Objects /\ server # Absent
      /\ local # Absent
  BY LocalType DEF TypeInv, Copies
<1>2. /\ server' = new /\ cacheFresh' = (cacheFresh /\ new = server)
      /\ pc' = "idle" /\ local' = Absent /\ ~localFresh' /\ queued' = queued
      /\ UNCHANGED <<cached, children, cachedChild, freshChild>>
  BY DEF Store, Finish, Return, childVars
<1>3. /\ new.uid = server.uid /\ new.gen = server.gen /\ new.spec = server.spec
      /\ new.finalizer = server.finalizer /\ new.deleting = server.deleting
      /\ new.status = Report(local, dep)
  BY <1>1 DEF Objects
<1> HIDE DEF new
<1>4. /\ local.uid = server.uid /\ local.gen = server.gen
      /\ local.spec = server.spec
      /\ ~server.deleting /\ server.finalizer
  BY DEF ConvergenceInv, ObjectCopies, LocalKnown, Unmarked
<1>5. ChildCopies' /\ ObjectCopies'
  BY <1>2, <1>3, <1>4 DEF ConvergenceInv, ChildCopies, ObjectCopies
<1>6. NoForeignSeen'
  BY <1>1, <1>2 DEF ConvergenceInv, NoForeignSeen, Foreign, RivalUid
<1>7. LocalKnown' /\ PassSound'
  BY <1>2 DEF LocalKnown, Unmarked, PassSound
<1>8. ASSUME Quiescent'
      PROVE  ~Polled(server)' /\ Converged'
  <2>1. Settled /\ server' = server
    BY <1>2, <1>8 DEF Quiescent, Settled
  <2>2. \A k \in Kinds : AsWanted(k)
    BY <2>1 DEF ConvergenceInv, PassSound, Before
  <2>3. /\ ChildInPlace("deployment")
        /\ IF server.spec.scaled THEN ChildInPlace("autoscaler")
           ELSE children["autoscaler"] = Absent
    BY <2>2 DEF AsWanted, Kinds
  <2>4. dep = children["deployment"] /\ dep # Absent /\ dep \in Children
    BY <2>1, <2>3 DEF Settled, ConvergenceInv, ChildCopies, Kinds,
                      ChildInPlace, TypeInv, TypeOK
  <2>5. server.status = Report(local, dep)
    BY <1>2, <1>3, <2>1
  <2>6. StatusCurrent
    BY <1>1, <1>4, <2>4, <2>5, ReportCurrent DEF StatusCurrent
  <2>7. ~Polled(server)
    BY <1>4 DEF Polled
  <2>8. Converged
    BY <1>4, <2>3, <2>6 DEF Converged
  <2>9. UNCHANGED <<server, children>>
    BY <1>2, <2>1
  <2> QED BY <2>7, <2>8, <2>9 DEF Polled, Converged, ChildInPlace,
                                  StatusCurrent
<1> QED BY <1>5, <1>6, <1>7, <1>8 DEF ConvergenceInv, NoLostWakeup

LEMMA UpdateWorkerStatusInv ==
    ASSUME TypeInv, ConvergenceInv, UpdateWorkerStatus
    PROVE  ConvergenceInv'
<1> DEFINE new  == [server EXCEPT !.status =
                      Report(local, cachedChild["deployment"])]
           Done == IF Polled(local) THEN Requeue ELSE Finish
<1>1. pc = "status" /\ PutObject(new, Done, Requeue)
  BY DEF UpdateWorkerStatus
<1>2. localFresh => (new.deleting => new.finalizer)
  BY <1>1, LocalType, AbsentAssumption DEF Objects, ConvergenceInv, ObjectCopies
<1>3. ASSUME Requeue, localFresh, Store(new), UNCHANGED <<cached, childVars>>
      PROVE  ConvergenceInv'
  <2>1. /\ server' = new
        /\ UNCHANGED <<cached, children, cachedChild, freshChild>>
    BY <1>3 DEF Store, childVars
  <2>2. /\ ChildCopies'
        /\ ~Foreign(children'["autoscaler"])
        /\ ~Foreign(cachedChild'["autoscaler"])
    BY <2>1 DEF ConvergenceInv, ChildCopies, NoForeignSeen
  <2> HIDE DEF new
  <2> QED BY <1>2, <1>3, <2>1, <2>2, RequeueInv
<1>4. ASSUME Done, localFresh, Store(new), UNCHANGED <<cached, childVars>>
      PROVE  ConvergenceInv'
  BY <1>1, <1>3, <1>4, FinishConverges
<1> HIDE DEF new, Done
<1> QED BY <1>1, <1>2, <1>4, PutInv

LEMMA ReconcileStepInv ==
    ASSUME TypeInv, FinalizerInv, ConvergenceInv, ReconcileStep
    PROVE  ConvergenceInv'
BY StartReconcileInv, RemoveFinalizerInv, AddFinalizerInv, ResolveClusterInv,
   ReportClusterNotFoundInv, ReconcileWorkerDeploymentInv,
   ReconcileWorkerHPAInv, UpdateWorkerStatusInv
   DEF ReconcileStep

(***************************************************************************)
(* The environment.                                                        *)
(***************************************************************************)

\* What happens to neither the worker, its children nor the running call.
LEMMA StillInv ==
    ASSUME ConvergenceInv, UNCHANGED <<objectVars, childVars, runVars>>
    PROVE  ConvergenceInv'
<1>1. UNCHANGED <<server, cached, cacheFresh, children, cachedChild, freshChild,
                  pc, local, localFresh, queued>>
  BY DEF objectVars, childVars, runVars
<1>2. ChildCopies' /\ ObjectCopies' /\ LocalKnown' /\ NoForeignSeen'
  BY <1>1 DEF ConvergenceInv, ChildCopies, ObjectCopies, LocalKnown,
              NoForeignSeen, Foreign, RivalUid
<1>3. PassSound'
  BY <1>1 DEF ConvergenceInv, PassSound, Settled, AsWanted, ChildInPlace
<1>4. NoLostWakeup'
  BY <1>1 DEF ConvergenceInv, NoLostWakeup, Quiescent, Converged, Polled,
              ChildInPlace, StatusCurrent
<1> QED BY <1>2, <1>3, <1>4 DEF ConvergenceInv

\* Another client's write of the object leaves a delivery outstanding.
LEMMA WriteObjectInv ==
    ASSUME TypeInv, ConvergenceInv, NEW STATE new, WriteObject(new),
           new # Absent /\ new.deleting => new.finalizer
    PROVE  ConvergenceInv'
<1>1. /\ server' = new /\ ~cacheFresh' /\ ~localFresh'
      /\ UNCHANGED <<cached, children, cachedChild, freshChild, pc, local,
                     queued>>
  BY DEF WriteObject, childVars
<1>2. ChildCopies' /\ ObjectCopies'
  BY <1>1 DEF ConvergenceInv, ChildCopies, ObjectCopies
<1>3. LocalKnown'
  BY <1>1 DEF ConvergenceInv, LocalKnown
<1>4. PassSound' /\ NoForeignSeen' /\ NoLostWakeup'
  BY <1>1 DEF ConvergenceInv, PassSound, Settled, NoForeignSeen, Foreign,
              RivalUid, NoLostWakeup, Quiescent
<1> QED BY <1>2, <1>3, <1>4 DEF ConvergenceInv

LEMMA UserInv ==
    ASSUME TypeInv, ConvergenceInv, User
    PROVE  ConvergenceInv'
<1>1. ASSUME NEW s \in Specs, CreateWorker(s)
      PROVE  ConvergenceInv'
  <2> DEFINE new == [uid |-> uids + 1, gen |-> 1, spec |-> s,
                     finalizer |-> FALSE, deleting |-> FALSE,
                     status |-> NoStatus]
  <2>1. WriteObject(new) /\ ~new.deleting
    BY <1>1 DEF CreateWorker
  <2> HIDE DEF new
  <2> QED BY <2>1, WriteObjectInv
<1>2. ASSUME NEW s \in Specs, EditSpec(s)
      PROVE  ConvergenceInv'
  <2> DEFINE new == [server EXCEPT !.spec = s, !.gen = @ + 1]
  <2>1. server \in Objects /\ server # Absent /\ WriteObject(new)
    BY <1>2 DEF EditSpec, TypeInv, TypeOK
  <2>2. new.deleting => new.finalizer
    BY <2>1 DEF Objects, ConvergenceInv, ObjectCopies
  <2> HIDE DEF new
  <2> QED BY <2>1, <2>2, WriteObjectInv
<1>3. CASE DeleteWorker
  <2> DEFINE new == IF server.finalizer
                    THEN [server EXCEPT !.deleting = TRUE, !.gen = @ + 1]
                    ELSE Absent
  <2>1. server \in Objects /\ server # Absent /\ WriteObject(new)
    BY <1>3 DEF DeleteWorker, TypeInv, TypeOK
  <2>2. new # Absent => new.finalizer
    BY <2>1 DEF Objects
  <2> HIDE DEF new
  <2> QED BY <2>1, <2>2, WriteObjectInv
<1> QED BY <1>1, <1>2, <1>3 DEF User

\* Another client's write of a child leaves a delivery outstanding.
LEMMA ForeignWritesInv ==
    ASSUME TypeInv, ConvergenceInv, ForeignWrites
    PROVE  ConvergenceInv'
<1>1. PICK k \in Kinds : \E new : WriteChild(k, new) /\ Rewrites(k, new)
  BY ForeignWriteCases
<1>2. PICK new : WriteChild(k, new) /\ Rewrites(k, new)
  BY <1>1
<1>3. /\ UNCHANGED <<server, cached, cacheFresh, cachedChild, pc, local,
                     localFresh, queued>>
      /\ children' = [children EXCEPT ![k] = new]
      /\ freshChild' = freshChild \ {k}
  BY <1>2 DEF WriteChild, objectVars, runVars
<1>4. ~Settled' /\ ~Quiescent'
  BY <1>3 DEF Settled, Quiescent
<1>5. ChildCopies'
  BY <1>3, ChildrenWritten DEF ConvergenceInv
<1>6. ObjectCopies' /\ LocalKnown'
  BY <1>3 DEF ConvergenceInv, ObjectCopies, LocalKnown
<1>7. PassSound'
  BY <1>3, <1>4 DEF ConvergenceInv, PassSound
<1>8. ~Foreign(children'["autoscaler"])
  <2>1. \/ children'["autoscaler"] = children["autoscaler"]
        \/ k = "autoscaler" /\ children'["autoscaler"] = new
    BY <1>3 DEF TypeInv, TypeOK, Kinds
  <2>2. k = "autoscaler" =>
          new = Absent \/ (children[k] # Absent /\ new.owner = children[k].owner)
    BY <1>2, AbsentAssumption DEF Rewrites
  <2> QED BY <2>1, <2>2 DEF ConvergenceInv, NoForeignSeen, Foreign
<1>9. NoForeignSeen'
  BY <1>3, <1>8 DEF ConvergenceInv, NoForeignSeen, Foreign, RivalUid
<1>10. NoLostWakeup'
  BY <1>4 DEF NoLostWakeup
<1> QED BY <1>5, <1>6, <1>7, <1>9, <1>10 DEF ConvergenceInv

\* What a delivery leaves of the parts that do not speak of rest.
LEMMA DeliveryInv ==
    ASSUME TypeInv, ConvergenceInv,
           UNCHANGED <<server, children, pc, local, localFresh>>,
           cached' \in {cached, server},
           ChildCopies', ~Foreign(cachedChild'["autoscaler"]),
           queued'
    PROVE  ConvergenceInv'
<1>1. ObjectCopies' /\ LocalKnown'
  BY DEF ConvergenceInv, ObjectCopies, LocalKnown
<1>2. PassSound' /\ NoForeignSeen' /\ NoLostWakeup'
  BY DEF ConvergenceInv, PassSound, Settled, NoForeignSeen, Foreign, RivalUid,
         NoLostWakeup, Quiescent
<1> QED BY <1>1, <1>2 DEF ConvergenceInv

\* The watches either queue the key, or tell of somebody else's Deployment to a
\* pass that has not come to it.
LEMMA InformersInv ==
    ASSUME TypeInv, ConvergenceInv, Informers
    PROVE  ConvergenceInv'
<1>1. CASE SyncObject
  <2>1. /\ UNCHANGED <<server, children, cachedChild, freshChild, pc, local,
                       localFresh>>
        /\ cached' = server /\ queued'
    BY <1>1 DEF SyncObject, childVars
  <2> QED BY <2>1, DeliveryInv DEF ConvergenceInv, ChildCopies, NoForeignSeen
<1>2. ASSUME NEW k \in Kinds, SyncKind(k)
      PROVE  ConvergenceInv'
  <2>1. /\ UNCHANGED <<server, cached, cacheFresh, children, pc, local,
                       localFresh>>
        /\ cachedChild' = [cachedChild EXCEPT ![k] = children[k]]
        /\ freshChild' = freshChild \cup {k}
        /\ \/ queued'
           \/ Unrelated(k) /\ UNCHANGED queued
    BY <1>2 DEF SyncKind, SyncForeign, SyncChild, objectVars, runVars
  <2>2. ChildCopies'
    BY <2>1 DEF ConvergenceInv, ChildCopies, TypeInv, TypeOK
  <2>3. ~Foreign(cachedChild'["autoscaler"])
    BY <2>1 DEF ConvergenceInv, NoForeignSeen, TypeInv, TypeOK, Kinds
  <2>4. CASE queued'
    BY <2>1, <2>2, <2>3, <2>4, DeliveryInv
  <2>5. CASE Unrelated(k) /\ UNCHANGED queued
    <3>1. Foreign(cachedChild["deployment"])
      BY <2>5 DEF Unrelated, ConvergenceInv, NoForeignSeen, Kinds
    <3>2. \/ queued \/ ~cacheFresh \/ server = Absent
          \/ pc \notin {"idle", "autoscaler", "status"}
      BY <3>1 DEF ConvergenceInv, NoForeignSeen
    <3>3. ObjectCopies' /\ LocalKnown'
      BY <2>1 DEF ConvergenceInv, ObjectCopies, LocalKnown
    <3>4. PassSound'
      <4>1. pc # "idle" /\ ~queued /\ cacheFresh => localFresh /\ server # Absent
        BY DEF ConvergenceInv, PassSound, TypeInv, Copies
      <4>2. Settled' /\ pc # "idle" => Before(pc) = {}
        BY <2>1, <2>5, <3>2, <4>1 DEF Settled, Before
      <4> QED BY <2>1, <2>5, <4>1, <4>2 DEF PassSound
    <3>5. NoForeignSeen'
      BY <2>1, <2>3, <2>5, <3>2 DEF ConvergenceInv, NoForeignSeen, Foreign,
                                    RivalUid
    <3>6. NoLostWakeup'
      BY <2>1, <2>5, <3>2 DEF NoLostWakeup, Quiescent
    <3> QED BY <2>2, <3>3, <3>4, <3>5, <3>6 DEF ConvergenceInv
  <2> QED BY <2>1, <2>4, <2>5
<1>3. ASSUME NEW c \in Clusters, SyncCluster(c)
      PROVE  ConvergenceInv'
  BY <1>3, StillInv DEF SyncCluster
<1> QED BY <1>1, <1>2, <1>3 DEF Informers

LEMMA CrashInv ==
    ASSUME TypeInv, ConvergenceInv, Crash
    PROVE  ConvergenceInv'
<1>1. /\ Requeue /\ UNCHANGED <<server, children>>
      /\ cached' = server
      /\ cachedChild' = [k \in Kinds |-> children[k]] /\ freshChild' = Kinds
  BY DEF Crash, Restart, Watched, TypeInv, TypeOK
<1>2. ChildCopies'
  BY <1>1 DEF ChildCopies
<1>3. /\ ~Foreign(children'["autoscaler"])
      /\ ~Foreign(cachedChild'["autoscaler"])
  BY <1>1 DEF ConvergenceInv, NoForeignSeen, Kinds
<1>4. server' # Absent /\ server'.deleting => server'.finalizer
  BY <1>1 DEF ConvergenceInv, ObjectCopies
<1> QED BY <1>1, <1>2, <1>3, <1>4, RequeueInv

\* At every reachable state the controller has either converged or still has
\* something to do or to hear of, and a running call is right about what it did.
THEOREM ConvergenceInductive == Spec => []ConvergenceInv
<1>1. Init => ConvergenceInv
  <2> SUFFICES ASSUME Init PROVE ConvergenceInv
    OBVIOUS
  <2>1. /\ \A k \in Kinds : children[k] = Absent /\ cachedChild[k] = Absent
        /\ server = Absent /\ cached = Absent /\ local = Absent
        /\ pc = "idle" /\ ~localFresh /\ freshChild = Kinds
    BY DEF Init
  <2>2. ChildCopies /\ ObjectCopies /\ LocalKnown
    BY <2>1 DEF ChildCopies, ObjectCopies, LocalKnown, Unmarked
  <2>3. PassSound /\ NoForeignSeen /\ NoLostWakeup
    BY <2>1 DEF PassSound, NoForeignSeen, Foreign, NoLostWakeup, Kinds
  <2> QED BY <2>2, <2>3 DEF ConvergenceInv
<1>2. TypeInv /\ FinalizerInv /\ ConvergenceInv /\ [Next]_vars
      => ConvergenceInv'
  <2>1. ConvergenceInv /\ UNCHANGED vars => ConvergenceInv'
    BY StillInv DEF vars
  <2>2. ConvergenceInv /\ (ToggleWebhook \/ \E c \in Clusters : ChangeCluster(c))
        => ConvergenceInv'
    BY StillInv DEF ToggleWebhook, ChangeCluster
  <2> QED BY <2>1, <2>2, ReconcileStepInv, UserInv, ForeignWritesInv,
             InformersInv, CrashInv DEF Next, ForeignWrites
<1> QED BY <1>1, <1>2, TypeCorrect, FinalizerInductive, PTL DEF Spec

\* A worker's controller at rest has converged, and rests only for a worker that
\* it does not poll.  Nothing bounds the edits, foreign writes, conflicts, failed
\* requests, lost answers, re-creations and crashes on the way.
THEOREM NoLostWakeupCorrect == Spec => []NoLostWakeup
<1>1. ConvergenceInv => NoLostWakeup
  BY DEF ConvergenceInv
<1> QED BY <1>1, ConvergenceInductive, PTL

================================================================================
