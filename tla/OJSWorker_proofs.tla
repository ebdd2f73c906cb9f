--------------------------- MODULE OJSWorker_proofs ----------------------------
(***************************************************************************)
(* Proofs about OJSWorker for every value of its constants.                *)
(***************************************************************************)
EXTENDS OJSWorker, TLAPS

\* What only users, administrators and the OJSClusters change.
outside == <<clusterVars, admission, bounds>>

OutsideType ==
    /\ clusters \subseteq Clusters /\ known \subseteq Clusters
    /\ webhook \in BOOLEAN
    /\ uids \in Nat /\ churn \in Nat /\ crashes \in Nat
    /\ drifts \in Nat /\ flaps \in Nat /\ toggles \in Nat

\* The running call has a copy of the object, only an existing object can have
\* a current copy, and the informer's current copy is the stored object.
Copies ==
    /\ pc = "idle" <=> local = Absent
    /\ localFresh => pc # "idle" /\ server # Absent
    /\ cacheFresh => cached = server

TypeInv == TypeOK /\ Copies

LEMMA PutObjectType ==
    ASSUME NEW STATE new, NEW ACTION Done, NEW ACTION Failed,
           TypeOK, localFresh => new \in Objects \cup {Absent},
           PutObject(new, Done, Failed)
    PROVE  /\ server' \in Objects \cup {Absent}
           /\ cached' \in Objects \cup {Absent}
           /\ cacheFresh' \in BOOLEAN
           /\ cacheFresh' => cacheFresh /\ server' = server
           /\ fails' \in Nat
           /\ UNCHANGED <<cached, childVars>>
           /\ Failed \/ (Done /\ localFresh /\ server' = new)
<1>1. UNCHANGED <<cached, childVars>>
  BY DEF PutObject
<1>2. fails' \in Nat
  BY DEF PutObject, TypeOK
<1>3. Failed \/ (Done /\ localFresh /\ server' = new)
  BY DEF PutObject, Store
<1>4. server' \in Objects \cup {Absent}
  BY DEF PutObject, Store, TypeOK
<1>5. cacheFresh' \in BOOLEAN
  BY DEF PutObject, Store, TypeOK
<1>6. cacheFresh' => cacheFresh /\ server' = server
  BY DEF PutObject, Store
<1> QED BY <1>1, <1>2, <1>3, <1>4, <1>5, <1>6 DEF TypeOK

\* What a CreateOrUpdate leaves of the types.
LEMMA CreateOrUpdateType ==
    ASSUME NEW k \in Kinds, NEW STATE owner, NEW STATE content,
           NEW STATE always, NEW ACTION Done, NEW ACTION Failed,
           TypeOK, owner \in Nat, content \in Contents,
           CreateOrUpdate(k, owner, content, always, Done, Failed)
    PROVE  /\ children' \in [Kinds -> Children \cup {Absent}]
           /\ cachedChild' \in [Kinds -> Children \cup {Absent}]
           /\ freshChild' \subseteq Kinds
           /\ fails' \in Nat
           /\ UNCHANGED <<objectVars, cachedChild>>
           /\ Done \/ Failed
<1> DEFINE new == [owner   |-> owner, content |-> content,
                   rollout |-> IF children[k] = Absent THEN NoRollout
                               ELSE children[k].rollout]
<1>1. new \in Children
  <2>1. NoRollout \in Rollouts
    BY DEF NoRollout, Rollouts
  <2>2. children[k] # Absent => children[k].rollout \in Rollouts
    BY DEF TypeOK, Children
  <2> QED BY <2>1, <2>2 DEF Children
<1> HIDE DEF new
<1>2. /\ UNCHANGED <<objectVars, cachedChild>>
      /\ \/ UNCHANGED <<children, freshChild>>
         \/ /\ children' = [children EXCEPT ![k] = new]
            /\ freshChild' \subseteq freshChild
      /\ fails' = fails \/ fails' = fails + 1
      /\ Done \/ Failed
  BY DEF CreateOrUpdate, new
<1>3. [children EXCEPT ![k] = new] \in [Kinds -> Children \cup {Absent}]
  BY <1>1 DEF TypeOK
<1> QED BY <1>2, <1>3 DEF TypeOK

LEMMA SetConditionsType ==
    ASSUME NEW conditions \in Conditions, NEW gen \in Nat, NEW verdict,
           \A c \in DOMAIN verdict : verdict[c] \in {"True", "False"}
    PROVE  SetConditions(conditions, gen, verdict) \in Conditions
BY DEF SetConditions, Conditions

LEMMA StatusType ==
    ASSUME NEW o \in Objects
    PROVE  /\ o.status \in Statuses
           /\ o.status.conditions \in Conditions
           /\ o.gen \in Nat /\ o.uid \in Nat /\ o.spec \in Specs
           /\ \A status \in Statuses :
                [o EXCEPT !.status = status] \in Objects
BY DEF Objects, Statuses

LEMMA ReportType ==
    ASSUME NEW o \in Objects, NEW dep \in Children \cup {Absent}
    PROVE  Report(o, dep) \in Statuses
<1> DEFINE rollout == IF dep = Absent THEN o.status.rollout ELSE dep.rollout
           phase   == IF dep = Absent THEN "Pending" ELSE PhaseOf(rollout)
<1>1. rollout \in Rollouts
  BY DEF Objects, Statuses, Children
<1>2. phase \in Phases
  BY DEF PhaseOf, Phases
<1>3. \A c \in DOMAIN VerdictOf(phase) :
        VerdictOf(phase)[c] \in {"True", "False"}
  BY DEF VerdictOf
<1>4. SetConditions(o.status.conditions, o.gen, VerdictOf(phase))
        \in Conditions
  BY <1>3, StatusType, SetConditionsType
<1> QED BY <1>1, <1>2, <1>4 DEF Report, Statuses

LEMMA MissingClusterType ==
    ASSUME NEW o \in Objects
    PROVE  MissingCluster(o) \in Statuses
<1> DEFINE set == SetConditions(o.status.conditions, o.gen,
                                [Ready |-> "False", Degraded |-> "True"])
<1>1. set \in Conditions
  BY StatusType, SetConditionsType
<1>2. MissingCluster(o) =
        [o.status EXCEPT !.phase = "Error", !.conditions = set]
  BY DEF MissingCluster
<1> HIDE DEF set
<1> QED BY <1>1, <1>2 DEF Objects, Statuses, Phases

LEMMA DesiredType ==
    ASSUME NEW k \in Kinds, NEW s \in Specs
    PROVE  Desired(k, s) \in Contents
<1>1. s \in AllSpecs
  BY SpecsAssumption
<1> QED BY <1>1 DEF Desired, Contents, AllSpecs

(***************************************************************************)
(* Type correctness.                                                       *)
(***************************************************************************)

\* How a step leaves the running call: it goes on with a copy of the object,
\* which is current only if it was or was just stored, or it returns.
GoesOn == /\ pc' \in Steps \ {"idle"} /\ local' \in Objects
          /\ localFresh' \in BOOLEAN /\ (localFresh' => server' # Absent)
          /\ queued' = queued
Returns == Return /\ queued' \in BOOLEAN

LEMMA CallType ==
    ASSUME TypeInv, GoesOn \/ Returns,
           server' \in Objects \cup {Absent}, cached' \in Objects \cup {Absent},
           cacheFresh' \in BOOLEAN, cacheFresh' => cached' = server',
           fails' \in Nat,
           children' \in [Kinds -> Children \cup {Absent}],
           cachedChild' \in [Kinds -> Children \cup {Absent}],
           freshChild' \subseteq Kinds,
           UNCHANGED outside
    PROVE  TypeInv'
<1>1. TypeOK'
  BY DEF TypeInv, TypeOK, GoesOn, Returns, Return, outside, clusterVars,
         admission, bounds, Steps
<1>2. Copies'
  BY AbsentAssumption DEF GoesOn, Returns, Return, Copies
<1> QED BY <1>1, <1>2 DEF TypeInv

LEMMA LocalType ==
    ASSUME TypeInv, pc # "idle"
    PROVE  /\ local \in Objects
           /\ localFresh => server \in Objects
BY DEF TypeInv, TypeOK, Copies

\* The exits of a step, in terms of the lemma above.
LEMMA ReturnType == TypeInv /\ (Finish \/ Requeue) => Returns
BY DEF Finish, Requeue, Returns, TypeInv, TypeOK

LEMMA GotoType ==
    ASSUME TypeInv, pc # "idle", UNCHANGED server,
           NEW next \in Steps \ {"idle"}, Goto(next, local, localFresh)
    PROVE  GoesOn
<1>1. local' \in Objects /\ pc' \in Steps \ {"idle"} /\ queued' = queued
  BY LocalType DEF Goto
<1>2. localFresh' = localFresh /\ localFresh \in BOOLEAN
  BY DEF Goto, TypeInv, TypeOK
<1>3. localFresh => server' # Absent
  BY DEF TypeInv, Copies
<1> QED BY <1>1, <1>2, <1>3 DEF GoesOn

LEMMA SkipType ==
    ASSUME TypeInv, pc # "idle", NEW next \in Steps \ {"idle"},
           Skip(next), UNCHANGED outside
    PROVE  TypeInv'
<1>1. GoesOn
  BY GotoType DEF Skip, objectVars
<1> QED BY <1>1, CallType DEF Skip, objectVars, childVars, TypeInv, TypeOK,
                            Copies

LEMMA PutType ==
    ASSUME TypeInv, NEW STATE new, NEW ACTION Done, NEW ACTION Failed,
           PutObject(new, Done, Failed), UNCHANGED outside,
           localFresh => new \in Objects \cup {Absent},
           Failed => Returns,
           Done /\ server' = new /\ localFresh => GoesOn \/ Returns
    PROVE  TypeInv'
<1>1. /\ server' \in Objects \cup {Absent} /\ cached' \in Objects \cup {Absent}
      /\ cacheFresh' \in BOOLEAN /\ fails' \in Nat
      /\ cacheFresh' => cached' = server'
      /\ UNCHANGED childVars
      /\ GoesOn \/ Returns
  BY PutObjectType DEF TypeInv, Copies
<1> QED BY <1>1, CallType DEF childVars, TypeInv, TypeOK

\* A write whose answer becomes the copy the call works on.
LEMMA PutAndGoOnType ==
    ASSUME TypeInv, NEW STATE new, localFresh => new \in Objects,
           NEW next \in Steps \ {"idle"},
           PutObject(new, Goto(next, new, TRUE), Requeue), UNCHANGED outside
    PROVE  TypeInv'
<1>1. \/ Requeue
      \/ Goto(next, new, TRUE) /\ localFresh /\ server' = new
  BY DEF PutObject, Store
<1>2. Goto(next, new, TRUE) /\ localFresh /\ server' = new => GoesOn
  BY AbsentAssumption DEF Goto, GoesOn
<1>3. GoesOn \/ Returns
  BY <1>1, <1>2, ReturnType
<1>4. /\ server' \in Objects \cup {Absent} /\ cached' \in Objects \cup {Absent}
      /\ cacheFresh' \in BOOLEAN /\ fails' \in Nat
      /\ cacheFresh' => cached' = server'
      /\ UNCHANGED childVars
  BY PutObjectType DEF TypeInv, Copies
<1> QED BY <1>3, <1>4, CallType DEF childVars, TypeInv, TypeOK

LEMMA StatusPutType ==
    ASSUME TypeInv, pc # "idle", NEW STATE status, status \in Statuses
    PROVE  localFresh => [server EXCEPT !.status = status] \in Objects
BY LocalType, StatusType

LEMMA EnsureType ==
    ASSUME TypeInv, pc # "idle", NEW k \in Kinds,
           NEW ACTION Done, NEW ACTION Failed,
           Ensure(k, Done, Failed), UNCHANGED outside,
           UNCHANGED server /\ (Done \/ Failed) => GoesOn \/ Returns
    PROVE  TypeInv'
<1>1. local.uid \in Nat /\ Desired(k, local.spec) \in Contents
  BY LocalType, StatusType, DesiredType
<1>2. /\ children' \in [Kinds -> Children \cup {Absent}]
      /\ cachedChild' \in [Kinds -> Children \cup {Absent}]
      /\ freshChild' \subseteq Kinds /\ fails' \in Nat
      /\ UNCHANGED <<server, cached, cacheFresh>>
      /\ GoesOn \/ Returns
  BY <1>1, CreateOrUpdateType DEF Ensure, TypeInv, objectVars
<1> QED BY <1>2, CallType DEF TypeInv, TypeOK, Copies

\* A step after which the call returns, having sent nothing.
LEMMA RefusedType ==
    ASSUME TypeInv, Finish \/ Requeue,
           UNCHANGED <<objectVars, childVars, fails>>, UNCHANGED outside
    PROVE  TypeInv'
<1>1. Returns
  BY ReturnType
<1> QED BY <1>1, CallType DEF objectVars, childVars, TypeInv, TypeOK, Copies

LEMMA DeleteChildType ==
    ASSUME TypeInv, pc # "idle", NEW k \in Kinds,
           NEW ACTION Done, NEW ACTION Failed,
           DeleteChild(k, Done, Failed), UNCHANGED outside,
           UNCHANGED server /\ (Done \/ Failed) => GoesOn \/ Returns
    PROVE  TypeInv'
<1>1. /\ UNCHANGED <<objectVars, cachedChild>> /\ (Done \/ Failed)
      /\ children' \in {children, [children EXCEPT ![k] = Absent]}
      /\ freshChild' \subseteq freshChild
      /\ fails' \in {fails, fails + 1}
  BY DEF DeleteChild
<1>2. /\ children' \in [Kinds -> Children \cup {Absent}]
      /\ freshChild' \subseteq Kinds /\ fails' \in Nat
  BY <1>1 DEF TypeInv, TypeOK
<1> QED BY <1>1, <1>2, CallType DEF objectVars, TypeInv, TypeOK, Copies

LEMMA ReconcileStepType ==
    ASSUME TypeInv, ReconcileStep
    PROVE  TypeInv'
<1>0. UNCHANGED outside
  BY DEF ReconcileStep, outside
<1>1. CASE StartReconcile
  <2>1. CASE cached = Absent
    BY <1>0, <1>1, <2>1
       DEF StartReconcile, TypeInv, TypeOK, Copies, objectVars, childVars,
           outside, clusterVars, admission, bounds
  <2>2. CASE cached # Absent
    <3>1. /\ cached \in Objects
          /\ pc' = IF cached.deleting THEN "delete" ELSE "finalizer"
          /\ local' = cached /\ localFresh' = cacheFresh /\ queued' = FALSE
          /\ UNCHANGED <<server, cached, cacheFresh, children, cachedChild,
                         freshChild, fails>>
      BY <1>1, <2>2 DEF StartReconcile, TypeInv, TypeOK, objectVars, childVars
    <3>2. TypeOK'
      BY <1>0, <3>1 DEF TypeInv, TypeOK, outside, clusterVars, admission,
                        bounds, Steps
    <3>3. pc' # "idle" /\ local' # Absent
      BY <3>1, AbsentAssumption
    <3>4. localFresh' => server' # Absent
      BY <3>1, <2>2 DEF TypeInv, TypeOK, Copies
    <3> QED BY <3>1, <3>2, <3>3, <3>4 DEF TypeInv, TypeOK, Copies
  <2> QED BY <2>1, <2>2
<1>2. CASE RemoveFinalizer
  <2>1. CASE local.finalizer
    <3>1. PutWorker(Absent, Finish, Requeue)
      BY <1>2, <2>1 DEF RemoveFinalizer
    <3>2. CASE PutObject(Absent, Finish, Requeue)
      BY <1>0, <3>2, PutType, ReturnType
    <3>3. CASE Requeue /\ UNCHANGED <<objectVars, childVars, fails>>
      BY <1>0, <3>3, RefusedType
    <3> QED BY <3>1, <3>2, <3>3 DEF PutWorker
  <2>2. CASE ~local.finalizer
    BY <1>0, <1>2, <2>2, RefusedType DEF RemoveFinalizer
  <2> QED BY <2>1, <2>2
<1>3. CASE AddFinalizer
  <2>0. pc = "finalizer"
    BY <1>3 DEF AddFinalizer
  <2>1. CASE local.finalizer
    <3>1. Skip("cluster")
      BY <1>3, <2>1 DEF AddFinalizer
    <3> QED BY <1>0, <2>0, <3>1, SkipType DEF Steps
  <2>2. CASE ~local.finalizer
    <3> DEFINE new == [server EXCEPT !.finalizer = TRUE]
    <3>1. PutWorker(new, Goto("cluster", new, TRUE), Requeue)
      BY <1>3, <2>2 DEF AddFinalizer
    <3>2. localFresh => new \in Objects
      BY <2>0, LocalType DEF Objects
    <3> HIDE DEF new
    <3>3. CASE PutObject(new, Goto("cluster", new, TRUE), Requeue)
      BY <1>0, <3>2, <3>3, PutAndGoOnType DEF Steps
    <3>4. CASE Requeue /\ UNCHANGED <<objectVars, childVars, fails>>
      BY <1>0, <3>4, RefusedType
    <3> QED BY <3>1, <3>3, <3>4 DEF PutWorker
  <2> QED BY <2>1, <2>2
<1>4. CASE ResolveCluster
  <2>1. pc = "cluster" /\ \E next \in Steps \ {"idle"} : Skip(next)
    BY <1>4 DEF ResolveCluster, Steps, Kinds
  <2> QED BY <1>0, <2>1, SkipType
<1>5. CASE ReportClusterNotFound
  <2> DEFINE status == MissingCluster(local)
             new    == [server EXCEPT !.status = status]
  <2>1. pc = "clusterNotFound" /\ PutObject(new, Requeue, Requeue)
    BY <1>5 DEF ReportClusterNotFound
  <2>2. status \in Statuses
    BY <2>1, LocalType, MissingClusterType
  <2> HIDE DEF status
  <2>3. localFresh => new \in Objects
    BY <2>1, <2>2, StatusPutType
  <2> QED BY <1>0, <2>1, <2>3, PutType, ReturnType
<1>6. CASE ReconcileWorkerDeployment
  <2>1. /\ pc = "deployment"
        /\ \/ Requeue /\ UNCHANGED <<objectVars, childVars, fails>>
           \/ Ensure("deployment", Goto("autoscaler", local, localFresh),
                     Requeue)
    BY <1>6 DEF ReconcileWorkerDeployment
  <2>2. UNCHANGED server /\ Goto("autoscaler", local, localFresh) => GoesOn
    BY <2>1, GotoType DEF Steps, Kinds
  <2> QED BY <1>0, <2>1, <2>2, EnsureType, ReturnType, RefusedType DEF Kinds
<1>7. CASE ReconcileWorkerHPA
  <2>1. /\ pc = "autoscaler"
        /\ \/ Requeue /\ UNCHANGED <<objectVars, childVars, fails>>
           \/ Ensure("autoscaler", Goto("status", local, localFresh), Requeue)
           \/ DeleteChild("autoscaler", Goto("status", local, localFresh),
                          Requeue)
           \/ Skip("status")
    BY <1>7 DEF ReconcileWorkerHPA
  <2>2. UNCHANGED server /\ Goto("status", local, localFresh) => GoesOn
    BY <2>1, GotoType DEF Steps
  <2>3. "status" \in Steps \ {"idle"} /\ "autoscaler" \in Kinds
    BY DEF Steps, Kinds
  <2>4. CASE Ensure("autoscaler", Goto("status", local, localFresh), Requeue)
    BY <1>0, <2>1, <2>2, <2>3, <2>4, EnsureType, ReturnType
  <2>5. CASE DeleteChild("autoscaler", Goto("status", local, localFresh),
                         Requeue)
    BY <1>0, <2>1, <2>2, <2>3, <2>5, DeleteChildType, ReturnType
  <2> QED BY <1>0, <2>1, <2>3, <2>4, <2>5, SkipType, RefusedType
<1>8. CASE UpdateWorkerStatus
  <2> DEFINE status == Report(local, cachedChild["deployment"])
             new    == [server EXCEPT !.status = status]
             Done   == IF Polled(local) THEN Requeue ELSE Finish
  <2>1. pc = "status" /\ PutObject(new, Done, Requeue)
    BY <1>8 DEF UpdateWorkerStatus
  <2>2. cachedChild["deployment"] \in Children \cup {Absent}
    BY DEF TypeInv, TypeOK, Kinds
  <2>3. status \in Statuses
    BY <2>1, <2>2, LocalType, ReportType
  <2> HIDE DEF status
  <2>4. localFresh => new \in Objects
    BY <2>1, <2>3, StatusPutType
  <2>5. Done => Returns
    BY ReturnType
  <2> HIDE DEF new, Done
  <2> QED BY <1>0, <2>1, <2>4, <2>5, PutType, ReturnType
<1> QED
  BY <1>1, <1>2, <1>3, <1>4, <1>5, <1>6, <1>7, <1>8 DEF ReconcileStep

LEMMA NewObjectType ==
    ASSUME NEW s \in Specs, NEW u \in Nat
    PROVE  [uid |-> u + 1, gen |-> 1, spec |-> s, finalizer |-> FALSE,
            deleting |-> FALSE, status |-> NoStatus] \in Objects
<1>1. NoStatus \in Statuses
  BY DEF NoStatus, Statuses, Phases, Conditions, Rollouts, NoRollout
<1> QED BY <1>1 DEF Objects

LEMMA EditedObjectType ==
    ASSUME NEW o \in Objects, NEW s \in Specs
    PROVE  /\ [o EXCEPT !.spec = s, !.gen = @ + 1] \in Objects
           /\ [o EXCEPT !.deleting = TRUE, !.gen = @ + 1] \in Objects
<1>1. o.gen + 1 \in Nat
  BY DEF Objects
<1> DEFINE g == o.gen + 1
<1> HIDE DEF g
<1>2. [o EXCEPT !.spec = s, !.gen = g] \in Objects
  BY <1>1 DEF Objects, g
<1>3. [o EXCEPT !.deleting = TRUE, !.gen = g] \in Objects
  BY <1>1 DEF Objects, g
<1> QED BY <1>2, <1>3 DEF g

\* A child as another client, the autoscaler or its pods leave it.
LEMMA ChangedChildType ==
    ASSUME NEW c \in Children, NEW n \in Nat, NEW m \in Nat
    PROVE  /\ c.content.replicas \in Nat
           /\ c.content.min \in Nat /\ c.content.max \in Nat
           /\ [c EXCEPT !.content.replicas = n] \in Children
           /\ [c EXCEPT !.content.max = n] \in Children
           /\ [c EXCEPT !.rollout = [replicas |-> n, ready |-> m]] \in Children
BY DEF Children, Contents, Rollouts

\* The writes of children by anybody but the worker's own passes.
ForeignWrites ==
    \/ PodsSettle \/ PodsFlap \/ Autoscale \/ DeployRival
    \/ \E k \in Kinds : DriftChild(k) \/ CollectOrphan(k)

\* What they write: the child with other fields, a Deployment of the rival's,
\* or nothing.
Rewrites(k, new) ==
    \/ new = Absent
    \/ /\ children[k] \in Children /\ new \in Children
       /\ new.owner = children[k].owner
    \/ /\ k = "deployment" /\ children[k] = Absent
       /\ new \in Children /\ new.owner = RivalUid

LEMMA ForeignWriteCases ==
    ASSUME TypeInv, ForeignWrites
    PROVE  /\ \E k \in Kinds : \E new : WriteChild(k, new) /\ Rewrites(k, new)
           /\ UNCHANGED <<clusterVars, admission, uids>>
           /\ OutsideType'
<1>0. \A k \in Kinds : children[k] # Absent => children[k] \in Children
  BY DEF TypeInv, TypeOK
<1>1. UNCHANGED <<clusterVars, admission, uids>> /\ OutsideType'
  <2>1. ForeignWrites =>
          /\ UNCHANGED <<clusters, known, churn, webhook, toggles, uids, crashes>>
          /\ drifts' \in {drifts, drifts + 1} /\ flaps' \in {flaps, flaps + 1}
    BY DEF ForeignWrites, PodsSettle, PodsFlap, Autoscale, DeployRival,
           DriftChild, CollectOrphan, clusterVars, admission, bounds
  <2> QED BY <2>1 DEF TypeInv, TypeOK, OutsideType, clusterVars, admission
<1>2. ASSUME NEW k \in Kinds, children[k] # Absent, NEW new,
             WriteChild(k, new), new \in Children,
             new.owner = children[k].owner
      PROVE  \E j \in Kinds : \E n : WriteChild(j, n) /\ Rewrites(j, n)
  BY <1>0, <1>2 DEF Rewrites
<1>3. ASSUME NEW k \in Kinds, WriteChild(k, Absent)
      PROVE  \E j \in Kinds : \E n : WriteChild(j, n) /\ Rewrites(j, n)
  BY <1>3 DEF Rewrites
<1>4. CASE PodsSettle
  <2> DEFINE dep == children["deployment"]
             n   == dep.content.replicas
             new == [dep EXCEPT !.rollout = [replicas |-> n, ready |-> n]]
  <2>1. dep # Absent /\ WriteChild("deployment", new) /\ "deployment" \in Kinds
    BY <1>4 DEF PodsSettle, Kinds
  <2>2. dep \in Children /\ n \in Nat
    BY <1>0, <2>1, ChangedChildType
  <2>3. new \in Children
    BY <2>2, ChangedChildType
  <2>4. new.owner = dep.owner
    BY <2>2 DEF Children
  <2> HIDE DEF new
  <2> QED BY <1>1, <1>2, <2>1, <2>3, <2>4
<1>5. CASE PodsFlap
  <2> DEFINE dep == children["deployment"]
  <2>1. PICK n \in 0..MaxReplicas : \E m \in 0..n :
          WriteChild("deployment", [dep EXCEPT !.rollout =
                                      [replicas |-> n, ready |-> m]])
    BY <1>5 DEF PodsFlap
  <2>2. PICK m \in 0..n :
          WriteChild("deployment", [dep EXCEPT !.rollout =
                                      [replicas |-> n, ready |-> m]])
    BY <2>1
  <2> DEFINE new == [dep EXCEPT !.rollout = [replicas |-> n, ready |-> m]]
  <2>3. /\ "deployment" \in Kinds /\ dep # Absent /\ dep \in Children
        /\ n \in Nat /\ m \in Nat
    BY <1>0, <1>5, BoundsAssumption DEF PodsFlap, Kinds
  <2>4. WriteChild("deployment", new)
    BY <2>2
  <2>5. new \in Children /\ new.owner = dep.owner
    BY <2>3, ChangedChildType DEF Children
  <2> HIDE DEF new
  <2> QED BY <1>1, <1>2, <2>3, <2>4, <2>5
<1>6. CASE Autoscale
  <2> DEFINE hpa == children["autoscaler"]
             dep == children["deployment"]
  <2>1. PICK n \in hpa.content.min .. hpa.content.max :
          WriteChild("deployment", [dep EXCEPT !.content.replicas = n])
    BY <1>6 DEF Autoscale
  <2> DEFINE new == [dep EXCEPT !.content.replicas = n]
  <2>2. /\ {"deployment", "autoscaler"} \subseteq Kinds
        /\ hpa # Absent /\ dep # Absent /\ hpa \in Children /\ dep \in Children
    BY <1>0, <1>6 DEF Autoscale, Kinds
  <2>3. n \in Nat
    <3>1. hpa.content.min \in Nat /\ hpa.content.max \in Nat
      BY <2>2 DEF Children, Contents
    <3> QED BY <3>1
  <2>4. WriteChild("deployment", new)
    BY <2>1
  <2>5. new \in Children /\ new.owner = dep.owner
    BY <2>2, <2>3, ChangedChildType DEF Children
  <2> HIDE DEF new
  <2> QED BY <1>1, <1>2, <2>2, <2>4, <2>5
<1>7. CASE DeployRival
  <2> DEFINE new == [owner   |-> RivalUid,
                     content |-> [cluster |-> Rival, replicas |-> 1,
                                  min |-> 0, max |-> 0],
                     rollout |-> NoRollout]
  <2>1. /\ Rival \in Clusters /\ children["deployment"] = Absent
        /\ WriteChild("deployment", new) /\ "deployment" \in Kinds
    BY <1>7 DEF DeployRival, TypeInv, TypeOK, Kinds
  <2>2. new \in Children /\ new.owner = RivalUid
    BY <2>1, BoundsAssumption
       DEF Children, Contents, Rollouts, NoRollout, RivalUid
  <2> HIDE DEF new
  <2> QED BY <1>1, <2>1, <2>2 DEF Rewrites
<1>8. ASSUME NEW k \in Kinds, DriftChild(k)
      PROVE  \E j \in Kinds : \E n : WriteChild(j, n) /\ Rewrites(j, n)
  <2> DEFINE idle   == [children[k] EXCEPT !.content.replicas = 0]
             narrow == [children[k] EXCEPT !.content.max =
                          children[k].content.min]
  <2>1. /\ children[k] # Absent
        /\ WriteChild(k, idle) \/ WriteChild(k, narrow) \/ WriteChild(k, Absent)
    BY <1>8 DEF DriftChild
  <2>2. children[k] \in Children /\ children[k].content.min \in Nat
    BY <1>0, <2>1, ChangedChildType
  <2>3. idle \in Children /\ narrow \in Children
    BY <2>2, ChangedChildType
  <2>4. idle.owner = children[k].owner /\ narrow.owner = children[k].owner
    BY <2>2 DEF Children
  <2> HIDE DEF idle, narrow
  <2> QED BY <1>2, <1>3, <2>1, <2>3, <2>4
<1>9. ASSUME NEW k \in Kinds, CollectOrphan(k)
      PROVE  \E j \in Kinds : \E n : WriteChild(j, n) /\ Rewrites(j, n)
  BY <1>3, <1>9 DEF CollectOrphan, CollectGarbage
<1> QED
  BY <1>1, <1>4, <1>5, <1>6, <1>7, <1>8, <1>9 DEF ForeignWrites

\* A write of the object by a user, or of a child by anybody.
LEMMA WriteObjectType ==
    ASSUME TypeInv, NEW STATE new, new \in Objects \cup {Absent},
           WriteObject(new), OutsideType'
    PROVE  TypeInv'
BY DEF WriteObject, childVars, TypeInv, TypeOK, Copies, OutsideType

LEMMA WriteChildType ==
    ASSUME TypeInv, NEW k \in Kinds, NEW new, new \in Children \cup {Absent},
           WriteChild(k, new), OutsideType'
    PROVE  TypeInv'
<1>1. /\ children' \in [Kinds -> Children \cup {Absent}]
      /\ freshChild' \subseteq Kinds
  BY DEF WriteChild, TypeInv, TypeOK
<1>2. UNCHANGED <<server, cached, cacheFresh, cachedChild, pc, local,
                  localFresh, queued, fails>>
  BY DEF WriteChild, objectVars, runVars
<1> QED BY <1>1, <1>2 DEF TypeInv, TypeOK, Copies, OutsideType

LEMMA UserType ==
    ASSUME TypeInv, User
    PROVE  TypeInv'
<1>1. TypeInv => OutsideType
  BY DEF TypeInv, TypeOK, OutsideType
<1>2. OutsideType /\ UNCHANGED <<clusterVars, admission, crashes, drifts, flaps>>
        /\ uids' \in Nat
      => OutsideType'
  BY DEF OutsideType, clusterVars, admission
<1>3. ASSUME NEW s \in Specs, CreateWorker(s)
      PROVE  TypeInv'
  <2>1. uids' \in Nat /\ OutsideType'
    BY <1>1, <1>2, <1>3 DEF CreateWorker, OutsideType
  <2>2. uids \in Nat
    BY <1>1 DEF OutsideType
  <2> QED BY <1>3, <2>1, <2>2, NewObjectType, WriteObjectType
             DEF CreateWorker
<1>4. ASSUME NEW s \in Specs, EditSpec(s)
      PROVE  TypeInv'
  <2>1. OutsideType'
    BY <1>1, <1>2, <1>4 DEF EditSpec, bounds, OutsideType
  <2>2. [server EXCEPT !.spec = s, !.gen = @ + 1] \in Objects
    BY <1>4, EditedObjectType DEF EditSpec, TypeInv, TypeOK
  <2> QED BY <1>4, <2>1, <2>2, WriteObjectType DEF EditSpec
<1>5. CASE DeleteWorker
  <2>1. OutsideType'
    BY <1>1, <1>2, <1>5 DEF DeleteWorker, bounds, OutsideType
  <2>2. server \in Objects
    BY <1>5 DEF DeleteWorker, TypeInv, TypeOK
  <2>3. [server EXCEPT !.deleting = TRUE, !.gen = @ + 1] \in Objects
    <3>1. \E s : s = server.spec /\ s \in Specs
      BY <2>2 DEF Objects
    <3> QED BY <2>2, <3>1, EditedObjectType
  <2> QED BY <1>5, <2>1, <2>3, WriteObjectType DEF DeleteWorker
<1> QED BY <1>3, <1>4, <1>5 DEF User

LEMMA EnvironmentType ==
    ASSUME TypeInv,
           \/ Informers
           \/ \E c \in Clusters : ChangeCluster(c)
           \/ ToggleWebhook
           \/ Crash
    PROVE  TypeInv'
<1> USE DEF TypeInv, TypeOK, Copies
<1>1. CASE Informers
  <2>1. CASE SyncObject /\ UNCHANGED outside
    BY <2>1 DEF SyncObject, childVars, outside, clusterVars, admission, bounds
  <2>2. ASSUME NEW k \in Kinds, SyncKind(k)
        PROVE  TypeInv'
    <3>1. /\ cachedChild' = [cachedChild EXCEPT ![k] = children[k]]
          /\ freshChild' = freshChild \cup {k}
          /\ queued' \in BOOLEAN
          /\ UNCHANGED <<server, cached, cacheFresh, children, pc, local,
                         localFresh, fails>>
          /\ UNCHANGED outside
      BY <2>2 DEF SyncKind, SyncForeign, SyncChild, objectVars, runVars, outside
    <3>2. cachedChild' \in [Kinds -> Children \cup {Absent}]
      BY <3>1
    <3>3. freshChild' \subseteq Kinds
      BY <3>1
    <3> QED BY <3>1, <3>2, <3>3 DEF outside, clusterVars, admission, bounds
  <2>3. ASSUME NEW c \in Clusters, SyncCluster(c)
        PROVE  TypeInv'
    <3>1. known' \subseteq Clusters
      BY <2>3 DEF SyncCluster
    <3> QED BY <2>3, <3>1 DEF SyncCluster, objectVars, childVars, runVars,
                              admission, bounds
  <2> QED BY <1>1, <2>1, <2>2, <2>3 DEF Informers, outside
<1>2. ASSUME NEW c \in Clusters, ChangeCluster(c)
      PROVE  TypeInv'
  <2>1. clusters' \subseteq Clusters /\ churn' \in Nat
    BY <1>2 DEF ChangeCluster
  <2> QED BY <1>2, <2>1 DEF ChangeCluster, objectVars, childVars, runVars,
                            admission, bounds
<1>3. CASE ToggleWebhook
  BY <1>3 DEF ToggleWebhook, objectVars, childVars, runVars, clusterVars, bounds
<1>4. CASE Crash
  <2>1. cachedChild' \in [Kinds -> Children \cup {Absent}]
    BY <1>4 DEF Crash, Restart, Watched
  <2>2. freshChild' \subseteq Kinds
    BY <1>4 DEF Crash, Restart, Watched
  <2>3. /\ pc' = "idle" /\ local' = Absent /\ localFresh' = FALSE
        /\ queued' = TRUE /\ cached' = server /\ cacheFresh' = TRUE
        /\ UNCHANGED <<server, children, fails, clusters, churn, webhook,
                       toggles, uids, drifts, flaps>>
        /\ known' = clusters /\ crashes' = crashes + 1
    BY <1>4 DEF Crash, Restart, Requeue, Return, admission
  <2>4. pc' \in Steps /\ crashes' \in Nat
    BY <2>3 DEF Steps
  <2> QED BY <2>1, <2>2, <2>3, <2>4
<1> QED BY <1>1, <1>2, <1>3, <1>4

\* Every variable has its type, and current copies are what they claim to be,
\* throughout every behaviour of the controller.
THEOREM TypeCorrect == Spec => []TypeInv
<1>1. Init => TypeInv
  <2> SUFFICES ASSUME Init PROVE TypeInv
    OBVIOUS
  <2>1. /\ children \in [Kinds -> Children \cup {Absent}]
        /\ cachedChild \in [Kinds -> Children \cup {Absent}]
        /\ freshChild \subseteq Kinds /\ pc \in Steps
    BY DEF Init, Steps
  <2>2. /\ fails \in Nat /\ uids \in Nat /\ churn \in Nat
        /\ crashes \in Nat /\ drifts \in Nat /\ flaps \in Nat /\ toggles \in Nat
    BY DEF Init
  <2> QED BY <2>1, <2>2 DEF Init, TypeInv, TypeOK, Copies
<1>2. TypeInv /\ [Next]_vars => TypeInv'
  <2>1. TypeInv /\ UNCHANGED vars => TypeInv'
    BY DEF vars, objectVars, childVars, runVars, clusterVars, admission,
           bounds, TypeInv, TypeOK, Copies
  <2>2. ASSUME TypeInv, ForeignWrites
        PROVE  TypeInv'
    <3>1. PICK k \in Kinds : \E new : WriteChild(k, new) /\ Rewrites(k, new)
      BY <2>2, ForeignWriteCases
    <3>2. PICK new : WriteChild(k, new) /\ Rewrites(k, new)
      BY <3>1
    <3>3. new \in Children \cup {Absent} /\ OutsideType'
      BY <2>2, <3>2, ForeignWriteCases DEF Rewrites
    <3> QED BY <2>2, <3>2, <3>3, WriteChildType
  <2> QED BY <2>1, <2>2, ReconcileStepType, UserType, EnvironmentType
          DEF Next, ForeignWrites
<1> QED BY <1>1, <1>2, PTL DEF Spec

\* Every variable has its type.
THEOREM TypeOKCorrect == Spec => []TypeOK
<1>1. TypeInv => TypeOK
  BY DEF TypeInv
<1> QED BY <1>1, TypeCorrect, PTL

(***************************************************************************)
(* NeverStolen.                                                            *)
(***************************************************************************)

\* A child's cached copy that carries the stored version is the stored child.
ChildCopies == \A k \in freshChild : cachedChild[k] = children[k]

\* What a step that delivers nothing does to the children.
LEMMA ChildrenWritten ==
    ASSUME TypeInv, ChildCopies, UNCHANGED cachedChild,
           \/ UNCHANGED <<children, freshChild>>
           \/ \E k \in Kinds : \E new :
                /\ children' = [children EXCEPT ![k] = new]
                /\ \/ freshChild' = freshChild \ {k}
                   \/ new = children[k] /\ UNCHANGED freshChild
    PROVE  ChildCopies'
BY DEF ChildCopies, TypeInv, TypeOK

\* A CreateOrUpdate neither writes a child that another object controls, nor
\* leaves a copy that is not what it claims to be.
LEMMA EnsureChildren ==
    ASSUME TypeInv, ChildCopies, NEW k \in Kinds,
           NEW ACTION Done, NEW ACTION Failed, Ensure(k, Done, Failed)
    PROVE  /\ ChildCopies'
           /\ ~Foreign(cachedChild[k]) /\ Foreign(children[k])
                => UNCHANGED children
           /\ \A j \in Kinds \ {k} : children'[j] = children[j]
<1> DEFINE new == [owner   |-> local.uid, content |-> Desired(k, local.spec),
                   rollout |-> IF children[k] = Absent THEN NoRollout
                               ELSE children[k].rollout]
           seen == cachedChild[k]
<1>1. /\ UNCHANGED cachedChild
      /\ \/ UNCHANGED <<children, freshChild>>
         \/ /\ IF seen = Absent THEN children[k] = Absent ELSE k \in freshChild
            /\ children' = [children EXCEPT ![k] = new]
            /\ freshChild' = IF new = children[k] THEN freshChild
                             ELSE freshChild \ {k}
  <2>1. Seen(k) = seen /\ (UpToDate(k) <=> k \in freshChild)
    BY DEF Seen, UpToDate, Watched, TypeInv, TypeOK
  <2> QED BY <2>1 DEF Ensure, CreateOrUpdate
<1> HIDE DEF new
<1>2. ChildCopies'
  BY <1>1, ChildrenWritten
<1>3. ~Foreign(seen) /\ Foreign(children[k]) => UNCHANGED children
  BY <1>1 DEF Foreign, ChildCopies
<1>4. \A j \in Kinds \ {k} : children'[j] = children[j]
  BY <1>1 DEF TypeInv, TypeOK
<1> QED BY <1>2, <1>3, <1>4

LEMMA ReconcileStepChildren ==
    ASSUME TypeInv, ChildCopies, ReconcileStep
    PROVE  /\ ChildCopies'
           /\ Foreign(children["deployment"])
                => children'["deployment"] = children["deployment"]
<1>1. ASSUME UNCHANGED childVars
      PROVE  /\ ChildCopies'
             /\ children'["deployment"] = children["deployment"]
  BY <1>1 DEF childVars, ChildCopies
<1>2. CASE StartReconcile
  BY <1>1, <1>2 DEF StartReconcile
<1>3. CASE RemoveFinalizer \/ AddFinalizer
  BY <1>1, <1>3 DEF RemoveFinalizer, AddFinalizer, PutWorker, PutObject, Skip,
                    childVars
<1>4. CASE ResolveCluster
  BY <1>1, <1>4 DEF ResolveCluster, Skip
<1>5. CASE ReportClusterNotFound
  BY <1>1, <1>5 DEF ReportClusterNotFound, PutObject, childVars
<1>6. CASE ReconcileWorkerDeployment
  <2>1. CASE UNCHANGED childVars
    BY <1>1, <2>1
  <2>2. CASE /\ ~Foreign(cachedChild["deployment"])
             /\ Ensure("deployment", Goto("autoscaler", local, localFresh),
                       Requeue)
    BY <2>2, EnsureChildren DEF Kinds
  <2> QED BY <1>6, <2>1, <2>2 DEF ReconcileWorkerDeployment
<1>7. CASE ReconcileWorkerHPA
  <2>1. CASE UNCHANGED childVars
    BY <1>1, <2>1
  <2>2. CASE Ensure("autoscaler", Goto("status", local, localFresh), Requeue)
    BY <2>2, EnsureChildren DEF Kinds
  <2>3. CASE DeleteChild("autoscaler", Goto("status", local, localFresh),
                         Requeue)
    <3>1. /\ UNCHANGED cachedChild
          /\ \/ UNCHANGED <<children, freshChild>>
             \/ /\ children' = [children EXCEPT !["autoscaler"] = Absent]
                /\ freshChild' = freshChild \ {"autoscaler"}
      BY <2>3 DEF DeleteChild
    <3>2. ChildCopies'
      BY <3>1, ChildrenWritten DEF Kinds
    <3>3. children'["deployment"] = children["deployment"]
      BY <3>1 DEF TypeInv, TypeOK, Kinds
    <3> QED BY <3>2, <3>3
  <2> QED BY <1>7, <2>1, <2>2, <2>3 DEF ReconcileWorkerHPA, Skip
<1>8. CASE UpdateWorkerStatus
  BY <1>1, <1>8 DEF UpdateWorkerStatus, PutObject, childVars
<1> QED
  BY <1>2, <1>3, <1>4, <1>5, <1>6, <1>7, <1>8 DEF ReconcileStep

LEMMA EnvironmentChildren ==
    ASSUME TypeInv, ChildCopies,
           \/ Informers
           \/ User
           \/ \E c \in Clusters : ChangeCluster(c)
           \/ ForeignWrites
           \/ ToggleWebhook
           \/ Crash
    PROVE  ChildCopies'
<1>1. ASSUME UNCHANGED childVars
      PROVE  ChildCopies'
  BY <1>1 DEF childVars, ChildCopies
<1>2. CASE User
  BY <1>1, <1>2 DEF User, CreateWorker, EditSpec, DeleteWorker, WriteObject
<1>3. CASE \/ ToggleWebhook \/ SyncObject
           \/ \E c \in Clusters : ChangeCluster(c) \/ SyncCluster(c)
  BY <1>1, <1>3 DEF ToggleWebhook, SyncObject, ChangeCluster, SyncCluster
<1>4. ASSUME NEW k \in Kinds, SyncKind(k)
      PROVE  ChildCopies'
  <2>1. /\ cachedChild' = [cachedChild EXCEPT ![k] = children[k]]
        /\ freshChild' = freshChild \cup {k} /\ UNCHANGED children
    BY <1>4 DEF SyncKind, SyncForeign, SyncChild
  <2> QED BY <2>1 DEF ChildCopies, TypeInv, TypeOK
<1>5. CASE ForeignWrites
  <2>1. PICK k \in Kinds : \E new : WriteChild(k, new)
    BY <1>5, ForeignWriteCases
  <2>2. PICK new : WriteChild(k, new)
    BY <2>1
  <2> QED BY <2>2, ChildrenWritten DEF WriteChild
<1>6. CASE Crash
  BY <1>6 DEF Crash, Restart, ChildCopies, Watched, TypeInv, TypeOK
<1> QED BY <1>2, <1>3, <1>4, <1>5, <1>6 DEF Informers

\* A child's cached copy that carries the stored version is the stored child.
THEOREM ChildCopiesInductive == Spec => []ChildCopies
<1>1. Init => ChildCopies
  BY DEF Init, ChildCopies
<1>2. TypeInv /\ ChildCopies /\ [Next]_vars => ChildCopies'
  <2>1. ChildCopies /\ UNCHANGED vars => ChildCopies'
    BY DEF ChildCopies, vars, childVars
  <2> QED BY <2>1, ReconcileStepChildren, EnvironmentChildren
          DEF Next, ForeignWrites
<1> QED BY <1>1, <1>2, TypeCorrect, PTL DEF Spec

\* No pass of the worker's writes a Deployment that an OJSCluster controls,
\* whatever its cache held when it decided to write.
THEOREM NeverStolenCorrect == Spec => NeverStolen
<1>1. TypeInv /\ ChildCopies =>
        [ ReconcileStep /\ Foreign(children["deployment"])
            => children'["deployment"] = children["deployment"] ]_vars
  BY ReconcileStepChildren
<1> QED BY <1>1, TypeCorrect, ChildCopiesInductive, PTL DEF NeverStolen

(***************************************************************************)
(* FinalizerFirst.                                                         *)
(***************************************************************************)

\* The steps at which the running call may not have the finalizer on its copy.
Unmarked == {"idle", "delete", "finalizer"}

\* Copies are of workers created so far, children of those or of the rival,
\* which is none of them; a copy that carries the finalizer is not of a worker
\* that does not; an accepted copy is of the stored worker; and a running call
\* that has come past the finalizer has a copy that carries it.
FinalizerInv ==
    /\ uids <= MaxUid
    /\ \A k \in Kinds : children[k] # Absent =>
         children[k].owner <= uids \/ children[k].owner = RivalUid
    /\ \A o \in {server, cached, local} : o # Absent => o.uid <= uids
    /\ \A o \in {cached, local} :
         /\ o # Absent /\ server # Absent
         /\ o.uid = server.uid /\ o.finalizer
         => server.finalizer
    /\ localFresh => local.uid = server.uid
    /\ pc \notin Unmarked => local.finalizer
    /\ FinalizerFirst

\* Child k was there before, for the same owner, or is the running call's or
\* the rival's.
Accounted(k) ==
    children'[k] # Absent =>
      \/ children[k] # Absent /\ children'[k].owner = children[k].owner
      \/ local # Absent /\ local.finalizer /\ children'[k].owner = local.uid
      \/ children'[k].owner = RivalUid

\* The object stays as it is, loses nothing but its existence, or is marked.
Marks(new) ==
    new = Absent \/ (new.uid = server.uid /\ (server.finalizer => new.finalizer))

\* What a step that creates no worker has to do.
LEMMA StepFinalizer ==
    ASSUME TypeInv, FinalizerInv, UNCHANGED uids,
           UNCHANGED server \/ (server # Absent /\ Marks(server')),
           cached' \in {cached, server},
           local' \in {Absent, local, cached, server'},
           localFresh' =>
             \/ local' = server'
             \/ UNCHANGED server /\ localFresh /\ local'.uid = local.uid,
           \A k \in Kinds : Accounted(k),
           pc' \notin Unmarked => local'.finalizer
    PROVE  FinalizerInv'
<1>1. \A k \in Kinds : children'[k] # Absent =>
        children'[k].owner <= uids' \/ children'[k].owner = RivalUid
  BY DEF FinalizerInv, Accounted
<1>2. server' # Absent =>
        /\ server # Absent /\ server'.uid = server.uid
        /\ server.finalizer => server'.finalizer
  BY DEF Marks
<1>3. \A o \in {server', cached', local'} : o # Absent => o.uid <= uids'
  BY <1>2 DEF FinalizerInv
<1>4. \A o \in {cached', local'} :
        /\ o # Absent /\ server' # Absent
        /\ o.uid = server'.uid /\ o.finalizer
        => server'.finalizer
  BY <1>2 DEF FinalizerInv
<1>5. server' # Absent => server'.uid # RivalUid
  <2>1. MaxUid \in Nat /\ uids \in Nat /\ (server # Absent => server.uid \in Nat)
    BY BoundsAssumption DEF TypeInv, TypeOK, Objects
  <2> QED BY <1>2, <2>1 DEF FinalizerInv, RivalUid
<1>6. FinalizerFirst'
  BY <1>2, <1>5 DEF FinalizerInv, FinalizerFirst, Accounted
<1> QED BY <1>1, <1>3, <1>4, <1>6 DEF FinalizerInv, RivalUid

\* A write of the object that keeps or sets its finalizer.
LEMMA PutFinalizer ==
    ASSUME TypeInv, FinalizerInv, UNCHANGED uids,
           NEW STATE new, NEW ACTION Done, NEW ACTION Failed,
           PutObject(new, Done, Failed),
           localFresh => Marks(new),
           Failed => Return,
           Done => Return \/ (local' = new /\ (localFresh => new.finalizer))
    PROVE  FinalizerInv'
<1>1. /\ UNCHANGED <<cached, children>>
      /\ \/ localFresh /\ server' = new /\ (Return \/ local' = new)
         \/ UNCHANGED server /\ Return
  BY DEF PutObject, Store, childVars
<1>2. pc' \notin Unmarked => local'.finalizer
  BY DEF PutObject, Return, Unmarked
<1>3. localFresh => server # Absent
  BY DEF TypeInv, Copies
<1>4. \A k \in Kinds : Accounted(k)
  BY <1>1 DEF Accounted
<1> QED BY <1>1, <1>2, <1>3, <1>4, StepFinalizer DEF Return

\* A step that writes neither the object nor a child.
LEMMA IdleFinalizer ==
    ASSUME TypeInv, FinalizerInv, UNCHANGED <<uids, server, cached, children>>,
           local' \in {Absent, local, cached},
           localFresh' =>
             local' = server \/ (localFresh /\ local'.uid = local.uid),
           pc' \notin Unmarked => local'.finalizer
    PROVE  FinalizerInv'
BY StepFinalizer DEF Accounted

LEMMA RefusedFinalizer ==
    ASSUME TypeInv, FinalizerInv, Return, UNCHANGED uids,
           UNCHANGED <<objectVars, childVars, fails>>
    PROVE  FinalizerInv'
BY IdleFinalizer DEF Return, Unmarked, objectVars, childVars

LEMMA SkipFinalizer ==
    ASSUME TypeInv, FinalizerInv, UNCHANGED uids, NEW next, Skip(next),
           pc # "idle", next \notin Unmarked => local.finalizer
    PROVE  FinalizerInv'
<1>1. /\ UNCHANGED <<server, cached, children, local, localFresh>>
      /\ pc' = next /\ local # Absent
  BY DEF Skip, Goto, objectVars, childVars, TypeInv, Copies
<1> QED BY <1>1, IdleFinalizer

\* A request about a child by a running call whose copy carries the finalizer.
LEMMA ChildFinalizer ==
    ASSUME TypeInv, FinalizerInv, UNCHANGED uids, pc \notin Unmarked,
           NEW k \in Kinds, NEW next,
           \/ Ensure(k, Goto(next, local, localFresh), Requeue)
           \/ DeleteChild(k, Goto(next, local, localFresh), Requeue)
    PROVE  FinalizerInv'
<1>1. local # Absent /\ local.finalizer
  BY DEF FinalizerInv, TypeInv, Copies, Unmarked
<1> DEFINE new == [owner   |-> local.uid,
                   content |-> Desired(k, local.spec),
                   rollout |-> IF children[k] = Absent THEN NoRollout
                               ELSE children[k].rollout]
<1>2. /\ UNCHANGED <<server, cached>>
      /\ Goto(next, local, localFresh) \/ Requeue
      /\ children' \in {children, [children EXCEPT ![k] = new],
                        [children EXCEPT ![k] = Absent]}
  BY DEF Ensure, CreateOrUpdate, DeleteChild, objectVars
<1>3. children \in [Kinds -> Children \cup {Absent}]
  BY DEF TypeInv, TypeOK
<1>4. \A j \in Kinds : Accounted(j)
  BY <1>1, <1>2, <1>3 DEF Accounted
<1>5. /\ UNCHANGED local \/ local' = Absent
      /\ localFresh' => localFresh /\ UNCHANGED local
      /\ pc' \notin Unmarked => local'.finalizer
  BY <1>1, <1>2 DEF Goto, Requeue, Return, Unmarked
<1> QED BY <1>2, <1>4, <1>5, StepFinalizer

LEMMA ReconcileStepFinalizer ==
    ASSUME TypeInv, FinalizerInv, ReconcileStep
    PROVE  FinalizerInv'
<1>0. /\ localFresh => server \in Objects
      /\ pc \notin Unmarked => local.finalizer
      /\ UNCHANGED uids
  BY DEF TypeInv, TypeOK, Copies, FinalizerInv, ReconcileStep, bounds
\* A status that ends the pass.
<1>1. ASSUME NEW STATE status, NEW ACTION Done, Done => Return,
             PutObject([server EXCEPT !.status = status], Done, Requeue)
      PROVE  FinalizerInv'
  <2> DEFINE new == [server EXCEPT !.status = status]
  <2>1. localFresh => Marks(new)
    BY <1>0 DEF Objects, Marks
  <2>2. PutObject(new, Done, Requeue)
    BY <1>1
  <2> HIDE DEF new
  <2> QED BY <1>0, <1>1, <2>1, <2>2, PutFinalizer DEF Requeue
<1>2. CASE StartReconcile
  <2>1. /\ UNCHANGED <<server, cached, children>>
        /\ \/ UNCHANGED <<pc, local, localFresh>> /\ pc = "idle"
           \/ local' = cached /\ localFresh' = cacheFresh /\ pc' \in Unmarked
    BY <1>2 DEF StartReconcile, objectVars, childVars, Unmarked
  <2>2. /\ pc = "idle" => local = Absent /\ ~localFresh
        /\ cacheFresh => cached = server
    BY DEF TypeInv, Copies
  <2> QED BY <1>0, <2>1, <2>2, IdleFinalizer DEF Unmarked
<1>3. CASE RemoveFinalizer
  <2>1. CASE PutObject(Absent, Finish, Requeue)
    BY <1>0, <2>1, PutFinalizer DEF Finish, Requeue, Marks
  <2>2. CASE (Finish \/ Requeue) /\ UNCHANGED <<objectVars, childVars, fails>>
    BY <1>0, <2>2, RefusedFinalizer DEF Finish, Requeue
  <2> QED BY <1>3, <2>1, <2>2 DEF RemoveFinalizer, PutWorker
<1>4. CASE AddFinalizer
  <2>1. CASE local.finalizer
    BY <1>0, <1>4, <2>1, SkipFinalizer DEF AddFinalizer
  <2>2. CASE ~local.finalizer
    <3> DEFINE new == [server EXCEPT !.finalizer = TRUE]
    <3>1. PutWorker(new, Goto("cluster", new, TRUE), Requeue)
      BY <1>4, <2>2 DEF AddFinalizer
    <3>2. localFresh => new.uid = server.uid /\ new.finalizer
      BY <1>0 DEF Objects
    <3> HIDE DEF new
    <3>3. CASE PutObject(new, Goto("cluster", new, TRUE), Requeue)
      BY <1>0, <3>2, <3>3, PutFinalizer DEF Goto, Requeue, Marks
    <3>4. CASE Requeue /\ UNCHANGED <<objectVars, childVars, fails>>
      BY <1>0, <3>4, RefusedFinalizer DEF Requeue
    <3> QED BY <3>1, <3>3, <3>4 DEF PutWorker
  <2> QED BY <2>1, <2>2
<1>5. CASE ResolveCluster
  BY <1>0, <1>5, SkipFinalizer DEF ResolveCluster, Unmarked
<1>6. CASE ReportClusterNotFound
  BY <1>1, <1>6 DEF ReportClusterNotFound, Requeue
<1>7. CASE ReconcileWorkerDeployment
  <2>1. CASE Requeue /\ UNCHANGED <<objectVars, childVars, fails>>
    BY <1>0, <2>1, RefusedFinalizer DEF Requeue
  <2> QED BY <1>0, <1>7, <2>1, ChildFinalizer
          DEF ReconcileWorkerDeployment, Kinds, Unmarked
<1>8. CASE ReconcileWorkerHPA
  <2>0. pc = "autoscaler" /\ "autoscaler" \in Kinds /\ pc \notin Unmarked
    BY <1>8 DEF ReconcileWorkerHPA, Kinds, Unmarked
  <2>1. CASE Requeue /\ UNCHANGED <<objectVars, childVars, fails>>
    BY <1>0, <2>1, RefusedFinalizer DEF Requeue
  <2>2. CASE Skip("status")
    BY <1>0, <2>0, <2>2, SkipFinalizer
  <2>3. CASE \/ Ensure("autoscaler", Goto("status", local, localFresh), Requeue)
             \/ DeleteChild("autoscaler", Goto("status", local, localFresh),
                            Requeue)
    BY <1>0, <2>0, <2>3, ChildFinalizer
  <2> QED BY <1>8, <2>1, <2>2, <2>3 DEF ReconcileWorkerHPA
<1>9. CASE UpdateWorkerStatus
  <2> DEFINE Done == IF Polled(local) THEN Requeue ELSE Finish
  <2>1. Done => Return
    BY DEF Requeue, Finish
  <2> HIDE DEF Done
  <2>2. PutObject([server EXCEPT !.status =
                     Report(local, cachedChild["deployment"])], Done, Requeue)
    BY <1>9 DEF UpdateWorkerStatus, Done
  <2> QED BY <1>1, <2>1, <2>2
<1> QED
  BY <1>2, <1>3, <1>4, <1>5, <1>6, <1>7, <1>8, <1>9 DEF ReconcileStep

LEMMA UserFinalizer ==
    ASSUME TypeInv, FinalizerInv, User
    PROVE  FinalizerInv'
<1>0. /\ uids \in Nat /\ MaxUid \in Nat
      /\ server # Absent => server \in Objects
  BY BoundsAssumption DEF TypeInv, TypeOK
<1>1. ASSUME NEW s \in Specs, CreateWorker(s)
      PROVE  FinalizerInv'
  <2>1. /\ server = Absent /\ server'.uid = uids + 1 /\ uids' = uids + 1
        /\ ~localFresh' /\ uids < MaxUid
        /\ UNCHANGED <<cached, local, pc, children>>
    BY <1>1 DEF CreateWorker, WriteObject, childVars
  <2>2. /\ \A k \in Kinds : children[k] # Absent => children[k].owner \in Nat
        /\ \A o \in {cached, local} : o # Absent => o.uid \in Nat
    BY DEF TypeInv, TypeOK, Children, Objects
  <2>3. uids' <= MaxUid /\ server'.uid <= uids'
    BY <1>0, <2>1
  <2>4. ASSUME NEW k \in Kinds, children'[k] # Absent
        PROVE  /\ children'[k].owner <= uids' \/ children'[k].owner = RivalUid
               /\ children'[k].owner # server'.uid
    <3>1. children[k].owner <= uids \/ children[k].owner = RivalUid
      BY <2>1, <2>4 DEF FinalizerInv
    <3>2. children[k].owner \in Nat /\ children'[k] = children[k]
      BY <2>1, <2>2, <2>4
    <3> QED BY <1>0, <2>1, <3>1, <3>2 DEF RivalUid
  <2>5. \A o \in {cached', local'} : o # Absent =>
          o.uid <= uids' /\ o.uid # server'.uid
    BY <1>0, <2>1, <2>2 DEF FinalizerInv
  <2>6. FinalizerFirst'
    BY <2>4 DEF FinalizerFirst
  <2>7. RivalUid' = RivalUid
    BY DEF RivalUid
  <2> QED BY <2>1, <2>3, <2>4, <2>5, <2>6, <2>7 DEF FinalizerInv
<1>2. ASSUME NEW STATE new, WriteObject(new), server # Absent, Marks(new),
             UNCHANGED uids
      PROVE  FinalizerInv'
  <2>1. /\ server' = new /\ ~localFresh'
        /\ UNCHANGED <<cached, local, pc, children>>
    BY <1>2 DEF WriteObject, childVars
  <2>2. pc' \notin Unmarked => local'.finalizer
    BY <2>1 DEF FinalizerInv
  <2>3. \A k \in Kinds : Accounted(k)
    BY <2>1 DEF Accounted
  <2>4. server # Absent /\ Marks(server')
    BY <1>2, <2>1
  <2> QED BY <1>2, <2>1, <2>2, <2>3, <2>4, StepFinalizer
<1>3. ASSUME NEW s \in Specs, EditSpec(s)
      PROVE  FinalizerInv'
  <2> DEFINE new == [server EXCEPT !.spec = s, !.gen = @ + 1]
  <2>1. server # Absent /\ WriteObject(new) /\ UNCHANGED uids
    BY <1>3 DEF EditSpec, bounds
  <2>2. Marks(new)
    BY <1>0, <2>1 DEF Marks, Objects
  <2> HIDE DEF new
  <2> QED BY <1>2, <2>1, <2>2
<1>4. CASE DeleteWorker
  <2> DEFINE new == IF server.finalizer
                    THEN [server EXCEPT !.deleting = TRUE, !.gen = @ + 1]
                    ELSE Absent
  <2>1. server # Absent /\ WriteObject(new) /\ UNCHANGED uids
    BY <1>4 DEF DeleteWorker, bounds
  <2>2. Marks(new)
    BY <1>0, <2>1 DEF Marks, Objects
  <2> HIDE DEF new
  <2> QED BY <1>2, <2>1, <2>2
<1> QED BY <1>1, <1>3, <1>4 DEF User

LEMMA EnvironmentFinalizer ==
    ASSUME TypeInv, FinalizerInv,
           \/ Informers
           \/ \E c \in Clusters : ChangeCluster(c)
           \/ ForeignWrites
           \/ ToggleWebhook
           \/ Crash
    PROVE  FinalizerInv'
<1>1. ASSUME UNCHANGED <<uids, server, pc, local, localFresh>>,
             cached' \in {cached, server}, \A k \in Kinds : Accounted(k)
      PROVE  FinalizerInv'
  <2>1. pc' \notin Unmarked => local'.finalizer
    BY <1>1 DEF FinalizerInv
  <2> QED BY <1>1, <2>1, StepFinalizer DEF FinalizerInv
<1>2. CASE \/ Informers \/ ToggleWebhook
           \/ \E c \in Clusters : ChangeCluster(c)
  <2>1. /\ UNCHANGED <<uids, server, pc, local, localFresh, children>>
        /\ cached' \in {cached, server}
    BY <1>2 DEF Informers, SyncObject, SyncKind, SyncForeign, SyncChild,
                SyncCluster, ChangeCluster, ToggleWebhook,
                objectVars, childVars, runVars, bounds
  <2> QED BY <1>1, <2>1 DEF Accounted
<1>3. CASE ForeignWrites
  <2>1. PICK k \in Kinds : \E new : WriteChild(k, new) /\ Rewrites(k, new)
    BY <1>3, ForeignWriteCases
  <2>2. PICK new : WriteChild(k, new) /\ Rewrites(k, new)
    BY <2>1
  <2>3. /\ UNCHANGED <<server, cached, pc, local, localFresh>>
        /\ children' = [children EXCEPT ![k] = new]
    BY <2>2 DEF WriteChild, objectVars, runVars
  <2>4. UNCHANGED uids
    BY <1>3, ForeignWriteCases
  <2>5. Accounted(k)
    <3>1. children'[k] = new
      BY <2>3 DEF TypeInv, TypeOK
    <3>2. Absent \notin Children
      BY AbsentAssumption
    <3> QED BY <2>2, <3>1, <3>2 DEF Rewrites, Accounted
  <2>6. \A j \in Kinds : Accounted(j)
    BY <2>3, <2>5 DEF Accounted, TypeInv, TypeOK
  <2> QED BY <1>1, <2>3, <2>4, <2>6
<1>4. CASE Crash
  <2>1. /\ UNCHANGED <<uids, server, children>> /\ cached' = server
        /\ local' = Absent /\ ~localFresh' /\ pc' \in Unmarked
    BY <1>4 DEF Crash, Restart, Requeue, Return, Unmarked
  <2>2. \A k \in Kinds : Accounted(k)
    BY <2>1 DEF Accounted
  <2> QED BY <2>1, <2>2, StepFinalizer
<1> QED BY <1>2, <1>3, <1>4

\* What FinalizerInv says of owners and copies holds throughout every behaviour.
THEOREM FinalizerInductive == Spec => []FinalizerInv
<1>1. Init => FinalizerInv
  <2> SUFFICES ASSUME Init PROVE FinalizerInv
    OBVIOUS
  <2>1. /\ \A k \in Kinds : children[k] = Absent
        /\ server = Absent /\ cached = Absent /\ local = Absent
        /\ ~localFresh /\ pc \in Unmarked
    BY DEF Init, Unmarked
  <2>2. uids <= MaxUid
    BY BoundsAssumption DEF Init
  <2> QED BY <2>1, <2>2 DEF FinalizerInv, FinalizerFirst
<1>2. TypeInv /\ FinalizerInv /\ [Next]_vars => FinalizerInv'
  <2>1. FinalizerInv /\ UNCHANGED vars => FinalizerInv'
    BY DEF FinalizerInv, FinalizerFirst, RivalUid, vars, objectVars, childVars,
           runVars, bounds
  <2> QED BY <2>1, ReconcileStepFinalizer, UserFinalizer, EnvironmentFinalizer
          DEF Next, ForeignWrites
<1> QED BY <1>1, <1>2, TypeCorrect, PTL DEF Spec

\* No child exists for a worker that does not carry the finalizer yet, however
\* often workers of the name come and go, whatever stale copies the passes of
\* Reconcile work on, and whoever else has a Deployment of that name.
THEOREM FinalizerFirstCorrect == Spec => []FinalizerFirst
<1>1. FinalizerInv => FinalizerFirst
  BY DEF FinalizerInv
<1> QED BY <1>1, FinalizerInductive, PTL

==============================================================================
