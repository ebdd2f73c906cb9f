--------------------------- MODULE OJSCluster_proofs ---------------------------
(***************************************************************************)
(* Proofs about OJSCluster for every value of its constants.               *)
(***************************************************************************)
EXTENDS OJSCluster, TLAPS

\* The running call has a copy of the object, only an existing object can have
\* a current copy, and the informer's current copy is the stored object.
Copies ==
    /\ pc = "idle" <=> local = Absent
    /\ localFresh => pc # "idle" /\ server # Absent
    /\ cacheFresh => cached = server

TypeInv == TypeOK /\ Copies

LEMMA PutObjectType ==
    ASSUME NEW STATE new, NEW ACTION Done, NEW ACTION Failed,
           TypeOK, localFresh => new \in Objects \cup {Absent},
           PutObject(new, Done, Failed)
    PROVE  /\ server' \in Objects \cup {Absent}
           /\ cached' \in Objects \cup {Absent}
           /\ cacheFresh' \in BOOLEAN
           /\ cacheFresh' => cacheFresh /\ server' = server
           /\ fails' \in Nat
           /\ UNCHANGED <<cached, childVars>>
           /\ Failed \/ (Done /\ localFresh /\ server' = new)
<1>1. UNCHANGED <<cached, childVars>>
  BY DEF PutObject
<1>2. fails' \in Nat
  BY DEF PutObject, TypeOK
<1>3. Failed \/ (Done /\ localFresh /\ server' = new)
  BY DEF PutObject, Store
<1>4. server' \in Objects \cup {Absent}
  BY DEF PutObject, Store, TypeOK
<1>5. cacheFresh' \in BOOLEAN
  BY DEF PutObject, Store, TypeOK
<1>6. cacheFresh' => cacheFresh /\ server' = server
  BY DEF PutObject, Store
<1> QED BY <1>1, <1>2, <1>3, <1>4, <1>5, <1>6 DEF TypeOK

\* What a CreateOrUpdate leaves of the types.
LEMMA CreateOrUpdateType ==
    ASSUME NEW k \in Kinds, NEW STATE owner, NEW STATE content,
           NEW STATE always, NEW ACTION Done, NEW ACTION Failed,
           TypeOK, owner \in Nat, content \in Contents,
           CreateOrUpdate(k, owner, content, always, Done, Failed)
    PROVE  /\ children' \in [Kinds -> Children \cup {Absent}]
           /\ cachedChild' \in [Owned -> Children \cup {Absent}]
           /\ freshChild' \subseteq Owned
           /\ fails' \in Nat
           /\ UNCHANGED <<objectVars, cachedChild>>
           /\ Done \/ Failed
<1> DEFINE new == [owner   |-> owner, content |-> content,
                   rollout |-> IF children[k] = Absent THEN NoRollout
                               ELSE children[k].rollout]
<1>1. new \in Children
  <2>1. NoRollout \in Rollouts
    BY DEF NoRollout, Rollouts
  <2>2. children[k] # Absent => children[k].rollout \in Rollouts
    BY DEF TypeOK, Children
  <2> QED BY <2>1, <2>2 DEF Children
<1> HIDE DEF new
<1>2. /\ UNCHANGED <<objectVars, cachedChild>>
      /\ \/ UNCHANGED <<children, freshChild>>
         \/ /\ children' = [children EXCEPT ![k] = new]
            /\ freshChild' \subseteq freshChild
      /\ fails' = fails \/ fails' = fails + 1
      /\ Done \/ Failed
  BY DEF CreateOrUpdate, new
<1>3. [children EXCEPT ![k] = new] \in [Kinds -> Children \cup {Absent}]
  BY <1>1 DEF TypeOK
<1> QED BY <1>2, <1>3 DEF TypeOK

LEMMA SetConditionsType ==
    ASSUME NEW conditions \in Conditions, NEW gen \in Nat, NEW verdict,
           \A c \in DOMAIN verdict : verdict[c] \in {"True", "False"}
    PROVE  SetConditions(conditions, gen, verdict) \in Conditions
BY DEF SetConditions, Conditions

LEMMA StatusType ==
    ASSUME NEW o \in Objects
    PROVE  /\ o.status \in Statuses
           /\ o.status.conditions \in Conditions
           /\ o.gen \in Nat /\ o.uid \in Nat /\ o.spec \in Specs
           /\ \A status \in Statuses :
                [o EXCEPT !.status = status] \in Objects
BY DEF Objects, Statuses

LEMMA ConditionsUpdateType ==
    ASSUME NEW o \in Objects, NEW conditions \in Conditions
    PROVE  /\ [o.status EXCEPT !.conditions = conditions] \in Statuses
           /\ [o EXCEPT !.status.conditions = conditions] \in Objects
BY DEF Objects, Statuses

LEMMA PendingStatusType ==
    ASSUME NEW status \in Statuses, NEW conditions \in Conditions
    PROVE  [status EXCEPT !.phase = "Pending", !.conditions = conditions]
             \in Statuses
BY DEF Statuses, Phases

LEMMA ReportType ==
    ASSUME NEW o \in Objects, NEW dep \in Children \cup {Absent}
    PROVE  Report(o, dep) \in Statuses
<1> DEFINE rollout == IF dep = Absent THEN o.status.rollout ELSE dep.rollout
           phase   == IF dep = Absent THEN "Pending" ELSE PhaseOf(rollout)
<1>1. rollout \in Rollouts
  BY DEF Objects, Statuses, Children
<1>2. phase \in Phases
  BY DEF PhaseOf, Phases
<1>3. \A c \in DOMAIN VerdictOf(phase) :
        VerdictOf(phase)[c] \in {"True", "False"}
  BY DEF VerdictOf
<1>4. SetConditions(o.status.conditions, o.gen, VerdictOf(phase))
        \in Conditions
  BY <1>3, StatusType, SetConditionsType
<1> QED BY <1>1, <1>2, <1>4 DEF Report, Statuses

LEMMA DesiredType ==
    ASSUME NEW k \in Kinds, NEW s \in Specs
    PROVE  Desired(k, s) \in Contents
<1>1. s \in AllSpecs
  BY SpecsAssumption
<1> QED BY <1>1 DEF Desired, Contents, AllSpecs, Backends, Budgets

(***************************************************************************)
(* Type correctness.                                                       *)
(***************************************************************************)

\* How a step leaves the running call: it goes on with a copy of the object,
\* which is current only if it was or was just stored, or it returns.
GoesOn == /\ pc' \in Steps \ {"idle"} /\ local' \in Objects
          /\ localFresh' \in BOOLEAN /\ (localFresh' => server' # Absent)
          /\ queued' = queued
Returns == Return /\ queued' \in BOOLEAN

LEMMA CallType ==
    ASSUME TypeInv, GoesOn \/ Returns,
           server' \in Objects \cup {Absent}, cached' \in Objects \cup {Absent},
           cacheFresh' \in BOOLEAN, cacheFresh' => cached' = server',
           fails' \in Nat,
           children' \in [Kinds -> Children \cup {Absent}],
           cachedChild' \in [Owned -> Children \cup {Absent}],
           freshChild' \subseteq Owned,
           UNCHANGED bounds
    PROVE  TypeInv'
<1>1. TypeOK'
  BY DEF TypeInv, TypeOK, GoesOn, Returns, Return, bounds, Steps
<1>2. Copies'
  BY AbsentAssumption DEF GoesOn, Returns, Return, Copies
<1> QED BY <1>1, <1>2 DEF TypeInv

LEMMA LocalType ==
    ASSUME TypeInv, pc # "idle"
    PROVE  /\ local \in Objects
           /\ localFresh => server \in Objects
BY DEF TypeInv, TypeOK, Copies

\* The exits of a step, in terms of the lemma above.
LEMMA ReturnType == TypeInv /\ (Finish \/ Requeue) => Returns
BY DEF Finish, Requeue, Returns, TypeInv, TypeOK

LEMMA GotoType ==
    ASSUME TypeInv, pc # "idle", UNCHANGED server,
           NEW next \in Steps \ {"idle"}, Goto(next, local, localFresh)
    PROVE  GoesOn
<1>1. local' \in Objects /\ pc' \in Steps \ {"idle"} /\ queued' = queued
  BY LocalType DEF Goto
<1>2. localFresh' = localFresh /\ localFresh \in BOOLEAN
  BY DEF Goto, TypeInv, TypeOK
<1>3. localFresh => server' # Absent
  BY DEF TypeInv, Copies
<1> QED BY <1>1, <1>2, <1>3 DEF GoesOn

LEMMA SkipType ==
    ASSUME TypeInv, pc # "idle", NEW next \in Steps \ {"idle"},
           Skip(next), UNCHANGED bounds
    PROVE  TypeInv'
<1>1. GoesOn
  BY GotoType DEF Skip, objectVars
<1> QED BY <1>1, CallType DEF Skip, objectVars, childVars, TypeInv, TypeOK,
                            Copies

LEMMA PutType ==
    ASSUME TypeInv, NEW STATE new, NEW ACTION Done, NEW ACTION Failed,
           PutObject(new, Done, Failed), UNCHANGED bounds,
           localFresh => new \in Objects \cup {Absent},
           Failed => Returns,
           Done /\ server' = new /\ localFresh => GoesOn \/ Returns
    PROVE  TypeInv'
<1>1. /\ server' \in Objects \cup {Absent} /\ cached' \in Objects \cup {Absent}
      /\ cacheFresh' \in BOOLEAN /\ fails' \in Nat
      /\ cacheFresh' => cached' = server'
      /\ UNCHANGED childVars
      /\ GoesOn \/ Returns
  BY PutObjectType DEF TypeInv, Copies
<1> QED BY <1>1, CallType DEF childVars, TypeInv, TypeOK

\* A write whose answer becomes the copy the call works on.
LEMMA PutAndGoOnType ==
    ASSUME TypeInv, NEW STATE new, localFresh => new \in Objects,
           NEW next \in Steps \ {"idle"},
           PutObject(new, Goto(next, new, TRUE), Requeue), UNCHANGED bounds
    PROVE  TypeInv'
<1>1. \/ Requeue
      \/ Goto(next, new, TRUE) /\ localFresh /\ server' = new
  BY DEF PutObject, Store
<1>2. Goto(next, new, TRUE) /\ localFresh /\ server' = new => GoesOn
  BY AbsentAssumption DEF Goto, GoesOn
<1>3. GoesOn \/ Returns
  BY <1>1, <1>2, ReturnType
<1>4. /\ server' \in Objects \cup {Absent} /\ cached' \in Objects \cup {Absent}
      /\ cacheFresh' \in BOOLEAN /\ fails' \in Nat
      /\ cacheFresh' => cached' = server'
      /\ UNCHANGED childVars
  BY PutObjectType DEF TypeInv, Copies
<1> QED BY <1>3, <1>4, CallType DEF childVars, TypeInv, TypeOK

LEMMA StatusPutType ==
    ASSUME TypeInv, pc # "idle", NEW STATE status, status \in Statuses
    PROVE  localFresh => [server EXCEPT !.status = status] \in Objects
BY LocalType, StatusType

LEMMA EnsureType ==
    ASSUME TypeInv, pc # "idle", NEW k \in Kinds,
           NEW ACTION Done, NEW ACTION Failed,
           Ensure(k, Done, Failed), UNCHANGED bounds,
           UNCHANGED server /\ (Done \/ Failed) => GoesOn \/ Returns
    PROVE  TypeInv'
<1>1. local.uid \in Nat /\ Desired(k, local.spec) \in Contents
  BY LocalType, StatusType, DesiredType
<1>2. /\ children' \in [Kinds -> Children \cup {Absent}]
      /\ cachedChild' \in [Owned -> Children \cup {Absent}]
      /\ freshChild' \subseteq Owned /\ fails' \in Nat
      /\ UNCHANGED <<server, cached, cacheFresh>>
      /\ GoesOn \/ Returns
  BY <1>1, CreateOrUpdateType DEF Ensure, TypeInv, objectVars
<1> QED BY <1>2, CallType DEF TypeInv, TypeOK, Copies

\* A step that ends the call without a request, or after a refused one.
LEMMA RefusedType ==
    ASSUME TypeInv, Finish \/ Requeue,
           UNCHANGED <<objectVars, childVars, fails>>, UNCHANGED bounds
    PROVE  TypeInv'
BY ReturnType, CallType DEF objectVars, childVars, TypeInv, TypeOK, Copies

LEMMA ReconcileStepType ==
    ASSUME TypeInv, ReconcileStep, UNCHANGED bounds
    PROVE  TypeInv'
<1>1. CASE StartReconcile
  <2>1. CASE cached = Absent
    BY <1>1, <2>1 DEF StartReconcile, TypeInv, TypeOK, Copies, objectVars,
                      childVars, bounds
  <2>2. CASE cached # Absent
    <3>1. /\ cached \in Objects
          /\ pc' = IF cached.deleting THEN "delete" ELSE "finalizer"
          /\ local' = cached /\ localFresh' = cacheFresh /\ queued' = FALSE
          /\ UNCHANGED <<server, cached, cacheFresh, children, cachedChild,
                         freshChild, fails>>
      BY <1>1, <2>2 DEF StartReconcile, TypeInv, TypeOK, objectVars, childVars
    <3>2. TypeOK'
      BY <3>1 DEF TypeInv, TypeOK, bounds, Steps
    <3>3. pc' # "idle" /\ local' # Absent
      BY <3>1, AbsentAssumption
    <3>4. localFresh' => server' # Absent
      BY <3>1, <2>2 DEF TypeInv, TypeOK, Copies
    <3> QED BY <3>1, <3>2, <3>3, <3>4 DEF TypeInv, TypeOK, Copies
  <2> QED BY <2>1, <2>2
<1>2. CASE RemoveFinalizer
  <2>1. CASE local.finalizer
    <3>1. PutCluster(Absent, Finish, Requeue)
      BY <1>2, <2>1 DEF RemoveFinalizer
    <3>2. CASE PutObject(Absent, Finish, Requeue)
      BY <3>2, PutType, ReturnType
    <3>3. CASE Requeue /\ UNCHANGED <<objectVars, childVars, fails>>
      BY <3>3, RefusedType
    <3> QED BY <3>1, <3>2, <3>3 DEF PutCluster
  <2>2. CASE ~local.finalizer
    BY <1>2, <2>2, RefusedType DEF RemoveFinalizer
  <2> QED BY <2>1, <2>2
<1>3. CASE AddFinalizer
  <2>0. pc = "finalizer"
    BY <1>3 DEF AddFinalizer
  <2>1. CASE local.finalizer
    <3>1. Skip("phase")
      BY <1>3, <2>1 DEF AddFinalizer
    <3> QED BY <2>0, <3>1, SkipType DEF Steps
  <2>2. CASE ~local.finalizer
    <3> DEFINE new == [server EXCEPT !.finalizer = TRUE]
    <3>1. PutCluster(new, Goto("phase", new, TRUE), Requeue)
      BY <1>3, <2>2 DEF AddFinalizer
    <3>2. localFresh => new \in Objects
      BY <2>0, LocalType DEF Objects
    <3> HIDE DEF new
    <3>3. CASE PutObject(new, Goto("phase", new, TRUE), Requeue)
      BY <3>2, <3>3, PutAndGoOnType DEF Steps
    <3>4. CASE Requeue /\ UNCHANGED <<objectVars, childVars, fails>>
      BY <3>4, RefusedType
    <3> QED BY <3>1, <3>3, <3>4 DEF PutCluster
  <2> QED BY <2>1, <2>2
<1>4. CASE SetPendingPhase
  <2>0. pc = "phase"
    BY <1>4 DEF SetPendingPhase
  <2>1. CASE local.status.phase # ""
    <3>1. Skip("backend")
      BY <1>4, <2>1 DEF SetPendingPhase
    <3> QED BY <2>0, <3>1, SkipType DEF Steps
  <2>2. CASE ~(local.status.phase # "")
    <3> DEFINE status == [local.status EXCEPT
                            !.phase = "Pending",
                            !.conditions = SetConditions(@, local.gen,
                                             [Progressing |-> "True"])]
               new    == [server EXCEPT !.status = status]
    <3>1. PutObject(new, Goto("backend", new, TRUE), Requeue)
      BY <1>4, <2>2 DEF SetPendingPhase
    <3>2. SetConditions(local.status.conditions, local.gen,
                        [Progressing |-> "True"]) \in Conditions
      BY <2>0, LocalType, StatusType, SetConditionsType
    <3>3. status \in Statuses
      BY <3>2, <2>0, LocalType, StatusType, PendingStatusType
    <3> HIDE DEF status
    <3>4. localFresh => new \in Objects
      BY <3>3, <2>0, StatusPutType
    <3> HIDE DEF new
    <3> QED BY <3>1, <3>4, PutAndGoOnType DEF Steps
  <2> QED BY <2>1, <2>2
<1>5. CASE ReconcileEmbeddedBackend
  <2>1. local.spec.backend \in Backends
    BY <1>5, LocalType, StatusType, SpecsAssumption
       DEF ReconcileEmbeddedBackend, AllSpecs
  <2>2. pc # "idle" /\ \E next \in Steps \ {"idle"} : Skip(next)
    BY <1>5, <2>1 DEF ReconcileEmbeddedBackend, Backends, Steps, Kinds
  <2> QED BY <2>2, SkipType
<1>6. CASE ReconcileRedisDeployment
  <2>1. /\ pc = "redisDeployment"
        /\ Ensure("redisDeployment",
                  Goto("redisService", local, localFresh), BackendFailed)
    BY <1>6 DEF ReconcileRedisDeployment
  <2>2. UNCHANGED server /\ (Goto("redisService", local, localFresh)
                               \/ BackendFailed) => GoesOn
    BY <2>1, GotoType DEF BackendFailed, Steps, Kinds
  <2> QED BY <2>1, <2>2, EnsureType DEF Kinds
<1>7. CASE ReconcileRedisService
  <2> DEFINE marked == [local EXCEPT !.status.conditions =
                        SetConditions(@, local.gen, [BackendReady |-> "True"])]
  <2>1. /\ pc = "redisService"
        /\ Ensure("redisService",
                  Goto("configMap", marked, localFresh), BackendFailed)
    BY <1>7 DEF ReconcileRedisService
  <2>2. SetConditions(local.status.conditions, local.gen,
                      [BackendReady |-> "True"]) \in Conditions
    BY <2>1, LocalType, StatusType, SetConditionsType
  <2>3. marked \in Objects
    BY <2>1, <2>2, LocalType, ConditionsUpdateType
  <2> HIDE DEF marked
  <2>4. UNCHANGED server /\ BackendFailed => GoesOn
    BY <2>1, GotoType DEF BackendFailed, Steps
  <2>5. UNCHANGED server /\ Goto("configMap", marked, localFresh) => GoesOn
    BY <2>1, <2>3 DEF Goto, GoesOn, Steps, Kinds, TypeInv, TypeOK, Copies
  <2> QED BY <2>1, <2>4, <2>5, EnsureType DEF Kinds
<1>8. CASE ReportBackendFailure
  <2> DEFINE failure == [BackendReady |-> "False", Degraded |-> "True"]
             status  == [local.status EXCEPT !.conditions =
                           SetConditions(@, local.gen, failure)]
             new     == [server EXCEPT !.status = status]
  <2>1. pc = "backendFailed" /\ PutObject(new, Requeue, Requeue)
    BY <1>8 DEF ReportBackendFailure
  <2>2. SetConditions(local.status.conditions, local.gen, failure)
          \in Conditions
    BY <2>1, LocalType, StatusType, SetConditionsType
  <2>3. status \in Statuses
    BY <2>1, <2>2, LocalType, ConditionsUpdateType
  <2> HIDE DEF status
  <2>4. localFresh => new \in Objects
    BY <2>1, <2>3, StatusPutType
  <2> QED BY <2>1, <2>4, PutType, ReturnType
<1>9. CASE ReconcileConfigMap
  <2>1. /\ pc = "configMap"
        /\ Ensure("configMap", Goto("deployment", local, localFresh), Requeue)
    BY <1>9 DEF ReconcileConfigMap
  <2>2. UNCHANGED server /\ Goto("deployment", local, localFresh) => GoesOn
    BY <2>1, GotoType DEF Steps, Kinds
  <2> QED BY <2>1, <2>2, EnsureType, ReturnType DEF Kinds
<1>10. CASE ReconcileDeployment
  <2>1. /\ pc = "deployment"
        /\ Ensure("deployment", Goto("service", local, localFresh), Requeue)
    BY <1>10 DEF ReconcileDeployment
  <2>2. UNCHANGED server /\ Goto("service", local, localFresh) => GoesOn
    BY <2>1, GotoType DEF Steps, Kinds
  <2> QED BY <2>1, <2>2, EnsureType, ReturnType DEF Kinds
<1>11. CASE ReconcileService
  <2>1. /\ pc = "service"
        /\ Ensure("service", Goto("disruptionBudget", local, localFresh),
                  Requeue)
    BY <1>11 DEF ReconcileService
  <2>2. UNCHANGED server /\ Goto("disruptionBudget", local, localFresh)
          => GoesOn
    BY <2>1, GotoType DEF Steps, Kinds
  <2> QED BY <2>1, <2>2, EnsureType, ReturnType DEF Kinds
<1>12. CASE ReconcilePDB
  <2>1. pc = "disruptionBudget"
    BY <1>12 DEF ReconcilePDB
  <2>2. UNCHANGED server /\ Goto("serviceMonitor", local, localFresh)
          => GoesOn
    BY <2>1, GotoType DEF Steps, Kinds
  <2>3. \/ Ensure("disruptionBudget",
                  Goto("serviceMonitor", local, localFresh), Requeue)
        \/ Skip("serviceMonitor")
    BY <1>12 DEF ReconcilePDB
  <2> QED BY <2>1, <2>2, <2>3, EnsureType, SkipType, ReturnType DEF Kinds, Steps
<1>13. CASE ReconcileServiceMonitor
  <2>1. pc = "serviceMonitor"
    BY <1>13 DEF ReconcileServiceMonitor
  <2>2. UNCHANGED server /\ Goto("status", local, localFresh) => GoesOn
    BY <2>1, GotoType DEF Steps
  <2>3. \/ Ensure("serviceMonitor", Goto("status", local, localFresh),
                  Goto("status", local, localFresh))
        \/ Skip("status")
    BY <1>13 DEF ReconcileServiceMonitor
  <2> QED BY <2>1, <2>2, <2>3, EnsureType, SkipType DEF Kinds, Steps
<1>14. CASE UpdateStatus
  <2> DEFINE status == Report(local, cachedChild["deployment"])
             new    == [server EXCEPT !.status = status]
  <2>1. pc = "status" /\ PutObject(new, Finish, Requeue)
    BY <1>14 DEF UpdateStatus
  <2>2. cachedChild["deployment"] \in Children \cup {Absent}
    BY DEF TypeInv, TypeOK, Owned, Kinds
  <2>3. status \in Statuses
    BY <2>1, <2>2, LocalType, ReportType
  <2> HIDE DEF status
  <2>4. localFresh => new \in Objects
    BY <2>1, <2>3, StatusPutType
  <2> QED BY <2>1, <2>4, PutType, ReturnType
<1> QED
  BY <1>1, <1>2, <1>3, <1>4, <1>5, <1>6, <1>7, <1>8, <1>9, <1>10, <1>11,
     <1>12, <1>13, <1>14 DEF ReconcileStep

LEMMA NewObjectType ==
    ASSUME NEW s \in Specs, NEW u \in Nat
    PROVE  [uid |-> u + 1, gen |-> 1, spec |-> s, finalizer |-> FALSE,
            deleting |-> FALSE, status |-> NoStatus] \in Objects
<1>1. NoStatus \in Statuses
  BY DEF NoStatus, Statuses, Phases, Conditions, Rollouts, NoRollout
<1> QED BY <1>1 DEF Objects

LEMMA EditedObjectType ==
    ASSUME NEW o \in Objects, NEW s \in Specs
    PROVE  /\ [o EXCEPT !.spec = s, !.gen = @ + 1] \in Objects
           /\ [o EXCEPT !.deleting = TRUE, !.gen = @ + 1] \in Objects
<1>1. o.gen + 1 \in Nat
  BY DEF Objects
<1> DEFINE g == o.gen + 1
<1> HIDE DEF g
<1>2. [o EXCEPT !.spec = s, !.gen = g] \in Objects
  BY <1>1 DEF Objects, g
<1>3. [o EXCEPT !.deleting = TRUE, !.gen = g] \in Objects
  BY <1>1 DEF Objects, g
<1> QED BY <1>2, <1>3 DEF g

\* A report of the Deployment controller.
LEMMA PodsReport ==
    ASSUME TypeInv, NEW k \in Deployments, PodsSettle(k) \/ PodsFlap(k)
    PROVE  /\ k \in Kinds /\ k \in Owned /\ children[k] # Absent
           /\ \E r \in Rollouts :
                WriteChild(k, [children[k] EXCEPT !.rollout = r])
           /\ UNCHANGED <<webhook, toggles, uids, crashes, drifts>>
           /\ flaps' \in Nat
<1>0. k \in Kinds /\ k \in Owned
  BY DEF Deployments, Kinds, Owned
<1>1. CASE PodsSettle(k)
  <2> DEFINE n == children[k].content.replicas
  <2>1. children[k] # Absent /\ [replicas |-> n, ready |-> n] \in Rollouts
    BY <1>0, <1>1 DEF PodsSettle, TypeInv, TypeOK, Children, Contents, Rollouts
  <2>2. /\ WriteChild(k, [children[k] EXCEPT !.rollout =
                            [replicas |-> n, ready |-> n]])
        /\ UNCHANGED bounds
    BY <1>1 DEF PodsSettle
  <2> QED BY <1>0, <2>1, <2>2 DEF bounds, TypeInv, TypeOK
<1>2. CASE PodsFlap(k)
  <2>1. PICK n \in 0..MaxReplicas : \E m \in 0..n :
          WriteChild(k, [children[k] EXCEPT !.rollout =
                           [replicas |-> n, ready |-> m]])
    BY <1>2 DEF PodsFlap
  <2>2. PICK m \in 0..n :
          WriteChild(k, [children[k] EXCEPT !.rollout =
                           [replicas |-> n, ready |-> m]])
    BY <2>1
  <2>3. [replicas |-> n, ready |-> m] \in Rollouts
    BY BoundsAssumption DEF Rollouts
  <2> QED BY <1>0, <1>2, <2>2, <2>3 DEF PodsFlap, TypeInv, TypeOK
<1> QED BY <1>1, <1>2

LEMMA EnvironmentType ==
    ASSUME TypeInv,
           \/ Informers /\ UNCHANGED bounds
           \/ User
           \/ \E k \in Deployments : PodsSettle(k) \/ PodsFlap(k)
           \/ \E k \in Kinds : DriftChild(k)
           \/ \E k \in Kinds : CollectGarbage(k) /\ UNCHANGED bounds
           \/ Crash \/ ToggleWebhook
    PROVE  TypeInv'
<1> USE DEF TypeInv, TypeOK, Copies
\* Other clients' writes of the object and of a child.
<1>1. ASSUME NEW STATE new, new \in Objects \cup {Absent}, WriteObject(new),
             uids' \in Nat, crashes' \in Nat, drifts' \in Nat, flaps' \in Nat,
             webhook' \in BOOLEAN, toggles' \in Nat
      PROVE  TypeInv'
  BY <1>1 DEF WriteObject, childVars
<1>2. ASSUME NEW STATE k, NEW STATE new, new \in Children \cup {Absent},
             WriteChild(k, new),
             uids' \in Nat, crashes' \in Nat, drifts' \in Nat, flaps' \in Nat,
             webhook' \in BOOLEAN, toggles' \in Nat
      PROVE  TypeInv'
  <2>1. children' \in [Kinds -> Children \cup {Absent}]
    BY <1>2 DEF WriteChild
  <2>2. freshChild' \subseteq Owned
    BY <1>2 DEF WriteChild
  <2>3. UNCHANGED <<server, cached, cacheFresh, cachedChild, pc, local,
                    localFresh, queued, fails>>
    BY <1>2 DEF WriteChild, objectVars, runVars
  <2> QED BY <1>2, <2>1, <2>2, <2>3
<1>3. CASE Informers /\ UNCHANGED bounds
  <2>1. CASE SyncObject
    BY <1>3, <2>1 DEF SyncObject, childVars, bounds
  <2>2. ASSUME NEW k \in Owned, SyncChild(k)
        PROVE  TypeInv'
    <3>1. children[k] \in Children \cup {Absent}
      BY DEF Owned
    <3>2. cachedChild' \in [Owned -> Children \cup {Absent}]
      BY <2>2, <3>1 DEF SyncChild
    <3>3. freshChild' \subseteq Owned
      BY <2>2 DEF SyncChild
    <3> QED BY <1>3, <2>2, <3>2, <3>3 DEF SyncChild, objectVars, bounds
  <2> QED BY <1>3, <2>1, <2>2 DEF Informers
<1>4. CASE User
  <2>1. ASSUME NEW s \in Specs, CreateCluster(s)
        PROVE  TypeInv'
    BY <1>1, <2>1, NewObjectType DEF CreateCluster
  <2>2. ASSUME NEW s \in Specs, EditSpec(s)
        PROVE  TypeInv'
    <3>1. [server EXCEPT !.spec = s, !.gen = @ + 1] \in Objects
      BY <2>2, EditedObjectType DEF EditSpec
    <3> QED BY <1>1, <2>2, <3>1 DEF EditSpec, bounds
  <2>3. CASE DeleteCluster
    <3>1. [server EXCEPT !.deleting = TRUE, !.gen = @ + 1] \in Objects
      <4>1. server \in Objects
        BY <2>3 DEF DeleteCluster
      <4> QED BY <4>1, EditedObjectType DEF Objects
    <3> QED BY <1>1, <2>3, <3>1 DEF DeleteCluster, bounds
  <2> QED BY <1>4, <2>1, <2>2, <2>3 DEF User
<1>5. ASSUME NEW k \in Deployments, PodsSettle(k) \/ PodsFlap(k)
      PROVE  TypeInv'
  <2>1. PICK r \in Rollouts : WriteChild(k, [children[k] EXCEPT !.rollout = r])
    BY <1>5, PodsReport
  <2>2. [children[k] EXCEPT !.rollout = r] \in Children
    BY <1>5, PodsReport DEF Children
  <2> QED BY <1>2, <1>5, <2>1, <2>2, PodsReport
<1>6. ASSUME NEW k \in Kinds, DriftChild(k)
      PROVE  TypeInv'
  <2>1. [children[k] EXCEPT !.content = Drifted] \in Children
    BY <1>6 DEF DriftChild, Children, Contents, Drifted
  <2>2. /\ uids' \in Nat /\ crashes' \in Nat /\ drifts' \in Nat /\ flaps' \in Nat
        /\ webhook' \in BOOLEAN /\ toggles' \in Nat
    BY <1>6 DEF DriftChild
  <2> QED BY <1>2, <1>6, <2>1, <2>2 DEF DriftChild
<1>7. ASSUME NEW k \in Kinds, CollectGarbage(k), UNCHANGED bounds
      PROVE  TypeInv'
  BY <1>2, <1>7 DEF CollectGarbage, bounds
<1>8. CASE Crash
  <2>1. cachedChild' \in [Owned -> Children \cup {Absent}]
    BY <1>8 DEF Crash, Restart, Watched, Owned
  <2>2. freshChild' \subseteq Owned
    BY <1>8 DEF Crash, Restart, Watched
  <2>3. /\ pc' = "idle" /\ local' = Absent /\ localFresh' = FALSE
        /\ queued' = TRUE /\ cached' = server /\ cacheFresh' = TRUE
        /\ UNCHANGED <<server, children, fails, uids, drifts, flaps,
                       webhook, toggles>>
        /\ crashes' = crashes + 1
    BY <1>8 DEF Crash, Restart, Requeue, Return
  <2>4. pc' \in Steps
    BY <2>3 DEF Steps
  <2>5. TypeOK'
    <3>1. crashes' \in Nat
      BY <2>3
    <3> QED BY <2>1, <2>2, <2>3, <2>4, <3>1
  <2>6. Copies'
    BY <2>3
  <2> QED BY <2>5, <2>6
<1>9. CASE ToggleWebhook
  BY <1>9 DEF ToggleWebhook, objectVars, childVars, runVars
<1> QED BY <1>3, <1>4, <1>5, <1>6, <1>7, <1>8, <1>9

\* Every variable has its type, and current copies are what they claim to be,
\* throughout every behaviour of the controller.
THEOREM TypeCorrect == Spec => []TypeInv
<1>1. Init => TypeInv
  <2> SUFFICES ASSUME Init PROVE TypeInv
    OBVIOUS
  <2>1. /\ children \in [Kinds -> Children \cup {Absent}]
        /\ cachedChild \in [Owned -> Children \cup {Absent}]
        /\ freshChild \subseteq Owned /\ pc \in Steps
    BY DEF Init, Steps
  <2>2. /\ fails \in Nat /\ uids \in Nat
        /\ crashes \in Nat /\ drifts \in Nat /\ flaps \in Nat
        /\ webhook \in BOOLEAN /\ toggles \in Nat
    BY DEF Init
  <2> QED BY <2>1, <2>2 DEF Init, TypeInv, TypeOK, Copies
<1>2. TypeInv /\ [Next]_vars => TypeInv'
  <2>1. TypeInv /\ UNCHANGED vars => TypeInv'
    BY DEF vars, objectVars, childVars, runVars, bounds, TypeInv, TypeOK,
           Copies
  <2> QED BY <2>1, ReconcileStepType, EnvironmentType DEF Next
<1> QED BY <1>1, <1>2, PTL DEF Spec

\* Every variable has its type.
THEOREM TypeOKCorrect == Spec => []TypeOK
<1>1. TypeInv => TypeOK
  BY DEF TypeInv
<1> QED BY <1>1, TypeCorrect, PTL

==============================================================================
