----------------------- MODULE OJSClusterHistory_proofs -----------------------
(***************************************************************************)
(* Proofs of what the OJSCluster controller keeps true from one version of *)
(* the cluster to the next: the generations its conditions carry never go  *)
(* back, no child exists before the finalizer does, and the generation on  *)
(* the Ready condition implements ObservedGeneration.                      *)
(***************************************************************************)
EXTENDS OJSCluster_proofs

(***************************************************************************)
(* ObservedNeverRegresses.                                                 *)
(***************************************************************************)

\* Version new of object old carries generations at least as late on every
\* condition, and none that is yet to come.
Advances(old, new) ==
    \A t \in CondTypes :
       /\ old.status.conditions[t].gen <= new.status.conditions[t].gen
       /\ new.status.conditions[t].gen <= new.gen

\* No condition carries a generation that is yet to come, and a copy that the
\* API server would accept is not behind the stored object.
ObservedInv ==
    /\ server # Absent =>
         \A t \in CondTypes : server.status.conditions[t].gen <= server.gen
    /\ localFresh => local.gen = server.gen /\ Advances(server, local)

\* The generations on the conditions of the stored object do not go back.
NotBack ==
    server # Absent /\ server' # Absent =>
      \A t \in CondTypes : server'.status.conditions[t].gen
                             >= server.status.conditions[t].gen

LEMMA GenerationTypes ==
    ASSUME NEW o \in Objects
    PROVE  /\ o.gen \in Nat
           /\ \A t \in CondTypes : o.status.conditions[t].gen \in Nat
BY DEF Objects, Statuses, Conditions

\* What a step has to do to the stored object and to the running call's copy.
LEMMA StepObserved ==
    ASSUME TypeInv, TypeInv', ObservedInv,
           \/ UNCHANGED server
           \/ server' = Absent
           \/ server # Absent /\ Advances(server, server')
           \/ /\ server = Absent
              /\ \A t \in CondTypes : server'.status.conditions[t].gen = 0,
           localFresh' =>
             \/ local' = server'
             \/ /\ UNCHANGED server
                /\ local'.gen = server.gen /\ Advances(server, local')
    PROVE  ObservedInv' /\ NotBack
<1>1. /\ server # Absent => server \in Objects
      /\ server' # Absent => server' \in Objects
      /\ localFresh' => server' # Absent
  BY DEF TypeInv, TypeOK, Copies
<1>2. /\ server # Absent =>
           /\ server.gen \in Nat
           /\ \A t \in CondTypes : server.status.conditions[t].gen \in Nat
      /\ server' # Absent =>
           /\ server'.gen \in Nat
           /\ \A t \in CondTypes : server'.status.conditions[t].gen \in Nat
  BY <1>1, GenerationTypes
<1>3. server' # Absent =>
        \A t \in CondTypes : server'.status.conditions[t].gen <= server'.gen
  BY <1>2 DEF ObservedInv, Advances
<1>4. localFresh' => local'.gen = server'.gen /\ Advances(server', local')
  BY <1>1, <1>2, <1>3 DEF Advances
<1>5. NotBack
  BY <1>2 DEF NotBack, Advances
<1> QED BY <1>3, <1>4, <1>5 DEF ObservedInv

\* Conditions set on a copy that is accepted advance the stored object.
LEMMA SetConditionsAdvances ==
    ASSUME TypeInv, ObservedInv, localFresh, NEW verdict, NEW status,
           status.conditions = SetConditions(local.status.conditions,
                                             local.gen, verdict)
    PROVE  /\ Advances(server, [server EXCEPT !.status = status])
           /\ Advances(server, [local EXCEPT !.status.conditions =
                                  status.conditions])
<1>1. server \in Objects /\ local \in Objects /\ server # Absent
  BY DEF TypeInv, TypeOK, Copies
<1>2. local.gen = server.gen
  BY DEF ObservedInv
<1>3. ASSUME NEW t \in CondTypes
      PROVE  /\ server.status.conditions[t].gen <= status.conditions[t].gen
             /\ status.conditions[t].gen <= server.gen
  <2>1. \/ status.conditions[t].gen = local.gen
        \/ status.conditions[t] = local.status.conditions[t]
    BY DEF SetConditions
  <2>2. /\ server.status.conditions[t].gen <= local.status.conditions[t].gen
        /\ local.status.conditions[t].gen <= local.gen
        /\ server.status.conditions[t].gen <= server.gen
    BY <1>1 DEF ObservedInv, Advances
  <2>3. server.gen \in Nat
    BY <1>1, GenerationTypes
  <2> QED BY <1>2, <2>1, <2>2, <2>3
<1>4. Advances(server, [server EXCEPT !.status = status])
  <2> DEFINE new == [server EXCEPT !.status = status]
  <2>1. new.gen = server.gen /\ new.status = status
    BY <1>1 DEF Objects
  <2> HIDE DEF new
  <2>2. Advances(server, new)
    BY <1>3, <2>1 DEF Advances
  <2> QED BY <2>2 DEF new
<1>5. Advances(server, [local EXCEPT !.status.conditions = status.conditions])
  <2> DEFINE new == [local EXCEPT !.status.conditions = status.conditions]
  <2>1. new.gen = local.gen /\ new.status.conditions = status.conditions
    BY <1>1 DEF Objects, Statuses
  <2> HIDE DEF new
  <2>2. Advances(server, new)
    BY <1>2, <1>3, <2>1 DEF Advances
  <2> QED BY <2>2 DEF new
<1> QED BY <1>4, <1>5

\* A write of the object that advances it.
LEMMA PutObserved ==
    ASSUME TypeInv, TypeInv', ObservedInv,
           NEW STATE new, NEW ACTION Done, NEW ACTION Failed,
           PutObject(new, Done, Failed),
           localFresh => new = Absent \/ Advances(server, new),
           Failed => Return,
           Done => Return \/ local' = new
    PROVE  ObservedInv' /\ NotBack
<1>1. \/ localFresh /\ server' = new /\ (Return \/ local' = new)
      \/ UNCHANGED server /\ Return
  BY DEF PutObject, Store
<1>2. localFresh => server # Absent
  BY DEF TypeInv, Copies
<1> QED BY <1>1, <1>2, StepObserved DEF Return

\* A CreateOrUpdate, after which the running call goes on with its copy or
\* returns.
LEMMA EnsureObserved ==
    ASSUME TypeInv, TypeInv', ObservedInv, pc # "idle", NEW k \in Kinds,
           NEW ACTION Done, NEW ACTION Failed, Ensure(k, Done, Failed),
           Done \/ Failed => \/ Return
                             \/ UNCHANGED <<local, localFresh>>
                             \/ /\ UNCHANGED localFresh
                                /\ localFresh => local'.gen = local.gen
                                     /\ Advances(server, local')
    PROVE  ObservedInv' /\ NotBack
<1>1. UNCHANGED server /\ (Done \/ Failed)
  BY DEF Ensure, CreateOrUpdate, objectVars
<1> QED BY <1>1, StepObserved DEF ObservedInv, Return

\* The call ends without a request, or after a refused one.
LEMMA RefusedObserved ==
    ASSUME TypeInv, TypeInv', ObservedInv, Finish \/ Requeue,
           UNCHANGED <<objectVars, childVars, fails>>
    PROVE  ObservedInv' /\ NotBack
BY StepObserved DEF Finish, Requeue, Return, objectVars

LEMMA ReconcileStepObserved ==
    ASSUME TypeInv, TypeInv', ObservedInv, ReconcileStep
    PROVE  ObservedInv' /\ NotBack
<1>0. localFresh => server \in Objects /\ local \in Objects
  BY DEF TypeInv, TypeOK, Copies
<1>1. CASE StartReconcile
  <2>1. /\ UNCHANGED server
        /\ \/ UNCHANGED <<local, localFresh>>
           \/ local' = cached /\ localFresh' = cacheFresh
    BY <1>1 DEF StartReconcile, objectVars
  <2>2. cacheFresh => cached = server
    BY DEF TypeInv, Copies
  <2> QED BY <2>1, <2>2, StepObserved DEF ObservedInv
<1>2. CASE RemoveFinalizer
  <2>1. CASE local.finalizer
    <3>1. PutCluster(Absent, Finish, Requeue)
      BY <1>2, <2>1 DEF RemoveFinalizer
    <3>2. CASE PutObject(Absent, Finish, Requeue)
      BY <3>2, PutObserved DEF Finish, Requeue
    <3> QED BY <3>1, <3>2, RefusedObserved DEF PutCluster
  <2>2. CASE ~local.finalizer
    BY <1>2, <2>2, RefusedObserved DEF RemoveFinalizer
  <2> QED BY <2>1, <2>2
<1>3. CASE AddFinalizer
  <2>1. CASE local.finalizer
    BY <1>3, <2>1, StepObserved DEF AddFinalizer, Skip, Goto, objectVars,
                                    ObservedInv
  <2>2. CASE ~local.finalizer
    <3> DEFINE new == [server EXCEPT !.finalizer = TRUE]
    <3>1. PutCluster(new, Goto("phase", new, TRUE), Requeue)
      BY <1>3, <2>2 DEF AddFinalizer
    <3>2. localFresh => new.gen = server.gen /\ new.status = server.status
      BY <1>0 DEF Objects
    <3>3. localFresh =>
            /\ server.gen \in Nat
            /\ \A t \in CondTypes :
                 /\ server.status.conditions[t].gen \in Nat
                 /\ server.status.conditions[t].gen <= server.gen
      BY <1>0, GenerationTypes DEF ObservedInv, TypeInv, Copies
    <3> HIDE DEF new
    <3>4. localFresh => Advances(server, new)
      BY <3>2, <3>3 DEF Advances
    <3>5. CASE PutObject(new, Goto("phase", new, TRUE), Requeue)
      BY <3>4, <3>5, PutObserved DEF Goto, Requeue
    <3> QED BY <3>1, <3>5, RefusedObserved DEF PutCluster
  <2> QED BY <2>1, <2>2
<1>4. CASE SetPendingPhase
  <2>1. CASE local.status.phase # ""
    BY <1>4, <2>1, StepObserved DEF SetPendingPhase, Skip, Goto, objectVars,
                                    ObservedInv
  <2>2. CASE ~(local.status.phase # "")
    <3> DEFINE set    == SetConditions(local.status.conditions, local.gen,
                                       [Progressing |-> "True"])
               status == [local.status EXCEPT !.phase = "Pending",
                                              !.conditions = set]
               new    == [server EXCEPT !.status = status]
    <3>1. PutObject(new, Goto("backend", new, TRUE), Requeue)
      BY <1>4, <2>2 DEF SetPendingPhase
    <3>2. localFresh => status.conditions = set
      BY <1>0 DEF Objects, Statuses
    <3> HIDE DEF status
    <3>3. localFresh => Advances(server, new)
      BY <3>2, SetConditionsAdvances
    <3> HIDE DEF new
    <3> QED BY <3>1, <3>3, PutObserved DEF Goto, Requeue
  <2> QED BY <2>1, <2>2
<1>5. CASE ReconcileEmbeddedBackend
  BY <1>5, StepObserved DEF ReconcileEmbeddedBackend, Skip, Goto, objectVars,
                            ObservedInv
<1>6. CASE ReconcileRedisDeployment
  BY <1>6, EnsureObserved DEF ReconcileRedisDeployment, Goto, BackendFailed,
                              Kinds
<1>7. CASE ReconcileRedisService
  <2> DEFINE set    == SetConditions(local.status.conditions, local.gen,
                                     [BackendReady |-> "True"])
             marked == [local EXCEPT !.status.conditions = set]
  <2>1. /\ pc = "redisService"
        /\ Ensure("redisService",
                  Goto("configMap", marked, localFresh), BackendFailed)
    BY <1>7 DEF ReconcileRedisService
  <2>2. localFresh => marked.gen = local.gen
    BY <1>0 DEF Objects
  <2>3. localFresh => Advances(server, marked)
    <3>1. [conditions |-> set].conditions = set
      OBVIOUS
    <3> QED BY <3>1, SetConditionsAdvances
  <2> HIDE DEF marked
  <2> QED BY <2>1, <2>2, <2>3, EnsureObserved DEF Goto, BackendFailed, Kinds
<1>8. CASE ReportBackendFailure
  <2> DEFINE set    == SetConditions(local.status.conditions, local.gen,
                         [BackendReady |-> "False", Degraded |-> "True"])
             status == [local.status EXCEPT !.conditions = set]
             new    == [server EXCEPT !.status = status]
  <2>1. PutObject(new, Requeue, Requeue)
    BY <1>8 DEF ReportBackendFailure
  <2>2. localFresh => status.conditions = set
    BY <1>0 DEF Objects, Statuses
  <2> HIDE DEF status
  <2>3. localFresh => Advances(server, new)
    BY <2>2, SetConditionsAdvances
  <2> HIDE DEF new
  <2> QED BY <2>1, <2>3, PutObserved DEF Requeue
<1>9. CASE ReconcileConfigMap
  BY <1>9, EnsureObserved DEF ReconcileConfigMap, Goto, Requeue, Kinds
<1>10. CASE ReconcileDeployment
  BY <1>10, EnsureObserved DEF ReconcileDeployment, Goto, Requeue, Kinds
<1>11. CASE ReconcileService
  BY <1>11, EnsureObserved DEF ReconcileService, Goto, Requeue, Kinds
<1>12. CASE ReconcilePDB
  <2>1. CASE Skip("serviceMonitor")
    BY <2>1, StepObserved DEF Skip, Goto, objectVars, ObservedInv
  <2> QED BY <1>12, <2>1, EnsureObserved DEF ReconcilePDB, Goto, Requeue, Kinds
<1>13. CASE ReconcileServiceMonitor
  <2>1. CASE Skip("status")
    BY <2>1, StepObserved DEF Skip, Goto, objectVars, ObservedInv
  <2> QED BY <1>13, <2>1, EnsureObserved DEF ReconcileServiceMonitor, Goto, Kinds
<1>14. CASE UpdateStatus
  <2> DEFINE status == Report(local, cachedChild["deployment"])
             new    == [server EXCEPT !.status = status]
  <2>1. PutObject(new, Finish, Requeue)
    BY <1>14 DEF UpdateStatus
  <2>2. \E verdict : status.conditions =
                       SetConditions(local.status.conditions, local.gen,
                                     verdict)
    BY DEF Report
  <2> HIDE DEF status
  <2>3. localFresh => Advances(server, new)
    BY <2>2, SetConditionsAdvances
  <2> HIDE DEF new
  <2> QED BY <2>1, <2>3, PutObserved DEF Finish, Requeue
<1> QED
  BY <1>1, <1>2, <1>3, <1>4, <1>5, <1>6, <1>7, <1>8, <1>9, <1>10, <1>11,
     <1>12, <1>13, <1>14 DEF ReconcileStep

LEMMA EnvironmentObserved ==
    ASSUME TypeInv, TypeInv', ObservedInv,
           \/ Informers /\ UNCHANGED bounds
           \/ User
           \/ \E k \in Deployments : PodsSettle(k) \/ PodsFlap(k)
           \/ \E k \in Kinds : DriftChild(k)
           \/ \E k \in Kinds : CollectGarbage(k) /\ UNCHANGED bounds
           \/ Crash \/ ToggleWebhook
    PROVE  ObservedInv' /\ NotBack
<1>1. ASSUME UNCHANGED <<server, local, localFresh>>
      PROVE  ObservedInv' /\ NotBack
  BY <1>1, StepObserved DEF ObservedInv
<1>2. CASE Informers
  BY <1>1, <1>2 DEF Informers, SyncObject, SyncChild, objectVars
<1>3. CASE User
  <2>1. ASSUME NEW s \in Specs, CreateCluster(s)
        PROVE  ObservedInv' /\ NotBack
    <3>1. server = Absent /\ localFresh' = FALSE /\ server'.status = NoStatus
      BY <2>1 DEF CreateCluster, WriteObject
    <3>2. \A t \in CondTypes : NoStatus.conditions[t].gen = 0
      BY DEF NoStatus
    <3> QED BY <3>1, <3>2, StepObserved
  <2>2. ASSUME NEW STATE new, WriteObject(new), server # Absent,
               new = Absent \/ (new.gen = server.gen + 1
                                  /\ new.status = server.status)
        PROVE  ObservedInv' /\ NotBack
    <3>1. localFresh' = FALSE /\ server' = new
      BY <2>2 DEF WriteObject
    <3>2. /\ server.gen \in Nat
          /\ \A t \in CondTypes :
               /\ server.status.conditions[t].gen \in Nat
               /\ server.status.conditions[t].gen <= server.gen
      BY <2>2, GenerationTypes DEF TypeInv, TypeOK, ObservedInv
    <3>3. new # Absent => Advances(server, new)
      BY <2>2, <3>2 DEF Advances
    <3> QED BY <2>2, <3>1, <3>3, StepObserved
  <2>3. ASSUME NEW s \in Specs, EditSpec(s)
        PROVE  ObservedInv' /\ NotBack
    <3> DEFINE new == [server EXCEPT !.spec = s, !.gen = @ + 1]
    <3>1. server \in Objects /\ server # Absent /\ WriteObject(new)
      BY <2>3 DEF EditSpec, TypeInv, TypeOK
    <3>2. new.gen = server.gen + 1 /\ new.status = server.status
      BY <3>1 DEF Objects
    <3> HIDE DEF new
    <3> QED BY <2>2, <3>1, <3>2
  <2>4. CASE DeleteCluster
    <3> DEFINE new == IF server.finalizer
                      THEN [server EXCEPT !.deleting = TRUE, !.gen = @ + 1]
                      ELSE Absent
    <3>1. server \in Objects /\ server # Absent /\ WriteObject(new)
      BY <2>4 DEF DeleteCluster, TypeInv, TypeOK
    <3>2. new = Absent \/ (new.gen = server.gen + 1
                             /\ new.status = server.status)
      BY <3>1 DEF Objects
    <3> HIDE DEF new
    <3> QED BY <2>2, <3>1, <3>2
  <2> QED BY <1>3, <2>1, <2>3, <2>4 DEF User
<1>4. CASE \/ \E k \in Deployments : PodsSettle(k) \/ PodsFlap(k)
           \/ \E k \in Kinds : DriftChild(k)
           \/ \E k \in Kinds : CollectGarbage(k) /\ UNCHANGED bounds
  <2>1. \E k, new : WriteChild(k, new)
    BY <1>4 DEF PodsSettle, PodsFlap, DriftChild, CollectGarbage
  <2>2. UNCHANGED <<server, local, localFresh>>
    BY <2>1 DEF WriteChild, objectVars, runVars
  <2> QED BY <1>1, <2>2
<1>5. CASE Crash
  BY <1>5, StepObserved DEF Crash, Restart, Requeue, Return
<1>6. CASE ToggleWebhook
  BY <1>1, <1>6 DEF ToggleWebhook, objectVars, runVars
<1> QED BY <1>2, <1>3, <1>4, <1>5, <1>6

\* No condition carries a generation that is yet to come, and a copy that the
\* API server would accept is not behind the stored object.
THEOREM ObservedInductive == Spec => []ObservedInv
<1>1. Init => ObservedInv
  BY DEF Init, ObservedInv
<1>2. TypeInv /\ TypeInv' /\ ObservedInv /\ [Next]_vars => ObservedInv'
  <2>1. ObservedInv /\ UNCHANGED vars => ObservedInv'
    BY DEF ObservedInv, vars, objectVars, runVars
  <2> QED BY <2>1, ReconcileStepObserved, EnvironmentObserved DEF Next
<1> QED BY <1>1, <1>2, TypeCorrect, PTL DEF Spec

\* The generation a condition reports as observed never goes back, whatever
\* copies the passes of Reconcile start from and whatever answers are lost.
THEOREM ObservedNeverRegressesCorrect == Spec => ObservedNeverRegresses
<1>1. TypeInv /\ TypeInv' /\ ObservedInv /\ [Next]_vars => [NotBack]_vars
  BY ReconcileStepObserved, EnvironmentObserved DEF Next
<1>2. [NotBack]_vars =>
        [ server # Absent /\ server' # Absent /\ server'.uid = server.uid =>
            \A t \in CondTypes : server'.status.conditions[t].gen
                                   >= server.status.conditions[t].gen ]_vars
  BY DEF NotBack
<1> QED BY <1>1, <1>2, TypeCorrect, ObservedInductive, PTL
      DEF Spec, ObservedNeverRegresses

(***************************************************************************)
(* FinalizerFirst.                                                         *)
(***************************************************************************)

\* The steps at which the running call may not have the finalizer on its copy.
Unmarked == {"idle", "delete", "finalizer"}

\* Owners and copies are of OJSClusters created so far; a copy that carries the
\* finalizer is not of a cluster that does not; an accepted copy is of the stored
\* cluster; and a running call that has come to the children has a copy that
\* carries the finalizer.
FinalizerInv ==
    /\ \A k \in Kinds : children[k] # Absent => children[k].owner <= uids
    /\ \A o \in {server, cached, local} : o # Absent => o.uid <= uids
    /\ \A o \in {cached, local} :
         /\ o # Absent /\ server # Absent
         /\ o.uid = server.uid /\ o.finalizer
         => server.finalizer
    /\ localFresh => local.uid = server.uid
    /\ pc \notin Unmarked => local.finalizer
    /\ FinalizerFirst

\* Child k was there before, for the same owner, or is the running call's.
Accounted(k) ==
    children'[k] # Absent =>
      \/ children[k] # Absent /\ children'[k].owner = children[k].owner
      \/ local # Absent /\ local.finalizer /\ children'[k].owner = local.uid

\* The object stays as it is, loses nothing but its existence, or is marked.
Marks(new) ==
    new = Absent \/ (new.uid = server.uid /\ (server.finalizer => new.finalizer))

\* What a step that creates no cluster has to do.
LEMMA StepFinalizer ==
    ASSUME FinalizerInv, UNCHANGED uids,
           UNCHANGED server \/ (server # Absent /\ Marks(server')),
           cached' \in {cached, server},
           \/ local' \in {Absent, cached, server'}
           \/ /\ local # Absent /\ local'.uid = local.uid
              /\ local'.finalizer = local.finalizer,
           localFresh' =>
             \/ local' = server'
             \/ UNCHANGED server /\ localFresh /\ local'.uid = local.uid,
           \A k \in Kinds : Accounted(k),
           pc' \notin Unmarked => local'.finalizer
    PROVE  FinalizerInv'
<1>1. \A k \in Kinds : children'[k] # Absent => children'[k].owner <= uids'
  BY DEF FinalizerInv, Accounted
<1>2. server' # Absent =>
        /\ server # Absent /\ server'.uid = server.uid
        /\ server.finalizer => server'.finalizer
  BY DEF Marks
<1>3. \A o \in {server', cached', local'} : o # Absent => o.uid <= uids'
  BY <1>2 DEF FinalizerInv
<1>4. \A o \in {cached', local'} :
        /\ o # Absent /\ server' # Absent
        /\ o.uid = server'.uid /\ o.finalizer
        => server'.finalizer
  BY <1>2 DEF FinalizerInv
<1>5. FinalizerFirst'
  BY <1>2 DEF FinalizerInv, FinalizerFirst, Accounted
<1> QED BY <1>1, <1>3, <1>4, <1>5 DEF FinalizerInv

\* A write of the object that keeps or sets its finalizer.
LEMMA PutFinalizer ==
    ASSUME TypeInv, FinalizerInv, UNCHANGED uids,
           NEW STATE new, NEW ACTION Done, NEW ACTION Failed,
           PutObject(new, Done, Failed),
           localFresh => Marks(new),
           Failed => Return,
           Done => Return \/ (local' = new /\ (localFresh => new.finalizer))
    PROVE  FinalizerInv'
<1>1. /\ UNCHANGED <<cached, children>>
      /\ \/ localFresh /\ server' = new /\ (Return \/ local' = new)
         \/ UNCHANGED server /\ Return
  BY DEF PutObject, Store, childVars
<1>2. pc' \notin Unmarked => local'.finalizer
  BY DEF PutObject, Return, Unmarked
<1>3. localFresh => server # Absent
  BY DEF TypeInv, Copies
<1>4. \A k \in Kinds : Accounted(k)
  BY <1>1 DEF Accounted
<1> QED BY <1>1, <1>2, <1>3, <1>4, StepFinalizer DEF Return

\* A step that writes neither the object nor a child.
LEMMA IdleFinalizer ==
    ASSUME FinalizerInv, UNCHANGED <<uids, server, cached, children>>,
           \/ local' \in {Absent, cached}
           \/ /\ local # Absent /\ local'.uid = local.uid
              /\ local'.finalizer = local.finalizer,
           localFresh' =>
             local' = server \/ (localFresh /\ local'.uid = local.uid),
           pc' \notin Unmarked => local'.finalizer
    PROVE  FinalizerInv'
BY StepFinalizer DEF Accounted

\* A CreateOrUpdate by a running call whose copy carries the finalizer.
LEMMA EnsureFinalizer ==
    ASSUME TypeInv, FinalizerInv, UNCHANGED uids, pc \notin Unmarked,
           NEW k \in Kinds, NEW ACTION Done, NEW ACTION Failed,
           Ensure(k, Done, Failed),
           Done \/ Failed =>
             \/ Return
             \/ /\ local'.uid = local.uid /\ local'.finalizer = local.finalizer
                /\ UNCHANGED localFresh
    PROVE  FinalizerInv'
<1>1. local # Absent /\ local.finalizer
  BY DEF FinalizerInv, TypeInv, Copies, Unmarked
<1> DEFINE new == [owner   |-> local.uid,
                   content |-> Desired(k, local.spec),
                   rollout |-> IF children[k] = Absent THEN NoRollout
                               ELSE children[k].rollout]
<1>2. /\ UNCHANGED <<server, cached>> /\ (Done \/ Failed)
      /\ children' \in {children, [children EXCEPT ![k] = new]}
  BY DEF Ensure, CreateOrUpdate, objectVars
<1>3. children \in [Kinds -> Children \cup {Absent}]
  BY DEF TypeInv, TypeOK
<1>4. \A j \in Kinds : Accounted(j)
  BY <1>1, <1>2, <1>3 DEF Accounted
<1>5. pc' \notin Unmarked => local'.finalizer
  BY <1>1, <1>2 DEF Return, Unmarked
<1>6. localFresh' => localFresh /\ local'.uid = local.uid
  BY <1>2 DEF Return
<1>7. \/ local' = Absent
      \/ local'.uid = local.uid /\ local'.finalizer = local.finalizer
  BY <1>2 DEF Return
<1> QED BY <1>1, <1>2, <1>4, <1>5, <1>6, <1>7, StepFinalizer

\* The call ends without a request, or after a refused one.
LEMMA RefusedFinalizer ==
    ASSUME TypeInv, FinalizerInv, UNCHANGED uids, Finish \/ Requeue,
           UNCHANGED <<objectVars, childVars, fails>>
    PROVE  FinalizerInv'
BY IdleFinalizer DEF Finish, Requeue, Return, objectVars, childVars, Unmarked

LEMMA ReconcileStepFinalizer ==
    ASSUME TypeInv, FinalizerInv, ReconcileStep, UNCHANGED uids
    PROVE  FinalizerInv'
<1>0. /\ localFresh => server \in Objects
      /\ pc # "idle" => local \in Objects /\ local # Absent
      /\ pc \notin Unmarked => local.finalizer
  BY DEF TypeInv, TypeOK, Copies, FinalizerInv
<1>1. ASSUME NEW next \in Steps, Skip(next), pc # "idle",
             next \notin Unmarked => local.finalizer
      PROVE  FinalizerInv'
  <2>1. /\ UNCHANGED <<server, cached, children, local, localFresh>>
        /\ pc' = next /\ local # Absent
    BY <1>0, <1>1 DEF Skip, Goto, objectVars, childVars
  <2> QED BY <1>1, <2>1, IdleFinalizer
\* A status written by a call that carries on with the answer or returns.
<1>2. ASSUME NEW STATE status, NEW ACTION Done,
             PutObject([server EXCEPT !.status = status], Done, Requeue),
             \/ Done => Return
             \/ /\ Done => local' = [server EXCEPT !.status = status]
                /\ localFresh => server.finalizer
      PROVE  FinalizerInv'
  <2> DEFINE new == [server EXCEPT !.status = status]
  <2>1. localFresh => /\ new.uid = server.uid
                      /\ new.finalizer = server.finalizer
    BY <1>0 DEF Objects
  <2>2. PutObject(new, Done, Requeue)
    BY <1>2
  <2>3. Done => Return \/ (local' = new /\ (localFresh => new.finalizer))
    BY <1>2, <2>1
  <2> HIDE DEF new
  <2>4. localFresh => Marks(new)
    BY <2>1 DEF Marks
  <2> QED BY <2>2, <2>3, <2>4, PutFinalizer DEF Requeue
<1>3. CASE StartReconcile
  <2>1. /\ UNCHANGED <<server, cached, children>>
        /\ \/ UNCHANGED <<pc, local, localFresh>> /\ pc = "idle"
           \/ local' = cached /\ localFresh' = cacheFresh /\ pc' \in Unmarked
    BY <1>3 DEF StartReconcile, objectVars, childVars, Unmarked
  <2>2. /\ pc = "idle" => local = Absent /\ ~localFresh
        /\ cacheFresh => cached = server
    BY DEF TypeInv, Copies
  <2> QED BY <2>1, <2>2, IdleFinalizer DEF Unmarked
<1>4. CASE RemoveFinalizer
  <2>1. CASE local.finalizer
    <3>1. PutCluster(Absent, Finish, Requeue)
      BY <1>4, <2>1 DEF RemoveFinalizer
    <3>2. CASE PutObject(Absent, Finish, Requeue)
      BY <3>2, PutFinalizer DEF Finish, Requeue, Marks
    <3> QED BY <3>1, <3>2, RefusedFinalizer DEF PutCluster
  <2>2. CASE ~local.finalizer
    BY <1>4, <2>2, RefusedFinalizer DEF RemoveFinalizer
  <2> QED BY <2>1, <2>2
<1>5. CASE AddFinalizer
  <2>1. CASE local.finalizer
    BY <1>1, <1>5, <2>1 DEF AddFinalizer, Steps
  <2>2. CASE ~local.finalizer
    <3> DEFINE new == [server EXCEPT !.finalizer = TRUE]
    <3>1. PutCluster(new, Goto("phase", new, TRUE), Requeue)
      BY <1>5, <2>2 DEF AddFinalizer
    <3>2. localFresh => new.uid = server.uid /\ new.finalizer
      BY <1>0 DEF Objects
    <3> HIDE DEF new
    <3>3. CASE PutObject(new, Goto("phase", new, TRUE), Requeue)
      BY <3>2, <3>3, PutFinalizer DEF Goto, Requeue, Marks
    <3> QED BY <3>1, <3>3, RefusedFinalizer DEF PutCluster
  <2> QED BY <2>1, <2>2
<1>6. CASE SetPendingPhase
  <2>1. pc = "phase" /\ local.finalizer
    BY <1>0, <1>6 DEF SetPendingPhase, Unmarked
  <2>2. CASE local.status.phase # ""
    BY <1>1, <1>6, <2>1, <2>2 DEF SetPendingPhase, Steps
  <2>3. CASE ~(local.status.phase # "")
    <3> DEFINE status == [local.status EXCEPT
                            !.phase = "Pending",
                            !.conditions = SetConditions(@, local.gen,
                                             [Progressing |-> "True"])]
               new    == [server EXCEPT !.status = status]
    <3>1. PutObject(new, Goto("backend", new, TRUE), Requeue)
      BY <1>6, <2>3 DEF SetPendingPhase
    <3>2. localFresh => server.finalizer
      BY <1>0, <2>1 DEF FinalizerInv, TypeInv, Copies
    <3> QED BY <3>1, <3>2, <1>2 DEF Goto
  <2> QED BY <2>2, <2>3
<1>7. CASE ReconcileEmbeddedBackend
  <2>1. pc = "backend" /\ local.finalizer
    BY <1>0, <1>7 DEF ReconcileEmbeddedBackend, Unmarked
  <2>2. local.spec.backend \in Backends
    BY <1>0, <2>1, StatusType, SpecsAssumption DEF AllSpecs
  <2>3. \E next \in Steps : Skip(next)
    BY <1>7, <2>2 DEF ReconcileEmbeddedBackend, Backends, Steps, Kinds
  <2> QED BY <1>1, <2>1, <2>3
<1>8. CASE ReconcileRedisDeployment
  BY <1>8, EnsureFinalizer DEF ReconcileRedisDeployment, Goto, BackendFailed,
                               Kinds, Unmarked
<1>9. CASE ReconcileRedisService
  <2> DEFINE marked == [local EXCEPT !.status.conditions =
                        SetConditions(@, local.gen, [BackendReady |-> "True"])]
  <2>1. /\ pc = "redisService"
        /\ Ensure("redisService",
                  Goto("configMap", marked, localFresh), BackendFailed)
    BY <1>9 DEF ReconcileRedisService
  <2>2. marked.uid = local.uid /\ marked.finalizer = local.finalizer
    BY <1>0, <2>1 DEF Objects
  <2> HIDE DEF marked
  <2> QED BY <2>1, <2>2, EnsureFinalizer DEF Goto, BackendFailed, Kinds,
                                             Unmarked
<1>10. CASE ReportBackendFailure
  BY <1>2, <1>10 DEF ReportBackendFailure, Requeue
<1>11. CASE ReconcileConfigMap
  BY <1>11, EnsureFinalizer DEF ReconcileConfigMap, Goto, Requeue, Kinds,
                                Unmarked
<1>12. CASE ReconcileDeployment
  BY <1>12, EnsureFinalizer DEF ReconcileDeployment, Goto, Requeue, Kinds,
                                Unmarked
<1>13. CASE ReconcileService
  BY <1>13, EnsureFinalizer DEF ReconcileService, Goto, Requeue, Kinds,
                                Unmarked
<1>14. CASE ReconcilePDB
  <2>1. pc = "disruptionBudget" /\ local.finalizer
    BY <1>0, <1>14 DEF ReconcilePDB, Unmarked
  <2>2. CASE Skip("serviceMonitor")
    BY <1>1, <2>1, <2>2 DEF Steps, Kinds
  <2> QED BY <1>14, <2>1, <2>2, EnsureFinalizer
          DEF ReconcilePDB, Goto, Requeue, Kinds, Unmarked
<1>15. CASE ReconcileServiceMonitor
  <2>1. pc = "serviceMonitor" /\ local.finalizer
    BY <1>0, <1>15 DEF ReconcileServiceMonitor, Unmarked
  <2>2. CASE Skip("status")
    BY <1>1, <2>1, <2>2 DEF Steps
  <2> QED BY <1>15, <2>1, <2>2, EnsureFinalizer
          DEF ReconcileServiceMonitor, Goto, Kinds, Unmarked
<1>16. CASE UpdateStatus
  BY <1>2, <1>16 DEF UpdateStatus, Finish
<1> QED
  BY <1>3, <1>4, <1>5, <1>6, <1>7, <1>8, <1>9, <1>10, <1>11, <1>12, <1>13,
     <1>14, <1>15, <1>16 DEF ReconcileStep

LEMMA EnvironmentFinalizer ==
    ASSUME TypeInv, FinalizerInv,
           \/ Informers /\ UNCHANGED bounds
           \/ User
           \/ \E k \in Deployments : PodsSettle(k) \/ PodsFlap(k)
           \/ \E k \in Kinds : DriftChild(k)
           \/ \E k \in Kinds : CollectGarbage(k) /\ UNCHANGED bounds
           \/ Crash \/ ToggleWebhook
    PROVE  FinalizerInv'
<1>0. /\ children \in [Kinds -> Children \cup {Absent}] /\ uids \in Nat
      /\ server # Absent => server \in Objects
      /\ localFresh => pc # "idle" /\ local # Absent
      /\ pc = "idle" <=> local = Absent
  BY DEF TypeInv, TypeOK, Copies
<1>1. ASSUME UNCHANGED <<uids, server, pc, local, localFresh>>,
             cached' \in {cached, server}, \A k \in Kinds : Accounted(k)
      PROVE  FinalizerInv'
  <2>1. pc' \notin Unmarked => local'.finalizer
    BY <1>1 DEF FinalizerInv
  <2> QED BY <1>0, <1>1, <2>1, StepFinalizer
<1>2. CASE Informers /\ UNCHANGED bounds
  <2>1. /\ UNCHANGED <<uids, server, pc, local, localFresh, children>>
        /\ cached' \in {cached, server}
    BY <1>2 DEF Informers, SyncObject, SyncChild, objectVars, childVars, bounds
  <2> QED BY <1>1, <2>1 DEF Accounted
<1>3. CASE User
  <2>1. ASSUME NEW s \in Specs, CreateCluster(s)
        PROVE  FinalizerInv'
    <3>1. /\ server = Absent /\ server'.uid = uids + 1 /\ uids' = uids + 1
          /\ ~localFresh'
          /\ UNCHANGED <<cached, local, pc, children>>
      BY <2>1 DEF CreateCluster, WriteObject, childVars
    <3>2. /\ \A k \in Kinds : children[k] # Absent => children[k].owner \in Nat
          /\ \A o \in {cached, local} : o # Absent => o.uid \in Nat
      BY DEF TypeInv, TypeOK, Children, Objects
    <3>3. \A k \in Kinds : children'[k] # Absent =>
            children'[k].owner <= uids' /\ children'[k].owner # server'.uid
      BY <1>0, <3>1, <3>2 DEF FinalizerInv
    <3>4. \A o \in {cached', local'} : o # Absent =>
            o.uid <= uids' /\ o.uid # server'.uid
      BY <1>0, <3>1, <3>2 DEF FinalizerInv
    <3>5. server'.uid <= uids'
      BY <1>0, <3>1
    <3>6. FinalizerFirst'
      BY <3>3 DEF FinalizerFirst
    <3> QED BY <3>1, <3>3, <3>4, <3>5, <3>6 DEF FinalizerInv
  <2>2. ASSUME NEW STATE new, WriteObject(new), server # Absent, Marks(new),
               UNCHANGED bounds
        PROVE  FinalizerInv'
    <3>1. /\ server' = new /\ ~localFresh'
          /\ UNCHANGED <<uids, cached, local, pc, children>>
      BY <2>2 DEF WriteObject, childVars, bounds
    <3>2. pc' \notin Unmarked => local'.finalizer
      BY <3>1 DEF FinalizerInv
    <3>3. \A k \in Kinds : Accounted(k)
      BY <3>1 DEF Accounted
    <3>4. server # Absent /\ Marks(server')
      BY <2>2, <3>1
    <3> QED BY <3>1, <3>2, <3>3, <3>4, StepFinalizer
  <2>3. ASSUME NEW s \in Specs, EditSpec(s)
        PROVE  FinalizerInv'
    <3> DEFINE new == [server EXCEPT !.spec = s, !.gen = @ + 1]
    <3>1. server # Absent /\ WriteObject(new) /\ UNCHANGED bounds
      BY <2>3 DEF EditSpec
    <3>2. Marks(new)
      BY <1>0, <3>1 DEF Marks, Objects
    <3> HIDE DEF new
    <3> QED BY <2>2, <3>1, <3>2
  <2>4. CASE DeleteCluster
    <3> DEFINE new == IF server.finalizer
                      THEN [server EXCEPT !.deleting = TRUE, !.gen = @ + 1]
                      ELSE Absent
    <3>1. server # Absent /\ WriteObject(new) /\ UNCHANGED bounds
      BY <2>4 DEF DeleteCluster
    <3>2. Marks(new)
      BY <1>0, <3>1 DEF Marks, Objects
    <3> HIDE DEF new
    <3> QED BY <2>2, <3>1, <3>2
  <2> QED BY <1>3, <2>1, <2>3, <2>4 DEF User
\* A child written by somebody else keeps its owner or goes away.
<1>4. ASSUME NEW k \in Kinds, NEW STATE new, WriteChild(k, new),
             new = Absent \/ (children[k] # Absent
                                /\ new.owner = children[k].owner),
             UNCHANGED uids
      PROVE  FinalizerInv'
  <2>1. /\ UNCHANGED <<server, cached, pc, local, localFresh>>
        /\ children' = [children EXCEPT ![k] = new]
    BY <1>4 DEF WriteChild, objectVars, runVars
  <2>2. \A j \in Kinds : Accounted(j)
    BY <1>0, <1>4, <2>1 DEF Accounted
  <2> QED BY <1>1, <1>4, <2>1, <2>2
<1>5. ASSUME NEW k \in Kinds, children[k] # Absent
      PROVE  /\ \A r : [children[k] EXCEPT !.rollout = r].owner
                          = children[k].owner
             /\ \A c : [children[k] EXCEPT !.content = c].owner
                          = children[k].owner
  BY <1>0, <1>5 DEF Children
<1>6. ASSUME NEW k \in Deployments, PodsSettle(k) \/ PodsFlap(k)
      PROVE  FinalizerInv'
  <2>1. PICK r \in Rollouts : WriteChild(k, [children[k] EXCEPT !.rollout = r])
    BY <1>6, PodsReport
  <2>2. k \in Kinds /\ children[k] # Absent /\ UNCHANGED uids
    BY <1>6, PodsReport
  <2> DEFINE new == [children[k] EXCEPT !.rollout = r]
  <2>3. WriteChild(k, new) /\ new.owner = children[k].owner
    BY <1>5, <2>1, <2>2
  <2> HIDE DEF new
  <2> QED BY <1>4, <2>2, <2>3
<1>7. ASSUME NEW k \in Kinds, DriftChild(k)
      PROVE  FinalizerInv'
  <2> DEFINE new == [children[k] EXCEPT !.content = Drifted]
  <2>1. /\ children[k] # Absent /\ UNCHANGED uids
        /\ WriteChild(k, new) \/ WriteChild(k, Absent)
    BY <1>7 DEF DriftChild
  <2>2. new.owner = children[k].owner
    BY <1>5, <2>1
  <2> HIDE DEF new
  <2> QED BY <1>4, <2>1, <2>2
<1>8. ASSUME NEW k \in Kinds, CollectGarbage(k), UNCHANGED bounds
      PROVE  FinalizerInv'
  BY <1>4, <1>8 DEF CollectGarbage, bounds
<1>9. CASE Crash
  <2>1. /\ UNCHANGED <<uids, server, children>> /\ cached' = server
        /\ local' = Absent /\ ~localFresh' /\ pc' \in Unmarked
    BY <1>9 DEF Crash, Restart, Requeue, Return, Unmarked
  <2>2. \A k \in Kinds : Accounted(k)
    BY <2>1 DEF Accounted
  <2> QED BY <2>1, <2>2, StepFinalizer
<1>10. CASE ToggleWebhook
  <2>1. /\ UNCHANGED <<uids, server, pc, local, localFresh, children>>
        /\ cached' = cached
    BY <1>10 DEF ToggleWebhook, objectVars, childVars, runVars
  <2> QED BY <1>1, <2>1 DEF Accounted
<1> QED BY <1>2, <1>3, <1>6, <1>7, <1>8, <1>9, <1>10

\* Owner references, copies and the finalizer stay accounted for.
THEOREM FinalizerInductive == Spec => []FinalizerInv
<1>1. Init => FinalizerInv
  <2> SUFFICES ASSUME Init PROVE FinalizerInv
    OBVIOUS
  <2>1. /\ \A k \in Kinds : children[k] = Absent
        /\ server = Absent /\ cached = Absent /\ local = Absent
        /\ ~localFresh /\ pc \in Unmarked
    BY DEF Init, Unmarked
  <2> QED BY <2>1 DEF FinalizerInv, FinalizerFirst
<1>2. TypeInv /\ FinalizerInv /\ [Next]_vars => FinalizerInv'
  <2>1. TypeInv /\ FinalizerInv /\ UNCHANGED vars => FinalizerInv'
    BY DEF FinalizerInv, FinalizerFirst, vars, objectVars, childVars, runVars,
           bounds
  <2>2. UNCHANGED bounds => UNCHANGED uids
    BY DEF bounds
  <2> QED BY <2>1, <2>2, ReconcileStepFinalizer, EnvironmentFinalizer DEF Next
<1> QED BY <1>1, <1>2, TypeCorrect, PTL DEF Spec

\* No child exists for a cluster that does not carry the finalizer yet, however
\* often clusters of the name come and go and whatever stale copies the passes
\* of Reconcile work on.
THEOREM FinalizerFirstCorrect == Spec => []FinalizerFirst
<1>1. FinalizerInv => FinalizerFirst
  BY DEF FinalizerInv
<1> QED BY <1>1, FinalizerInductive, PTL

(***************************************************************************)
(* The refinement of ObservedGeneration: every step maps to a step of it,  *)
(* or to a stutter.                                                        *)
(***************************************************************************)

ReadyGen(o) == o.status.conditions["Ready"].gen

\* Generations count from one, and an accepted copy has the Ready condition of
\* the stored object: no step of a pass but the last one sets it.
ReadyInv ==
    /\ server # Absent => server.gen >= 1
    /\ localFresh => ReadyGen(local) = ReadyGen(server)

\* The step of the abstract specification.
AbstractStep ==
    [Observed!Next]_<<IF server = Absent THEN 0 ELSE server.gen,
                      IF server = Absent THEN 0
                      ELSE server.status.conditions["Ready"].gen>>

\* A version of the object that reports the generation it has, or what the
\* stored one reports.
Reports(new) ==
    /\ new.gen = server.gen
    /\ ReadyGen(new) = ReadyGen(server) \/ ReadyGen(new) = server.gen

\* What a step has to do to the stored object and to the running call's copy.
LEMMA StepRefines ==
    ASSUME TypeInv, TypeInv', ObservedInv, ReadyInv,
           \/ UNCHANGED server
           \/ server # Absent /\ server' = Absent
           \/ /\ server = Absent /\ server' # Absent
              /\ server'.gen = 1 /\ ReadyGen(server') = 0
           \/ /\ server # Absent /\ server' # Absent
              /\ server'.gen = server.gen + 1
              /\ ReadyGen(server') = ReadyGen(server)
           \/ server # Absent /\ server' # Absent /\ Reports(server'),
           localFresh' =>
             \/ local' = server'
             \/ /\ UNCHANGED server /\ localFresh
                /\ ReadyGen(local') = ReadyGen(local)
    PROVE  ReadyInv' /\ AbstractStep
<1>1. server # Absent => /\ server.gen \in Nat /\ ReadyGen(server) \in Nat
                         /\ ReadyGen(server) <= server.gen
  BY GenerationTypes DEF TypeInv, TypeOK, ObservedInv, ReadyGen, CondTypes
<1>2. ReadyInv'
  <2>1. server' # Absent => server'.gen >= 1
    BY <1>1 DEF ReadyInv, Reports
  <2>2. localFresh' => ReadyGen(local') = ReadyGen(server')
    BY DEF ReadyInv, ReadyGen
  <2> QED BY <2>1, <2>2 DEF ReadyInv, ReadyGen
<1> DEFINE g == IF server = Absent THEN 0 ELSE server.gen
           r == IF server = Absent THEN 0 ELSE ReadyGen(server)
<1>3. \/ g' = g /\ r' = r
      \/ g = 0 /\ g' = 1 /\ r' = 0
      \/ g > 0 /\ g' = g + 1 /\ r' = r
      \/ g > 0 /\ g' = 0 /\ r' = 0
      \/ r < g /\ r' = g /\ g' = g
  BY <1>1 DEF ReadyInv, Reports, ReadyGen
<1>4. AbstractStep
  BY <1>3 DEF AbstractStep, ReadyGen, Observed!Next, Observed!Create,
              Observed!Edit, Observed!Remove, Observed!Observe
<1> QED BY <1>2, <1>4

\* Conditions set on an accepted copy carry its generation or are what they
\* were.
LEMMA SetConditionsReports ==
    ASSUME TypeInv, ObservedInv, ReadyInv, localFresh,
           NEW verdict, NEW status,
           status.conditions = SetConditions(local.status.conditions,
                                             local.gen, verdict)
    PROVE  Reports([server EXCEPT !.status = status])
<1>1. server \in Objects
  BY DEF TypeInv, TypeOK, Copies
<1>2. \/ status.conditions["Ready"].gen = local.gen
      \/ status.conditions["Ready"] = local.status.conditions["Ready"]
  BY DEF SetConditions, CondTypes
<1>3. local.gen = server.gen /\ ReadyGen(local) = ReadyGen(server)
  BY DEF ObservedInv, ReadyInv
<1> DEFINE new == [server EXCEPT !.status = status]
<1>4. new.gen = server.gen /\ new.status = status
  BY <1>1 DEF Objects
<1> HIDE DEF new
<1>5. Reports(new)
  BY <1>2, <1>3, <1>4 DEF Reports, ReadyGen
<1> QED BY <1>5 DEF new

\* A write of the object by the running call.
LEMMA PutRefines ==
    ASSUME TypeInv, TypeInv', ObservedInv, ReadyInv,
           NEW STATE new, NEW ACTION Done, NEW ACTION Failed,
           PutObject(new, Done, Failed),
           localFresh => new = Absent \/ Reports(new),
           Failed => Return,
           Done => Return \/ local' = new
    PROVE  ReadyInv' /\ AbstractStep
<1>1. \/ localFresh /\ server' = new /\ (Return \/ local' = new)
      \/ UNCHANGED server /\ Return
  BY DEF PutObject, Store
<1>2. localFresh => server # Absent
  BY DEF TypeInv, Copies
<1> QED BY <1>1, <1>2, StepRefines DEF Return

\* A CreateOrUpdate, after which the running call goes on or returns.
LEMMA EnsureRefines ==
    ASSUME TypeInv, TypeInv', ObservedInv, ReadyInv, NEW k \in Kinds,
           NEW ACTION Done, NEW ACTION Failed, Ensure(k, Done, Failed),
           Done \/ Failed =>
             \/ Return
             \/ /\ UNCHANGED localFresh
                /\ localFresh => ReadyGen(local') = ReadyGen(local)
    PROVE  ReadyInv' /\ AbstractStep
<1>1. UNCHANGED server /\ (Done \/ Failed)
  BY DEF Ensure, CreateOrUpdate, objectVars
<1> QED BY <1>1, StepRefines DEF Return

\* The call ends without a request, or after a refused one.
LEMMA RefusedRefines ==
    ASSUME TypeInv, TypeInv', ObservedInv, ReadyInv, Finish \/ Requeue,
           UNCHANGED <<objectVars, childVars, fails>>
    PROVE  ReadyInv' /\ AbstractStep
BY StepRefines DEF Finish, Requeue, Return, objectVars

LEMMA ReconcileStepRefines ==
    ASSUME TypeInv, TypeInv', ObservedInv, ReadyInv, ReconcileStep
    PROVE  ReadyInv' /\ AbstractStep
<1>0. localFresh => server \in Objects /\ local \in Objects
  BY DEF TypeInv, TypeOK, Copies
<1>1. ASSUME NEW next, Skip(next)
      PROVE  ReadyInv' /\ AbstractStep
  BY <1>1, StepRefines DEF Skip, Goto, objectVars
<1>2. CASE StartReconcile
  <2>1. /\ UNCHANGED server
        /\ \/ UNCHANGED <<local, localFresh>>
           \/ local' = cached /\ localFresh' = cacheFresh
    BY <1>2 DEF StartReconcile, objectVars
  <2>2. cacheFresh => cached = server
    BY DEF TypeInv, Copies
  <2> QED BY <2>1, <2>2, StepRefines
<1>3. CASE RemoveFinalizer
  <2>1. CASE local.finalizer
    <3>1. PutCluster(Absent, Finish, Requeue)
      BY <1>3, <2>1 DEF RemoveFinalizer
    <3>2. CASE PutObject(Absent, Finish, Requeue)
      BY <3>2, PutRefines DEF Finish, Requeue
    <3> QED BY <3>1, <3>2, RefusedRefines DEF PutCluster
  <2>2. CASE ~local.finalizer
    BY <1>3, <2>2, RefusedRefines DEF RemoveFinalizer
  <2> QED BY <2>1, <2>2
<1>4. CASE AddFinalizer
  <2>1. CASE local.finalizer
    BY <1>1, <1>4, <2>1 DEF AddFinalizer
  <2>2. CASE ~local.finalizer
    <3> DEFINE new == [server EXCEPT !.finalizer = TRUE]
    <3>1. PutCluster(new, Goto("phase", new, TRUE), Requeue)
      BY <1>4, <2>2 DEF AddFinalizer
    <3>2. localFresh => Reports(new)
      BY <1>0 DEF Objects, Reports, ReadyGen
    <3> HIDE DEF new
    <3>3. CASE PutObject(new, Goto("phase", new, TRUE), Requeue)
      BY <3>2, <3>3, PutRefines DEF Goto, Requeue
    <3> QED BY <3>1, <3>3, RefusedRefines DEF PutCluster
  <2> QED BY <2>1, <2>2
<1>5. CASE SetPendingPhase
  <2>1. CASE local.status.phase # ""
    BY <1>1, <1>5, <2>1 DEF SetPendingPhase
  <2>2. CASE ~(local.status.phase # "")
    <3> DEFINE set    == SetConditions(local.status.conditions, local.gen,
                                       [Progressing |-> "True"])
               status == [local.status EXCEPT !.phase = "Pending",
                                              !.conditions = set]
               new    == [server EXCEPT !.status = status]
    <3>1. PutObject(new, Goto("backend", new, TRUE), Requeue)
      BY <1>5, <2>2 DEF SetPendingPhase
    <3>2. localFresh => status.conditions = set
      BY <1>0 DEF Objects, Statuses
    <3> HIDE DEF status
    <3>3. localFresh => Reports(new)
      BY <3>2, SetConditionsReports
    <3> HIDE DEF new
    <3> QED BY <3>1, <3>3, PutRefines DEF Goto, Requeue
  <2> QED BY <2>1, <2>2
<1>6. CASE ReconcileEmbeddedBackend
  BY <1>1, <1>6 DEF ReconcileEmbeddedBackend
<1>7. CASE ReconcileRedisDeployment
  BY <1>7, EnsureRefines DEF ReconcileRedisDeployment, Goto, BackendFailed,
                             Kinds
<1>8. CASE ReconcileRedisService
  <2> DEFINE set    == SetConditions(local.status.conditions, local.gen,
                                     [BackendReady |-> "True"])
             marked == [local EXCEPT !.status.conditions = set]
  <2>1. Ensure("redisService",
               Goto("configMap", marked, localFresh), BackendFailed)
    BY <1>8 DEF ReconcileRedisService
  <2>2. set["Ready"] = local.status.conditions["Ready"]
    BY DEF SetConditions, CondTypes
  <2>3. localFresh => marked.status.conditions = set
    BY <1>0 DEF Objects, Statuses
  <2>4. localFresh => ReadyGen(marked) = ReadyGen(local)
    BY <2>2, <2>3 DEF ReadyGen
  <2> HIDE DEF marked
  <2> QED BY <2>1, <2>4, EnsureRefines DEF Goto, BackendFailed, Kinds
<1>9. CASE ReportBackendFailure
  <2> DEFINE set    == SetConditions(local.status.conditions, local.gen,
                         [BackendReady |-> "False", Degraded |-> "True"])
             status == [local.status EXCEPT !.conditions = set]
             new    == [server EXCEPT !.status = status]
  <2>1. PutObject(new, Requeue, Requeue)
    BY <1>9 DEF ReportBackendFailure
  <2>2. localFresh => status.conditions = set
    BY <1>0 DEF Objects, Statuses
  <2> HIDE DEF status
  <2>3. localFresh => Reports(new)
    BY <2>2, SetConditionsReports
  <2> HIDE DEF new
  <2> QED BY <2>1, <2>3, PutRefines DEF Requeue
<1>10. CASE ReconcileConfigMap
  BY <1>10, EnsureRefines DEF ReconcileConfigMap, Goto, Requeue, Kinds
<1>11. CASE ReconcileDeployment
  BY <1>11, EnsureRefines DEF ReconcileDeployment, Goto, Requeue, Kinds
<1>12. CASE ReconcileService
  BY <1>12, EnsureRefines DEF ReconcileService, Goto, Requeue, Kinds
<1>13. CASE ReconcilePDB
  BY <1>1, <1>13, EnsureRefines DEF ReconcilePDB, Goto, Requeue, Kinds
<1>14. CASE ReconcileServiceMonitor
  BY <1>1, <1>14, EnsureRefines DEF ReconcileServiceMonitor, Goto, Kinds
<1>15. CASE UpdateStatus
  <2> DEFINE status == Report(local, cachedChild["deployment"])
             new    == [server EXCEPT !.status = status]
  <2>1. PutObject(new, Finish, Requeue)
    BY <1>15 DEF UpdateStatus
  <2>2. \E verdict : status.conditions =
                       SetConditions(local.status.conditions, local.gen,
                                     verdict)
    BY DEF Report
  <2> HIDE DEF status
  <2>3. localFresh => Reports(new)
    BY <2>2, SetConditionsReports
  <2> HIDE DEF new
  <2> QED BY <2>1, <2>3, PutRefines DEF Finish, Requeue
<1> QED
  BY <1>2, <1>3, <1>4, <1>5, <1>6, <1>7, <1>8, <1>9, <1>10, <1>11, <1>12,
     <1>13, <1>14, <1>15 DEF ReconcileStep

LEMMA EnvironmentRefines ==
    ASSUME TypeInv, TypeInv', ObservedInv, ReadyInv,
           \/ Informers /\ UNCHANGED bounds
           \/ User
           \/ \E k \in Deployments : PodsSettle(k) \/ PodsFlap(k)
           \/ \E k \in Kinds : DriftChild(k)
           \/ \E k \in Kinds : CollectGarbage(k) /\ UNCHANGED bounds
           \/ Crash \/ ToggleWebhook
    PROVE  ReadyInv' /\ AbstractStep
<1>1. ASSUME UNCHANGED <<server, local, localFresh>>
      PROVE  ReadyInv' /\ AbstractStep
  BY <1>1, StepRefines
<1>2. CASE Informers
  BY <1>1, <1>2 DEF Informers, SyncObject, SyncChild, objectVars
<1>3. CASE User
  <2>1. ASSUME NEW s \in Specs, CreateCluster(s)
        PROVE  ReadyInv' /\ AbstractStep
    <3>1. /\ server = Absent /\ ~localFresh'
          /\ server'.gen = 1 /\ server'.status = NoStatus
      BY <2>1 DEF CreateCluster, WriteObject
    <3>2. ReadyGen(server') = 0
      <4>1. NoStatus.conditions["Ready"].gen = 0
        BY DEF NoStatus, CondTypes
      <4>2. server'.status.conditions["Ready"].gen = 0
        BY <3>1, <4>1
      <4> QED BY <4>2 DEF ReadyGen
    <3>3. server' # Absent
      BY <2>1, NewObjectType, AbsentAssumption
         DEF CreateCluster, WriteObject, TypeInv, TypeOK
    <3> QED BY <3>1, <3>2, <3>3, StepRefines
  <2>2. ASSUME NEW STATE new, WriteObject(new), server # Absent,
               new = Absent \/ (new.gen = server.gen + 1
                                  /\ new.status = server.status)
        PROVE  ReadyInv' /\ AbstractStep
    <3>1. ~localFresh' /\ server' = new
      BY <2>2 DEF WriteObject
    <3>2. new # Absent => ReadyGen(new) = ReadyGen(server)
      BY <2>2 DEF ReadyGen
    <3> QED BY <2>2, <3>1, <3>2, StepRefines
  <2>3. ASSUME NEW s \in Specs, EditSpec(s)
        PROVE  ReadyInv' /\ AbstractStep
    <3> DEFINE new == [server EXCEPT !.spec = s, !.gen = @ + 1]
    <3>1. server \in Objects /\ server # Absent /\ WriteObject(new)
      BY <2>3 DEF EditSpec, TypeInv, TypeOK
    <3>2. new.gen = server.gen + 1 /\ new.status = server.status
      BY <3>1 DEF Objects
    <3> HIDE DEF new
    <3> QED BY <2>2, <3>1, <3>2
  <2>4. CASE DeleteCluster
    <3> DEFINE new == IF server.finalizer
                      THEN [server EXCEPT !.deleting = TRUE, !.gen = @ + 1]
                      ELSE Absent
    <3>1. server \in Objects /\ server # Absent /\ WriteObject(new)
      BY <2>4 DEF DeleteCluster, TypeInv, TypeOK
    <3>2. new = Absent \/ (new.gen = server.gen + 1
                             /\ new.status = server.status)
      BY <3>1 DEF Objects
    <3> HIDE DEF new
    <3> QED BY <2>2, <3>1, <3>2
  <2> QED BY <1>3, <2>1, <2>3, <2>4 DEF User
<1>4. CASE \/ \E k \in Deployments : PodsSettle(k) \/ PodsFlap(k)
           \/ \E k \in Kinds : DriftChild(k)
           \/ \E k \in Kinds : CollectGarbage(k) /\ UNCHANGED bounds
  <2>1. \E k, new : WriteChild(k, new)
    BY <1>4 DEF PodsSettle, PodsFlap, DriftChild, CollectGarbage
  <2>2. UNCHANGED <<server, local, localFresh>>
    BY <2>1 DEF WriteChild, objectVars, runVars
  <2> QED BY <1>1, <2>2
<1>5. CASE Crash
  BY <1>5, StepRefines DEF Crash, Restart, Requeue, Return
<1>6. CASE ToggleWebhook
  BY <1>1, <1>6 DEF ToggleWebhook, objectVars, runVars
<1> QED BY <1>2, <1>3, <1>4, <1>5, <1>6

\* What a step does, for the two theorems below.
LEMMA NextRefines ==
    ASSUME TypeInv, TypeInv', ObservedInv, ReadyInv, [Next]_vars
    PROVE  ReadyInv' /\ AbstractStep
<1>1. CASE UNCHANGED vars
  BY <1>1, StepRefines DEF vars, objectVars, runVars
<1> QED BY <1>1, ReconcileStepRefines, EnvironmentRefines DEF Next

\* An accepted copy has the Ready condition of the stored cluster.
THEOREM ReadyInductive == Spec => []ReadyInv
<1>1. Init => ReadyInv
  BY DEF Init, ReadyInv
<1> QED BY <1>1, NextRefines, TypeCorrect, ObservedInductive, PTL DEF Spec

\* The Ready condition of an OJSCluster behaves as an observedGeneration: it
\* moves to the latest generation in one step, and only to the latest one.
THEOREM ImplementsObservedGeneration == Spec => Observed!Spec
<1>1. Init => Observed!Init
  BY DEF Init, Observed!Init
<1>2. TypeInv /\ TypeInv' /\ ObservedInv /\ ReadyInv /\ [Next]_vars
      => AbstractStep
  BY NextRefines
<1> QED BY <1>1, <1>2, TypeCorrect, ObservedInductive, ReadyInductive, PTL
      DEF Spec, Observed!Spec, AbstractStep
===============================================================================
