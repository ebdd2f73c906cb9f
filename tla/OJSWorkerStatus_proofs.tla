------------------------- MODULE OJSWorkerStatus_proofs -------------------------
(***************************************************************************)
(* Proofs of what the OJSWorker controller's status promises:              *)
(* ObservedMeansApplied, the refinement of ObservedGeneration, and         *)
(* SteadyState.                                                            *)
(***************************************************************************)
EXTENDS OJSWorkerConvergence_proofs

(***************************************************************************)
(* ObservedMeansApplied.                                                   *)
(***************************************************************************)

\* A copy of the stored worker, and the worker's own Deployment.
Of(o) == o # Absent /\ o.uid = server.uid

OwnDeployment ==
    children["deployment"] # Absent /\ children["deployment"].owner = server.uid

\* ... with the pods of the OJSCluster that the stored specification names.
Connected ==
    OwnDeployment /\ children["deployment"].content.cluster = server.spec.cluster

ReadyGen(o) == o.status.conditions["Ready"].gen

\* No status runs ahead of its worker.  Once a worker is seen the cache never
\* goes back to one of its predecessors, so the pass that made its Deployment,
\* and every pass after that, works on a copy of it.  An accepted copy that has
\* come past the Deployment left it connected.
AppliedInv ==
    /\ server # Absent => ReadyGen(server) <= server.gen
    /\ server # Absent /\ Of(local) => Of(cached)
    /\ server # Absent /\ OwnDeployment =>
         Of(cached) /\ (pc # "idle" => Of(local))
    /\ drifts = 0 /\ localFresh /\ pc \in {"autoscaler", "status"} => Connected
    /\ ObservedMeansApplied

\* The step makes no Deployment the worker's, and takes none that is connected
\* away from it, unless another client does.
DeploymentKept ==
    /\ drifts' = 0 => drifts = 0
    /\ server # Absent =>
         /\ OwnDeployment' => OwnDeployment
         /\ drifts' = 0 /\ Connected => Connected'

\* Whatever a worker is called, its status says what it said.
LEMMA ObservedSame ==
    ASSUME UNCHANGED server, DeploymentKept, ObservedMeansApplied
    PROVE  ObservedMeansApplied'
<1>1. /\ drifts' = 0 /\ server # Absent /\ server.status.phase # "Error"
      /\ server.status.conditions["Ready"].gen = server.gen
      => drifts = 0 /\ Connected /\ Connected'
  BY DEF DeploymentKept, ObservedMeansApplied, Connected, OwnDeployment
<1> QED BY <1>1 DEF ObservedMeansApplied, Connected, OwnDeployment

\* A step that stores no worker and makes no Deployment the worker's.
LEMMA KeptApplied ==
    ASSUME TypeInv, AppliedInv, UNCHANGED server, DeploymentKept,
           cached' \in {cached, server},
           \/ pc' = "idle" /\ local' = Absent /\ ~localFresh'
           \/ /\ UNCHANGED <<local, localFresh>> /\ pc # "idle"
              /\ pc' \in {"autoscaler", "status"} =>
                   pc \in {"autoscaler", "status"}
           \/ UNCHANGED <<pc, local, localFresh>>
           \/ /\ pc' \in {"delete", "finalizer"}
              /\ local' = cached /\ UNCHANGED cached
    PROVE  AppliedInv'
<1>1. server # Absent => Of(server)
  BY DEF Of
<1>2. server # Absent /\ Of(local') => Of(cached')
  BY <1>1 DEF AppliedInv, Of
<1>3. ASSUME server # Absent, OwnDeployment'
      PROVE  Of(cached') /\ (pc' # "idle" => Of(local'))
  <2>1. Of(cached) /\ (pc # "idle" => Of(local))
    BY <1>3 DEF AppliedInv, DeploymentKept
  <2> QED BY <1>1, <1>3, <2>1
<1>4. ASSUME drifts' = 0, localFresh', pc' \in {"autoscaler", "status"}
      PROVE  Connected'
  <2>1. drifts = 0 /\ localFresh /\ pc \in {"autoscaler", "status"}
    BY <1>4 DEF DeploymentKept
  <2> QED BY <1>4, <2>1 DEF AppliedInv, DeploymentKept, TypeInv, Copies
<1>5. ObservedMeansApplied'
  BY ObservedSame DEF AppliedInv
<1>6. server' # Absent => ReadyGen(server') <= server'.gen
  BY DEF AppliedInv
<1> QED BY <1>2, <1>3, <1>4, <1>5, <1>6 DEF AppliedInv, Of

\* A step that touches nothing but the running call, the cache and the queue.
LEMMA QuietApplied ==
    ASSUME TypeInv, AppliedInv, UNCHANGED <<server, children, drifts>>,
           cached' \in {cached, server},
           \/ pc' = "idle" /\ local' = Absent /\ ~localFresh'
           \/ /\ UNCHANGED <<local, localFresh>> /\ pc # "idle"
              /\ pc' \in {"autoscaler", "status"} =>
                   pc \in {"autoscaler", "status"}
           \/ UNCHANGED <<pc, local, localFresh>>
           \/ /\ pc' \in {"delete", "finalizer"}
              /\ local' = cached /\ UNCHANGED cached
    PROVE  AppliedInv'
<1>1. DeploymentKept
  BY DEF DeploymentKept, OwnDeployment, Connected
<1> QED BY <1>1, KeptApplied

(***************************************************************************)
(* The steps that store the worker.                                        *)
(***************************************************************************)

\* The status is the one before, tells that the OJSCluster is missing, or is
\* justified.
LEMMA StoredApplied ==
    ASSUME TypeInv, AppliedInv, UNCHANGED <<cached, children, drifts>>,
           server # Absent, server' # Absent,
           server'.uid = server.uid, server'.gen = server.gen,
           server'.spec = server.spec,
           \/ server'.status = server.status
           \/ /\ ReadyGen(server') = server.gen
              /\ server'.status.phase = "Error" \/ (drifts = 0 => Connected),
           \/ pc' = "idle" /\ local' = Absent /\ ~localFresh'
           \/ /\ pc' \notin {"autoscaler", "status"} /\ Of(local)
              /\ local' = server'
    PROVE  AppliedInv'
<1>0. server \in Objects /\ server.gen \in Nat
  BY DEF TypeInv, TypeOK, Objects
<1>1. ReadyGen(server') <= server'.gen
  BY <1>0 DEF AppliedInv, ReadyGen
<1>2. Of(local)' => Of(cached)'
  BY DEF AppliedInv, Of
<1>3. OwnDeployment' => Of(cached)' /\ (pc' # "idle" => Of(local)')
  BY DEF AppliedInv, Of, OwnDeployment
<1>4. ObservedMeansApplied'
  <2>1. Connected => Connected'
    BY DEF Connected, OwnDeployment
  <2>2. CASE server'.status = server.status
    BY <2>2 DEF AppliedInv, ObservedMeansApplied
  <2>3. CASE server'.status.phase = "Error" \/ (drifts = 0 => Connected)
    BY <2>1, <2>3 DEF ObservedMeansApplied, Connected, OwnDeployment
  <2> QED BY <2>2, <2>3
<1> QED BY <1>1, <1>2, <1>3, <1>4 DEF AppliedInv

\* There is no worker.
LEMMA GoneApplied ==
    ASSUME server' = Absent, ~localFresh'
    PROVE  AppliedInv'
BY DEF AppliedInv, ObservedMeansApplied

\* A status update that ends the pass.
LEMMA StatusApplied ==
    ASSUME TypeInv, ConvergenceInv, AppliedInv, UNCHANGED drifts, pc # "idle",
           NEW STATE status, status \in Statuses,
           NEW ACTION Done, Done => Return,
           PutObject([server EXCEPT !.status = status], Done, Requeue),
           localFresh =>
             /\ status.conditions["Ready"].gen = server.gen
             /\ status.phase = "Error" \/ (drifts = 0 => Connected)
    PROVE  AppliedInv'
<1> DEFINE new == [server EXCEPT !.status = status]
<1>1. /\ UNCHANGED <<cached, children>> /\ Return
      /\ UNCHANGED server \/ (localFresh /\ server' = new)
  BY DEF PutObject, Store, childVars, Requeue
<1>2. CASE UNCHANGED server
  BY <1>1, <1>2, QuietApplied DEF Return
<1>3. CASE localFresh /\ server' = new
  <2>1. server \in Objects /\ server # Absent
    BY <1>3, LocalType, AbsentAssumption
  <2>2. /\ new \in Objects /\ new.status = status
        /\ new.uid = server.uid /\ new.gen = server.gen
        /\ new.spec = server.spec
    BY <2>1 DEF Objects
  <2>3. new # Absent
    BY <2>2, AbsentAssumption
  <2> HIDE DEF new
  <2> QED BY <1>1, <1>3, <2>1, <2>2, <2>3, StoredApplied DEF Return, ReadyGen
<1> QED BY <1>1, <1>2, <1>3

LEMMA ObjectStepsApplied ==
    ASSUME TypeInv, ConvergenceInv, AppliedInv, UNCHANGED drifts,
           RemoveFinalizer \/ AddFinalizer
             \/ ReportClusterNotFound \/ UpdateWorkerStatus
    PROVE  AppliedInv'
<1>0. \A k \in Kinds : cachedChild[k] \in Children \cup {Absent}
  BY DEF TypeInv, TypeOK
<1>1. CASE RemoveFinalizer
  <2>1. /\ UNCHANGED <<cached, children>> /\ Return
        /\ UNCHANGED server \/ server' = Absent
    BY <1>1 DEF RemoveFinalizer, PutWorker, PutObject, Store, Finish, Requeue,
                objectVars, childVars
  <2> QED BY <2>1, GoneApplied, QuietApplied DEF Return
<1>2. CASE AddFinalizer
  <2> DEFINE new == [server EXCEPT !.finalizer = TRUE]
  <2>1. /\ UNCHANGED <<cached, children>> /\ pc = "finalizer"
        /\ \/ Goto("cluster", local, localFresh) /\ UNCHANGED server
           \/ Return /\ UNCHANGED server
           \/ /\ localFresh /\ server' = new
              /\ Return \/ Goto("cluster", new, TRUE)
    BY <1>2 DEF AddFinalizer, PutWorker, PutObject, Store, Skip, Requeue,
                objectVars, childVars
  <2>2. CASE UNCHANGED server
    <3>1. CASE Goto("cluster", local, localFresh) \/ Return
      BY <2>1, <2>2, <3>1, QuietApplied DEF Goto, Return
    <3>2. CASE localFresh /\ server' = new /\ Goto("cluster", new, TRUE)
      <4>1. server \in Objects /\ server # Absent /\ Of(local)
        BY <2>1, <3>2, LocalType, AbsentAssumption
           DEF ConvergenceInv, ObjectCopies, Of
      <4> QED BY <2>1, <2>2, <3>2, <4>1, StoredApplied DEF Goto
    <3> QED BY <2>1, <3>1, <3>2
  <2>3. CASE localFresh /\ server' = new
             /\ (Return \/ Goto("cluster", new, TRUE))
    <3>1. server \in Objects /\ server # Absent /\ Of(local)
      BY <2>1, <2>3, LocalType, AbsentAssumption
         DEF ConvergenceInv, ObjectCopies, Of
    <3>2. /\ new \in Objects /\ new.status = server.status
          /\ new.uid = server.uid /\ new.gen = server.gen
          /\ new.spec = server.spec
      BY <3>1 DEF Objects
    <3>3. new # Absent
      BY <3>2, AbsentAssumption
    <3> HIDE DEF new
    <3> QED BY <2>1, <2>3, <3>1, <3>2, <3>3, StoredApplied DEF Return, Goto
  <2> QED BY <2>1, <2>2, <2>3
<1>3. CASE ReportClusterNotFound
  <2>1. pc # "idle" /\ local \in Objects
    BY <1>3, LocalType DEF ReportClusterNotFound
  <2>2. /\ MissingCluster(local) \in Statuses
        /\ MissingCluster(local).phase = "Error"
        /\ MissingCluster(local).conditions["Ready"].gen = local.gen
    <3> DEFINE set == SetConditions(local.status.conditions, local.gen,
                                    [Ready |-> "False", Degraded |-> "True"])
    <3>1. set["Ready"].gen = local.gen
      BY DEF SetConditions, CondTypes
    <3>2. MissingCluster(local) =
            [local.status EXCEPT !.phase = "Error", !.conditions = set]
      BY DEF MissingCluster
    <3>3. local.status \in Statuses
      BY <2>1, StatusType
    <3> HIDE DEF set
    <3> QED BY <2>1, <3>1, <3>2, <3>3, MissingClusterType DEF Statuses
  <2>3. localFresh => local.gen = server.gen
    BY DEF ConvergenceInv, ObjectCopies
  <2>4. PutObject([server EXCEPT !.status = MissingCluster(local)],
                  Requeue, Requeue)
    BY <1>3 DEF ReportClusterNotFound
  <2> QED BY <2>1, <2>2, <2>3, <2>4, StatusApplied DEF Requeue
<1>4. CASE UpdateWorkerStatus
  <2> DEFINE status == Report(local, cachedChild["deployment"])
             Done   == IF Polled(local) THEN Requeue ELSE Finish
  <2>1. pc = "status" /\ local \in Objects
    BY <1>4, LocalType DEF UpdateWorkerStatus
  <2>2. status \in Statuses
    BY <1>0, <2>1, ReportType DEF Kinds
  <2>3. status.conditions["Ready"].gen = local.gen
    BY DEF Report, SetConditions, VerdictOf, CondTypes
  <2>4. localFresh => local.gen = server.gen /\ (drifts = 0 => Connected)
    BY <2>1 DEF ConvergenceInv, ObjectCopies, AppliedInv
  <2>5. Done => Return
    BY DEF Requeue, Finish
  <2>6. PutObject([server EXCEPT !.status = status], Done, Requeue)
    BY <1>4 DEF UpdateWorkerStatus
  <2> HIDE DEF status, Done
  <2> QED BY <2>1, <2>2, <2>3, <2>4, <2>5, <2>6, StatusApplied
<1> QED BY <1>1, <1>2, <1>3, <1>4

(***************************************************************************)
(* The steps that write children.                                          *)
(***************************************************************************)

\* The running call's Deployment replaces none or one of its OJSCluster's, and
\* the call goes on only when it is there.
LEMMA DeploymentApplied ==
    ASSUME TypeInv, ConvergenceInv, AppliedInv, UNCHANGED drifts,
           ReconcileWorkerDeployment
    PROVE  AppliedInv'
<1> DEFINE have == children["deployment"]
           new  == [owner   |-> local.uid,
                    content |-> Desired("deployment", local.spec),
                    rollout |-> IF have = Absent THEN NoRollout
                                ELSE have.rollout]
<1>0. pc = "deployment" /\ pc # "idle" /\ "deployment" \in Kinds
  BY DEF ReconcileWorkerDeployment, Kinds
<1>1. /\ UNCHANGED <<server, cached>>
      /\ \/ Requeue /\ UNCHANGED children
         \/ /\ children' = [children EXCEPT !["deployment"] = new]
            /\ have # Absent => have.content.cluster = local.spec.cluster
            /\ Requeue \/ Goto("autoscaler", local, localFresh)
  BY DEF ReconcileWorkerDeployment, Ensure, CreateOrUpdate, AlwaysSent,
         objectVars, childVars
<1>2. CASE Requeue /\ UNCHANGED children
  BY <1>1, <1>2, QuietApplied DEF Requeue, Return
<1>3. CASE /\ children' = [children EXCEPT !["deployment"] = new]
           /\ have # Absent => have.content.cluster = local.spec.cluster
           /\ Requeue \/ Goto("autoscaler", local, localFresh)
  <2>1. /\ children'["deployment"] = new /\ new # Absent
        /\ new.owner = local.uid /\ new.content.cluster = local.spec.cluster
    <3>1. new \in Children
      BY <1>0, EnsuredChildType
    <3>2. new # Absent
      BY <3>1, AbsentAssumption
    <3>3. new.content.cluster = local.spec.cluster
      BY DEF Desired
    <3>4. children'["deployment"] = new
      BY <1>0, <1>3 DEF TypeInv, TypeOK
    <3> QED BY <3>2, <3>3, <3>4
  <2> HIDE DEF new
  <2>2. local # Absent
    BY <1>0 DEF TypeInv, Copies
  <2>3. \/ pc' = "idle" /\ local' = Absent /\ ~localFresh'
        \/ pc' = "autoscaler" /\ UNCHANGED <<local, localFresh>>
    BY <1>3 DEF Requeue, Return, Goto
  <2>4. server # Absent /\ OwnDeployment' => Of(local) /\ Of(cached)
    BY <1>1, <2>1, <2>2 DEF OwnDeployment, Of, AppliedInv
  <2>5. server # Absent /\ Connected => Connected'
    BY <1>0, <1>1, <1>3, <2>1 DEF AppliedInv, Connected, OwnDeployment, Of
  <2>6. localFresh => Connected'
    BY <1>1, <2>1 DEF ConvergenceInv, ObjectCopies, Connected, OwnDeployment
  <2>7. ObservedMeansApplied'
    BY <1>1, <2>5 DEF AppliedInv, ObservedMeansApplied, Connected, OwnDeployment
  <2> QED BY <1>1, <2>3, <2>4, <2>6, <2>7 DEF AppliedInv, Of
<1> QED BY <1>1, <1>2, <1>3

LEMMA ReconcileStepApplied ==
    ASSUME TypeInv, FinalizerInv, ConvergenceInv, AppliedInv, ReconcileStep
    PROVE  AppliedInv'
<1>0. UNCHANGED drifts
  BY DEF ReconcileStep, bounds
<1>1. CASE StartReconcile
  <2>1. /\ pc = "idle" /\ UNCHANGED <<server, cached, children>>
        /\ \/ UNCHANGED <<pc, local, localFresh>>
           \/ local' = cached /\ pc' \in {"delete", "finalizer"}
    BY <1>1 DEF StartReconcile, objectVars, childVars
  <2> QED BY <1>0, <2>1, QuietApplied
<1>2. CASE ResolveCluster
  <2>1. /\ pc = "cluster" /\ UNCHANGED <<server, cached, children>>
        /\ UNCHANGED <<local, localFresh>>
        /\ pc' \in {"deployment", "clusterNotFound"}
    BY <1>2 DEF ResolveCluster, Skip, Goto, objectVars, childVars
  <2> QED BY <1>0, <2>1, QuietApplied
<1>3. CASE ReconcileWorkerHPA
  <2>1. pc = "autoscaler" /\ UNCHANGED <<server, cached>>
    BY <1>3 DEF ReconcileWorkerHPA, Ensure, CreateOrUpdate, DeleteChild, Skip,
                objectVars
  <2>2. \/ pc' = "idle" /\ local' = Absent /\ ~localFresh'
        \/ pc' = "status" /\ UNCHANGED <<local, localFresh>>
    BY <1>3 DEF ReconcileWorkerHPA, Ensure, CreateOrUpdate, DeleteChild, Skip,
                Requeue, Return, Goto
  <2>3. \/ UNCHANGED children
        \/ \E new : children' = [children EXCEPT !["autoscaler"] = new]
    BY <1>3 DEF ReconcileWorkerHPA, Ensure, CreateOrUpdate, DeleteChild, Skip,
                childVars
  <2>4. children'["deployment"] = children["deployment"]
    BY <2>3 DEF TypeInv, TypeOK, Kinds
  <2>5. DeploymentKept
    BY <1>0, <2>1, <2>4 DEF DeploymentKept, OwnDeployment, Connected
  <2> QED BY <2>1, <2>2, <2>5, KeptApplied
<1> QED BY <1>0, <1>1, <1>2, <1>3, ObjectStepsApplied, DeploymentApplied
        DEF ReconcileStep

\* Everybody else keeps a Deployment's owner and OJSCluster, makes one for
\* another owner, or removes one; the garbage collector none of the worker's.
LEMMA ForeignWritesApplied ==
    ASSUME TypeInv, FinalizerInv, AppliedInv, ForeignWrites
    PROVE  AppliedInv'
<1> DEFINE dep == children["deployment"]
<1>0. /\ dep # Absent => dep \in Children
      /\ drifts \in Nat /\ "deployment" \in Kinds
      /\ children \in [Kinds -> Children \cup {Absent}]
  BY DEF TypeInv, TypeOK, Kinds
<1>1. ASSUME NEW k \in Kinds, NEW new, WriteChild(k, new),
             drifts' = 0 => drifts = 0,
             k = "deployment" /\ new # Absent =>
               \/ /\ dep # Absent /\ new.owner = dep.owner
                  /\ new.content.cluster = dep.content.cluster
               \/ dep = Absent /\ new.owner = RivalUid,
             k = "deployment" /\ new = Absent /\ drifts' = 0 /\ server # Absent
               => dep.owner # server.uid
      PROVE  AppliedInv'
  <2>1. /\ UNCHANGED <<server, cached, pc, local, localFresh>>
        /\ children'["deployment"] = IF k = "deployment" THEN new ELSE dep
    BY <1>0, <1>1 DEF WriteChild, objectVars, runVars
  <2>2. server # Absent => server.uid # RivalUid
    <3>1. MaxUid \in Nat /\ uids \in Nat /\ (server # Absent => server.uid \in Nat)
      BY BoundsAssumption DEF TypeInv, TypeOK, Objects
    <3> QED BY <3>1 DEF FinalizerInv, RivalUid
  <2>3. DeploymentKept
    BY <1>1, <2>1, <2>2 DEF DeploymentKept, OwnDeployment, Connected
  <2> QED BY <2>1, <2>3, KeptApplied
<1>2. CASE PodsSettle
  <2> DEFINE new == [dep EXCEPT !.rollout = [replicas |-> dep.content.replicas,
                                             ready |-> dep.content.replicas]]
  <2>1. dep # Absent /\ WriteChild("deployment", new) /\ UNCHANGED drifts
    BY <1>2 DEF PodsSettle, bounds
  <2>2. /\ new.owner = dep.owner /\ new.content = dep.content
        /\ new \in Children
    BY <1>0, <2>1, ChangedChildType DEF Children
  <2> HIDE DEF new
  <2> QED BY <1>0, <1>1, <2>1, <2>2, AbsentAssumption
<1>3. CASE PodsFlap
  <2>1. PICK n \in 0..MaxReplicas, m \in 0..MaxReplicas :
          WriteChild("deployment", [dep EXCEPT !.rollout =
                                      [replicas |-> n, ready |-> m]])
    <3>1. PICK n \in 0..MaxReplicas : \E m \in 0..n :
            WriteChild("deployment", [dep EXCEPT !.rollout =
                                        [replicas |-> n, ready |-> m]])
      BY <1>3 DEF PodsFlap
    <3>2. 0..n \subseteq 0..MaxReplicas
      BY BoundsAssumption
    <3> QED BY <3>1, <3>2
  <2> DEFINE new == [dep EXCEPT !.rollout = [replicas |-> n, ready |-> m]]
  <2>2. /\ dep # Absent /\ UNCHANGED drifts /\ n \in Nat /\ m \in Nat
        /\ WriteChild("deployment", new)
    BY <1>3, <2>1, BoundsAssumption DEF PodsFlap
  <2>3. /\ new.owner = dep.owner /\ new.content = dep.content
        /\ new \in Children
    BY <1>0, <2>2, ChangedChildType DEF Children
  <2> HIDE DEF new
  <2> QED BY <1>0, <1>1, <2>2, <2>3, AbsentAssumption
<1>4. CASE Autoscale
  <2> DEFINE hpa == children["autoscaler"]
  <2>1. PICK n \in hpa.content.min .. hpa.content.max :
          WriteChild("deployment", [dep EXCEPT !.content.replicas = n])
    BY <1>4 DEF Autoscale
  <2> DEFINE new == [dep EXCEPT !.content.replicas = n]
  <2>2. /\ dep # Absent /\ UNCHANGED drifts /\ WriteChild("deployment", new)
        /\ hpa \in Children
    BY <1>0, <1>4, <2>1 DEF Autoscale, Kinds
  <2>3. n \in Nat
    BY <2>2 DEF Children, Contents
  <2>4. /\ new.owner = dep.owner /\ new.content.cluster = dep.content.cluster
        /\ new \in Children
    BY <1>0, <2>2, <2>3, ChangedChildType DEF Children, Contents
  <2> HIDE DEF new
  <2> QED BY <1>0, <1>1, <2>2, <2>4, AbsentAssumption
<1>5. CASE DeployRival
  <2> DEFINE new == [owner   |-> RivalUid,
                     content |-> [cluster |-> Rival, replicas |-> 1,
                                  min |-> 0, max |-> 0],
                     rollout |-> NoRollout]
  <2>1. /\ dep = Absent /\ WriteChild("deployment", new) /\ UNCHANGED drifts
    BY <1>5 DEF DeployRival, bounds
  <2>2. new.owner = RivalUid /\ new # dep
    BY <2>1 DEF WriteChild
  <2> HIDE DEF new
  <2> QED BY <1>0, <1>1, <2>1, <2>2
<1>6. ASSUME NEW k \in Kinds, DriftChild(k)
      PROVE  AppliedInv'
  <2> DEFINE idle   == [children[k] EXCEPT !.content.replicas = 0]
             narrow == [children[k] EXCEPT !.content.max =
                          children[k].content.min]
  <2>1. /\ children[k] # Absent /\ drifts' = drifts + 1
        /\ \/ k = "deployment" /\ WriteChild(k, idle)
           \/ k = "autoscaler" /\ WriteChild(k, narrow)
           \/ WriteChild(k, Absent)
    BY <1>6 DEF DriftChild
  <2>2. drifts' # 0
    BY <1>0, <2>1
  <2>3. CASE k = "deployment" /\ WriteChild(k, idle)
    <3>1. /\ idle.owner = dep.owner
          /\ idle.content.cluster = dep.content.cluster
      BY <1>0, <2>1, <2>3 DEF Children, Contents
    <3> HIDE DEF idle
    <3> QED BY <1>1, <2>1, <2>2, <2>3, <3>1
  <2>4. CASE k = "autoscaler" /\ WriteChild(k, narrow)
    <3> HIDE DEF narrow
    <3> QED BY <1>1, <2>2, <2>4
  <2>5. CASE WriteChild(k, Absent)
    BY <1>1, <2>2, <2>5
  <2> QED BY <2>1, <2>3, <2>4, <2>5
<1>7. ASSUME NEW k \in Kinds, CollectOrphan(k)
      PROVE  AppliedInv'
  <2>1. /\ WriteChild(k, Absent) /\ UNCHANGED drifts
        /\ server # Absent => server.uid # children[k].owner
    BY <1>7 DEF CollectOrphan, CollectGarbage, bounds
  <2> QED BY <1>1, <2>1
<1> QED BY <1>2, <1>3, <1>4, <1>5, <1>6, <1>7 DEF ForeignWrites

(***************************************************************************)
(* The other steps.                                                        *)
(***************************************************************************)

LEMMA UserApplied ==
    ASSUME TypeInv, FinalizerInv, AppliedInv, User
    PROVE  AppliedInv'
<1>1. ASSUME NEW s \in Specs, CreateWorker(s)
      PROVE  AppliedInv'
  <2>1. /\ server'.uid = uids + 1 /\ server'.gen = 1
        /\ server'.status = NoStatus /\ ~localFresh'
        /\ UNCHANGED <<local, pc, children, drifts>>
    BY <1>1 DEF CreateWorker, WriteObject, childVars
  <2>2. ReadyGen(server') = 0
    <3>1. NoStatus.conditions["Ready"].gen = 0
      BY DEF NoStatus, CondTypes
    <3> QED BY <2>1, <3>1 DEF ReadyGen
  <2>3. /\ uids \in Nat /\ uids < MaxUid /\ MaxUid \in Nat
        /\ local # Absent => local.uid \in Nat
        /\ children["deployment"] # Absent =>
             children["deployment"].owner \in Nat
    BY <1>1, BoundsAssumption DEF CreateWorker, TypeInv, TypeOK, Objects,
                                  Children, Kinds
  <2>4. /\ local # Absent => local.uid # uids + 1
        /\ children["deployment"] # Absent =>
             children["deployment"].owner # uids + 1
    BY <2>3 DEF FinalizerInv, RivalUid, Kinds
  <2>5. ~Of(local)' /\ ~OwnDeployment'
    BY <2>1, <2>4 DEF Of, OwnDeployment
  <2>6. ObservedMeansApplied'
    BY <2>1, <2>2 DEF ObservedMeansApplied, ReadyGen
  <2> QED BY <2>1, <2>2, <2>5, <2>6 DEF AppliedInv
<1>2. ASSUME server # Absent, UNCHANGED <<cached, local, pc, children, drifts>>,
             ~localFresh', server'.uid = server.uid,
             server'.gen = server.gen + 1, server'.status = server.status
      PROVE  AppliedInv'
  <2>1. ReadyGen(server') \in Nat /\ ReadyGen(server') <= server.gen
    BY <1>2 DEF AppliedInv, ReadyGen, TypeInv, TypeOK, Objects, Statuses,
                Conditions, CondTypes
  <2>2. server.gen \in Nat
    BY <1>2 DEF TypeInv, TypeOK, Objects
  <2>3. ReadyGen(server') <= server'.gen /\ ReadyGen(server') # server'.gen
    BY <1>2, <2>1, <2>2
  <2>4. ObservedMeansApplied'
    BY <2>3 DEF ObservedMeansApplied, ReadyGen
  <2> QED BY <1>2, <2>3, <2>4 DEF AppliedInv, Of, OwnDeployment
<1>3. ASSUME NEW s \in Specs, EditSpec(s)
      PROVE  AppliedInv'
  <2>1. /\ server # Absent /\ server \in Objects
        /\ server' = [server EXCEPT !.spec = s, !.gen = @ + 1]
        /\ ~localFresh' /\ UNCHANGED <<cached, local, pc, children, drifts>>
    BY <1>3 DEF EditSpec, WriteObject, childVars, bounds, TypeInv, TypeOK
  <2>2. /\ server'.uid = server.uid /\ server'.gen = server.gen + 1
        /\ server'.status = server.status
    BY <2>1 DEF Objects
  <2> QED BY <1>2, <2>1, <2>2
<1>4. CASE DeleteWorker
  <2>1. /\ server # Absent /\ server \in Objects
        /\ \/ server' = [server EXCEPT !.deleting = TRUE, !.gen = @ + 1]
           \/ server' = Absent
        /\ ~localFresh' /\ UNCHANGED <<cached, local, pc, children, drifts>>
    BY <1>4 DEF DeleteWorker, WriteObject, childVars, bounds, TypeInv, TypeOK
  <2>2. CASE server' = [server EXCEPT !.deleting = TRUE, !.gen = @ + 1]
    <3>1. /\ server'.uid = server.uid /\ server'.gen = server.gen + 1
          /\ server'.status = server.status
      BY <2>1, <2>2 DEF Objects
    <3> QED BY <1>2, <2>1, <3>1
  <2> QED BY <2>1, <2>2, GoneApplied
<1> QED BY <1>1, <1>3, <1>4 DEF User

\* A worker's Ready condition that carries the latest generation speaks of a
\* Deployment of its own that is connected to the OJSCluster of that generation.
THEOREM AppliedInductive == Spec => []AppliedInv
<1>1. Init => AppliedInv
  BY DEF Init, AppliedInv, ObservedMeansApplied
<1>2. /\ TypeInv /\ FinalizerInv /\ ConvergenceInv
      /\ AppliedInv /\ [Next]_vars
      => AppliedInv'
  <2> SUFFICES ASSUME TypeInv, FinalizerInv, ConvergenceInv, AppliedInv,
                      [Next]_vars
               PROVE  AppliedInv'
    OBVIOUS
  <2>1. CASE UNCHANGED vars
    BY <2>1, QuietApplied DEF vars, objectVars, childVars, runVars, bounds
  <2>2. CASE \/ ToggleWebhook \/ Informers
             \/ \E c \in Clusters : ChangeCluster(c)
    <3>1. /\ UNCHANGED <<server, children, drifts, pc, local, localFresh>>
          /\ cached' \in {cached, server}
      BY <2>2 DEF ToggleWebhook, ChangeCluster, Informers, SyncObject, SyncKind,
                  SyncForeign, SyncChild, SyncCluster, objectVars, childVars,
                  runVars, bounds
    <3> QED BY <3>1, QuietApplied
  <2>3. CASE Crash
    <3>1. /\ UNCHANGED <<server, children, drifts>> /\ cached' = server
          /\ pc' = "idle" /\ local' = Absent /\ ~localFresh'
      BY <2>3 DEF Crash, Restart, Requeue, Return
    <3> QED BY <3>1, QuietApplied
  <2> QED BY <2>1, <2>2, <2>3, ReconcileStepApplied, UserApplied,
             ForeignWritesApplied DEF Next, ForeignWrites
<1> QED BY <1>1, <1>2, TypeCorrect, FinalizerInductive, ConvergenceInductive,
           PTL DEF Spec

\* As long as no other client touches the children, a Ready condition of the
\* latest generation that does not report the OJSCluster missing was computed
\* after the worker's own Deployment had been connected to it, whatever stale
\* copies, conflicts, lost answers, re-creations and crashes came between.
THEOREM ObservedMeansAppliedCorrect == Spec => []ObservedMeansApplied
<1>1. AppliedInv => ObservedMeansApplied
  BY DEF AppliedInv
<1> QED BY <1>1, AppliedInductive, PTL

(***************************************************************************)
(* The refinement of ObservedGeneration.                                   *)
(***************************************************************************)

\* A status that a pass computed from the Deployment for generation g: its
\* conditions are the verdict on its phase.
Computed(status, g) ==
    /\ status.phase \in {"Running", "Scaling", "Pending"}
    /\ status.conditions =
         [t \in CondTypes |-> [status |-> VerdictOf(status.phase)[t], gen |-> g]]

\* Generations count from one, and a status of the latest one is computed unless
\* it reports a missing OJSCluster.
StatusInv ==
    server # Absent =>
      /\ server.gen >= 1
      /\ ReadyGen(server) = server.gen =>
           server.status.phase = "Error" \/ Computed(server.status, server.gen)

\* The step of the abstract specification.
AbstractStep ==
    [Observed!Next]_<<IF server = Absent THEN 0 ELSE server.gen,
                      IF server = Absent THEN 0
                      ELSE server.status.conditions["Ready"].gen>>

\* The step stores a status for the latest generation.
Reported ==
    /\ server # Absent /\ server' # Absent /\ server'.gen = server.gen
    /\ ReadyGen(server') = server.gen
    /\ server'.status.phase = "Error" \/ Computed(server'.status, server.gen)

\* What a step has to do to the stored worker.
LEMMA StepRefines ==
    ASSUME TypeInv, AppliedInv, StatusInv,
           \/ UNCHANGED server
           \/ server # Absent /\ server' = Absent
           \/ /\ server = Absent /\ server' # Absent
              /\ server'.gen = 1 /\ ReadyGen(server') = 0
           \/ /\ server # Absent /\ server' # Absent
              /\ server'.gen \in {server.gen, server.gen + 1}
              /\ server'.status = server.status
           \/ Reported
    PROVE  StatusInv' /\ AbstractStep
<1>1. server # Absent => /\ server.gen \in Nat /\ ReadyGen(server) \in Nat
                         /\ ReadyGen(server) <= server.gen
  BY DEF TypeInv, TypeOK, AppliedInv, Objects, Statuses, Conditions, CondTypes,
         ReadyGen
<1>2. StatusInv'
  <2>1. CASE UNCHANGED server
    BY <2>1 DEF StatusInv, ReadyGen, Computed
  <2>2. CASE server' = Absent
    BY <2>2 DEF StatusInv
  <2>3. CASE /\ server' # Absent /\ server'.gen = 1 /\ ReadyGen(server') = 0
    BY <2>3 DEF StatusInv, ReadyGen
  <2>4. CASE /\ server # Absent /\ server' # Absent
             /\ server'.gen = server.gen /\ server'.status = server.status
    BY <2>4 DEF StatusInv, ReadyGen
  <2>5. CASE /\ server # Absent /\ server' # Absent
             /\ server'.gen = server.gen + 1 /\ server'.status = server.status
    <3>1. server'.gen >= 1 /\ ReadyGen(server') # server'.gen
      BY <1>1, <2>5 DEF ReadyGen
    <3> QED BY <3>1 DEF StatusInv, ReadyGen
  <2>6. CASE Reported
    BY <2>6 DEF Reported, StatusInv
  <2> QED BY <2>1, <2>2, <2>3, <2>4, <2>5, <2>6
<1> DEFINE g == IF server = Absent THEN 0 ELSE server.gen
           r == IF server = Absent THEN 0 ELSE ReadyGen(server)
<1>3. \/ g' = g /\ r' = r
      \/ g = 0 /\ g' = 1 /\ r' = 0
      \/ g > 0 /\ g' = g + 1 /\ r' = r
      \/ g > 0 /\ g' = 0 /\ r' = 0
      \/ r < g /\ r' = g /\ g' = g
  BY <1>1 DEF StatusInv, Reported, ReadyGen
<1>4. AbstractStep
  BY <1>3 DEF AbstractStep, ReadyGen, Observed!Next, Observed!Create,
              Observed!Edit, Observed!Remove, Observed!Observe
<1> QED BY <1>2, <1>4

\* What updateWorkerStatus computes is a verdict for the copy's generation.
LEMMA ReportComputed ==
    ASSUME NEW o, NEW dep
    PROVE  /\ Computed(Report(o, dep), o.gen)
           /\ Report(o, dep).conditions["Ready"].gen = o.gen
<1> DEFINE phase == IF dep = Absent THEN "Pending" ELSE PhaseOf(dep.rollout)
           conds == SetConditions(o.status.conditions, o.gen, VerdictOf(phase))
<1>1. Report(o, dep).phase = phase /\ Report(o, dep).conditions = conds
  BY DEF Report
<1>2. phase \in {"Running", "Scaling", "Pending"}
  BY DEF PhaseOf
<1> HIDE DEF phase
<1>3. DOMAIN VerdictOf(phase) = CondTypes
  BY DEF VerdictOf, CondTypes
<1>4. conds = [t \in CondTypes |->
                 [status |-> VerdictOf(phase)[t], gen |-> o.gen]]
  BY <1>3 DEF SetConditions
<1>5. "Ready" \in CondTypes
  BY DEF CondTypes
<1> QED BY <1>1, <1>2, <1>4, <1>5 DEF Computed

\* An update of the status at the end of a pass.
LEMMA PutStatusRefines ==
    ASSUME TypeInv, ConvergenceInv, AppliedInv, StatusInv,
           NEW STATE status, status \in Statuses, NEW ACTION Done,
           PutObject([server EXCEPT !.status = status], Done, Requeue),
           status.conditions["Ready"].gen = local.gen,
           status.phase = "Error" \/ Computed(status, local.gen)
    PROVE  StatusInv' /\ AbstractStep
<1> DEFINE new == [server EXCEPT !.status = status]
<1>1. UNCHANGED server \/ (localFresh /\ server' = new)
  BY DEF PutObject, Store
<1>2. ASSUME localFresh, server' = new, server' # server
      PROVE  Reported
  <2>1. server \in Objects /\ server # Absent /\ local.gen = server.gen
    BY <1>2, AbsentAssumption
       DEF TypeInv, TypeOK, Copies, ConvergenceInv, ObjectCopies
  <2>2. new \in Objects /\ new.gen = server.gen /\ new.status = status
    BY <2>1 DEF Objects
  <2>3. new # Absent
    BY <2>2, AbsentAssumption
  <2> HIDE DEF new
  <2> QED BY <1>2, <2>1, <2>2, <2>3 DEF Reported, ReadyGen
<1> QED BY <1>1, <1>2, StepRefines

LEMMA ReconcileStepRefines ==
    ASSUME TypeInv, ConvergenceInv, AppliedInv, StatusInv, ReconcileStep
    PROVE  StatusInv' /\ AbstractStep
<1>0. \A k \in Kinds : cachedChild[k] \in Children \cup {Absent}
  BY DEF TypeInv, TypeOK
<1>1. CASE \/ StartReconcile \/ ResolveCluster
           \/ ReconcileWorkerDeployment \/ ReconcileWorkerHPA
  BY <1>1, StepRefines
     DEF StartReconcile, ResolveCluster, ReconcileWorkerDeployment,
         ReconcileWorkerHPA, Skip, Ensure, CreateOrUpdate, DeleteChild,
         objectVars
<1>2. CASE RemoveFinalizer
  <2>1. UNCHANGED server \/ (localFresh /\ server' = Absent)
    BY <1>2 DEF RemoveFinalizer, PutWorker, PutObject, Store, objectVars
  <2>2. localFresh => server # Absent
    BY DEF TypeInv, Copies
  <2> QED BY <2>1, <2>2, StepRefines
<1>3. CASE AddFinalizer
  <2> DEFINE new == [server EXCEPT !.finalizer = TRUE]
  <2>1. UNCHANGED server \/ (localFresh /\ server' = new)
    BY <1>3 DEF AddFinalizer, PutWorker, PutObject, Store, Skip, objectVars
  <2>2. ASSUME localFresh
        PROVE  /\ server # Absent /\ new # Absent
               /\ new.gen = server.gen /\ new.status = server.status
    <3>1. server \in Objects /\ server # Absent
      BY <2>2 DEF TypeInv, TypeOK, Copies
    <3>2. /\ new \in Objects
          /\ new.gen = server.gen /\ new.status = server.status
      BY <3>1 DEF Objects
    <3> QED BY <3>1, <3>2, AbsentAssumption
  <2> HIDE DEF new
  <2> QED BY <2>1, <2>2, StepRefines
<1>4. CASE ReportClusterNotFound
  <2> DEFINE set == SetConditions(local.status.conditions, local.gen,
                                  [Ready |-> "False", Degraded |-> "True"])
  <2>1. local \in Objects
    BY <1>4, LocalType DEF ReportClusterNotFound
  <2>2. /\ local.status \in Statuses
        /\ MissingCluster(local) \in Statuses
        /\ MissingCluster(local) =
             [local.status EXCEPT !.phase = "Error", !.conditions = set]
    BY <2>1, StatusType, MissingClusterType DEF MissingCluster
  <2>3. set["Ready"].gen = local.gen
    BY DEF SetConditions, CondTypes
  <2> HIDE DEF set
  <2>4. /\ MissingCluster(local).phase = "Error"
        /\ MissingCluster(local).conditions["Ready"].gen = local.gen
    BY <2>2, <2>3 DEF Statuses
  <2>5. PutObject([server EXCEPT !.status = MissingCluster(local)],
                  Requeue, Requeue)
    BY <1>4 DEF ReportClusterNotFound
  <2> QED BY <2>2, <2>4, <2>5, PutStatusRefines
<1>5. CASE UpdateWorkerStatus
  <2> DEFINE status == Report(local, cachedChild["deployment"])
             Done   == IF Polled(local) THEN Requeue ELSE Finish
  <2>1. local \in Objects
    BY <1>5, LocalType DEF UpdateWorkerStatus
  <2>2. status \in Statuses
    BY <1>0, <2>1, ReportType DEF Kinds
  <2>3. PutObject([server EXCEPT !.status = status], Done, Requeue)
    BY <1>5 DEF UpdateWorkerStatus
  <2>4. Computed(status, local.gen) /\ status.conditions["Ready"].gen = local.gen
    BY ReportComputed
  <2> HIDE DEF status, Done
  <2> QED BY <2>2, <2>3, <2>4, PutStatusRefines
<1> QED BY <1>1, <1>2, <1>3, <1>4, <1>5 DEF ReconcileStep

LEMMA UserRefines ==
    ASSUME TypeInv, AppliedInv, StatusInv, User
    PROVE  StatusInv' /\ AbstractStep
<1>1. ASSUME NEW s \in Specs, CreateWorker(s)
      PROVE  StatusInv' /\ AbstractStep
  <2>1. server = Absent /\ server'.gen = 1 /\ server'.status = NoStatus
    BY <1>1 DEF CreateWorker, WriteObject
  <2>2. ReadyGen(server') = 0
    <3>1. NoStatus.conditions["Ready"].gen = 0
      BY DEF NoStatus, CondTypes
    <3> QED BY <2>1, <3>1 DEF ReadyGen
  <2>3. server' # Absent
    BY <1>1, NewObjectType, AbsentAssumption
       DEF CreateWorker, WriteObject, TypeInv, TypeOK
  <2> QED BY <2>1, <2>2, <2>3, StepRefines
<1>2. ASSUME NEW STATE new, server # Absent, server' = new,
             new \in Objects, new.gen = server.gen + 1,
             new.status = server.status
      PROVE  StatusInv' /\ AbstractStep
  BY <1>2, StepRefines, AbsentAssumption
<1>3. ASSUME NEW s \in Specs, EditSpec(s)
      PROVE  StatusInv' /\ AbstractStep
  <2> DEFINE new == [server EXCEPT !.spec = s, !.gen = @ + 1]
  <2>1. server \in Objects /\ server # Absent /\ server' = new
    BY <1>3 DEF EditSpec, WriteObject, TypeInv, TypeOK
  <2>2. new \in Objects
    BY <2>1, EditedObjectType
  <2>3. new.gen = server.gen + 1 /\ new.status = server.status
    BY <2>1 DEF Objects
  <2> HIDE DEF new
  <2> QED BY <1>2, <2>1, <2>2, <2>3
<1>4. CASE DeleteWorker
  <2> DEFINE new == [server EXCEPT !.deleting = TRUE, !.gen = @ + 1]
  <2>1. /\ server \in Objects /\ server # Absent
        /\ server' = new \/ server' = Absent
    BY <1>4 DEF DeleteWorker, WriteObject, TypeInv, TypeOK
  <2>2. new \in Objects
    <3>1. server.spec \in Specs
      BY <2>1 DEF Objects
    <3> QED BY <2>1, <3>1, EditedObjectType
  <2>3. new.gen = server.gen + 1 /\ new.status = server.status
    BY <2>1 DEF Objects
  <2> HIDE DEF new
  <2> QED BY <1>2, <2>1, <2>2, <2>3, StepRefines
<1> QED BY <1>1, <1>3, <1>4 DEF User

\* What a step does, for the theorems below.
LEMMA NextRefines ==
    ASSUME TypeInv, ConvergenceInv, AppliedInv, StatusInv, [Next]_vars
    PROVE  StatusInv' /\ AbstractStep
<1>1. CASE \E k, new : WriteChild(k, new)
  BY <1>1, StepRefines DEF WriteChild, objectVars
<1>2. PodsSettle \/ PodsFlap \/ Autoscale \/ DeployRival
      => \E k, new : WriteChild(k, new)
  BY DEF PodsSettle, PodsFlap, Autoscale, DeployRival
<1>3. ASSUME NEW k \in Kinds, DriftChild(k) \/ CollectOrphan(k)
      PROVE  \E j, new : WriteChild(j, new)
  BY <1>3 DEF DriftChild, CollectOrphan, CollectGarbage
<1>4. CASE UNCHANGED vars \/ ToggleWebhook \/ Crash \/ Informers
           \/ \E c \in Clusters : ChangeCluster(c)
  <2>1. UNCHANGED server
    BY <1>4 DEF ToggleWebhook, Crash, Restart, Informers, SyncObject, SyncKind,
                SyncForeign, SyncChild, SyncCluster, ChangeCluster, vars,
                objectVars
  <2> QED BY <2>1, StepRefines
<1> QED BY <1>1, <1>2, <1>3, <1>4, ReconcileStepRefines, UserRefines DEF Next

\* A status of the latest generation that does not report a missing OJSCluster
\* is one verdict: phase and conditions agree, whatever was stored in between.
THEOREM StatusInductive == Spec => []StatusInv
<1>1. Init => StatusInv
  BY DEF Init, StatusInv
<1> QED BY <1>1, NextRefines, TypeCorrect, ConvergenceInductive,
           AppliedInductive, PTL DEF Spec

\* The Ready condition of an OJSWorker behaves as an observedGeneration, also
\* when it reports that the OJSCluster is missing: it moves to the latest
\* generation in one step, and only to the latest one.
THEOREM ImplementsObservedGeneration == Spec => Observed!Spec
<1>1. Init => Observed!Init
  BY DEF Init, Observed!Init
<1>2. TypeInv /\ ConvergenceInv /\ AppliedInv /\ StatusInv /\ [Next]_vars
      => AbstractStep
  BY NextRefines
<1> QED BY <1>1, <1>2, TypeCorrect, ConvergenceInductive, AppliedInductive,
           StatusInductive, PTL DEF Spec, Observed!Spec, AbstractStep

(***************************************************************************)
(* SteadyState.                                                            *)
(***************************************************************************)

\* The status of a worker that has converged is the one that the next pass will
\* compute.
LEMMA ConvergedStatus ==
    ASSUME TypeInv, StatusInv, server # Absent, Converged
    PROVE  server.status = Report(server, children["deployment"])
<1> DEFINE dep     == children["deployment"]
           r       == dep.rollout
           status  == server.status
           phase   == PhaseOf(r)
           verdict == VerdictOf(phase)
<1>1. /\ dep # Absent /\ dep \in Children
      /\ r.ready \in Nat /\ r.replicas \in Nat
    BY DEF Converged, ChildInPlace, TypeInv, TypeOK, Kinds, Children, Rollouts
<1>2. /\ status \in Statuses /\ server.gen \in Nat
  BY DEF TypeInv, TypeOK, Objects
<1>3. /\ status.rollout = r /\ status.phase # "Error"
      /\ status.conditions["Ready"].gen = server.gen
      /\ status.phase = "Running" <=> r.ready = r.replicas /\ r.ready > 0
      /\ status.conditions["Available"].status = "True" <=> r.ready > 0
  BY DEF Converged, StatusCurrent, CondTypes
<1>4. Computed(status, server.gen)
  BY <1>3 DEF StatusInv, ReadyGen
<1>5. status.conditions["Available"].status = "True"
        <=> status.phase # "Pending"
  BY <1>4 DEF Computed, VerdictOf, CondTypes
<1>6. status.phase = phase
  BY <1>1, <1>3, <1>4, <1>5 DEF Computed, PhaseOf
<1> HIDE DEF phase
<1>7. DOMAIN verdict = CondTypes
  BY DEF VerdictOf, CondTypes
<1>8. SetConditions(status.conditions, server.gen, verdict) = status.conditions
  BY <1>4, <1>6, <1>7 DEF SetConditions, Computed
<1>9. status = [phase |-> phase, conditions |-> status.conditions,
                rollout |-> r]
  BY <1>2, <1>3, <1>6 DEF Statuses
<1> HIDE DEF verdict
<1>10. Report(server, dep) =
         [phase      |-> phase,
          conditions |-> SetConditions(status.conditions, server.gen, verdict),
          rollout    |-> r]
  BY <1>1 DEF Report, phase, verdict
<1> QED BY <1>8, <1>9, <1>10

\* A request about a child that is in place stores what is there.
LEMMA InPlaceKept ==
    ASSUME TypeInv, ConvergenceInv, localFresh, NEW k \in Kinds,
           ChildInPlace(k), NEW ACTION Done, NEW ACTION Failed,
           Ensure(k, Done, Failed)
    PROVE  UNCHANGED <<server, children>>
<1> DEFINE have == children[k]
           new  == [owner   |-> local.uid,
                    content |-> Desired(k, local.spec),
                    rollout |-> have.rollout]
<1>1. have # Absent /\ have \in Children
  BY DEF ChildInPlace, TypeInv, TypeOK
<1>2. local.uid = server.uid /\ local.spec = server.spec
  BY DEF ConvergenceInv, ObjectCopies
<1>3. new = have
  BY <1>1, <1>2 DEF ChildInPlace, Children
<1>4. UNCHANGED children \/ children' = [children EXCEPT ![k] = new]
  BY <1>1 DEF Ensure, CreateOrUpdate
<1>5. UNCHANGED server
  BY DEF Ensure, CreateOrUpdate, objectVars
<1>6. [children EXCEPT ![k] = children[k]] = children
  BY DEF TypeInv, TypeOK
<1> HIDE DEF new
<1> QED BY <1>3, <1>4, <1>5, <1>6

LEMMA SteadyStep ==
    ASSUME TypeInv, ConvergenceInv, StatusInv, ReconcileStep,
           pc \notin {"idle", "clusterNotFound"}, localFresh,
           freshChild = Kinds, Converged
    PROVE  UNCHANGED <<server, children>>
<1>1. /\ server \in Objects /\ server # Absent
      /\ local.gen = server.gen /\ local.spec = server.spec
      /\ local.finalizer = server.finalizer
      /\ local.deleting = server.deleting
  BY DEF TypeInv, TypeOK, Copies, ConvergenceInv, ObjectCopies
<1>2. \A k \in Kinds : cachedChild[k] = children[k]
  BY DEF ConvergenceInv, ChildCopies
<1>3. CASE \/ StartReconcile \/ ReportClusterNotFound \/ ResolveCluster
  BY <1>3 DEF StartReconcile, ReportClusterNotFound, ResolveCluster, Skip,
              objectVars, childVars
<1>4. CASE RemoveFinalizer \/ AddFinalizer
  BY <1>1, <1>4 DEF RemoveFinalizer, AddFinalizer, Skip, Converged,
                    ConvergenceInv, LocalKnown, objectVars, childVars
<1>5. CASE ReconcileWorkerDeployment
  BY <1>5, InPlaceKept
     DEF ReconcileWorkerDeployment, Converged, Kinds, objectVars, childVars
<1>6. CASE ReconcileWorkerHPA
  BY <1>1, <1>2, <1>6, InPlaceKept
     DEF ReconcileWorkerHPA, Converged, Kinds, Skip, objectVars, childVars
<1>7. CASE UpdateWorkerStatus
  <2> DEFINE status == Report(local, cachedChild["deployment"])
             new    == [server EXCEPT !.status = status]
  <2>1. UNCHANGED childVars /\ (UNCHANGED server \/ server' = new)
    BY <1>7 DEF UpdateWorkerStatus, PutObject, Store
  <2>2. children["deployment"] # Absent /\ "deployment" \in Kinds
    BY DEF Converged, ChildInPlace, Kinds
  <2>3. status = Report(server, children["deployment"])
    <3>1. ASSUME NEW verdict, CondTypes \subseteq DOMAIN verdict
          PROVE  SetConditions(local.status.conditions, local.gen, verdict)
                   = SetConditions(server.status.conditions, server.gen,
                                   verdict)
      BY <1>1, <3>1 DEF SetConditions
    <3>2. \A phase : DOMAIN VerdictOf(phase) = CondTypes
      BY DEF VerdictOf, CondTypes
    <3> QED BY <1>2, <2>2, <3>1, <3>2 DEF Report
  <2>4. new = server
    <3>1. server.status = status
      BY <1>1, <2>3, ConvergedStatus
    <3> HIDE DEF status
    <3> QED BY <1>1, <3>1 DEF Objects
  <2> HIDE DEF new
  <2> QED BY <2>1, <2>4 DEF childVars
<1> QED BY <1>3, <1>4, <1>5, <1>6, <1>7 DEF ReconcileStep

\* Once a worker has converged the controller's own writes store what is there
\* already: they wake nobody, however often it is polled and whatever came before.
THEOREM SteadyStateCorrect == Spec => SteadyState
<1>1. TypeInv /\ ConvergenceInv /\ StatusInv /\ [Next]_vars
      => [ /\ ReconcileStep /\ pc \notin {"idle", "clusterNotFound"}
           /\ localFresh /\ freshChild = Kinds /\ Converged
           => UNCHANGED <<server, children>> ]_vars
  BY SteadyStep
<1> QED BY <1>1, TypeCorrect, ConvergenceInductive, StatusInductive, PTL
        DEF Spec, SteadyState

=================================================================================
