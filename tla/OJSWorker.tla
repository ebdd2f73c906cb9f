------------------------------- MODULE OJSWorker -------------------------------
(***************************************************************************)
(* The OJSWorker controller (internal/controller/ojsworker_controller.go)  *)
(* reconciling one OJSWorker: each step of Reconcile is an action, and     *)
(* users, the OJSClusters that come and go, the Deployment controller, the *)
(* horizontal autoscaler, the garbage collector, the informers and crashes *)
(* act between any two of them.                                            *)
(***************************************************************************)
EXTENDS ControllerRuntime

CONSTANTS
    Clusters,     \* names of OJSClusters
    Rival,        \* OJSCluster whose server Deployment has the worker's name
    Specs,        \* the specifications users apply
    MaxReplicas,  \* bound: pods a Deployment reports
    MaxUid,       \* bound: times the OJSWorker is created
    MaxGen,       \* bound: generations of one OJSWorker made by spec edits
    MaxChurn,     \* bound: OJSClusters created or deleted
    MaxCrash,     \* bound: crashes of the manager
    MaxDrift,     \* bound: children changed or removed by other clients
    MaxFlap,      \* bound: pod disruptions and load changes
    MaxToggle     \* bound: times the webhooks are removed or installed

VARIABLES
    clusters,  \* the OJSClusters that exist
    known,     \* the OJSClusters in the informer's cache
    webhook,   \* the validating webhooks are installed
    uids,      \* OJSWorkers created so far, all of the same name
    churn, crashes, drifts, flaps, toggles

(***************************************************************************)
(* Specifications, children and status.                                    *)
(***************************************************************************)

\* scaled says that autoscaling is configured and enabled, polls that the
\* polling interval is positive: unset, invalid, or a duration above zero.
AllSpecs == [cluster: Clusters, replicas: Nat, scaled: BOOLEAN,
             min: Nat, max: Nat, polls: BOOLEAN]

ASSUME SpecsAssumption == Specs \subseteq AllSpecs

ASSUME BoundsAssumption ==
    {MaxReplicas, MaxUid, MaxGen, MaxFail, MaxChurn, MaxCrash, MaxDrift,
     MaxFlap, MaxToggle} \subseteq Nat

\* SetupWithManager watches both with Owns(), and no OJSCluster.
Kinds == {"deployment", "autoscaler"}

\* The part of the specification the mutate function of child k writes.  The
\* cluster is in the labels of both, and in the Deployment's selector.
Desired(k, s) ==
    [cluster  |-> s.cluster,
     replicas |-> IF k = "deployment" THEN s.replicas ELSE 0,
     min      |-> IF k = "autoscaler" THEN s.min ELSE 0,
     max      |-> IF k = "autoscaler" THEN s.max ELSE 0]

\* The pod template is rebuilt without the API server's defaults, so an Update
\* is sent on every pass.
AlwaysSent == {"deployment"}

CondTypes  == {"Ready", "Available", "Progressing", "Degraded"}
Conditions == [CondTypes -> [status: {"", "True", "False"}, gen: Nat]]
Phases     == {"", "Pending", "Running", "Scaling", "Error"}
Rollouts   == [replicas: Nat, ready: Nat]
Statuses   == [phase: Phases, conditions: Conditions, rollout: Rollouts]

Objects == [uid: Nat, gen: Nat, spec: Specs, finalizer: BOOLEAN,
            deleting: BOOLEAN, status: Statuses]

Contents == [cluster: Clusters, replicas: Nat, min: Nat, max: Nat]
Children == [owner: Nat, content: Contents, rollout: Rollouts]

ASSUME AbsentAssumption == Absent \notin Objects \cup Children

NoStatus == [phase      |-> "",
             conditions |-> [c \in CondTypes |-> [status |-> "", gen |-> 0]],
             rollout    |-> NoRollout]

\* Variant: the verdict replaces the list of conditions.
SetConditions_Replacing(conditions, gen, verdict) ==
    [c \in DOMAIN verdict |-> [status |-> verdict[c], gen |-> gen]]

\* setWorkerCondition: the verdict's conditions, observed at generation gen.
SetConditions(conditions, gen, verdict) ==
    [c \in CondTypes |-> IF c \in DOMAIN verdict
                         THEN [status |-> verdict[c], gen |-> gen]
                         ELSE conditions[c]]

\* The phase and the conditions updateWorkerStatus reads off the Deployment.
PhaseOf(r) ==
    IF r.ready = r.replicas /\ r.replicas > 0 THEN "Running"
    ELSE IF r.ready > 0 THEN "Scaling"
    ELSE "Pending"

VerdictOf(phase) ==
    LET bool(b) == IF b THEN "True" ELSE "False"
    IN  [Ready       |-> bool(phase = "Running"),
         Available   |-> bool(phase # "Pending"),
         Progressing |-> bool(phase # "Running"),
         Degraded    |-> bool(phase = "Scaling")]

\* The status updateWorkerStatus computes for worker o from Deployment dep.
Report(o, dep) ==
    LET rollout == IF dep = Absent THEN o.status.rollout ELSE dep.rollout
        phase   == IF dep = Absent THEN "Pending" ELSE PhaseOf(rollout)
    IN  [phase      |-> phase,
         conditions |-> SetConditions(o.status.conditions, o.gen,
                                      VerdictOf(phase)),
         rollout    |-> rollout]

(***************************************************************************)
(* The steps of Reconcile.                                                 *)
(***************************************************************************)

clusterVars == <<clusters, known, churn>>
admission   == <<webhook, toggles>>
bounds      == <<uids, crashes, drifts, flaps>>
vars        == <<objectVars, childVars, runVars, fails, clusterVars, admission,
                 bounds>>

Init ==
    /\ server = Absent /\ cached = Absent /\ cacheFresh = TRUE
    /\ local = Absent /\ localFresh = FALSE
    /\ children = [k \in Kinds |-> Absent]
    /\ cachedChild = [k \in Kinds |-> Absent]
    /\ freshChild = Kinds
    /\ pc = "idle" /\ queued = FALSE
    /\ clusters = {} /\ known = {} /\ churn = 0
    /\ webhook = TRUE /\ toggles = 0
    /\ fails = 0 /\ uids = 0 /\ crashes = 0 /\ drifts = 0 /\ flaps = 0

\* A step that sends no request.
Skip(next) ==
    /\ Goto(next, local, localFresh)
    /\ UNCHANGED <<objectVars, childVars, fails>>

\* A worker thread takes the key and reads the object from the cache; there is
\* nothing to do for one that is gone.
StartReconcile ==
    /\ pc = "idle" /\ queued
    /\ queued' = FALSE
    /\ IF cached = Absent
       THEN UNCHANGED <<pc, local, localFresh>>
       ELSE /\ pc' = IF cached.deleting THEN "delete" ELSE "finalizer"
            /\ local' = cached
            /\ localFresh' = cacheFresh
    /\ UNCHANGED <<objectVars, childVars, fails>>

\* Variant: the bounds are not compared with each other.
Admits_OneByOne(s) == s.scaled => s.min >= 1

\* validateOJSWorker.  What the schema of the resource asks for as well is left
\* out: no specification lacks it.
Admits(s) == s.scaled => s.min >= 1 /\ s.max >= s.min

\* An Update of the worker, unlike one of its status, is sent to the webhook.
PutWorker(new, Done, Failed) ==
    IF webhook /\ ~Admits(local.spec)
    THEN Failed /\ UNCHANGED <<objectVars, childVars, fails>>
    ELSE PutObject(new, Done, Failed)

\* The operator's is the only finalizer: without it the object is gone.
RemoveFinalizer ==
    /\ pc = "delete"
    /\ IF local.finalizer
       THEN PutWorker(Absent, Finish, Requeue)
       ELSE Finish /\ UNCHANGED <<objectVars, childVars, fails>>

\* Variant: a failed Update does not stop the pass.
AddFinalizer_IgnoresError ==
    /\ pc = "finalizer"
    /\ IF local.finalizer
       THEN Skip("cluster")
       ELSE LET new == [server EXCEPT !.finalizer = TRUE]
            IN  PutWorker(new, Goto("cluster", new, TRUE),
                          Goto("cluster", local, localFresh))

AddFinalizer ==
    /\ pc = "finalizer"
    /\ IF local.finalizer
       THEN Skip("cluster")
       ELSE LET new == [server EXCEPT !.finalizer = TRUE]
            IN  PutWorker(new, Goto("cluster", new, TRUE), Requeue)

\* Variant: every pass starts the phases anew.
ResolveCluster_ResetsPhase ==
    /\ pc = "cluster"
    /\ LET new == [server EXCEPT !.status.phase = "Pending"]
       IN  PutObject(new, Goto(IF local.spec.cluster \in known THEN "deployment"
                               ELSE "clusterNotFound", new, TRUE), Requeue)

\* The OJSCluster is looked up in the cache.
ResolveCluster ==
    /\ pc = "cluster"
    /\ Skip(IF local.spec.cluster \in known
            THEN "deployment" ELSE "clusterNotFound")

\* The status of a worker whose OJSCluster is not found.
MissingCluster(o) ==
    [o.status EXCEPT
       !.phase = "Error",
       !.conditions = SetConditions(@, o.gen, [Ready    |-> "False",
                                               Degraded |-> "True"])]

\* Variant: the worker waits for an event to be looked at again.
ReportClusterNotFound_NoRequeue ==
    /\ pc = "clusterNotFound"
    /\ PutObject([server EXCEPT !.status = MissingCluster(local)],
                 Finish, Finish)

\* An error of this update is logged and ignored; the worker is looked at again
\* in thirty seconds.
ReportClusterNotFound ==
    /\ pc = "clusterNotFound"
    /\ PutObject([server EXCEPT !.status = MissingCluster(local)],
                 Requeue, Requeue)

\* Variant: no controller reference is set.
Ensure_WithoutOwner(k, Done, Failed) ==
    CreateOrUpdate(k, 0, Desired(k, local.spec), k \in AlwaysSent,
                   Done, Failed)

Ensure(k, Done, Failed) ==
    CreateOrUpdate(k, local.uid, Desired(k, local.spec), k \in AlwaysSent,
                   Done, Failed)

\* The owner of the Deployment of OJSCluster Rival.
RivalUid == MaxUid + 1

\* A child under another OJSWorker's or an OJSCluster's control.
Foreign(child) == child # Absent /\ child.owner = RivalUid

\* Variant: whose Deployment it is does not matter.
ReconcileWorkerDeployment_Adopting ==
    LET have == children["deployment"]
    IN  /\ pc = "deployment"
        /\ IF have # Absent /\ have.content.cluster # local.spec.cluster
           THEN Requeue /\ UNCHANGED <<objectVars, childVars, fails>>
           ELSE Ensure("deployment",
                       Goto("autoscaler", local, localFresh), Requeue)

\* Variant: a failed Update is logged and ignored.
ReconcileWorkerDeployment_IgnoresError ==
    LET have     == children["deployment"]
        Continue == Goto("autoscaler", local, localFresh)
    IN  /\ pc = "deployment"
        /\ IF \/ Foreign(cachedChild["deployment"])
              \/ have # Absent /\ have.content.cluster # local.spec.cluster
           THEN Continue /\ UNCHANGED <<objectVars, childVars, fails>>
           ELSE Ensure("deployment", Continue, Continue)

\* SetControllerReference refuses a Deployment under another's control.  The
\* selector is immutable: an Update that points an existing Deployment at
\* another OJSCluster is invalid.
ReconcileWorkerDeployment ==
    LET have == children["deployment"]
    IN  /\ pc = "deployment"
        /\ IF \/ Foreign(cachedChild["deployment"])
              \/ have # Absent /\ have.content.cluster # local.spec.cluster
           THEN Requeue /\ UNCHANGED <<objectVars, childVars, fails>>
           ELSE Ensure("deployment",
                       Goto("autoscaler", local, localFresh), Requeue)

\* Variant: an autoscaler that cannot be deleted is left alone.
ReconcileWorkerHPA_IgnoresError ==
    LET Continue == Goto("status", local, localFresh)
    IN  /\ pc = "autoscaler"
        /\ IF local.spec.scaled
           THEN Ensure("autoscaler", Continue, Requeue)
           ELSE IF cachedChild["autoscaler"] # Absent
           THEN DeleteChild("autoscaler", Continue, Continue)
           ELSE Skip("status")

\* With autoscaling off, an autoscaler found in the cache is deleted by name.
\* The API server takes no autoscaler whose bounds do not fit each other.
ReconcileWorkerHPA ==
    LET Continue == Goto("status", local, localFresh)
    IN  /\ pc = "autoscaler"
        /\ IF local.spec.scaled /\ local.spec.max < local.spec.min
           THEN Requeue /\ UNCHANGED <<objectVars, childVars, fails>>
           ELSE IF local.spec.scaled
           THEN Ensure("autoscaler", Continue, Requeue)
           ELSE IF cachedChild["autoscaler"] # Absent
           THEN DeleteChild("autoscaler", Continue, Requeue)
           ELSE Skip("status")

\* A worker with autoscaling is looked at again after its polling interval; a
\* RequeueAfter that is not positive asks for nothing.
Polled(o) == o.spec.scaled /\ o.spec.polls

\* Variant: a conflict on the status is not retried.
UpdateWorkerStatus_NoRetry ==
    /\ pc = "status"
    /\ LET status == Report(local, cachedChild["deployment"])
       IN  PutObject([server EXCEPT !.status = status],
                     IF Polled(local) THEN Requeue ELSE Finish, Finish)

\* Variant: the status is patched without the resourceVersion.
UpdateWorkerStatus_Unlocked ==
    /\ pc = "status" /\ server # Absent
    /\ Store([server EXCEPT !.status =
                Report(local, cachedChild["deployment"])])
    /\ IF Polled(local) THEN Requeue ELSE Finish
    /\ UNCHANGED <<cached, childVars, fails>>

\* The Deployment is read from the cache, by name.
UpdateWorkerStatus ==
    /\ pc = "status"
    /\ LET status == Report(local, cachedChild["deployment"])
       IN  PutObject([server EXCEPT !.status = status],
                     IF Polled(local) THEN Requeue ELSE Finish, Requeue)

ReconcileStep ==
    /\ \/ StartReconcile \/ RemoveFinalizer \/ AddFinalizer \/ ResolveCluster
       \/ ReportClusterNotFound \/ ReconcileWorkerDeployment
       \/ ReconcileWorkerHPA \/ UpdateWorkerStatus
    /\ UNCHANGED <<clusterVars, admission, bounds>>

(***************************************************************************)
(* The environment.                                                        *)
(***************************************************************************)

CreateWorker(s) ==
    /\ server = Absent /\ uids < MaxUid /\ (webhook => Admits(s))
    /\ uids' = uids + 1
    /\ WriteObject([uid |-> uids + 1, gen |-> 1, spec |-> s,
                    finalizer |-> FALSE, deleting |-> FALSE,
                    status |-> NoStatus])
    /\ UNCHANGED <<clusterVars, admission, crashes, drifts, flaps>>

EditSpec(s) ==
    /\ server # Absent /\ (webhook => Admits(s))
    /\ server.spec # s /\ server.gen < MaxGen
    /\ WriteObject([server EXCEPT !.spec = s, !.gen = @ + 1])
    /\ UNCHANGED <<clusterVars, admission, bounds>>

\* A deletion is only marked, as a new generation, while a finalizer is there.
DeleteWorker ==
    /\ server # Absent
    /\ ~server.deleting
    /\ WriteObject(IF server.finalizer
                   THEN [server EXCEPT !.deleting = TRUE, !.gen = @ + 1]
                   ELSE Absent)
    /\ UNCHANGED <<clusterVars, admission, bounds>>

\* An OJSCluster is created or goes away ...
ChangeCluster(c) ==
    /\ churn < MaxChurn
    /\ churn' = churn + 1
    /\ clusters' = IF c \in clusters THEN clusters \ {c} ELSE clusters \cup {c}
    /\ UNCHANGED <<objectVars, childVars, runVars, fails, known,
                   admission, bounds>>

\* ... and the informer learns of it, which wakes no OJSWorker.
SyncCluster(c) ==
    /\ (c \in known) # (c \in clusters)
    /\ known' = IF c \in clusters THEN known \cup {c} ELSE known \ {c}
    /\ UNCHANGED <<objectVars, childVars, runVars, fails, clusters, churn,
                   admission, bounds>>

\* The OJSCluster controller creates the server Deployment of Rival if there is
\* none of that name; it refuses one that the worker controls.
DeployRival ==
    /\ Rival \in clusters /\ children["deployment"] = Absent
    /\ WriteChild("deployment",
                  [owner   |-> RivalUid,
                   content |-> [cluster |-> Rival, replicas |-> 1,
                                min |-> 0, max |-> 0],
                   rollout |-> NoRollout])
    /\ UNCHANGED <<clusterVars, admission, bounds>>

\* An administrator removes the webhooks, or installs them again.
ToggleWebhook ==
    /\ toggles < MaxToggle
    /\ toggles' = toggles + 1
    /\ webhook' = ~webhook
    /\ UNCHANGED <<objectVars, childVars, runVars, fails, clusterVars, bounds>>

\* Another client scales the Deployment to nothing, narrows the autoscaler, or
\* removes either.
DriftChild(k) ==
    /\ drifts < MaxDrift /\ children[k] # Absent
    /\ drifts' = drifts + 1
    /\ \/ /\ k = "deployment"
          /\ WriteChild(k, [children[k] EXCEPT !.content.replicas = 0])
       \/ /\ k = "autoscaler"
          /\ WriteChild(k, [children[k] EXCEPT !.content.max =
                              children[k].content.min])
       \/ WriteChild(k, Absent)
    /\ UNCHANGED <<clusterVars, admission, uids, crashes, flaps>>

\* The Deployment is outside the autoscaler's bounds.  The autoscaler leaves
\* one that is scaled to nothing alone.
MustScale ==
    LET hpa == children["autoscaler"]
        dep == children["deployment"]
    IN  /\ hpa # Absent /\ dep # Absent /\ dep.content.replicas > 0
        /\ dep.content.replicas \notin hpa.content.min .. hpa.content.max

\* The autoscaler scales its Deployment because it has to, or for the load.
Autoscale ==
    LET hpa == children["autoscaler"]
        dep == children["deployment"]
    IN  /\ hpa # Absent /\ dep # Absent /\ dep.content.replicas > 0
        /\ \E n \in hpa.content.min .. hpa.content.max :
             WriteChild("deployment", [dep EXCEPT !.content.replicas = n])
        /\ IF MustScale
           THEN UNCHANGED flaps
           ELSE flaps < MaxFlap /\ flaps' = flaps + 1
        /\ UNCHANGED <<clusterVars, admission, uids, crashes, drifts>>

\* The Deployment controller reports the worker pods: all of them running ...
PodsSettle ==
    LET dep == children["deployment"]
        n   == dep.content.replicas
    IN  /\ dep # Absent
        /\ WriteChild("deployment", [dep EXCEPT !.rollout =
                                       [replicas |-> n, ready |-> n]])
        /\ UNCHANGED <<clusterVars, admission, bounds>>

\* ... or some state on the way there or away from it.
PodsFlap ==
    LET dep == children["deployment"]
    IN  /\ dep # Absent /\ flaps < MaxFlap
        /\ flaps' = flaps + 1
        /\ \E n \in 0..MaxReplicas : \E m \in 0..n :
             WriteChild("deployment", [dep EXCEPT !.rollout =
                                         [replicas |-> n, ready |-> m]])
        /\ UNCHANGED <<clusterVars, admission, uids, crashes, drifts>>

Crash ==
    /\ crashes < MaxCrash
    /\ crashes' = crashes + 1
    /\ Restart
    /\ known' = clusters
    /\ UNCHANGED <<clusters, churn, admission, uids, drifts, flaps>>

User == DeleteWorker \/ \E s \in Specs : CreateWorker(s) \/ EditSpec(s)

\* Nothing of the worker's is in the events of child k.  One that turns up where
\* the cache has none may follow on one of the worker's that the cache missed.
Unrelated(k) ==
    Foreign(cachedChild[k]) /\ (children[k] = Absent \/ Foreign(children[k]))

\* The Owns() watch delivers a child that another object controls, or its end:
\* it enqueues nothing.
SyncForeign(k) ==
    /\ k \notin freshChild /\ Unrelated(k)
    /\ cachedChild' = [cachedChild EXCEPT ![k] = children[k]]
    /\ freshChild' = freshChild \cup {k}
    /\ UNCHANGED <<objectVars, children, runVars, fails>>

SyncKind(k) ==
    /\ SyncForeign(k) \/ (~Unrelated(k) /\ SyncChild(k))
    /\ UNCHANGED <<clusterVars, admission, bounds>>

CollectOrphan(k) ==
    /\ Foreign(children[k]) => Rival \notin clusters
    /\ CollectGarbage(k)
    /\ UNCHANGED <<clusterVars, admission, bounds>>

Informers ==
    \/ SyncObject /\ UNCHANGED <<clusterVars, admission, bounds>>
    \/ \E k \in Kinds : SyncKind(k)
    \/ \E c \in Clusters : SyncCluster(c)

Next ==
    \/ ReconcileStep
    \/ Informers
    \/ User
    \/ \E c \in Clusters : ChangeCluster(c)
    \/ PodsSettle \/ PodsFlap \/ Autoscale
    \/ \E k \in Kinds : DriftChild(k)
    \/ \E k \in Kinds : CollectOrphan(k)
    \/ DeployRival \/ ToggleWebhook
    \/ Crash

Spec == Init /\ [][Next]_vars

\* The manager keeps working the queue, every watch eventually delivers, and
\* the Deployment controller, the garbage collector and the autoscaler make
\* progress.  Nothing else is under an obligation to happen.
Fairness ==
    /\ WF_vars(ReconcileStep)
    /\ WF_vars(SyncObject /\ UNCHANGED <<clusterVars, admission, bounds>>)
    /\ \A k \in Kinds : WF_vars(SyncKind(k)) /\ WF_vars(CollectOrphan(k))
    /\ \A c \in Clusters : WF_vars(SyncCluster(c))
    /\ WF_vars(PodsSettle)
    /\ WF_vars(MustScale /\ Autoscale)

FairSpec == Spec /\ Fairness

(***************************************************************************)
(* Properties.                                                             *)
(***************************************************************************)

Steps == Kinds \cup {"idle", "delete", "finalizer", "cluster",
                     "clusterNotFound", "status"}

\* Every variable has its type.
TypeOK ==
    /\ server \in Objects \cup {Absent}
    /\ cached \in Objects \cup {Absent}
    /\ local \in Objects \cup {Absent}
    /\ cacheFresh \in BOOLEAN /\ localFresh \in BOOLEAN /\ queued \in BOOLEAN
    /\ children \in [Kinds -> Children \cup {Absent}]
    /\ cachedChild \in [Kinds -> Children \cup {Absent}]
    /\ freshChild \subseteq Kinds
    /\ pc \in Steps
    /\ clusters \subseteq Clusters /\ known \subseteq Clusters
    /\ webhook \in BOOLEAN
    /\ fails \in Nat /\ uids \in Nat /\ churn \in Nat
    /\ crashes \in Nat /\ drifts \in Nat /\ flaps \in Nat /\ toggles \in Nat

\* Nothing is running, queued, or still to be delivered by a watch.
Quiescent ==
    /\ pc = "idle" /\ ~queued
    /\ cacheFresh /\ freshChild = Kinds

ChildInPlace(k) ==
    /\ children[k] # Absent
    /\ children[k].owner = server.uid
    /\ children[k].content = Desired(k, server.spec)

\* The status tells what the Deployment reports, for the present generation.
StatusCurrent ==
    LET r == children["deployment"].rollout
        c == server.status.conditions
    IN  /\ server.status.rollout = r
        /\ \A t \in CondTypes : c[t].gen = server.gen
        /\ server.status.phase # "Error"
        /\ server.status.phase = "Running"
             <=> r.ready = r.replicas /\ r.ready > 0
        /\ c["Ready"].status = "True" <=> r.ready = r.replicas /\ r.ready > 0
        /\ c["Available"].status = "True" <=> r.ready > 0
        /\ c["Degraded"].status = "True" <=> r.ready > 0 /\ r.ready # r.replicas

\* A worker that is as its specification asks.
Converged ==
    /\ ~server.deleting /\ server.finalizer
    /\ ChildInPlace("deployment")
    /\ IF server.spec.scaled THEN ChildInPlace("autoscaler")
       ELSE children["autoscaler"] = Absent
    /\ StatusCurrent

\* When the controller comes to rest, which it only does for a worker that it
\* does not poll and whose OJSCluster it found, Deployment, autoscaler and
\* status agree with the specification; no autoscaler is left to scale the pods,
\* though the cache may have hidden one from the pass that should delete it.
NoLostWakeup ==
    Quiescent /\ server # Absent => ~Polled(server) /\ Converged

\* A Ready condition that carries the present generation, and does not say that
\* the OJSCluster is missing, was computed after a Deployment of the worker's
\* own, connected to the OJSCluster of that generation, had been made.  How many
\* pods it runs is the autoscaler's business as well.
ObservedMeansApplied ==
    LET dep == children["deployment"]
    IN  /\ drifts = 0 /\ server # Absent /\ server.status.phase # "Error"
        /\ server.status.conditions["Ready"].gen = server.gen
        => /\ dep # Absent /\ dep.owner = server.uid
           /\ dep.content.cluster = server.spec.cluster

\* Nothing is created for a worker that does not carry the finalizer yet.
FinalizerFirst ==
    server # Absent /\ (\E k \in Kinds : /\ children[k] # Absent
                                         /\ children[k].owner = server.uid)
    => server.finalizer

\* The Deployment's selector belongs to another OJSCluster than the worker's.
Wedged ==
    /\ ~server.deleting /\ children["deployment"] # Absent
    /\ ~Foreign(children["deployment"])
    /\ children["deployment"].content.cluster # server.spec.cluster

\* An existing OJSCluster has the Deployment of the worker's name.
Usurped ==
    /\ ~server.deleting /\ Foreign(children["deployment"])
    /\ Rival \in clusters

\* The status says that the OJSCluster is missing, and it is.
Missing ==
    /\ ~server.deleting /\ server.spec.cluster \notin clusters
    /\ server.status.phase = "Error"
    /\ server.status.conditions["Ready"] = [status |-> "False",
                                            gen    |-> server.gen]

\* A worker with autoscaling has its autoscaler and a Deployment of its own,
\* whatever number of pods the two of them settle for.
Scaled ==
    /\ ~server.deleting /\ server.finalizer /\ server.spec.scaled
    /\ children["deployment"] # Absent
    /\ children["deployment"].owner = server.uid
    /\ children["deployment"].content.cluster = server.spec.cluster
    /\ ChildInPlace("autoscaler")

\* docs/troubleshooting.md: a worker whose OJSCluster is not found is retried
\* until it recovers.  Once users leave things alone the worker is as it should
\* be, or says that its OJSCluster is missing, for good, although no watch tells
\* it of OJSClusters, nor that one has given up the Deployment of the worker's
\* name; a deleted one goes away.
EventuallyReconciled ==
    <>[](server = Absent \/ Wedged \/ Usurped \/ Missing \/ Scaled \/ Converged)

\* When the worker is gone for good the garbage collector finds every child by
\* the owner reference it was created with.
EventuallyCollected ==
    <>[](server = Absent => \A k \in Kinds : \/ children[k] = Absent
                                            \/ Foreign(children[k]))

\* However stale the cache, no pass of the worker's changes or takes over the
\* server Deployment of an OJSCluster.
NeverStolen ==
    [][ReconcileStep /\ Foreign(children["deployment"])
         => children'["deployment"] = children["deployment"]]_vars

\* The controller does not keep itself awake: on current copies of a worker
\* that has converged no step of a pass writes anything, although the Deployment
\* is sent on every pass; only a missing OJSCluster is reported.
SteadyState ==
    [][ /\ ReconcileStep /\ pc \notin {"idle", "clusterNotFound"}
        /\ localFresh /\ freshChild = Kinds /\ Converged
        => UNCHANGED <<server, children>> ]_vars

(***************************************************************************)
(* The abstract specification.                                             *)
(***************************************************************************)

Observed == INSTANCE ObservedGeneration WITH
    gen      <- IF server = Absent THEN 0 ELSE server.gen,
    observed <- IF server = Absent THEN 0
                ELSE server.status.conditions["Ready"].gen

\* No pass gets as far as the status: the worker's Deployment cannot be had, or
\* the webhook or the API server refuses what the specification asks for.
Stuck == server # Absent /\ (Wedged \/ Usurped \/ ~Admits(server.spec))

\* The Ready condition keeps the promise of an observedGeneration, in the status
\* of a pass that succeeds and in the one that reports a missing OJSCluster: it
\* moves to the generation that is the latest, in one step, and every generation
\* is eventually carried unless the worker goes away or is stuck.
ReadyIsObservedGeneration ==
    Observed!Spec /\ (Observed!Fairness \/ <>[]Stuck)

(***************************************************************************)
(* What the documentation says and the code does not do.                   *)
(***************************************************************************)

\* api/v1alpha1/ojsworker_types.go: MinReplicas is the minimum number of worker
\* pods.  A worker with autoscaling that is left alone ends up with at least as
\* many.
EventuallyAtLeastMin ==
    <>[](server # Absent /\ server.spec.scaled /\ ~server.deleting
           /\ server.spec.cluster \in clusters
         => children["deployment"] # Absent
              /\ children["deployment"].content.replicas >= server.spec.min)

\* README.md: the Deployment runs pods connected to the referenced OJSCluster.
\* A worker that refers to an existing OJSCluster and is left alone ends up
\* with pods that are connected to it.
EventuallyConnected ==
    <>[](server # Absent /\ ~server.deleting
           /\ server.spec.cluster \in clusters
         => children["deployment"] # Absent
              /\ children["deployment"].content.cluster = server.spec.cluster)

\* docs/architecture.md: when an OJSWorker is deleted, its Deployment and HPA
\* are removed automatically.  A worker that users deleted goes away.
EventuallyDeleted == <>[](server = Absent \/ ~server.deleting)

=============================================================================
