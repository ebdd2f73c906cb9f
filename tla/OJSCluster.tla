------------------------------ MODULE OJSCluster ------------------------------
(***************************************************************************)
(* The OJSCluster controller (internal/controller/ojscluster_controller.go)*)
(* reconciling one OJSCluster: each step of Reconcile that sends a request *)
(* to the API server is an action, and users, the Deployment controller,   *)
(* the garbage collector, the informers and crashes act between any two of *)
(* them.                                                                   *)
(***************************************************************************)
EXTENDS ControllerRuntime

CONSTANTS
    Specs,        \* the specifications users apply
    MaxReplicas,  \* bound: pods a Deployment reports
    MaxUid,       \* bound: times the OJSCluster is created
    MaxGen,       \* bound: generations of one OJSCluster made by spec edits
    MaxCrash,     \* bound: crashes of the manager
    MaxDrift,     \* bound: children changed or removed by other clients
    MaxFlap,      \* bound: pod disruptions the Deployment controller reports
    MaxToggle     \* bound: times the webhooks are removed or installed

VARIABLES
    webhook,  \* the validating webhooks are installed
    uids,     \* OJSClusters created so far, all of the same name
    crashes, drifts, flaps, toggles

(***************************************************************************)
(* Specifications, children and status.                                    *)
(***************************************************************************)

\* "external" and "lite" stand for backends the operator does not run, "redis"
\* for the embedded redis, "unsupported" for embedded: true with another type.
Backends == {"external", "lite", "redis", "unsupported"}

\* The disruption budget: disabled, by maxUnavailable, or by minAvailable.
Budgets == {"disabled", "maxUnavailable", "minAvailable"}

\* scaled says that autoscaling is enabled, between min and max workers.
AllSpecs == [backend: Backends, replicas: Nat, budget: Budgets,
             monitor: BOOLEAN, scaled: BOOLEAN, min: Nat, max: Nat]

ASSUME SpecsAssumption == Specs \subseteq AllSpecs

ASSUME BoundsAssumption ==
    {MaxReplicas, MaxUid, MaxGen, MaxFail, MaxCrash, MaxDrift, MaxFlap,
     MaxToggle} \subseteq Nat

Kinds == {"redisDeployment", "redisService", "configMap", "deployment",
          "service", "disruptionBudget", "serviceMonitor"}

\* SetupWithManager watches the children with Owns(), the ServiceMonitor apart.
Owned == Kinds \ {"serviceMonitor"}

\* The children that run pods.
Deployments == {"deployment", "redisDeployment"}

\* The children Reconcile asks for under specification s.
Wants(k, s) ==
    CASE k \in {"redisDeployment", "redisService"} -> s.backend = "redis"
      [] k = "disruptionBudget" -> s.replicas > 1 /\ s.budget # "disabled"
      [] k = "serviceMonitor"   -> s.monitor
      [] OTHER                  -> TRUE

\* The part of the specification the mutate function of child k writes.
Desired(k, s) ==
    [backend  |-> IF k \in {"configMap", "deployment"} THEN s.backend ELSE "",
     replicas |-> CASE k = "deployment"      -> s.replicas
                    [] k = "redisDeployment" -> 1
                    [] OTHER                 -> 0,
     budget   |-> IF k = "disruptionBudget" THEN s.budget ELSE ""]

\* What another client makes of a child.
Drifted == [backend |-> "drifted", replicas |-> 0, budget |-> "drifted"]

\* Variant: the server Deployment is only updated when it looks different.
AlwaysSent_ExceptDeployment == {"redisDeployment", "serviceMonitor"}

\* Pod templates and the ServiceMonitor's spec are rebuilt without the API
\* server's defaults, so an Update is sent for these kinds on every pass.
AlwaysSent == {"redisDeployment", "deployment", "serviceMonitor"}

CondTypes  == {"Ready", "Available", "Progressing", "Degraded", "BackendReady"}
Conditions == [CondTypes -> [status: {"", "True", "False"}, gen: Nat]]
Phases     == {"", "Pending", "Running", "Scaling"}
Rollouts   == [replicas: Nat, ready: Nat]
Statuses   == [phase: Phases, conditions: Conditions, rollout: Rollouts]

Objects == [uid: Nat, gen: Nat, spec: Specs, finalizer: BOOLEAN,
            deleting: BOOLEAN, status: Statuses]

Contents == [backend: Backends \cup {"", "drifted"}, replicas: Nat,
             budget: Budgets \cup {"", "drifted"}]
Children == [owner: Nat, content: Contents, rollout: Rollouts]

ASSUME AbsentAssumption == Absent \notin Objects \cup Children

NoStatus == [phase      |-> "",
             conditions |-> [c \in CondTypes |-> [status |-> "", gen |-> 0]],
             rollout    |-> NoRollout]

\* Variant: the verdict replaces the list of conditions.
SetConditions_Replacing(conditions, gen, verdict) ==
    [c \in DOMAIN verdict |-> [status |-> verdict[c], gen |-> gen]]

\* setCondition: the verdict's conditions, observed at generation gen.
SetConditions(conditions, gen, verdict) ==
    [c \in CondTypes |-> IF c \in DOMAIN verdict
                         THEN [status |-> verdict[c], gen |-> gen]
                         ELSE conditions[c]]

\* The phase and the conditions updateStatus reads off the Deployment's status.
PhaseOf(r) ==
    IF r.ready = r.replicas /\ r.replicas > 0 THEN "Running"
    ELSE IF r.ready > 0 THEN "Scaling"
    ELSE "Pending"

VerdictOf(phase) ==
    LET bool(b) == IF b THEN "True" ELSE "False"
    IN  [Ready       |-> bool(phase = "Running"),
         Available   |-> bool(phase # "Pending"),
         Progressing |-> bool(phase # "Running"),
         Degraded    |-> bool(phase = "Scaling")]

\* The status updateStatus computes for object o from Deployment dep; one that
\* is not found reports the Pending verdict and keeps the old pod counts.
Report(o, dep) ==
    LET rollout == IF dep = Absent THEN o.status.rollout ELSE dep.rollout
        phase   == IF dep = Absent THEN "Pending" ELSE PhaseOf(rollout)
    IN  [phase      |-> phase,
         conditions |-> SetConditions(o.status.conditions, o.gen,
                                      VerdictOf(phase)),
         rollout    |-> rollout]

(***************************************************************************)
(* The steps of Reconcile.                                                 *)
(***************************************************************************)

\* What only the environment changes: the webhooks and the bounded counters.
bounds == <<webhook, toggles, uids, crashes, drifts, flaps>>
vars   == <<objectVars, childVars, runVars, fails, bounds>>

Init ==
    /\ server = Absent /\ cached = Absent /\ cacheFresh = TRUE
    /\ local = Absent /\ localFresh = FALSE
    /\ children = [k \in Kinds |-> Absent]
    /\ cachedChild = [k \in Owned |-> Absent]
    /\ freshChild = Owned
    /\ pc = "idle" /\ queued = FALSE
    /\ webhook = FALSE /\ toggles = 0
    /\ fails = 0 /\ uids = 0 /\ crashes = 0 /\ drifts = 0 /\ flaps = 0

\* A step that sends no request.
Skip(next) ==
    /\ Goto(next, local, localFresh)
    /\ UNCHANGED <<objectVars, childVars, fails>>

\* A worker takes the key and reads the object from the cache; there is
\* nothing to do for one that is gone.
StartReconcile ==
    /\ pc = "idle" /\ queued
    /\ queued' = FALSE
    /\ IF cached = Absent
       THEN UNCHANGED <<pc, local, localFresh>>
       ELSE /\ pc' = IF cached.deleting THEN "delete" ELSE "finalizer"
            /\ local' = cached
            /\ localFresh' = cacheFresh
    /\ UNCHANGED <<objectVars, childVars, fails>>

\* validateOJSCluster; every backend type in Backends is a valid one.
Admits(s) ==
    /\ s.replicas >= 1
    /\ s.scaled => s.min >= 1 /\ s.max >= s.min

\* Variant: what the webhook refused is not tried again.
PutCluster_NoRetry(new, Done, Failed) ==
    IF webhook /\ ~Admits(local.spec)
    THEN Finish /\ UNCHANGED <<objectVars, childVars, fails>>
    ELSE PutObject(new, Done, Failed)

\* An Update of the cluster, unlike one of its status, is sent to the webhook.
PutCluster(new, Done, Failed) ==
    IF webhook /\ ~Admits(local.spec)
    THEN Failed /\ UNCHANGED <<objectVars, childVars, fails>>
    ELSE PutObject(new, Done, Failed)

\* Variant: a deletion that fails is not retried.
RemoveFinalizer_NoRetry ==
    /\ pc = "delete"
    /\ IF local.finalizer
       THEN PutCluster(Absent, Finish, Finish)
       ELSE Finish /\ UNCHANGED <<objectVars, childVars, fails>>

\* The operator's is the only finalizer: without it the object is gone.
RemoveFinalizer ==
    /\ pc = "delete"
    /\ IF local.finalizer
       THEN PutCluster(Absent, Finish, Requeue)
       ELSE Finish /\ UNCHANGED <<objectVars, childVars, fails>>

\* Variant: a failed Update does not stop the pass.
AddFinalizer_IgnoresError ==
    /\ pc = "finalizer"
    /\ IF local.finalizer
       THEN Skip("phase")
       ELSE LET new == [server EXCEPT !.finalizer = TRUE]
            IN  PutCluster(new, Goto("phase", new, TRUE),
                          Goto("phase", local, localFresh))

AddFinalizer ==
    /\ pc = "finalizer"
    /\ IF local.finalizer
       THEN Skip("phase")
       ELSE LET new == [server EXCEPT !.finalizer = TRUE]
            IN  PutCluster(new, Goto("phase", new, TRUE), Requeue)

\* Variant: every pass starts the phases anew.
SetPendingPhase_EveryPass ==
    /\ pc = "phase"
    /\ LET new == [server EXCEPT !.status.phase = "Pending"]
       IN  PutObject(new, Goto("backend", new, TRUE), Requeue)

SetPendingPhase ==
    /\ pc = "phase"
    /\ IF local.status.phase # ""
       THEN Skip("backend")
       ELSE LET status == [local.status EXCEPT
                             !.phase = "Pending",
                             !.conditions = SetConditions(@, local.gen,
                                              [Progressing |-> "True"])]
                new == [server EXCEPT !.status = status]
            IN  PutObject(new, Goto("backend", new, TRUE), Requeue)

\* Variant: the backend is only deployed while the cluster is initialised.
ReconcileEmbeddedBackend_FirstPassOnly ==
    /\ pc = "backend"
    /\ Skip(IF local.status.conditions["Ready"].gen > 0
            THEN "configMap"
            ELSE [external    |-> "configMap",
                  lite        |-> "configMap",
                  redis       |-> "redisDeployment",
                  unsupported |-> "backendFailed"][local.spec.backend])

\* Variant: any other backend is reported as ready, too.
ReconcileEmbeddedBackend_AlwaysReady ==
    /\ pc = "backend"
    /\ LET marked == [local EXCEPT !.status.conditions =
                        SetConditions(@, local.gen, [BackendReady |-> "True"])]
       IN  IF local.spec.backend = "redis"
           THEN Skip("redisDeployment")
           ELSE /\ Goto("configMap", marked, localFresh)
                /\ UNCHANGED <<objectVars, childVars, fails>>

\* reconcileEmbeddedBackend is called for an embedded backend only, and knows
\* redis only.
ReconcileEmbeddedBackend ==
    /\ pc = "backend"
    /\ Skip([external    |-> "configMap",
             lite        |-> "configMap",
             redis       |-> "redisDeployment",
             unsupported |-> "backendFailed"][local.spec.backend])

\* Variant: no controller reference is set.
Ensure_WithoutOwner(k, Done, Failed) ==
    CreateOrUpdate(k, 0, Desired(k, local.spec), k \in AlwaysSent,
                   Done, Failed)

\* Variant: a child that exists keeps what it was created with.
Ensure_ContentOnCreate(k, Done, Failed) ==
    CreateOrUpdate(k, local.uid, IF Seen(k) = Absent THEN Desired(k, local.spec)
                                 ELSE Seen(k).content,
                   k \in AlwaysSent, Done, Failed)

\* CreateOrUpdate of child k if the specification asks for it.
Ensure(k, Done, Failed) ==
    CreateOrUpdate(k, local.uid, Desired(k, local.spec), k \in AlwaysSent,
                   Done, Failed)

BackendFailed == Goto("backendFailed", local, localFresh)

ReconcileRedisDeployment ==
    /\ pc = "redisDeployment"
    /\ Ensure("redisDeployment",
              Goto("redisService", local, localFresh), BackendFailed)

\* The last step of the embedded backend; BackendReady is set in memory.
ReconcileRedisService ==
    /\ pc = "redisService"
    /\ LET marked == [local EXCEPT !.status.conditions =
                        SetConditions(@, local.gen, [BackendReady |-> "True"])]
       IN  Ensure("redisService",
                  Goto("configMap", marked, localFresh), BackendFailed)

\* Reconcile reports the failure, ignores an error of doing so, and returns
\* the backend's error.
ReportBackendFailure ==
    /\ pc = "backendFailed"
    /\ LET failure == [BackendReady |-> "False", Degraded |-> "True"]
           status  == [local.status EXCEPT !.conditions =
                         SetConditions(@, local.gen, failure)]
       IN  PutObject([server EXCEPT !.status = status], Requeue, Requeue)

\* Variant: a failed ConfigMap is logged and ignored.
ReconcileConfigMap_IgnoresError ==
    /\ pc = "configMap"
    /\ Ensure("configMap", Goto("deployment", local, localFresh),
              Goto("deployment", local, localFresh))

ReconcileConfigMap ==
    /\ pc = "configMap"
    /\ Ensure("configMap", Goto("deployment", local, localFresh), Requeue)

ReconcileDeployment ==
    /\ pc = "deployment"
    /\ Ensure("deployment", Goto("service", local, localFresh), Requeue)

ReconcileService ==
    /\ pc = "service"
    /\ Ensure("service", Goto("disruptionBudget", local, localFresh), Requeue)

\* A budget that is no longer asked for is left alone.
ReconcilePDB ==
    /\ pc = "disruptionBudget"
    /\ IF Wants("disruptionBudget", local.spec)
       THEN Ensure("disruptionBudget",
                   Goto("serviceMonitor", local, localFresh), Requeue)
       ELSE Skip("serviceMonitor")

\* Variant: the ServiceMonitor is only made while the cluster is initialised.
ReconcileServiceMonitor_WhilePending ==
    /\ pc = "serviceMonitor"
    /\ IF Wants("serviceMonitor", local.spec) /\ local.status.phase = "Pending"
       THEN Ensure("serviceMonitor", Goto("status", local, localFresh),
                   Goto("status", local, localFresh))
       ELSE Skip("status")

\* An error of this step is logged and otherwise ignored.
ReconcileServiceMonitor ==
    /\ pc = "serviceMonitor"
    /\ IF Wants("serviceMonitor", local.spec)
       THEN Ensure("serviceMonitor", Goto("status", local, localFresh),
                   Goto("status", local, localFresh))
       ELSE Skip("status")

\* Variant: the status is patched without the resourceVersion.
UpdateStatus_Unlocked ==
    /\ pc = "status" /\ server # Absent
    /\ Store([server EXCEPT !.status =
                Report(local, cachedChild["deployment"])])
    /\ Finish
    /\ UNCHANGED <<cached, childVars, fails>>

\* Variant: a status that could not be stored is not tried again.
UpdateStatus_NoRetry ==
    /\ pc = "status"
    /\ LET status == Report(local, cachedChild["deployment"])
       IN  PutObject([server EXCEPT !.status = status], Finish, Finish)

\* updateStatus reads the Deployment from the cache.
UpdateStatus ==
    /\ pc = "status"
    /\ LET status == Report(local, cachedChild["deployment"])
       IN  PutObject([server EXCEPT !.status = status], Finish, Requeue)

ReconcileStep ==
    \/ StartReconcile \/ RemoveFinalizer \/ AddFinalizer \/ SetPendingPhase
    \/ ReconcileEmbeddedBackend \/ ReconcileRedisDeployment
    \/ ReconcileRedisService \/ ReportBackendFailure \/ ReconcileConfigMap
    \/ ReconcileDeployment \/ ReconcileService \/ ReconcilePDB
    \/ ReconcileServiceMonitor \/ UpdateStatus

(***************************************************************************)
(* The environment.                                                        *)
(***************************************************************************)

CreateCluster(s) ==
    /\ server = Absent /\ uids < MaxUid /\ (webhook => Admits(s))
    /\ uids' = uids + 1
    /\ WriteObject([uid |-> uids + 1, gen |-> 1, spec |-> s,
                    finalizer |-> FALSE, deleting |-> FALSE,
                    status |-> NoStatus])
    /\ UNCHANGED <<webhook, toggles, crashes, drifts, flaps>>

EditSpec(s) ==
    /\ server # Absent /\ (webhook => Admits(s))
    /\ server.spec # s /\ server.gen < MaxGen
    /\ WriteObject([server EXCEPT !.spec = s, !.gen = @ + 1])
    /\ UNCHANGED bounds

\* A deletion is only marked, as a new generation, while a finalizer is there.
DeleteCluster ==
    /\ server # Absent
    /\ ~server.deleting
    /\ WriteObject(IF server.finalizer
                   THEN [server EXCEPT !.deleting = TRUE, !.gen = @ + 1]
                   ELSE Absent)
    /\ UNCHANGED bounds

\* Another client changes a child or removes it.
DriftChild(k) ==
    /\ drifts < MaxDrift /\ children[k] # Absent
    /\ drifts' = drifts + 1
    /\ \/ WriteChild(k, [children[k] EXCEPT !.content = Drifted])
       \/ WriteChild(k, Absent)
    /\ UNCHANGED <<webhook, toggles, uids, crashes, flaps>>

\* The Deployment controller reports the pods of Deployment k: all running ...
PodsSettle(k) ==
    LET dep == children[k]
        n   == dep.content.replicas
    IN  /\ dep # Absent
        /\ WriteChild(k, [dep EXCEPT !.rollout = [replicas |-> n, ready |-> n]])
        /\ UNCHANGED bounds

\* ... or some state on the way there or away from it.
PodsFlap(k) ==
    LET dep == children[k]
    IN  /\ dep # Absent /\ flaps < MaxFlap
        /\ flaps' = flaps + 1
        /\ \E n \in 0..MaxReplicas : \E m \in 0..n :
             WriteChild(k, [dep EXCEPT !.rollout = [replicas |-> n, ready |-> m]])
        /\ UNCHANGED <<webhook, toggles, uids, crashes, drifts>>

Crash ==
    /\ crashes < MaxCrash
    /\ crashes' = crashes + 1
    /\ Restart
    /\ UNCHANGED <<webhook, toggles, uids, drifts, flaps>>

\* An administrator removes the webhook configuration or installs it again.
ToggleWebhook ==
    /\ toggles < MaxToggle
    /\ toggles' = toggles + 1
    /\ webhook' = ~webhook
    /\ UNCHANGED <<objectVars, childVars, runVars, fails, uids, crashes,
                   drifts, flaps>>

User == DeleteCluster \/ \E s \in Specs : CreateCluster(s) \/ EditSpec(s)

Informers == SyncObject \/ \E k \in Owned : SyncChild(k)

Next ==
    \/ ReconcileStep /\ UNCHANGED bounds
    \/ Informers /\ UNCHANGED bounds
    \/ User
    \/ \E k \in Deployments : PodsSettle(k) \/ PodsFlap(k)
    \/ \E k \in Kinds : DriftChild(k)
    \/ \E k \in Kinds : CollectGarbage(k) /\ UNCHANGED bounds
    \/ Crash \/ ToggleWebhook

Spec == Init /\ [][Next]_vars

\* The manager keeps working the queue, every watch eventually delivers, and
\* the cluster's own controllers make progress.  Users, failures, crashes and
\* disruptions are under no obligation to happen.
Fairness ==
    /\ WF_vars(ReconcileStep /\ UNCHANGED bounds)
    /\ WF_vars(SyncObject /\ UNCHANGED bounds)
    /\ \A k \in Owned : WF_vars(SyncChild(k) /\ UNCHANGED bounds)
    /\ \A k \in Kinds : WF_vars(CollectGarbage(k) /\ UNCHANGED bounds)
    /\ \A k \in Deployments : WF_vars(PodsSettle(k))

FairSpec == Spec /\ Fairness

(***************************************************************************)
(* Properties.                                                             *)
(***************************************************************************)

Steps == Kinds \cup {"idle", "delete", "finalizer", "phase", "backend",
                     "backendFailed", "status"}

\* Every variable has its type.
TypeOK ==
    /\ server \in Objects \cup {Absent}
    /\ cached \in Objects \cup {Absent}
    /\ local \in Objects \cup {Absent}
    /\ cacheFresh \in BOOLEAN /\ localFresh \in BOOLEAN /\ queued \in BOOLEAN
    /\ children \in [Kinds -> Children \cup {Absent}]
    /\ cachedChild \in [Owned -> Children \cup {Absent}]
    /\ freshChild \subseteq Owned
    /\ pc \in Steps
    /\ fails \in Nat /\ uids \in Nat
    /\ crashes \in Nat /\ drifts \in Nat /\ flaps \in Nat
    /\ webhook \in BOOLEAN /\ toggles \in Nat

\* Nothing is running, queued, or still to be delivered by a watch: from here
\* on the controller moves only if somebody else does.
Quiescent ==
    /\ pc = "idle" /\ ~queued
    /\ cacheFresh /\ freshChild = Owned

ChildInPlace(k) ==
    /\ children[k] # Absent
    /\ children[k].owner = server.uid
    /\ children[k].content = Desired(k, server.spec)

\* The status tells what the Deployment reports, for the present generation.
StatusCurrent ==
    LET r == children["deployment"].rollout
        c == server.status.conditions
    IN  /\ server.status.rollout = r
        /\ \A t \in CondTypes \ {"BackendReady"} : c[t].gen = server.gen
        /\ server.status.phase = "Running" <=> r.ready = r.replicas /\ r.ready > 0
        /\ c["Ready"].status = "True" <=> r.ready = r.replicas /\ r.ready > 0
        /\ c["Available"].status = "True" <=> r.ready > 0
        /\ c["Degraded"].status = "True" <=> r.ready > 0 /\ r.ready # r.replicas
        /\ server.spec.backend = "redis" =>
             c["BackendReady"] = [status |-> "True", gen |-> server.gen]

Converged ==
    /\ ~server.deleting /\ server.finalizer
    /\ server.spec.backend # "unsupported"
    /\ \A k \in Owned : Wants(k, server.spec) => ChildInPlace(k)
    /\ StatusCurrent

\* Level triggering loses nothing: whatever edits, drifts, conflicts, failed
\* requests and crashes there were, and whatever stale copies the controller
\* worked on, when it comes to rest the children it owns and the status agree
\* with the specification, and a deleted cluster is gone.
NoLostWakeup == Quiescent /\ server # Absent => Converged

\* A Ready condition that carries the present generation was computed after
\* the Deployment had been made to match that generation: an
\* observedGeneration never runs ahead of what was applied.
ObservedMeansApplied ==
    /\ drifts = 0 /\ server # Absent
    /\ server.status.conditions["Ready"].gen = server.gen
    => ChildInPlace("deployment")

\* The order of Reconcile's steps survives interrupted passes, stale caches
\* and the re-creation of a cluster of the same name: its server Deployment
\* never exists without the ConfigMap its pods read, nor, for the embedded
\* redis, without the backend.
DependenciesFirst ==
    LET dep     == children["deployment"]
        mine(k) == children[k] # Absent /\ children[k].owner = server.uid
    IN  drifts = 0 /\ server # Absent /\ mine("deployment") =>
          /\ mine("configMap")
          /\ dep.content.backend = "redis" =>
               mine("redisDeployment") /\ mine("redisService")

\* A BackendReady condition outlives the embedded backend it speaks of, which
\* is not what the documentation says (BackendReadyMeansRunning).  What a client
\* that compares generations can rely on: as long as nobody else touches the
\* children, True at the present generation means that this generation embeds
\* redis and that its Deployment and Service are made as it asks, whatever stale
\* copies it was stored from; at an earlier one they are still there.
BackendReadyMeansDeployed ==
    LET ready == server.status.conditions["BackendReady"]
        redis == {"redisDeployment", "redisService"}
    IN  drifts = 0 /\ server # Absent /\ ready.status = "True" =>
          /\ \A k \in redis : ChildInPlace(k)
          /\ ready.gen = server.gen => server.spec.backend = "redis"

\* A backend the operator cannot embed fails every pass before the status: no
\* Ready condition ever carries a generation that asks for one, though passes
\* for an earlier or a later generation may store theirs at any time.
UnsupportedStaysUnobserved ==
    server # Absent /\ server.spec.backend = "unsupported"
    => server.status.conditions["Ready"].gen < server.gen

\* Children are never removed when a specification stops asking for them, nor
\* by the name under which a cluster is created again.  But what a cluster of
\* the first generation owns is exactly what that generation asks for: a budget
\* that is no longer wanted was asked for by an earlier generation of the same
\* cluster, and an unsupported backend has nothing built for it.
FirstGenerationExact ==
    /\ drifts = 0 /\ server # Absent /\ server.gen = 1
    => \A k \in Kinds :
         children[k] # Absent /\ children[k].owner = server.uid =>
           /\ server.spec.backend # "unsupported" /\ Wants(k, server.spec)
           /\ ChildInPlace(k)

\* A failing ServiceMonitor is only logged, and nothing watches the kind; but
\* as long as no request fails and nobody else touches the children, a
\* controller at rest has made it for the cluster that asks for it, whatever
\* edits, stale copies and crashes there were.
MonitorFollows ==
    /\ fails = 0 /\ drifts = 0 /\ Quiescent
    /\ server # Absent /\ Wants("serviceMonitor", server.spec)
    => ChildInPlace("serviceMonitor")

\* Nothing is created for a cluster that does not carry the finalizer yet, so
\* no child can appear under an object that a deletion removes at once.
FinalizerFirst ==
    server # Absent /\ (\E k \in Kinds : /\ children[k] # Absent
                                         /\ children[k].owner = server.uid)
    => server.finalizer

\* The generation a condition reports as observed never goes back, though
\* passes start from stale copies and repeat writes whose answer was lost.
ObservedNeverRegresses ==
    [][ server # Absent /\ server' # Absent /\ server'.uid = server.uid =>
          \A t \in CondTypes : server'.status.conditions[t].gen
                                 >= server.status.conditions[t].gen ]_vars

\* The controller does not keep itself awake: on current copies of a cluster
\* that has converged no step writes anything a watch would deliver, although
\* most requests are sent on every pass; only a request that fails is reported.
SteadyState ==
    [][ /\ ReconcileStep /\ pc \notin {"idle", "backendFailed"}
        /\ localFresh /\ freshChild = Owned /\ Converged
        => /\ UNCHANGED server
           /\ \A k \in Owned : children'[k] = children[k] ]_vars

\* The webhook refuses the Update that the controller can do nothing without:
\* the one that adds the finalizer, or the one that removes it.
Stuck ==
    /\ server # Absent /\ webhook /\ ~Admits(server.spec)
    /\ server.deleting \/ ~server.finalizer

\* Once users leave the cluster alone it converges for good, unless its
\* backend is one the operator cannot embed; a deleted one goes away.  Only a
\* cluster that came past the webhooks while they were away can get stuck; one
\* that has its finalizer works on under a specification they refuse.
EventuallyConverges ==
    <>[](\/ server = Absent
         \/ ~server.deleting /\ server.spec.backend = "unsupported"
         \/ Stuck
         \/ Converged)

\* When the cluster is gone for good the garbage collector finds every child
\* by the owner reference it was created with; a pass that still ran from a
\* stale copy cannot leave one behind.
EventuallyCollected ==
    <>[](server = Absent => \A k \in Kinds : children[k] = Absent)

(***************************************************************************)
(* Why NoLostWakeup holds: the inductive invariant behind it.              *)
(***************************************************************************)

\* Nothing is queued and nothing is left for the watches to deliver.
Settled == ~queued /\ cacheFresh /\ freshChild = Owned

\* The children a pass has dealt with when it stands at step p.
Before(p) ==
    LET backend == {"redisDeployment", "redisService"}
    IN  CASE p = "redisService"     -> {"redisDeployment"}
          [] p = "configMap"        -> backend
          [] p = "deployment"       -> backend \cup {"configMap"}
          [] p = "service"          -> backend \cup {"configMap", "deployment"}
          [] p = "disruptionBudget" -> Owned \ {"disruptionBudget"}
          [] p \in {"serviceMonitor", "status"} -> Owned
          [] OTHER                  -> {}

ServerSteps == {"configMap", "deployment", "service", "disruptionBudget",
                "serviceMonitor", "status"}

\* Current copies are copies, and a marked cluster still has its finalizer.
CopiesAgree ==
    /\ \A k \in freshChild : cachedChild[k] = children[k]
    /\ \A o \in {server, cached, local} :
         o # Absent /\ o.deleting => o.finalizer
    /\ localFresh =>
         /\ local.uid = server.uid /\ local.gen = server.gen
         /\ local.spec = server.spec
         /\ local.finalizer = server.finalizer
         /\ local.deleting = server.deleting

\* What the running call knows of its copy at the step it stands at.
LocalKnown ==
    /\ pc = "delete" => local.deleting
    /\ pc \notin {"idle", "delete"} => ~local.deleting
    /\ pc \notin {"idle", "delete", "finalizer"} => local.finalizer
    /\ pc \in {"redisDeployment", "redisService"} =>
         local.spec.backend = "redis"
    /\ pc \in ServerSteps =>
         /\ local.spec.backend # "unsupported"
         /\ local.spec.backend = "redis" =>
              local.status.conditions["BackendReady"]
                = [status |-> "True", gen |-> local.gen]

\* A running call that nothing will follow works on the stored object, and
\* the children it has dealt with are in place.
PassSound ==
    Settled /\ pc # "idle" =>
      /\ localFresh
      /\ \A k \in Before(pc) : Wants(k, server.spec) => ChildInPlace(k)

\* As long as some delivery or some queued key is outstanding nothing is
\* claimed; otherwise the running call is about to converge, or the last one
\* has converged.
ConvergenceInv == CopiesAgree /\ LocalKnown /\ PassSound /\ NoLostWakeup

(***************************************************************************)
(* The abstract specification.                                             *)
(***************************************************************************)

Observed == INSTANCE ObservedGeneration WITH
    gen      <- IF server = Absent THEN 0 ELSE server.gen,
    observed <- IF server = Absent THEN 0
                ELSE server.status.conditions["Ready"].gen

\* The Ready condition keeps the promise of an observedGeneration: a status
\* that carries a generation was stored while that generation was the latest,
\* and every generation is eventually carried, unless the cluster goes away or
\* is stuck.
ReadyIsObservedGeneration ==
    Observed!Spec /\ (Observed!Fairness \/ <>[]Stuck)

(***************************************************************************)
(* What the documentation says and the code does not do.                   *)
(***************************************************************************)

\* docs/architecture.md: Ready means that all desired replicas are running and
\* ready, at the generation the condition carries.
ReadyMeansDesiredReady ==
    server # Absent =>
      LET ready == server.status.conditions["Ready"]
      IN  ready = [status |-> "True", gen |-> server.gen] =>
            server.status.rollout.ready >= server.spec.replicas

\* docs/crd-reference.md and docs/configuration.md: BackendReady is True when
\* the embedded backend is running, and only set for embedded backends.  So at
\* rest, when every change has been seen, one that is True speaks of a backend
\* that is embedded, or that runs at the least.
BackendReadyMeansRunning ==
    /\ Quiescent /\ drifts = 0 /\ server # Absent
    /\ server.status.conditions["BackendReady"].status = "True"
    => \/ server.spec.backend = "redis"
       \/ children["redisDeployment"].rollout.ready > 0

\* docs/architecture.md: observedGeneration tells whether the status reflects
\* the latest changes of the specification.
ObservedMeansConfigured ==
    /\ drifts = 0 /\ server # Absent
    /\ server.status.conditions["Ready"].gen = server.gen
    => ChildInPlace("configMap")

=============================================================================
