# The OJS Kubernetes operator: a verification development

TLA+ models of the operator in `src/`, the TLC configurations that check them,
and TLAPS proofs about them. The operator reconciles two custom resources,
`OJSCluster` (an OJS server with its configuration, service, disruption budget,
monitoring and, if asked for, an embedded redis) and `OJSWorker` (worker pods,
fixed in number or autoscaled). Everything difficult about it comes from the
same place: a reconciler reads from caches that lag behind, writes to a store
that rejects what is not up to date, is interrupted between any two requests,
and is only called again if somebody wakes it.

## 1. Inventory

| Part | Source | State it keeps | Operations | Modelled in |
|---|---|---|---|---|
| OJSCluster controller | `internal/controller/ojscluster_controller.go` | none between calls; the OJSCluster's finalizer and status, and up to seven children, in the API server | `Reconcile`: delete, finalizer, first phase, embedded redis (Deployment, Service), ConfigMap, Deployment, Service, PodDisruptionBudget, ServiceMonitor, status | `OJSCluster` |
| OJSWorker controller | `internal/controller/ojsworker_controller.go` | likewise; a Deployment and a HorizontalPodAutoscaler | `Reconcile`: delete, finalizer, look up the OJSCluster, Deployment, autoscaler (create, update or delete), status | `OJSWorker` |
| Client, caches, work queue, API server, garbage collector | external (controller-runtime, Kubernetes) | stored objects, informer caches, one queue per controller | get, update, status update, create, delete, watch events, `CreateOrUpdate`, owner-reference collection | `ControllerRuntime` |
| Manager | `cmd/manager/main.go` | the leader lease | start, lose the lease, take over | `Restart` in `ControllerRuntime` |
| Resource types | `api/v1alpha1/*_types.go` | specifications and statuses | none (generated deep copies) | records in the two controllers' models |
| Queue metrics | `internal/metrics/queue_metrics.go` | map from queue to its last depth, under a lock | `Poll`, `GetQueueDepth`, `GetAllMetrics`, `DesiredReplicas` | `QueueMetrics`; nothing in the manager calls it |
| Validating webhooks | `internal/webhook/*.go` | none | admit a create or an update | `Admits` in both controllers' models |
| Attestation policy | `api/v1alpha1/attestationpolicy_types.go` | none | none: no controller reconciles it | no |
| Manifests, chart | `config/`, `charts/` | none | none | no |

How they interact: a user writes a resource; the informer copies it into the
cache and enqueues its key; a worker thread of the controller takes the key
(one thread per key, the queue drops duplicates) and calls `Reconcile`, which
reads the resource and its children *from the cache* and sends its writes to
the *API server*, each with the resourceVersion it read. Children carry a
controller reference; an event on a child watched with `Owns()` enqueues the
owner. The ServiceMonitor is unstructured and not watched; an OJSWorker does
not watch the OJSCluster it refers to and is re-tried on a timer instead, and so
is one with autoscaling, at its polling interval. The webhooks see the users'
writes and the controllers' own updates, not those of the status. The Deployment
of a worker `x-server` has the name of the server Deployment of a cluster `x`,
and the controller that comes second refuses it. The
Deployment controller reports pods, the autoscaler writes the worker
Deployment's replica count, and the garbage collector removes children of an
owner that is gone.

What makes each part correct:

- *Both controllers*: at rest means converged (no lost wake-up); a status never
  claims a generation that was not applied and never goes back; nothing is
  created before the finalizer is stored; what is deleted goes away with its
  children; a controller that is done does not wake itself with its own writes; all of this with stale caches, conflicts, failed requests, lost
  answers, restarts and interference by others.
- *OJSCluster controller*: the server Deployment never precedes its ConfigMap
  and embedded backend, and the status never tells of a backend that is not
  deployed (that it runs, as the documentation says, is more: `doc_backend`), nor
  of a generation whose backend cannot be embedded; nothing is taken
  over from an earlier cluster of the name; the ServiceMonitor, which nothing
  watches, is made all the same.
- *OJSWorker controller*: recovery when the OJSCluster appears or gives up the
  worker's name; no autoscaler left behind when autoscaling is turned off;
  another's Deployment is never taken over; the replica count is not fought
  over (it is: `doc_min`).
- *Queue metrics*: an answer is taken in and read whole, a returned map does not
  change, and overlapping polls do no lasting harm; the calculated number of
  workers is the right one, within its bounds for any depth.
- *Webhooks*: a resource they admitted can be worked on and deleted while they
  stay (one that came past them cannot: `doc_deleted`).

The hazards behind these, each at its line, are in `PROJECT.json`.

## 2. Modules

    ControllerRuntime        the machinery: store, caches, queue, requests
      OJSCluster             the OJSCluster controller and its environment
        MCOJSCluster           instances for TLC
        OJSCluster_proofs      type correctness
          OJSClusterConvergence_proofs   no lost wake-up, the ServiceMonitor
          OJSClusterHistory_proofs       generations, finalizer, refinement
            OJSClusterApplied_proofs       status, dependencies, leftovers
      OJSWorker              the OJSWorker controller and its environment
        MCOJSWorker            instances for TLC
        OJSWorker_proofs       types, foreign Deployments, the finalizer
          OJSWorkerConvergence_proofs    no lost wake-up
            OJSWorkerStatus_proofs         status, refinement
    QueueMetrics             the collector, its lock, the replica calculation
      MCQueueMetrics           an instance for TLC
      QueueMetrics_proofs      atomicity and the calculation
    ObservedGeneration       abstract specification, instantiated by both
                             controllers
    AtomicQueueMap           abstract specification, instantiated by QueueMetrics

**`ControllerRuntime`** stands for code outside the repository, modelled from
how the controllers use it. `server` is the stored resource, `cached` the
informer's copy, `local` the copy the running call works on; `children` and
`cachedChild` are the same for the child objects. A resourceVersion only
matters by being equal to the stored one or not, so no versions are counted:
`cacheFresh`, `localFresh` and `freshChild` say which copies carry the stored
one. Each request (`PutObject`, `CreateOrUpdate`, `DeleteChild`) has four
outcomes: executed and answered; executed with its answer lost; rejected
(Conflict, AlreadyExists, NotFound) because a copy is out of date; failed
without effect. `CreateOrUpdate` sends nothing when the *cached* child already
looks right, except for kinds whose mutate function rebuilds a pod template
without the API server's defaults and so never compares equal (`AlwaysSent`).

**`OJSCluster`** has one action for every step of `Reconcile` that sends a
request or decides about one, in the order of the code; `pc` is the step to run
next. Every early return, every error that is returned, and every error that is
only logged (the ServiceMonitor, the status update of a failed backend) is the
one of the code. A specification is abstracted to the backend, the number of
replicas, the form of the disruption budget, whether there is a ServiceMonitor,
and the workers' bounds, which only the webhook looks at; a child to its owner,
the fields it takes from the specification and, for the two Deployments, the pods
they report. The five conditions are kept with status and observedGeneration. Users create, edit and delete the
resource, other clients change or remove children, pods come and go, the
garbage collector runs, and the manager crashes, all between any two steps.
`webhook` says whether the validating webhooks are installed: an administrator
removes and installs them (`ToggleWebhook`), users' writes are then refused
unless the specification is one `Admits` allows, and so are the controller's own
updates, which `PutCluster` sends; status updates do not pass the webhook. A
cluster that came past the webhooks while they were away can get `Stuck`: it
neither gets nor loses its finalizer until they let it.

**`OJSWorker`** is the same for workers. A specification is the OJSCluster it
refers to, the replicas, the autoscaling bounds, and whether the polling
interval is positive (`polls`): if it is not, `RequeueAfter` asks for nothing.
`clusters` are the OJSClusters that exist and `known` those in the cache, which
`ResolveCluster` reads. The OJSCluster `Rival` is one whose server Deployment has
the worker's name: `DeployRival` makes it when the name is free,
`SetControllerReference` refuses it, by the *cached* copy, and its events are not
the worker's (`SyncForeign`). The Deployment's selector contains the OJSCluster's
name and is immutable, so an update for another cluster is rejected; the
autoscaler's Get and Delete go by name and through the cache.

**`ObservedGeneration`** is what a status promises its clients, over two
numbers: a status that carries a generation was stored while it was the latest,
in one step, and a new generation is eventually carried or the resource goes
away. `OJSCluster` and `OJSWorker` instantiate it with the stored generation and
the one on the Ready condition (0 while there is no resource). A worker's Ready
condition carries a generation in two places of the code: where a pass succeeds,
and where its OJSCluster is missing; both have to keep the promise.

**`QueueMetrics`** has goroutines that call `Poll` and goroutines that call
`GetQueueDepth` and `GetAllMetrics`. A poll's answer is what the backend had when
it answered (`Fetch`); it is stored queue by queue under the write lock, and a
map is copied entry by entry under the read lock, so entries are memory cells:
the returned map shares them with the collector. `DesiredReplicas` is the
calculation with its conversions to int32.

**`AtomicQueueMap`** is what the collector promises: an answer enters the map in
one step, a returned map is the map of one instant and does not change.
`QueueMetrics` implements it with what a poller under the lock has yet to store
counted as stored.

Definitions named after another one with an underscore (`UpdateStatus_NoRetry`)
are variants: the same step with a plausible mistake. For every property of a
passing run there is one under which TLC finds it violated.

## 3. Runs

Bounds are constants of the modules: `MaxUid` creations of the resource under
one name, `MaxGen` generations made by edits, `MaxFail` failed or lost requests,
`MaxCrash` restarts, `MaxDrift` foreign writes to children, `MaxFlap` pod
disruptions and load changes, `MaxChurn` OJSClusters created or deleted,
`MaxToggle` removals and installations of the webhooks, `MaxReplicas` pods
reported, and in `QueueMetrics` `MaxChange` changes of the backend. Caches,
conflicts and the number of passes are not bounded. One event of each kind is enough to hit any window between two steps,
since it may happen at every one of them; two generations are the fewest with
an edit, three allow a change and the change back.
`CHECK_DEADLOCK FALSE` is set for the controllers: one whose resource needs
nothing stops. The collector's callers never stop, so there deadlock is checked.

| Run | Instance | Checks | Shows |
|---|---|---|---|
| `cluster_edits` | external with 1 replica, embedded redis with 2 and an unsupported backend, edited into each other, 3 generations, not deleted | `ObservedMeansApplied`, `DependenciesFirst`, `BackendReadyMeansDeployed`, `UnsupportedStaysUnobserved`, `ObservedNeverRegresses`, `SteadyState` | no stale copy makes the status run ahead of the Deployment, fall back, tell of a redis that is not deployed or report on a backend that cannot be embedded; the order of steps survives interrupted passes; a controller that has converged writes nothing that wakes it |
| `cluster_recreated` | created twice: with a disruption budget, too small for one, or with an unsupported backend; 1 failure; on the first one a foreign write or a disruption | `TypeOK`, `ConvergenceInv`, `NoLostWakeup`, `FinalizerFirst`, `FirstGenerationExact` | at rest means converged, and the proof's invariant holds on the way; a pass of the first cluster and its leftovers cannot harm the second, which owns exactly what it asks for |
| `cluster_live` | external, or lite with a ServiceMonitor and workers' bounds the webhook refuses; 2 generations, 1 failure, 1 crash, webhooks installed or removed once, with fairness | `NoLostWakeup`, `MonitorFollows`, `EventuallyConverges`, `EventuallyCollected`, `ReadyIsObservedGeneration` | convergence unless stuck, collection, a ServiceMonitor where nothing failed, and the refinement of `ObservedGeneration` |
| `worker_disturbed` | an autoscaled worker that is not polled, or one the webhook refuses; 1 failure, crash, foreign write, disruption, the rival comes or goes, 2 changes of the webhooks | `TypeOK`, `NoLostWakeup` | the controller only rests with everything in place, and never when the webhook keeps it from its finalizer |
| `worker_live` | two OJSClusters that come and go, one of them the rival; fixed, polled and unpolled autoscaling, and one the webhook refuses; 2 generations, 1 failure, with fairness | `ObservedMeansApplied`, `NoLostWakeup`, `FinalizerFirst`, `NeverStolen`, `EventuallyReconciled`, `EventuallyCollected`, `SteadyState`, `ReadyIsObservedGeneration` | a worker recovers though no event tells it of its OJSCluster or that its name is free; autoscaling turned off leaves no autoscaler; the rival's Deployment is left alone; polling wakes nobody but by the clock; the refinement of `ObservedGeneration` |
| `queue_metrics` | 2 pollers, a reader, 2 queues, 2 changes, with fairness; 3-bit integers | `TypeOK`, `SizedRight`, `IsAtomic`, `EventuallyCurrent` | the refinement of `AtomicQueueMap`; polls that overtake each other do no lasting harm; the calculation around every corner |

A worker is created once in the runs, and changed children and edits of it are in
different ones; with everything at once the instances grow past what is worth
waiting for. For the same reason two runs have a state constraint: in
`cluster_edits` the cluster is not deleted (`Undeleted`), and in
`cluster_recreated` only the first one is disturbed, and then not deleted
(`FirstIsDisturbed`), and only the first one is deleted (`SecondStays`). These
only cut behaviours off after a prefix, and neither run checks liveness. That
the invariants hold beyond is what the proofs are for.
Five memory cells suffice for two queues: two in the map, two in a reader's map, and
one for the entry being stored.

Six more runs check what a document says and the code does not do; TLC finds
each violated, and `findings` in `PROJECT.json` quotes the lines.

| Run | Document | What happens |
|---|---|---|
| `doc_ready` | `docs/architecture.md`: Ready means all desired replicas are ready | after a scale-up, Ready is True (and Degraded False) at the new generation, computed from the old pods |
| `doc_observed` | `docs/architecture.md`: observedGeneration tells whether the latest changes are reflected | after a change and the change back, a stale ConfigMap in the cache looks right, is not written, and Ready carries the latest generation until the watch catches up |
| `doc_backend` | `docs/crd-reference.md`, `docs/configuration.md`: BackendReady is True when the embedded backend is running, only set for embedded backends | it is set when the redis objects are written, whatever their pods do, and stays when the embedded backend is turned off: a controller at rest reports a redis that is not asked for and never ran |
| `doc_min` | `api/v1alpha1/ojsworker_types.go`: minReplicas is the minimum number of pods | the controller resets the replicas on every pass, the autoscaler raises them again, for ever |
| `doc_connected` | `README.md`: pods connected to the referenced OJSCluster | after `clusterRef` is edited the selector makes every update fail; the old pods stay |
| `doc_deleted` | `docs/architecture.md`: a deleted worker's children are removed automatically | a worker that became invalid while the webhooks were away is deleted when they are back: they refuse the update that removes its finalizer, for ever |

The documents also say that Degraded is True when fewer replicas are ready than
desired. By the code it is True when some but not all of the reported pods are
ready; with none ready the cluster counts as still starting up. `StatusCurrent`
says what the code does.

**Fairness.** Weak fairness of the reconcile step (the manager keeps a worker
on the queue, and every request returns), of every watch delivery, of the
garbage collector, of the Deployment controller reporting its pods, and of the
autoscaler when a Deployment is outside its bounds. Weak is enough: each of
these, once enabled, stays so until it happens or is no longer needed. Users,
failures, crashes and disruptions need not happen. A `RequeueAfter` or an error
puts the key into the queue at once; the delay is not modelled, as any number
of other steps may come before the next pass.

For the collector: goroutines run, callers keep polling and not every poll
fails. Strong fairness of `Lock` stands for what `sync.RWMutex` does: once a
writer waits no new reader is let in, so a poller that can get the lock again and
again gets it.

## 4. Proofs

`OJSCluster_proofs` proves **`TypeOKCorrect`**, `Spec => []TypeOK`, for all
specifications and bounds. Types alone are not inductive: a request writes
`[server EXCEPT ...]`, which is a record only if there is an object. The
invariant proved, `TypeCorrect`, adds that a copy that is up to date is a copy
of an object that exists, and that a running call has one.

`OJSClusterConvergence_proofs` proves **`NoLostWakeupCorrect`**,
`Spec => []NoLostWakeup`: whatever edits, foreign writes, conflicts, failed
requests, lost answers, re-creations and crashes there were, an OJSCluster controller with
nothing running, queued or undelivered has converged. Nothing bounds their
number: the bounds are arbitrary natural numbers.

The property speaks of rest; a step reaches rest from a state it says nothing
about, so it needs **`ConvergenceInv`** (theorem `ConvergenceInductive`):

- `CopiesAgree`: up-to-date copies agree with the stored objects, and an object
  being deleted still has its finalizer;
- `LocalKnown`: what the steps already done tell about the copy in hand (not
  being deleted, finalizer set, backend supported, BackendReady set);
- `PassSound`: *if nothing is queued and nothing undelivered*, a running call
  works on the stored object, and every child it has dealt with is in place;
- `NoLostWakeup` itself.

The argument: every write, by the controller or by anybody else, makes some
watched copy out of date and so leaves a delivery outstanding, which claims
nothing until it has arrived and queued a key; a step that writes nothing keeps
what the pass has established; a step that fails queues the key; and the last
step, from a pass that is sound, stores a status that agrees with the
Deployment. There is one lemma per group of actions (`ReconcileStepInv`,
`WriteObjectInv`, `WriteChildInv`, `InformersInv`, `UserInv`, `CrashInv`,
`EnvironmentInv`) and under `ReconcileStepInv` one step per action.

It also proves **`MonitorFollowsCorrect`**, `Spec => []MonitorFollows`. The
ServiceMonitor is not in `ConvergenceInv`, as its failures do not queue the key
and its events are not delivered. `MonitorInv` says that as long as no request
has failed and nothing foreign was written, a pass that has come past its step
with nothing queued or undelivered has made it, and so has the last one; it is
inductive with `ConvergenceInv`, which says that such a pass works on the stored
object.

`OJSClusterHistory_proofs` proves three facts about successive versions of the
cluster.

- **`ObservedNeverRegressesCorrect`**, `Spec => ObservedNeverRegresses`. A pass
  stores the conditions of the copy it read some requests ago, so the step that
  stores them shows nothing by itself. `ObservedInv` carries what is needed: no
  condition has a generation that is yet to come, and a copy the API server
  would still accept is of the stored generation and not behind the stored
  conditions. A copy that is behind is not accepted, which is where the
  resourceVersion does its work.
- **`FinalizerFirstCorrect`**, `Spec => []FinalizerFirst`. Children are created
  without looking at the stored cluster, from a copy that may be of a cluster
  that is gone, so `FinalizerInv` speaks of copies too: owners and copies are of
  clusters created so far; a copy with the finalizer is not of a stored cluster
  without it; an accepted copy is of the stored cluster; a call that has come
  to the children has a copy with the finalizer.
- **`ImplementsObservedGeneration`**, `Spec => Observed!Spec`: every step is a
  step of `ObservedGeneration` under the mapping of `OJSCluster`, or a stutter.
  `ReadyInv` says that an accepted copy has the Ready condition of the stored
  object until the last step of the pass (no earlier one sets it); with
  `ObservedInv` the Ready generation then moves in one step to the latest
  generation or not at all. The fair half of the refinement is liveness and is
  checked by TLC (`cluster_live`), for clusters that do not get stuck at the
  webhook.

`OJSClusterApplied_proofs` proves what the status and the children say about
what came before: **`ObservedMeansAppliedCorrect`**,
**`DependenciesFirstCorrect`** and **`BackendReadyMeansDeployedCorrect`**. They
hold together or not at all, by `AppliedInv`:

- `CopiesInv`: an accepted copy, and the cache it came from, have the stored
  specification; once Ready carries the latest generation no pass is left that
  works on another one;
- `OwnersInv`: once the stored cluster has a child, no pass of an earlier
  cluster of the name can write one any more, since the pass that made the child
  had read the stored cluster and the cache does not go back;
- `PassInv`: what a pass has put in place by the step it stands at;
- `ConditionInv`: no version of the cluster, stored or copied, has BackendReady
  without the redis.

`BackendReadyMeansDeployed` takes one more, `BackendInv`: what the cluster owns of
the redis does not depend on the specification and so is as any of them wants it,
and a version that claims the backend for its own generation embeds it, as an edit
makes a generation that no condition carries yet.

A step writes the object, moves a copy, or writes a child; there is a lemma for
each kind (`ObjectStep`, `ChildStep`, `EnsureStep`), with what the invariant
needs to know of it, and the actions are shown to be of a kind (`NextIsStep`).

The same module proves three more.

- **`UnsupportedStaysUnobservedCorrect`**: a status is only accepted from a copy
  with the stored specification (`CopiesAgree`), a pass that has come to the
  status has a backend that is supported (`LocalKnown`), and an edit makes a
  generation no condition carries yet (`ObservedInv`).
- **`FirstGenerationExactCorrect`**. Nothing is ever removed when a
  specification stops asking for it, so what a cluster owns tells its whole
  history; a cluster of the first generation has none. `ExactInv` says that while
  the generation is 1 every copy of the cluster, however stale, has its
  specification, and every child it owns is one it asks for, as it asks for it.
  `WritesWanted`: a pass writes no child but the one of its step, and only if its
  copy asks for it and the backend is supported.
- **`SteadyStateCorrect`**, `Spec => SteadyState`. `Converged` says what the
  children are and that the Ready condition agrees with the Deployment; it does
  not say that the status the next pass computes is *the one stored*, down to the
  phase and the other conditions, which several steps write (the first phase, the
  embedded redis, its failure, the verdict). `StatusInv` says so: a status that
  reports on the latest generation is one verdict, whose conditions all belong to
  its phase, and an accepted copy has the stored BackendReady but for the mark of
  the embedded redis. Requests whose object is already as wanted then change
  nothing (`Put` of an equal object leaves the version alone).

`OJSWorker_proofs` proves for workers **`TypeOKCorrect`**, with the invariant of
the cluster's, **`NeverStolenCorrect`**, `Spec => NeverStolen`, and
**`FinalizerFirstCorrect`**. Whether a Deployment is the rival's is decided by
the cache, and the write is accepted by the store; `ChildCopies` (a copy that
would be accepted is the stored child) connects them. `FinalizerInv` is the
cluster's with one addition: the rival is none of the workers.

`OJSWorkerConvergence_proofs` proves **`NoLostWakeupCorrect`** for workers. The
invariant is the cluster's (`ObjectCopies`, `LocalKnown`, `PassSound`) and
`NoForeignSeen`: the watches say nothing of somebody else's Deployment, so its
end would wake nobody, and the cache must not have one when a pass is past it and
the key is not queued. The autoscaler, which writes the Deployment whenever it
likes, needs no case of its own: its writes are delivered like all others.

`OJSWorkerStatus_proofs` proves what a worker's status promises.
**`ObservedMeansAppliedCorrect`**: a Ready condition of the latest generation that
does not report a missing OJSCluster speaks of a Deployment of the worker's own, connected to the
OJSCluster of that generation. `AppliedInv` says that the pass that made the
worker's Deployment, and every pass after it, works on a copy of that worker, so
that none of an earlier one takes the Deployment over, and that an accepted copy
that has come past the Deployment left it connected; the selector's immutability
keeps stale passes from changing its OJSCluster.
**`ImplementsObservedGeneration`** is the cluster's, with two steps that carry the
generation instead of one. **`SteadyStateCorrect`** rests on a `StatusInv` like the
cluster's: a status of the latest generation either reports the missing OJSCluster
or is one verdict.

`QueueMetrics_proofs` proves **`CollectorIsAtomic`**, `Spec => IsAtomic`, for any
number of pollers, readers, queues and cells: a poll takes effect when it gets the
lock, `GetAllMetrics` when it gives the lock back. The invariant is `TypeOK` with
the mutual exclusion in it, `TodoInv` (only the lock's holder has something to
store, and has an answer for it) and `CopyInv` (what a reader has copied is what
the map holds, and the rest is yet to be copied); that a stored entry is a cell
nobody points to gives the rest. **`DesiredReplicasRight`** is the calculation's
correctness for every depth, target and pair of bounds, with the conversion to
int32 modular: the least number of workers within the bounds that handles the
depth, and the bounds alone when the quotient overflows;
**`AlwaysSizedRight`** states it as the invariant `queue_metrics` checks.

Assumed are only the constants' types: `SpecsAssumption` (specifications have
the fields of a specification), `BoundsAssumption` (bounds are natural
numbers), `AbsentAssumption` (the value for "no object" is not an object), and
for the collector that counts are numbers, the bounds are in the range of the
integers (`CountsAssumption`, `InputsAssumption`) and nil is none of the others
(`NoneAssumption`). TLC evaluates them in every run.

Every invariant and every action property the passing runs check is proved. Only
model-checked is liveness: `EventuallyConverges`, `EventuallyReconciled`,
`EventuallyCollected`, `EventuallyCurrent` and the fair half of both
`ReadyIsObservedGeneration`. TLAPS does not prove liveness under fairness. The
`doc_` runs are counterexamples and need no proof.

## 5. Abstractions

- One resource per model, and its children. Of the other resource the worker's
  model has what a worker can notice: OJSClusters that come and go, and one whose
  server Deployment has the worker's name. The cluster's model has no worker: a
  Deployment a worker controls there only fails the pass until it is gone.
  Namespaces do not interact and are left out.
- Events, logging, messages and reasons of conditions, labels, images,
  resources, probes, environment and the wording of the ConfigMap are left out;
  two URLs of one type of backend are one.
- Of the webhooks, what the schema of the resources asks for as well (names,
  enumerations) is left out; `ValidateDelete` admits everything.
- Of a queue's metrics only the pending jobs are kept; the active jobs and the
  time of the poll are stored and returned with them. An answer names a queue
  once. A queue that is gone keeps its last depth, in the code and in the model.
- A status update that would change only messages or reasons of conditions is a
  step without effect: the model has fewer wake-ups than the code, never more.
  For `SteadyState` this is one status update: the reasons and messages are
  functions of the pods and the phase, but that a Deployment which was not in
  the cache is reported in other words than one without ready pods.
- A cache delivers the latest stored version and may skip older ones. After a
  restart the caches are current; an API server that answers from the past is
  not modelled.
- Reading a child that is not watched (the ServiceMonitor) and writing it are
  one step.
- The Deployment controller may report any numbers of pods up to `MaxReplicas`
  while it is disturbed, and the wanted number, all ready, when it settles.
- A resource's only finalizer is the operator's; deletion uses background
  propagation.
- The custom resource definitions in `config/crd` lack some fields of the Go
  types, which an API server would prune; the models assume the types' fields.
- The load that makes the autoscaler act within its bounds is bounded by
  `MaxFlap`; that it moves a Deployment back into its bounds is not.

## 6. Not modelled, and what is left

- *Attestation policy*, *manifests and chart*: no behaviour. *Generated deep
  copies*: a copy is a value in TLA+. *Manager*: flags, probes and registration
  are start-up code without state; the lease is `Restart`.
- *Both controllers over one store.* The composition would show what
  `OJSWorker` has by assumption: that OJSClusters come and go in any order, and
  that the OJSCluster controller makes a Deployment of the worker's name only
  when there is none. The second is what `SetControllerReference` does there. The
  product of the two models is out of TLC's reach.
- *A changed backend URL.* Running pods keep the old one, as nothing in the pod
  template depends on it; this needs specifications that differ in the URL only,
  and pods that remember what they were started with.
- *Depths past the largest int32.* `SizedRight` claims the bounds only, which is
  what the code computes.
- *An API server that answers from the past* after a restart, and versions an
  informer would deliver though they are out of date.
