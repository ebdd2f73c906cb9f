----------------------------- MODULE QueueMetrics -----------------------------
(***************************************************************************)
(* The queue metrics collector (internal/metrics/queue_metrics.go): polls  *)
(* of the OJS backend and readers on goroutines of their own, the map they *)
(* share under a readers-writer lock, and the number of workers calculated *)
(* from a queue's depth.  Of a queue's metrics only the pending jobs are   *)
(* kept.                                                                   *)
(***************************************************************************)
EXTENDS Integers

CONSTANTS
    Pollers,    \* goroutines that call Poll
    Readers,    \* goroutines that call GetQueueDepth and GetAllMetrics
    Queues,     \* names of queues
    Counts,     \* numbers of pending jobs
    Cells,      \* memory cells for QueueMetrics values
    None,       \* nil, a missing map entry, or no poller
    Half,       \* an int32 is one of -Half .. Half - 1
    Targets,    \* jobs per worker asked for
    Sizes,      \* least and most numbers of workers asked for
    MaxChange   \* bound: changes of the backend's queues

ASSUME CountsAssumption == Counts \subseteq Nat /\ 0 \in Counts

ASSUME InputsAssumption ==
    /\ Half \in Nat \ {0}
    /\ Targets \subseteq Int
    /\ Sizes \subseteq -Half .. Half - 1

ASSUME NoneAssumption == None \notin Counts \cup Cells \cup Pollers

VARIABLES
    backend,  \* the queues of the OJS backend, None for one that is gone
    pc,       \* where each poller is in Poll
    answer,   \* the answer each poller has received
    todo,     \* the queues of its answer it has yet to store
    writer,   \* the poller that holds the lock, or None
    metrics,  \* Collector.metrics: the cell of every queue
    cells,    \* the contents of the cells
    copying,  \* the readers that hold the lock to copy the map
    left,     \* the queues each of them has yet to copy
    copy,     \* what each of them has copied
    result,   \* the map GetAllMetrics returned to each reader
    depth,    \* what GetQueueDepth last returned to each reader
    changes

pollVars == <<pc, answer, todo, writer, metrics, cells>>
readVars == <<copying, left, copy, result, depth>>
vars     == <<backend, changes, pollVars, readVars>>

Unknown == [q \in Queues |-> None]

Init ==
    /\ backend = Unknown
    /\ pc = [p \in Pollers |-> "idle"]
    /\ answer = [p \in Pollers |-> Unknown]
    /\ todo = [p \in Pollers |-> {}]
    /\ writer = None
    /\ metrics = Unknown
    /\ cells \in [Cells -> {0}]
    /\ copying = {}
    /\ left = [r \in Readers |-> {}]
    /\ copy = [r \in Readers |-> Unknown]
    /\ result = [r \in Readers |-> Unknown]
    /\ depth = [r \in Readers |-> None]
    /\ changes = 0

(***************************************************************************)
(* The OJS backend and Poll.                                               *)
(***************************************************************************)

\* Jobs come and go, and so do queues.
Change(q) ==
    /\ changes < MaxChange
    /\ changes' = changes + 1
    /\ \E n \in (Counts \cup {None}) \ {backend[q]} :
         backend' = [backend EXCEPT ![q] = n]
    /\ UNCHANGED <<pollVars, readVars>>

\* The backend answers with the queues it has; the answer is on its way.  A poll
\* whose request is not sent, times out or is answered by something else than a
\* list of queues returns an error and changes nothing.
Fetch(p) ==
    /\ pc[p] = "idle"
    /\ pc' = [pc EXCEPT ![p] = "answered"]
    /\ answer' = [answer EXCEPT ![p] = backend]
    /\ UNCHANGED <<backend, changes, todo, writer, metrics, cells, readVars>>

\* Variant: readers do not keep a writer out.
Lock_IgnoresReaders(p) ==
    /\ pc[p] = "answered" /\ writer = None
    /\ writer' = p
    /\ pc' = [pc EXCEPT ![p] = "storing"]
    /\ todo' = [todo EXCEPT ![p] = {q \in Queues : answer[p][q] # None}]
    /\ UNCHANGED <<backend, changes, answer, metrics, cells, readVars>>

Lock(p) ==
    /\ pc[p] = "answered" /\ writer = None /\ copying = {}
    /\ writer' = p
    /\ pc' = [pc EXCEPT ![p] = "storing"]
    /\ todo' = [todo EXCEPT ![p] = {q \in Queues : answer[p][q] # None}]
    /\ UNCHANGED <<backend, changes, answer, metrics, cells, readVars>>

\* The cells that the map or a reader's map point to; the others are free.
Referenced ==
    {metrics[q] : q \in Queues}
      \cup {copy[r][q] : r \in Readers, q \in Queues}
      \cup {result[r][q] : r \in Readers, q \in Queues}

\* Variant: an entry that exists already is updated in place.
Store_InPlace(p, q) ==
    LET free == Cells \ Referenced
        c    == IF metrics[q] # None THEN metrics[q] ELSE CHOOSE c \in free : TRUE
    IN  /\ pc[p] = "storing" /\ q \in todo[p]
        /\ metrics[q] # None \/ free # {}
        /\ cells' = [cells EXCEPT ![c] = answer[p][q]]
        /\ metrics' = [metrics EXCEPT ![q] = c]
        /\ todo' = [todo EXCEPT ![p] = @ \ {q}]
        /\ UNCHANGED <<backend, changes, pc, answer, writer, readVars>>

\* Variant: only queues that are new are stored.
Store_OnlyNew(p, q) ==
    LET free == Cells \ Referenced
        c    == CHOOSE c \in free : TRUE
    IN  /\ pc[p] = "storing" /\ q \in todo[p] /\ free # {}
        /\ IF metrics[q] # None
           THEN UNCHANGED <<cells, metrics>>
           ELSE /\ cells' = [cells EXCEPT ![c] = answer[p][q]]
                /\ metrics' = [metrics EXCEPT ![q] = c]
        /\ todo' = [todo EXCEPT ![p] = @ \ {q}]
        /\ UNCHANGED <<backend, changes, pc, answer, writer, readVars>>

\* An entry is a new QueueMetrics value; queues come in any order.
Store(p, q) ==
    LET free == Cells \ Referenced
        c    == CHOOSE c \in free : TRUE
    IN  /\ pc[p] = "storing" /\ q \in todo[p] /\ free # {}
        /\ cells' = [cells EXCEPT ![c] = answer[p][q]]
        /\ metrics' = [metrics EXCEPT ![q] = c]
        /\ todo' = [todo EXCEPT ![p] = @ \ {q}]
        /\ UNCHANGED <<backend, changes, pc, answer, writer, readVars>>

Unlock(p) ==
    /\ pc[p] = "storing" /\ todo[p] = {}
    /\ writer' = None
    /\ pc' = [pc EXCEPT ![p] = "idle"]
    /\ answer' = [answer EXCEPT ![p] = Unknown]
    /\ UNCHANGED <<backend, changes, todo, metrics, cells, readVars>>

(***************************************************************************)
(* GetQueueDepth and GetAllMetrics.                                        *)
(***************************************************************************)

\* The depth of queue q, None if it is not known.
Depth(q) == IF metrics[q] = None THEN None ELSE cells[metrics[q]]

GetQueueDepth(r, q) ==
    /\ r \notin copying /\ writer = None
    /\ depth' = [depth EXCEPT ![r] = Depth(q)]
    /\ UNCHANGED <<backend, changes, pollVars, copying, left, copy, result>>

RLock(r) ==
    /\ r \notin copying /\ writer = None /\ result[r] = Unknown
    /\ copying' = copying \cup {r}
    /\ left' = [left EXCEPT ![r] = {q \in Queues : metrics[q] # None}]
    /\ UNCHANGED <<backend, changes, pollVars, copy, result, depth>>

\* The pointer is copied, not what it points to.
Copy(r, q) ==
    /\ r \in copying /\ q \in left[r]
    /\ copy' = [copy EXCEPT ![r][q] = metrics[q]]
    /\ left' = [left EXCEPT ![r] = @ \ {q}]
    /\ UNCHANGED <<backend, changes, pollVars, copying, result, depth>>

RUnlock(r) ==
    /\ r \in copying /\ left[r] = {}
    /\ copying' = copying \ {r}
    /\ result' = [result EXCEPT ![r] = copy[r]]
    /\ copy' = [copy EXCEPT ![r] = Unknown]
    /\ UNCHANGED <<backend, changes, pollVars, left, depth>>

\* The caller is done with the map it got, and may ask again.
Release(r) ==
    /\ result' = [result EXCEPT ![r] = Unknown]
    /\ UNCHANGED <<backend, changes, pollVars, copying, left, copy, depth>>

Poll(p) ==
    \/ Fetch(p) \/ Lock(p) \/ Unlock(p)
    \/ \E q \in Queues : Store(p, q)

Read(r) ==
    \/ RLock(r) \/ RUnlock(r) \/ Release(r)
    \/ \E q \in Queues : Copy(r, q) \/ GetQueueDepth(r, q)

Next ==
    \/ \E q \in Queues : Change(q)
    \/ \E p \in Pollers : Poll(p)
    \/ \E r \in Readers : Read(r)

Spec == Init /\ [][Next]_vars

\* Callers keep polling, not every poll fails, and goroutines run.  The lock of
\* package sync lets no new reader in while a writer waits and no writer wait
\* for ever: whoever can get it again and again gets it.
Fairness ==
    /\ \A p \in Pollers :
         /\ WF_vars(Fetch(p)) /\ SF_vars(Lock(p))
         /\ WF_vars(\E q \in Queues : Store(p, q)) /\ WF_vars(Unlock(p))
    /\ \A r \in Readers :
         WF_vars(RUnlock(r)) /\ WF_vars(\E q \in Queues : Copy(r, q))

FairSpec == Spec /\ Fairness

(***************************************************************************)
(* DesiredReplicas.                                                        *)
(***************************************************************************)

\* The conversion of an integer to an int32.
Int32(x) == ((x + Half) % (2 * Half)) - Half

\* A target that makes no sense is replaced.
PerWorker(target) == IF target <= 0 THEN 10 ELSE target

\* Variant: the jobs that do not fill a worker are dropped.
DesiredReplicas_RoundsDown(d, target, min, max) ==
    LET n      == Int32(d \div PerWorker(target))
        atMin  == IF n < min THEN min ELSE n
    IN  IF atMin > max THEN max ELSE atMin

\* The number of workers for d pending jobs.
DesiredReplicas(d, target, min, max) ==
    LET t      == PerWorker(target)
        whole  == Int32(d \div t)
        n      == IF d % t > 0 THEN Int32(whole + 1) ELSE whole
        atMin  == IF n < min THEN min ELSE n
    IN  IF atMin > max THEN max ELSE atMin

(***************************************************************************)
(* Properties.                                                             *)
(***************************************************************************)

Depths == Counts \cup {None}

Pointers == Cells \cup {None}

\* Every variable has its type, and the lock is held by one writer or by
\* readers: who stores an answer is the writer, and nobody copies meanwhile.
TypeOK ==
    /\ backend \in [Queues -> Depths]
    /\ pc \in [Pollers -> {"idle", "answered", "storing"}]
    /\ answer \in [Pollers -> [Queues -> Depths]]
    /\ todo \in [Pollers -> SUBSET Queues]
    /\ writer \in Pollers \cup {None}
    /\ metrics \in [Queues -> Pointers]
    /\ cells \in [Cells -> Counts]
    /\ copying \subseteq Readers
    /\ left \in [Readers -> SUBSET Queues]
    /\ copy \in [Readers -> [Queues -> Pointers]]
    /\ result \in [Readers -> [Queues -> Pointers]]
    /\ depth \in [Readers -> Depths]
    /\ changes \in Nat
    /\ \A p \in Pollers : pc[p] = "storing" <=> writer = p
    /\ writer # None => copying = {}

\* n is the least number of workers between lo and hi that can handle d jobs,
\* or hi if none can.  Past the largest int32 all that is left is the bounds.
RightSize(n, d, target, lo, hi) ==
    /\ n \in lo .. hi
    /\ d \div PerWorker(target) < Half - 1 =>
         /\ n * PerWorker(target) >= d \/ n = hi
         /\ \A m \in lo .. n - 1 : m * PerWorker(target) < d

\* DesiredReplicas asks for the right number of workers, whatever depth a
\* reader was told.
SizedRight ==
    \A r \in Readers, target \in Targets, lo \in Sizes, hi \in Sizes :
      depth[r] # None /\ lo <= hi =>
        RightSize(DesiredReplicas(depth[r], target, lo, hi),
                  depth[r], target, lo, hi)

\* A poll takes effect when it gets the lock: what it has yet to store counts
\* as stored.
MapView ==
    [q \in Queues |-> IF writer # None /\ q \in todo[writer]
                       THEN answer[writer][q]
                       ELSE Depth(q)]

\* A returned map holds what its pointers point to.
ResultView ==
    [r \in Readers |-> [q \in Queues |->
       IF result[r][q] = None THEN None ELSE cells[result[r][q]]]]

Abstract == INSTANCE AtomicQueueMap WITH map <- MapView, result <- ResultView

\* Though pollers and readers interleave, GetQueueDepth and GetAllMetrics see
\* answers of the backend whole or not at all, and a map that was returned
\* does not change afterwards though it shares its entries with the collector.
IsAtomic == Abstract!Spec

\* Polls that overlap may store their answers in the wrong order, but once the
\* backend is left alone the depth of every queue it has is the right one.
EventuallyCurrent ==
    <>[](\A q \in Queues : backend[q] # None => Depth(q) = backend[q])
===============================================================================
