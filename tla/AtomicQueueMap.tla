---------------------------- MODULE AtomicQueueMap ----------------------------
(***************************************************************************)
(* What the queue metrics collector promises its callers: a map from queue *)
(* to pending jobs that takes in a whole answer of the backend at once and *)
(* is read as it was at one moment; what a caller was given stays as it is *)
(* until the caller is done with it.                                       *)
(***************************************************************************)
CONSTANTS
    Readers,  \* callers of GetQueueDepth and GetAllMetrics
    Queues,   \* names of queues
    Counts,   \* numbers of pending jobs
    None      \* the value of a queue that is not known

VARIABLES
    map,    \* the depth of every queue
    depth,  \* what GetQueueDepth last returned to each reader
    result  \* what GetAllMetrics returned to each reader

Maps == [Queues -> Counts \cup {None}]

Unknown == [q \in Queues |-> None]

Init ==
    /\ map = Unknown
    /\ depth = [r \in Readers |-> None]
    /\ result = [r \in Readers |-> Unknown]

\* A queue the answer does not name keeps its depth.
Apply(answer) ==
    /\ map' = [q \in Queues |-> IF answer[q] = None THEN map[q] ELSE answer[q]]
    /\ UNCHANGED <<depth, result>>

ReadOne(r, q) ==
    /\ depth' = [depth EXCEPT ![r] = map[q]]
    /\ UNCHANGED <<map, result>>

ReadAll(r) ==
    /\ result[r] = Unknown
    /\ result' = [result EXCEPT ![r] = map]
    /\ UNCHANGED <<map, depth>>

Release(r) ==
    /\ result' = [result EXCEPT ![r] = Unknown]
    /\ UNCHANGED <<map, depth>>

Next ==
    \/ \E answer \in Maps : Apply(answer)
    \/ \E r \in Readers : \/ ReadAll(r) \/ Release(r)
                         \/ \E q \in Queues : ReadOne(r, q)

Spec == Init /\ [][Next]_<<map, depth, result>>
===============================================================================
