-------------------------- MODULE QueueMetrics_proofs --------------------------
(***************************************************************************)
(* Proofs about the queue metrics collector: it implements the atomic map  *)
(* it promises, for any number of pollers, readers, queues and cells, and  *)
(* DesiredReplicas is right for every depth, target and bounds.            *)
(***************************************************************************)
EXTENDS QueueMetrics, TLAPS

(***************************************************************************)
(* DesiredReplicas.                                                        *)
(***************************************************************************)

\* What / and % of two integers give, for a depth and a positive target.
LEMMA Division ==
    ASSUME NEW d \in Nat, NEW t \in Nat, t > 0
    PROVE  /\ d \div t \in Nat
           /\ d % t \in 0 .. t - 1
           /\ d = t * (d \div t) + (d % t)
<1>1. d \div t \in Int /\ d % t \in 0 .. t - 1
      /\ d = t * (d \div t) + (d % t)
  BY SMT
<1> DEFINE w == d \div t
           m == d % t
<1>2. w \in Int /\ m \in 0 .. t - 1 /\ d = t * w + m
  BY <1>1
<1> HIDE DEF w, m
<1>3. w >= 0
  BY <1>2, SMT
<1>4. QED
  BY <1>1, <1>3 DEF w

\* The conversion leaves an integer that is an int32 as it is, and makes an
\* int32 of any other.
LEMMA Int32Range ==
    ASSUME NEW x \in Int
    PROVE  /\ Int32(x) \in -Half .. Half - 1
           /\ x \in -Half .. Half - 1 => Int32(x) = x
<1>1. Half \in Nat /\ Half > 0
  BY InputsAssumption
<1>2. (x + Half) % (2 * Half) \in 0 .. 2 * Half - 1
  BY <1>1, SMT
<1>3. x \in -Half .. Half - 1 => (x + Half) % (2 * Half) = x + Half
  BY <1>1, SMT
<1>4. QED
  BY <1>1, <1>2, <1>3 DEF Int32

\* More workers handle at least as many jobs.
LEMMA MoreHandleMore ==
    ASSUME NEW a \in Int, NEW b \in Int, NEW t \in Nat, a <= b
    PROVE  a * t <= b * t
<1>1. (b - a) * t >= 0
  BY SMT
<1>2. (b - a) * t = b * t - a * t
  BY SMT
<1>3. QED
  BY <1>1, <1>2, SMT

\* queue_metrics.go, DesiredReplicas: for every depth, target and pair of bounds
\* the result lies between the bounds and, as long as the number of full workers
\* is below the largest int32, it is the least that handles the depth, or the
\* upper bound if none does.
THEOREM DesiredReplicasRight ==
    ASSUME NEW d \in Nat, NEW target \in Int,
           NEW lo \in -Half .. Half - 1, NEW hi \in -Half .. Half - 1, lo <= hi
    PROVE  RightSize(DesiredReplicas(d, target, lo, hi), d, target, lo, hi)
<1> DEFINE t == PerWorker(target)
           w == d \div t
           m == d % t
           n == IF m > 0 THEN Int32(Int32(w) + 1) ELSE Int32(w)
           R == DesiredReplicas(d, target, lo, hi)
<1>1. Half \in Nat /\ Half > 0
  BY InputsAssumption
<1>2. t \in Nat /\ t > 0
  BY DEF PerWorker
<1>3. w \in Nat /\ m \in 0 .. t - 1 /\ d = t * w + m
  BY <1>2, Division
<1>4. R = IF (IF n < lo THEN lo ELSE n) > hi THEN hi
          ELSE IF n < lo THEN lo ELSE n
  BY DEF DesiredReplicas
<1> HIDE DEF t, w, m, R
<1>5. Int32(w) \in -Half .. Half - 1 /\ (w < Half => Int32(w) = w)
  BY <1>1, <1>3, Int32Range
<1>6. n \in -Half .. Half - 1
  BY <1>1, <1>5, Int32Range
<1>7. R \in lo .. hi
  BY <1>4, <1>6
<1>8. ASSUME w < Half - 1
      PROVE  (R * t >= d \/ R = hi) /\ \A k \in lo .. R - 1 : k * t < d
  <2>1. n = IF m > 0 THEN w + 1 ELSE w
    BY <1>1, <1>3, <1>5, <1>8, Int32Range
  <2> HIDE DEF n
  <2>2. w * t = t * w /\ (w + 1) * t = t * w + t /\ (w - 1) * t = t * w - t
    BY <1>2, <1>3, SMT
  <2>3. n \in Int /\ n * t >= d /\ (n - 1) * t < d
    <3>1. CASE m > 0
      BY <3>1, <2>1, <2>2, <1>2, <1>3
    <3>2. CASE m = 0
      BY <3>2, <2>1, <2>2, <1>2, <1>3
    <3>3. QED
      BY <3>1, <3>2, <1>3, <1>2
  <2>4. R * t >= d \/ R = hi
    <3>1. CASE R = hi
      BY <3>1
    <3>2. CASE R # hi
      <4>1. R >= n /\ R \in Int
        BY <3>2, <1>4, <1>6, <2>3, <1>7
      <4>2. n * t <= R * t /\ R * t \in Int /\ n * t \in Int
        BY <4>1, <2>3, <1>2, MoreHandleMore
      <4>3. QED
        BY <4>2, <2>3
    <3>3. QED
      BY <3>1, <3>2
  <2>5. ASSUME NEW k \in lo .. R - 1
        PROVE  k * t < d
    <3>1. k <= n - 1 /\ k \in Int
      BY <1>4, <1>6, <1>7, <2>3
    <3>2. k * t <= (n - 1) * t /\ k * t \in Int /\ (n - 1) * t \in Int
      BY <3>1, <2>3, <1>2, MoreHandleMore
    <3>3. QED
      BY <3>2, <2>3
  <2>6. QED
    BY <2>4, <2>5
<1>9. QED
  BY <1>7, <1>8 DEF RightSize, R, t, w

(***************************************************************************)
(* The lock.                                                               *)
(***************************************************************************)

\* What a poller has yet to store is in its answer.
TodoInv ==
    \A p \in Pollers :
      /\ pc[p] # "storing" => todo[p] = {}
      /\ \A q \in todo[p] : answer[p][q] # None

\* While a reader holds the lock the map is what it was when the reader began,
\* so what the reader has not copied yet is all that its copy lacks.
CopyInv ==
    \A r \in Readers :
      /\ r \notin copying => copy[r] = Unknown
      /\ r \in copying =>
           /\ result[r] = Unknown
           /\ \A q \in left[r] : metrics[q] # None
           /\ copy[r] = [q \in Queues |-> IF q \in left[r] THEN None
                                          ELSE metrics[q]]

Inv == TypeOK /\ TodoInv /\ CopyInv

LEMMA InitInv == Init => Inv
  BY CountsAssumption, NoneAssumption
  DEF Init, Inv, TypeOK, TodoInv, CopyInv, Unknown, Depths, Pointers

LEMMA ChangeInv ==
    ASSUME Inv, NEW q \in Queues, Change(q)
    PROVE  Inv'
<1> USE DEF Inv, TypeOK, Depths, Pointers
<1>1. PICK n \in Counts \cup {None} : backend' = [backend EXCEPT ![q] = n]
  BY DEF Change
<1>2. TypeOK'
  BY <1>1 DEF Change, pollVars, readVars
<1>3. TodoInv' /\ CopyInv'
  BY DEF Change, pollVars, readVars, TodoInv, CopyInv, Unknown
<1>4. QED
  BY <1>2, <1>3

LEMMA FetchInv ==
    ASSUME Inv, NEW p \in Pollers, Fetch(p)
    PROVE  Inv'
<1> USE DEF Inv, TypeOK, Depths, Pointers, Fetch, readVars
<1>1. TypeOK'
  BY NoneAssumption
<1>2. TodoInv' /\ CopyInv'
  BY DEF TodoInv, CopyInv, Unknown
<1>3. QED
  BY <1>1, <1>2

LEMMA LockInv ==
    ASSUME Inv, NEW p \in Pollers, Lock(p)
    PROVE  Inv'
<1> USE DEF Inv, TypeOK, Depths, Pointers, Lock, readVars
<1>1. TypeOK'
  BY NoneAssumption
<1>2. TodoInv' /\ CopyInv'
  BY DEF TodoInv, CopyInv, Unknown
<1>3. QED
  BY <1>1, <1>2

\* A new cell is one that nothing points to.
LEMMA FreeCell ==
    ASSUME Cells \ Referenced # {}
    PROVE  /\ (CHOOSE c \in Cells \ Referenced : TRUE) \in Cells
           /\ (CHOOSE c \in Cells \ Referenced : TRUE) \notin Referenced
  BY Zenon

LEMMA StoreInv ==
    ASSUME Inv, NEW p \in Pollers, NEW q \in Queues, Store(p, q)
    PROVE  Inv'
<1> DEFINE c == CHOOSE c \in Cells \ Referenced : TRUE
<1>1. c \in Cells /\ c # None
  BY FreeCell, NoneAssumption DEF Store
<1>2. /\ pc[p] = "storing" /\ q \in todo[p]
      /\ cells' = [cells EXCEPT ![c] = answer[p][q]]
      /\ metrics' = [metrics EXCEPT ![q] = c]
      /\ todo' = [todo EXCEPT ![p] = @ \ {q}]
      /\ UNCHANGED <<backend, changes, pc, answer, writer, readVars>>
  BY DEF Store
<1> HIDE DEF c
<1>3. answer[p][q] \in Counts /\ writer = p /\ copying = {}
  BY <1>2, NoneAssumption DEF Inv, TypeOK, TodoInv, Depths
<1>4. TypeOK'
  BY <1>1, <1>2, <1>3 DEF Inv, TypeOK, Depths, Pointers, readVars
<1>5. TodoInv' /\ CopyInv'
  BY <1>2, <1>3 DEF Inv, TypeOK, TodoInv, CopyInv, Unknown, readVars
<1>6. QED
  BY <1>4, <1>5 DEF Inv

LEMMA UnlockInv ==
    ASSUME Inv, NEW p \in Pollers, Unlock(p)
    PROVE  Inv'
<1> USE DEF Inv, TypeOK, Depths, Pointers, Unlock, readVars
<1>1. TypeOK'
  BY NoneAssumption DEF Unknown
<1>2. TodoInv' /\ CopyInv'
  BY DEF TodoInv, CopyInv, Unknown
<1>3. QED
  BY <1>1, <1>2

\* Under the lock the depth of a queue is one of its depths.
LEMMA DepthType ==
    ASSUME Inv, NEW q \in Queues
    PROVE  Depth(q) \in Depths
  BY DEF Inv, TypeOK, Depth, Depths, Pointers

LEMMA ReadInv ==
    ASSUME Inv, NEW r \in Readers, Read(r)
    PROVE  Inv'
<1> USE DEF Inv, TypeOK, TodoInv, CopyInv, Depths, Pointers, pollVars
<1>1. CASE RLock(r)
  <2>1. TypeOK' /\ TodoInv'
    BY <1>1 DEF RLock
  <2>2. copy[r] = [q \in Queues |-> IF q \in left'[r] THEN None
                                    ELSE metrics[q]]
    BY <1>1 DEF RLock, Unknown
  <2>3. \A s \in Readers : s # r => left'[s] = left[s]
    BY <1>1 DEF RLock
  <2>4. CopyInv'
    BY <1>1, <2>2, <2>3 DEF RLock
  <2>5. QED
    BY <2>1, <2>4
<1>2. CASE RUnlock(r)
  <2>1. TypeOK' /\ TodoInv'
    BY <1>2 DEF RUnlock, Unknown
  <2>2. CopyInv'
    BY <1>2 DEF RUnlock, Unknown
  <2>3. QED
    BY <2>1, <2>2
<1>3. CASE Release(r)
  BY <1>3 DEF Release, Unknown
<1>4. ASSUME NEW q \in Queues, Copy(r, q)
      PROVE  Inv'
  <2>1. TypeOK' /\ TodoInv'
    BY <1>4 DEF Copy
  <2>2. copy'[r] = [copy[r] EXCEPT ![q] = metrics[q]]
        /\ left'[r] = left[r] \ {q}
    BY <1>4 DEF Copy
  <2>3. copy'[r] = [k \in Queues |-> IF k \in left'[r] THEN None
                                     ELSE metrics[k]]
    <3>1. copy[r] = [k \in Queues |-> IF k \in left[r] THEN None
                                      ELSE metrics[k]]
      BY <1>4 DEF Copy
    <3>2. copy'[r] = [k \in Queues |-> IF k = q THEN metrics[q]
                                       ELSE copy[r][k]]
      BY <2>2, <3>1
    <3>3. \A k \in Queues :
            (IF k = q THEN metrics[q] ELSE copy[r][k])
              = IF k \in left[r] \ {q} THEN None ELSE metrics[k]
      BY <3>1
    <3>4. QED
      BY <2>2, <3>2, <3>3
  <2>4. \A s \in Readers : s # r => copy'[s] = copy[s] /\ left'[s] = left[s]
    BY <1>4 DEF Copy
  <2>5. CopyInv'
    <3>1. r \in copying /\ UNCHANGED <<copying, metrics, result>>
      BY <1>4 DEF Copy
    <3>2. \A k \in left'[r] : metrics[k] # None
      BY <2>2, <3>1
    <3>3. ASSUME NEW s \in Readers, s # r
          PROVE  /\ s \notin copying => copy'[s] = Unknown
                 /\ s \in copying =>
                      /\ result[s] = Unknown
                      /\ \A k \in left'[s] : metrics[k] # None
                      /\ copy'[s] = [k \in Queues |-> IF k \in left'[s] THEN None
                                                      ELSE metrics[k]]
      <4>1. copy'[s] = copy[s] /\ left'[s] = left[s]
        BY <2>4, <3>3
      <4>2. QED
        BY <4>1
    <3>4. result[r] = Unknown
      BY <3>1
    <3>5. Unknown' = Unknown
      BY DEF Unknown
    <3> HIDE DEF Inv, TypeOK, TodoInv
    <3>6. QED
      BY <2>3, <3>1, <3>2, <3>3, <3>4, <3>5 DEF CopyInv
  <2>6. QED
    BY <2>1, <2>5
<1>5. ASSUME NEW q \in Queues, GetQueueDepth(r, q)
      PROVE  Inv'
  <2>1. Depth(q) \in Depths
    BY DepthType
  <2>2. TypeOK' /\ TodoInv'
    BY <1>5, <2>1 DEF GetQueueDepth
  <2>3. CopyInv'
    BY <1>5 DEF GetQueueDepth
  <2>4. QED
    BY <2>2, <2>3
<1>6. QED
  BY <1>1, <1>2, <1>3, <1>4, <1>5 DEF Read

LEMMA NextInv == Inv /\ [Next]_vars => Inv'
<1> SUFFICES ASSUME Inv, [Next]_vars
             PROVE  Inv'
  OBVIOUS
<1>1. ASSUME NEW q \in Queues, Change(q)
      PROVE  Inv'
  BY <1>1, ChangeInv
<1>2. ASSUME NEW p \in Pollers, Poll(p)
      PROVE  Inv'
  BY <1>2, FetchInv, LockInv, StoreInv, UnlockInv DEF Poll
<1>3. ASSUME NEW r \in Readers, Read(r)
      PROVE  Inv'
  BY <1>3, ReadInv
<1>4. CASE UNCHANGED vars
  BY <1>4 DEF vars, pollVars, readVars, Inv, TypeOK, TodoInv, CopyInv
<1>5. QED
  BY <1>1, <1>2, <1>3, <1>4 DEF Next

LEMMA Invariance == Spec => []Inv
  BY InitInv, NextInv, PTL DEF Spec

\* queue_metrics.go, Collector: every variable has its type, and the lock keeps
\* the poller that stores an answer apart from other pollers and from readers.
THEOREM TypeCorrect == Spec => []TypeOK
<1>1. Inv => TypeOK
  BY DEF Inv
<1>2. QED
  BY Invariance, <1>1, PTL

\* queue_metrics.go, DesiredReplicas: the number of workers asked for is right
\* for whatever depth a reader was told.
THEOREM AlwaysSizedRight == Spec => []SizedRight
<1>1. Inv => SizedRight
  BY DesiredReplicasRight, CountsAssumption, InputsAssumption
  DEF Inv, TypeOK, SizedRight, Depths
<1>2. QED
  BY Invariance, <1>1, PTL

(***************************************************************************)
(* The map is atomic.                                                      *)
(***************************************************************************)

\* Two functions that differ at one point.
LEMMA OneChanged ==
    ASSUME NEW D, NEW f, NEW g, NEW d \in D, NEW v,
           f = [x \in D |-> f[x]], g = [x \in D |-> g[x]],
           g[d] = v, \A x \in D : x # d => g[x] = f[x]
    PROVE  g = [f EXCEPT ![d] = v]
  OBVIOUS

LEMMA InitAtomic == Init => Abstract!Init
  BY DEF Init, Abstract!Init, MapView, ResultView, Depth, Unknown,
         Abstract!Unknown

\* Between two polls a reader sees the depths of the map.
LEMMA MapViewFree ==
    ASSUME writer = None
    PROVE  MapView = [q \in Queues |-> Depth(q)]
  BY DEF MapView

LEMMA FetchStutters ==
    ASSUME Inv, NEW p \in Pollers, Fetch(p)
    PROVE  UNCHANGED <<MapView, depth, ResultView>>
<1>1. writer # None => writer # p
  BY DEF Inv, TypeOK, Fetch
<1>2. writer # None => answer'[writer] = answer[writer]
  BY <1>1 DEF Inv, TypeOK, Fetch
<1>3. MapView' = MapView
  BY <1>2 DEF Fetch, MapView, Depth
<1>4. QED
  BY <1>3 DEF Fetch, readVars, ResultView

LEMMA LockApplies ==
    ASSUME Inv, NEW p \in Pollers, Lock(p)
    PROVE  \E a \in Abstract!Maps : Abstract!Apply(a)
<1>1. answer[p] \in Abstract!Maps
  BY DEF Inv, TypeOK, Depths, Abstract!Maps
<1>2. p # None /\ writer = None /\ writer' = p
  BY NoneAssumption DEF Lock
<1>3. todo'[p] = {q \in Queues : answer[p][q] # None} /\ answer' = answer
  BY DEF Inv, TypeOK, Lock
<1>4. \A q \in Queues : Depth(q)' = Depth(q)
  BY DEF Lock, Depth
<1>5. MapView' = [q \in Queues |-> IF answer[p][q] = None THEN MapView[q]
                                   ELSE answer[p][q]]
  BY <1>2, <1>3, <1>4 DEF MapView
<1>6. UNCHANGED <<depth, ResultView>>
  BY DEF Lock, readVars, ResultView
<1>7. QED
  BY <1>1, <1>5, <1>6 DEF Abstract!Apply

LEMMA StoreStutters ==
    ASSUME Inv, NEW p \in Pollers, NEW q \in Queues, Store(p, q)
    PROVE  UNCHANGED <<MapView, depth, ResultView>>
<1> DEFINE c == CHOOSE c \in Cells \ Referenced : TRUE
<1>1. c \in Cells /\ c # None /\ c \notin Referenced
  BY FreeCell, NoneAssumption DEF Store
<1>2. /\ pc[p] = "storing" /\ q \in todo[p]
      /\ cells' = [cells EXCEPT ![c] = answer[p][q]]
      /\ metrics' = [metrics EXCEPT ![q] = c]
      /\ todo' = [todo EXCEPT ![p] = @ \ {q}]
      /\ UNCHANGED <<backend, changes, pc, answer, writer, readVars>>
  BY DEF Store
<1> HIDE DEF c
<1>3. writer = p /\ p # None
  BY <1>2, NoneAssumption DEF Inv, TypeOK
<1>4. Depth(q)' = answer[p][q]
  BY <1>1, <1>2 DEF Inv, TypeOK, Depth
<1>5. \A k \in Queues : k # q => Depth(k)' = Depth(k)
  <2> SUFFICES ASSUME NEW k \in Queues, k # q
               PROVE  Depth(k)' = Depth(k)
    OBVIOUS
  <2>1. metrics[k] # c
    BY <1>1 DEF Referenced
  <2>2. metrics'[k] = metrics[k]
    BY <1>2 DEF Inv, TypeOK
  <2>3. QED
    BY <1>2, <2>1, <2>2 DEF Inv, TypeOK, Pointers, Depth
<1>6. todo'[p] = todo[p] \ {q}
  BY <1>2 DEF Inv, TypeOK
<1>7. MapView' = MapView
  BY <1>2, <1>3, <1>4, <1>5, <1>6 DEF MapView
<1>8. ASSUME NEW r \in Readers, NEW k \in Queues, result[r][k] # None
      PROVE  cells'[result[r][k]] = cells[result[r][k]]
  <2>1. result[r][k] # c
    BY <1>1 DEF Referenced
  <2>2. QED
    BY <1>2, <1>8, <2>1 DEF Inv, TypeOK, Pointers
<1>9. ResultView' = ResultView
  BY <1>2, <1>8 DEF readVars, ResultView
<1>10. QED
  BY <1>2, <1>7, <1>9 DEF readVars

LEMMA UnlockStutters ==
    ASSUME Inv, NEW p \in Pollers, Unlock(p)
    PROVE  UNCHANGED <<MapView, depth, ResultView>>
<1>1. writer = p /\ writer' = None /\ todo[p] = {}
  BY DEF Inv, TypeOK, Unlock
<1>2. \A q \in Queues : Depth(q)' = Depth(q)
  BY DEF Unlock, Depth
<1>3. MapView' = MapView
  BY <1>1, <1>2 DEF MapView
<1>4. QED
  BY <1>3 DEF Unlock, readVars, ResultView

LEMMA ReadAtomic ==
    ASSUME Inv, NEW r \in Readers, Read(r)
    PROVE  \/ Abstract!Next
           \/ UNCHANGED <<MapView, depth, ResultView>>
<1> USE DEF pollVars
<1>1. CASE RLock(r)
  BY <1>1 DEF RLock, MapView, ResultView, Depth
<1>2. CASE RUnlock(r)
  <2>1. writer = None /\ result[r] = Unknown
        /\ copy[r] = [q \in Queues |-> metrics[q]]
    BY <1>2 DEF Inv, TypeOK, CopyInv, RUnlock
  <2>2. MapView' = MapView /\ depth' = depth
    BY <1>2 DEF RUnlock, MapView, Depth
  <2>3. result' = [result EXCEPT ![r] = [q \in Queues |-> metrics[q]]]
    BY <1>2, <2>1 DEF RUnlock
  <2>4. ResultView[r] = Abstract!Unknown
    BY <2>1 DEF ResultView, Unknown, Abstract!Unknown
  <2>5. ResultView' = [ResultView EXCEPT ![r] = MapView]
    <3>1. result \in [Readers -> [Queues -> Pointers]]
      BY DEF Inv, TypeOK
    <3>2. ResultView'[r] = MapView
      BY <1>2, <2>1, <2>3, <3>1, MapViewFree DEF RUnlock, ResultView, Depth
    <3>3. \A s \in Readers : s # r => ResultView'[s] = ResultView[s]
      BY <1>2, <2>3, <3>1 DEF RUnlock, ResultView
    <3>4. /\ ResultView = [s \in Readers |-> ResultView[s]]
          /\ ResultView' = [s \in Readers |-> ResultView'[s]]
      BY DEF ResultView
    <3>5. QED
      BY <3>2, <3>3, <3>4, OneChanged
  <2>6. Abstract!ReadAll(r)
    BY <2>2, <2>4, <2>5 DEF Abstract!ReadAll
  <2>7. QED
    BY <2>6 DEF Abstract!Next
<1>3. CASE Release(r)
  <2>1. MapView' = MapView /\ depth' = depth
    BY <1>3 DEF Release, MapView, Depth
  <2>2. ResultView' = [ResultView EXCEPT ![r] = Abstract!Unknown]
    <3>1. result \in [Readers -> [Queues -> Pointers]]
      BY DEF Inv, TypeOK
    <3>2. ResultView'[r] = Abstract!Unknown
      BY <1>3, <3>1 DEF Release, ResultView, Unknown, Abstract!Unknown
    <3>3. \A s \in Readers : s # r => ResultView'[s] = ResultView[s]
      BY <1>3, <3>1 DEF Release, ResultView
    <3>4. /\ ResultView = [s \in Readers |-> ResultView[s]]
          /\ ResultView' = [s \in Readers |-> ResultView'[s]]
      BY DEF ResultView
    <3>5. QED
      BY <3>2, <3>3, <3>4, OneChanged
  <2>3. Abstract!Release(r)
    BY <2>1, <2>2 DEF Abstract!Release
  <2>4. QED
    BY <2>3 DEF Abstract!Next
<1>4. ASSUME NEW q \in Queues, Copy(r, q)
      PROVE  UNCHANGED <<MapView, depth, ResultView>>
  BY <1>4 DEF Copy, MapView, ResultView, Depth
<1>5. ASSUME NEW q \in Queues, GetQueueDepth(r, q)
      PROVE  Abstract!Next
  <2>1. MapView' = MapView /\ ResultView' = ResultView
    BY <1>5 DEF GetQueueDepth, MapView, ResultView, Depth
  <2>2. depth' = [depth EXCEPT ![r] = MapView[q]]
    BY <1>5, MapViewFree DEF GetQueueDepth
  <2>3. Abstract!ReadOne(r, q)
    BY <2>1, <2>2 DEF Abstract!ReadOne
  <2>4. QED
    BY <2>3 DEF Abstract!Next
<1>6. QED
  BY <1>1, <1>2, <1>3, <1>4, <1>5 DEF Read

LEMMA NextAtomic ==
    Inv /\ [Next]_vars => [Abstract!Next]_<<MapView, depth, ResultView>>
<1> SUFFICES ASSUME Inv, [Next]_vars
             PROVE  Abstract!Next \/ UNCHANGED <<MapView, depth, ResultView>>
  OBVIOUS
<1>1. ASSUME NEW q \in Queues, Change(q)
      PROVE  UNCHANGED <<MapView, depth, ResultView>>
  BY <1>1 DEF Change, pollVars, readVars, MapView, ResultView, Depth
<1>2. ASSUME NEW p \in Pollers, Poll(p)
      PROVE  Abstract!Next \/ UNCHANGED <<MapView, depth, ResultView>>
  BY <1>2, FetchStutters, LockApplies, StoreStutters, UnlockStutters
  DEF Poll, Abstract!Next
<1>3. ASSUME NEW r \in Readers, Read(r)
      PROVE  Abstract!Next \/ UNCHANGED <<MapView, depth, ResultView>>
  BY <1>3, ReadAtomic
<1>4. CASE UNCHANGED vars
  BY <1>4 DEF vars, pollVars, readVars, MapView, ResultView, Depth
<1>5. QED
  BY <1>1, <1>2, <1>3, <1>4 DEF Next

\* queue_metrics.go, Collector: whatever the number of goroutines and however
\* they interleave, the answers of the backend are taken in and read whole, and
\* a map GetAllMetrics returned is not changed by later polls.
THEOREM CollectorIsAtomic == Spec => IsAtomic
<1>1. QED
  BY InitAtomic, Invariance, NextAtomic, PTL DEF Spec, IsAtomic, Abstract!Spec
===============================================================================
