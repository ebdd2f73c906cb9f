--------------------- MODULE OJSClusterConvergence_proofs ---------------------
(***************************************************************************)
(* Proof that the OJSCluster controller loses no wake-up: ConvergenceInv,  *)
(* together with type correctness, is inductive.  And that it has made the *)
(* ServiceMonitor, which nothing watches, when it comes to rest.           *)
(***************************************************************************)
EXTENDS OJSCluster_proofs

(***************************************************************************)
(* What the kinds of steps preserve.                                       *)
(***************************************************************************)

\* A step of the running call leaves every owned child as it was, unless the
\* watches will hear of it.
ChildrenKept ==
    /\ freshChild' \subseteq freshChild
    /\ \A j \in freshChild' : cachedChild'[j] = children'[j]
    /\ freshChild' = Owned => \A j \in Owned : children'[j] = children[j]

\* Child k is what the running call wants it to be.
MadeForLocal(k) ==
    /\ children[k] # Absent
    /\ children[k].owner = local.uid
    /\ children[k].content = Desired(k, local.spec)

\* The parts of the running call's copy that no step changes in memory.
SameObject ==
    /\ local'.uid = local.uid /\ local'.gen = local.gen
    /\ local'.spec = local.spec /\ local'.finalizer = local.finalizer
    /\ local'.deleting = local.deleting

\* If child k is asked for, it is as the running call wants it unless the
\* watches will hear of it.
Dealt(k) ==
    freshChild' = Owned /\ Wants(k, local.spec) =>
      /\ children'[k] # Absent
      /\ children'[k].owner = local.uid
      /\ children'[k].content = Desired(k, local.spec)

\* What CreateOrUpdate stores is a child object.
LEMMA EnsuredChildType ==
    ASSUME TypeInv, pc # "idle", NEW k \in Kinds
    PROVE  [owner   |-> local.uid,
            content |-> Desired(k, local.spec),
            rollout |-> IF children[k] = Absent THEN NoRollout
                        ELSE children[k].rollout] \in Children
<1>1. local.uid \in Nat /\ Desired(k, local.spec) \in Contents
  BY LocalType, StatusType, DesiredType
<1>2. NoRollout \in Rollouts
  BY DEF NoRollout, Rollouts
<1>3. children[k] # Absent => children[k].rollout \in Rollouts
  BY DEF TypeInv, TypeOK, Children
<1> QED BY <1>1, <1>2, <1>3 DEF Children

\* What CreateOrUpdate achieves when it reports success.
LEMMA EnsureEffect ==
    ASSUME TypeInv, CopiesAgree, pc # "idle", NEW k \in Kinds,
           NEW ACTION Done, NEW ACTION Failed, Ensure(k, Done, Failed)
    PROVE  /\ UNCHANGED <<server, cached, cacheFresh>>
           /\ ChildrenKept
           /\ Failed \/ (Done /\ (k \in Owned => Dealt(k)))
<1> DEFINE want == Desired(k, local.spec)
           new  == [owner |-> local.uid, content |-> want,
                    rollout |-> IF children[k] = Absent THEN NoRollout
                                ELSE children[k].rollout]
           equal == /\ Seen(k) # Absent /\ Seen(k).owner = local.uid
                    /\ Seen(k).content = want
<1>1. /\ UNCHANGED <<server, cached, cacheFresh, cachedChild>>
      /\ \/ /\ UNCHANGED <<children, freshChild>>
            /\ Failed \/ (equal /\ Done)
         \/ /\ children' = [children EXCEPT ![k] = new]
            /\ freshChild' = IF new = children[k] THEN freshChild
                             ELSE freshChild \ {k}
            /\ Done \/ Failed
  BY DEF Ensure, CreateOrUpdate, objectVars
<1>2. /\ children \in [Kinds -> Children \cup {Absent}]
      /\ freshChild \subseteq Owned /\ Owned \subseteq Kinds
      /\ Owned = DOMAIN cachedChild
  BY DEF TypeInv, TypeOK, Owned
<1>3. new # Absent
  BY AbsentAssumption, EnsuredChildType
<1>4. CASE UNCHANGED <<children, freshChild>> /\ (Failed \/ (equal /\ Done))
  <2>1. ChildrenKept
    BY <1>1, <1>4 DEF ChildrenKept, CopiesAgree
  <2>2. ASSUME equal, k \in Owned
        PROVE  Dealt(k)
    <3>1. freshChild' = Owned => Seen(k) = children'[k]
      BY <1>2, <1>4, <2>2 DEF Seen, Watched, CopiesAgree
    <3> QED BY <2>2, <3>1 DEF Dealt
  <2> QED BY <1>1, <1>4, <2>1, <2>2
<1>5. CASE /\ children' = [children EXCEPT ![k] = new]
           /\ freshChild' = IF new = children[k] THEN freshChild
                            ELSE freshChild \ {k}
           /\ Done \/ Failed
  <2> HIDE DEF new
  <2>1. children'[k] = new /\ \A j \in Kinds \ {k} : children'[j] = children[j]
    BY <1>2, <1>5
  <2>2. Dealt(k)
    BY <1>3, <2>1 DEF Dealt, new
  <2>3. freshChild' \subseteq freshChild /\ (k \in freshChild' => new = children[k])
    BY <1>5
  <2>4. \A j \in freshChild' : cachedChild'[j] = children'[j]
    BY <1>1, <1>2, <2>1, <2>3 DEF CopiesAgree
  <2>5. freshChild' = Owned => \A j \in Owned : children'[j] = children[j]
    BY <1>2, <2>1, <2>3
  <2> QED BY <1>1, <1>5, <2>2, <2>3, <2>4, <2>5 DEF ChildrenKept
<1> QED BY <1>1, <1>4, <1>5

\* A step that goes on with the same copy.
LEMMA AdvanceInv ==
    ASSUME TypeInv, ConvergenceInv, pc # "idle", pc' # "idle",
           UNCHANGED <<server, cached, cacheFresh, queued, localFresh>>,
           ChildrenKept, SameObject, LocalKnown',
           \A k \in Before(pc') : k \in Before(pc) \/ Dealt(k),
           Before(pc') \subseteq Owned
    PROVE  ConvergenceInv'
<1>1. CopiesAgree'
  <2>1. local # Absent
    BY DEF TypeInv, Copies
  <2>2. local.deleting => local.finalizer
    BY <2>1 DEF ConvergenceInv, CopiesAgree
  <2>3. /\ server # Absent /\ server.deleting => server.finalizer
        /\ cached # Absent /\ cached.deleting => cached.finalizer
    BY DEF ConvergenceInv, CopiesAgree
  <2>4. \A o \in {server', cached', local'} :
          o # Absent /\ o.deleting => o.finalizer
    BY <2>2, <2>3 DEF SameObject
  <2>5. localFresh' =>
          /\ local'.uid = server'.uid /\ local'.gen = server'.gen
          /\ local'.spec = server'.spec
          /\ local'.finalizer = server'.finalizer
          /\ local'.deleting = server'.deleting
    BY DEF SameObject, ConvergenceInv, CopiesAgree
  <2> QED BY <2>4, <2>5 DEF CopiesAgree, ChildrenKept
<1>2. PassSound'
  <2> SUFFICES ASSUME Settled'
               PROVE  /\ localFresh'
                      /\ \A k \in Before(pc') :
                           Wants(k, server.spec) => ChildInPlace(k)'
    BY DEF PassSound
  <2>1. Settled /\ freshChild' = Owned
    BY DEF Settled, ChildrenKept, TypeInv, TypeOK
  <2>2. localFresh /\ \A k \in Before(pc) : Wants(k, server.spec)
                                               => ChildInPlace(k)
    BY <2>1 DEF ConvergenceInv, PassSound
  <2>3. local.uid = server.uid /\ local.spec = server.spec
    BY <2>2 DEF ConvergenceInv, CopiesAgree
  <2>4. ASSUME NEW k \in Before(pc'), Wants(k, server.spec)
        PROVE  ChildInPlace(k)'
    <3>1. CASE k \in Before(pc)
      <4>1. children'[k] = children[k]
        BY <2>1 DEF ChildrenKept
      <4> QED BY <2>2, <2>4, <3>1, <4>1 DEF ChildInPlace
    <3>2. CASE Dealt(k)
      BY <2>1, <2>3, <2>4, <3>2 DEF Dealt, ChildInPlace
    <3> QED BY <3>1, <3>2
  <2> QED BY <2>2, <2>4
<1>3. NoLostWakeup'
  BY DEF NoLostWakeup, Quiescent
<1> QED BY <1>1, <1>2, <1>3 DEF ConvergenceInv

\* Whatever happens while something is left to be delivered.
LEMMA UnsettledInv ==
    ASSUME CopiesAgree', LocalKnown', ~Settled'
    PROVE  ConvergenceInv'
BY DEF ConvergenceInv, PassSound, NoLostWakeup, Quiescent, Settled

\* A step that returns with the key queued.
LEMMA RequeueInv ==
    ASSUME TypeInv, ConvergenceInv, Requeue,
           \A k \in freshChild' : cachedChild'[k] = children'[k],
           cached' \in {server, cached},
           server' # Absent /\ server'.deleting => server'.finalizer
    PROVE  ConvergenceInv'
<1>1. CopiesAgree'
  BY DEF ConvergenceInv, CopiesAgree, Requeue, Return
<1>2. LocalKnown'
  BY DEF LocalKnown, Requeue, Return, ServerSteps
<1> QED BY <1>1, <1>2, UnsettledInv DEF Settled, Requeue

\* A step that goes on and sends no request about a child.
LEMMA SkipInv ==
    ASSUME TypeInv, ConvergenceInv, pc # "idle",
           NEW next \in Steps \ {"idle"}, Skip(next),
           LocalKnown', Before(next) \subseteq Owned,
           \A k \in Before(next) : k \in Before(pc) \/ Dealt(k)
    PROVE  ConvergenceInv'
<1>1. /\ UNCHANGED <<server, cached, cacheFresh, queued, localFresh, local>>
      /\ UNCHANGED <<children, cachedChild, freshChild>>
      /\ pc' = next
  BY DEF Skip, Goto, objectVars, childVars
<1>2. ChildrenKept
  BY <1>1 DEF ChildrenKept, ConvergenceInv, CopiesAgree
<1>3. SameObject
  BY <1>1 DEF SameObject
<1> QED BY <1>1, <1>2, <1>3, AdvanceInv

\* A CreateOrUpdate of child k that either goes on, to the next step or to
\* report the failure, or returns with the key queued.
LEMMA EnsureInv ==
    ASSUME TypeInv, ConvergenceInv, pc # "idle", NEW k \in Kinds,
           NEW next \in Steps \ {"idle"}, NEW ACTION Done, NEW ACTION Failed,
           Ensure(k, Done, Failed),
           Done => pc' = next /\ SameObject /\ UNCHANGED <<queued, localFresh>>,
           Before(next) \subseteq Owned,
           \A j \in Before(next) : j \in Before(pc) \/ j = k,
           Done => LocalKnown',
           Failed => \/ Requeue
                     \/ BackendFailed /\ LocalKnown'
                     \/ Done /\ k \notin Owned
    PROVE  ConvergenceInv'
<1>1. /\ UNCHANGED <<server, cached, cacheFresh>>
      /\ ChildrenKept
      /\ Failed \/ (Done /\ (k \in Owned => Dealt(k)))
  BY EnsureEffect DEF ConvergenceInv
<1>2. CASE Done /\ (k \in Owned => Dealt(k))
  <2>1. \A j \in Before(next) : j \in Before(pc) \/ Dealt(j)
    BY <1>2
  <2> QED BY <1>1, <1>2, <2>1, AdvanceInv
<1>3. CASE Requeue
  <2>1. server' # Absent /\ server'.deleting => server'.finalizer
    BY <1>1 DEF ConvergenceInv, CopiesAgree
  <2> QED BY <1>1, <1>3, <2>1, RequeueInv DEF ChildrenKept
<1>4. CASE BackendFailed /\ LocalKnown'
  <2>1. /\ pc' = "backendFailed" /\ UNCHANGED <<local, localFresh, queued>>
        /\ Before(pc') = {}
    BY <1>4 DEF BackendFailed, Goto, Before
  <2>2. SameObject
    BY <2>1 DEF SameObject
  <2> QED BY <1>1, <1>4, <2>1, <2>2, AdvanceInv
<1> QED BY <1>1, <1>2, <1>3, <1>4

\* An Update of the object that returns with the key queued unless it succeeds.
LEMMA PutInv ==
    ASSUME TypeInv, ConvergenceInv, NEW STATE new, NEW ACTION Done,
           PutObject(new, Done, Requeue),
           localFresh => new = Absent \/ (new.deleting => new.finalizer),
           /\ Done /\ localFresh /\ Store(new) /\ UNCHANGED <<cached, childVars>>
           => ConvergenceInv'
    PROVE  ConvergenceInv'
<1>1. UNCHANGED <<cached, childVars>>
  BY DEF PutObject
<1>2. \/ Done /\ localFresh /\ Store(new)
      \/ Requeue /\ localFresh /\ server' = new
      \/ Requeue /\ UNCHANGED server
  BY DEF PutObject, Store
<1>3. CASE Done /\ localFresh /\ Store(new)
  BY <1>1, <1>3
<1>4. ASSUME Requeue, (localFresh /\ server' = new) \/ UNCHANGED server
      PROVE  ConvergenceInv'
  <2>1. server' # Absent /\ server'.deleting => server'.finalizer
    BY <1>4 DEF ConvergenceInv, CopiesAgree
  <2>2. \A k \in freshChild' : cachedChild'[k] = children'[k]
    BY <1>1 DEF ConvergenceInv, CopiesAgree, childVars
  <2> QED BY <1>1, <1>4, <2>1, <2>2, RequeueInv
<1> QED BY <1>2, <1>3, <1>4

\* An Update whose answer is the copy the running call goes on with.
LEMMA PutAndGoOnInv ==
    ASSUME TypeInv, ConvergenceInv, pc # "idle",
           NEW STATE new, localFresh => new \in Objects,
           NEW next \in {"phase", "backend"},
           PutObject(new, Goto(next, new, TRUE), Requeue),
           localFresh => ~new.deleting /\ new.finalizer
    PROVE  ConvergenceInv'
<1>1. ASSUME Goto(next, new, TRUE), localFresh, Store(new),
             UNCHANGED <<cached, childVars>>
      PROVE  ConvergenceInv'
  <2>1. /\ pc' = next /\ local' = new /\ server' = new /\ localFresh' = TRUE
        /\ UNCHANGED <<cached, children, cachedChild, freshChild>>
    BY <1>1 DEF Goto, Store, childVars
  <2>2. CopiesAgree'
    BY <1>1, <2>1 DEF ConvergenceInv, CopiesAgree
  <2>3. LocalKnown'
    BY <1>1, <2>1 DEF LocalKnown, ServerSteps
  <2>4. PassSound'
    BY <2>1 DEF PassSound, Before
  <2>5. NoLostWakeup'
    BY <2>1 DEF NoLostWakeup, Quiescent
  <2> QED BY <2>2, <2>3, <2>4, <2>5 DEF ConvergenceInv
<1>2. localFresh => new = Absent \/ (new.deleting => new.finalizer)
  OBVIOUS
<1>3. PutObject(new, Goto(next, new, TRUE), Requeue)
  OBVIOUS
<1> DEFINE Done == Goto(next, new, TRUE)
<1>4. PutObject(new, Done, Requeue)
  BY <1>3
<1>5. /\ Done /\ localFresh /\ Store(new) /\ UNCHANGED <<cached, childVars>>
      => ConvergenceInv'
  BY <1>1
<1> HIDE DEF Done
<1> QED BY <1>2, <1>4, <1>5, PutInv

\* The last step of a pass: the status it computes tells the truth.
LEMMA ReportCurrent ==
    ASSUME NEW o \in Objects, NEW dep \in Children,
           o.spec.backend = "redis" =>
             o.status.conditions["BackendReady"]
               = [status |-> "True", gen |-> o.gen]
    PROVE  LET s == Report(o, dep)
               r == dep.rollout
           IN  /\ s.rollout = r
               /\ \A t \in CondTypes \ {"BackendReady"} :
                    s.conditions[t].gen = o.gen
               /\ s.phase = "Running" <=> r.ready = r.replicas /\ r.ready > 0
               /\ s.conditions["Ready"].status = "True"
                    <=> r.ready = r.replicas /\ r.ready > 0
               /\ s.conditions["Available"].status = "True" <=> r.ready > 0
               /\ s.conditions["Degraded"].status = "True"
                    <=> r.ready > 0 /\ r.ready # r.replicas
               /\ o.spec.backend = "redis" =>
                    s.conditions["BackendReady"]
                      = [status |-> "True", gen |-> o.gen]
<1> DEFINE r       == dep.rollout
           phase   == PhaseOf(r)
           verdict == VerdictOf(phase)
           conds   == SetConditions(o.status.conditions, o.gen, verdict)
<1>1. r.ready \in Nat /\ r.replicas \in Nat
  BY DEF Children, Rollouts
<1>2. Report(o, dep) = [phase |-> phase, conditions |-> conds, rollout |-> r]
  BY AbsentAssumption DEF Report
<1>3. /\ phase = "Running" <=> r.ready = r.replicas /\ r.ready > 0
      /\ phase = "Pending" <=> ~(r.ready > 0)
      /\ phase = "Scaling" <=> r.ready > 0 /\ r.ready # r.replicas
  BY <1>1 DEF PhaseOf
<1>4. /\ DOMAIN verdict = CondTypes \ {"BackendReady"}
      /\ verdict["Ready"] = "True" <=> phase = "Running"
      /\ verdict["Available"] = "True" <=> phase # "Pending"
      /\ verdict["Degraded"] = "True" <=> phase = "Scaling"
  BY DEF VerdictOf, CondTypes
<1> HIDE DEF verdict, phase, r
<1>5. conds["BackendReady"] = o.status.conditions["BackendReady"]
  BY <1>4 DEF SetConditions, CondTypes
<1>6. ASSUME NEW t \in CondTypes \ {"BackendReady"}
      PROVE  conds[t].status = verdict[t] /\ conds[t].gen = o.gen
  <2>1. conds[t] = [status |-> verdict[t], gen |-> o.gen]
    BY <1>4 DEF SetConditions, CondTypes
  <2> HIDE DEF conds
  <2> QED BY <2>1
<1>7. /\ conds["Ready"].status = verdict["Ready"]
      /\ conds["Available"].status = verdict["Available"]
      /\ conds["Degraded"].status = verdict["Degraded"]
  <2>1. {"Ready", "Available", "Degraded"} \subseteq CondTypes \ {"BackendReady"}
    BY DEF CondTypes
  <2> HIDE DEF conds
  <2> QED BY <1>6, <2>1
<1> HIDE DEF conds
<1> DEFINE s == Report(o, dep)
<1>8. s.rollout = r /\ s.phase = phase /\ s.conditions = conds
  BY <1>2
<1> HIDE DEF s
<1>9. /\ s.rollout = r
      /\ \A t \in CondTypes \ {"BackendReady"} : s.conditions[t].gen = o.gen
      /\ s.phase = "Running" <=> r.ready = r.replicas /\ r.ready > 0
      /\ s.conditions["Ready"].status = "True"
           <=> r.ready = r.replicas /\ r.ready > 0
      /\ s.conditions["Available"].status = "True" <=> r.ready > 0
      /\ s.conditions["Degraded"].status = "True"
           <=> r.ready > 0 /\ r.ready # r.replicas
      /\ o.spec.backend = "redis" =>
           s.conditions["BackendReady"] = [status |-> "True", gen |-> o.gen]
  BY <1>3, <1>4, <1>5, <1>6, <1>7, <1>8
<1> QED BY <1>9 DEF s, r

LEMMA FinishConverges ==
    ASSUME TypeInv, ConvergenceInv, pc = "status", Settled,
           server = [server EXCEPT !.status =
                       Report(local, cachedChild["deployment"])]
    PROVE  Converged
<1> DEFINE dep == children["deployment"]
<1>1. /\ local \in Objects /\ server \in Objects /\ localFresh
  BY LocalType DEF ConvergenceInv, PassSound
<1>2. /\ local.uid = server.uid /\ local.gen = server.gen
      /\ local.spec = server.spec /\ local.finalizer = server.finalizer
      /\ local.deleting = server.deleting
  BY <1>1 DEF ConvergenceInv, CopiesAgree
<1>3. \A k \in Owned : Wants(k, server.spec) => ChildInPlace(k)
  BY DEF ConvergenceInv, PassSound, Before
<1>4. dep # Absent /\ dep \in Children
  <2>1. "deployment" \in Owned /\ Wants("deployment", server.spec)
    BY DEF Owned, Kinds, Wants
  <2>2. "deployment" \in Kinds
    BY DEF Kinds
  <2> QED BY <1>3, <2>1, <2>2 DEF ChildInPlace, TypeInv, TypeOK
<1>5. cachedChild["deployment"] = dep
  BY DEF ConvergenceInv, CopiesAgree, Settled, Owned, Kinds
<1>6. /\ ~local.deleting /\ local.finalizer
      /\ local.spec.backend # "unsupported"
      /\ local.spec.backend = "redis" =>
           local.status.conditions["BackendReady"]
             = [status |-> "True", gen |-> local.gen]
  BY DEF ConvergenceInv, LocalKnown, ServerSteps
<1>7. server.status = Report(local, dep)
  BY <1>1, <1>5 DEF Objects
<1>8. StatusCurrent
  BY <1>1, <1>2, <1>4, <1>6, <1>7, ReportCurrent DEF StatusCurrent
<1> QED BY <1>2, <1>3, <1>6, <1>8 DEF Converged

(***************************************************************************)
(* The steps of Reconcile.                                                 *)
(***************************************************************************)

LEMMA StartReconcileInv ==
    ASSUME TypeInv, ConvergenceInv, StartReconcile
    PROVE  ConvergenceInv'
<1>1. /\ UNCHANGED <<server, cached, cacheFresh>>
      /\ UNCHANGED <<children, cachedChild, freshChild>>
  BY DEF StartReconcile, objectVars, childVars
<1>2. CASE cached = Absent
  <2>1. UNCHANGED <<pc, local, localFresh>> /\ pc = "idle"
    BY <1>2 DEF StartReconcile
  <2>2. CopiesAgree' /\ LocalKnown' /\ PassSound'
    BY <1>1, <2>1 DEF ConvergenceInv, CopiesAgree, LocalKnown, PassSound,
                      ServerSteps
  <2>3. cacheFresh => server = Absent
    BY <1>2 DEF TypeInv, Copies
  <2>4. NoLostWakeup'
    BY <1>1, <2>3 DEF NoLostWakeup, Quiescent
  <2> QED BY <2>2, <2>4 DEF ConvergenceInv
<1>3. CASE cached # Absent
  <2>1. /\ pc' = IF cached.deleting THEN "delete" ELSE "finalizer"
        /\ local' = cached /\ localFresh' = cacheFresh
    BY <1>3 DEF StartReconcile
  <2>2. cacheFresh => cached = server
    BY DEF TypeInv, Copies
  <2>3. CopiesAgree'
    BY <1>1, <2>1, <2>2 DEF ConvergenceInv, CopiesAgree
  <2>4. LocalKnown'
    BY <2>1 DEF LocalKnown, ServerSteps
  <2>5. PassSound'
    BY <1>1, <2>1 DEF PassSound, Settled, Before
  <2>6. NoLostWakeup'
    BY <2>1 DEF NoLostWakeup, Quiescent
  <2> QED BY <2>3, <2>4, <2>5, <2>6 DEF ConvergenceInv
<1> QED BY <1>2, <1>3

\* A step that leaves everything the invariant speaks of as it is.
LEMMA FrameInv ==
    ASSUME ConvergenceInv,
           UNCHANGED <<server, cached, cacheFresh, local, localFresh, children,
                       cachedChild, freshChild, pc, queued>>
    PROVE  ConvergenceInv'
<1>1. CopiesAgree' /\ LocalKnown'
  BY DEF ConvergenceInv, CopiesAgree, LocalKnown
<1>2. PassSound'
  BY DEF ConvergenceInv, PassSound, Settled, ChildInPlace
<1>3. NoLostWakeup'
  BY DEF ConvergenceInv, NoLostWakeup, Quiescent, Converged, StatusCurrent,
         ChildInPlace
<1> QED BY <1>1, <1>2, <1>3 DEF ConvergenceInv

\* The webhook refuses the Update: the key is queued again.
LEMMA RefusedInv ==
    ASSUME TypeInv, ConvergenceInv, Requeue,
           UNCHANGED <<objectVars, childVars, fails>>
    PROVE  ConvergenceInv'
<1>1. /\ \A k \in freshChild' : cachedChild'[k] = children'[k]
      /\ server' # Absent /\ server'.deleting => server'.finalizer
      /\ cached' = cached
  BY DEF objectVars, childVars, ConvergenceInv, CopiesAgree
<1> QED BY <1>1, RequeueInv

LEMMA RemoveFinalizerInv ==
    ASSUME TypeInv, ConvergenceInv, RemoveFinalizer
    PROVE  ConvergenceInv'
<1>1. local \in Objects /\ local.deleting /\ local.finalizer
  BY LocalType, AbsentAssumption
     DEF RemoveFinalizer, ConvergenceInv, LocalKnown, CopiesAgree
<1>2. PutCluster(Absent, Finish, Requeue)
  BY <1>1 DEF RemoveFinalizer
<1>3. ASSUME Finish, localFresh, Store(Absent), UNCHANGED <<cached, childVars>>
      PROVE  ConvergenceInv'
  <2>1. server # Absent
    BY <1>3 DEF TypeInv, Copies
  <2>2. cacheFresh' = FALSE
    BY <1>3, <2>1 DEF Store, TypeInv, TypeOK
  <2>3. CopiesAgree'
    BY <1>3 DEF Finish, Return, Store, childVars, ConvergenceInv, CopiesAgree
  <2>4. LocalKnown'
    BY <1>3 DEF Finish, Return, LocalKnown, ServerSteps
  <2> QED BY <2>2, <2>3, <2>4, UnsettledInv DEF Settled
<1>4. CASE PutObject(Absent, Finish, Requeue)
  BY <1>3, <1>4, PutInv
<1> QED BY <1>2, <1>4, RefusedInv DEF PutCluster

LEMMA AddFinalizerInv ==
    ASSUME TypeInv, ConvergenceInv, AddFinalizer
    PROVE  ConvergenceInv'
<1>1. pc = "finalizer" /\ local \in Objects /\ ~local.deleting
      /\ (localFresh => server \in Objects)
  BY LocalType DEF AddFinalizer, ConvergenceInv, LocalKnown
<1>2. CASE local.finalizer
  <2>1. Skip("phase") /\ pc' = "phase" /\ local' = local
    BY <1>2 DEF AddFinalizer, Skip, Goto
  <2>2. LocalKnown' /\ Before("phase") = {}
    BY <1>1, <1>2, <2>1 DEF LocalKnown, ServerSteps, Before
  <2> QED BY <1>1, <2>1, <2>2, SkipInv DEF Steps
<1>3. CASE ~local.finalizer
  <2> DEFINE new == [server EXCEPT !.finalizer = TRUE]
  <2>1. PutCluster(new, Goto("phase", new, TRUE), Requeue)
    BY <1>3 DEF AddFinalizer
  <2>2. localFresh => new \in Objects /\ new.finalizer
                      /\ new.deleting = server.deleting
    BY <1>1 DEF Objects
  <2>3. localFresh => local.deleting = server.deleting
    BY DEF ConvergenceInv, CopiesAgree
  <2> HIDE DEF new
  <2>4. CASE PutObject(new, Goto("phase", new, TRUE), Requeue)
    BY <1>1, <2>2, <2>3, <2>4, PutAndGoOnInv
  <2> QED BY <2>1, <2>4, RefusedInv DEF PutCluster
<1> QED BY <1>2, <1>3

LEMMA SetPendingPhaseInv ==
    ASSUME TypeInv, ConvergenceInv, SetPendingPhase
    PROVE  ConvergenceInv'
<1>1. /\ pc = "phase" /\ local \in Objects
      /\ ~local.deleting /\ local.finalizer
      /\ localFresh => server \in Objects
  BY LocalType DEF SetPendingPhase, ConvergenceInv, LocalKnown
<1>2. CASE local.status.phase # ""
  <2>1. Skip("backend") /\ pc' = "backend" /\ local' = local
    BY <1>2 DEF SetPendingPhase, Skip, Goto
  <2>2. LocalKnown' /\ Before("backend") = {}
    BY <1>1, <1>2, <2>1 DEF LocalKnown, ServerSteps, Before
  <2> QED BY <1>1, <2>1, <2>2, SkipInv DEF Steps
<1>3. CASE ~(local.status.phase # "")
  <2> DEFINE status == [local.status EXCEPT
                          !.phase = "Pending",
                          !.conditions = SetConditions(@, local.gen,
                                           [Progressing |-> "True"])]
             new    == [server EXCEPT !.status = status]
  <2>1. PutObject(new, Goto("backend", new, TRUE), Requeue)
    BY <1>3 DEF SetPendingPhase
  <2>2. SetConditions(local.status.conditions, local.gen,
                      [Progressing |-> "True"]) \in Conditions
    BY <1>1, StatusType, SetConditionsType
  <2>3. status \in Statuses
    BY <1>1, <2>2, StatusType, PendingStatusType
  <2> HIDE DEF status
  <2>4. localFresh => new \in Objects
    BY <1>1, <2>3, StatusPutType
  <2>5. localFresh => new.deleting = server.deleting
                      /\ new.finalizer = server.finalizer
    BY <1>1 DEF Objects
  <2>6. localFresh => local.deleting = server.deleting
                      /\ local.finalizer = server.finalizer
    BY DEF ConvergenceInv, CopiesAgree
  <2> HIDE DEF new
  <2> QED BY <1>1, <2>1, <2>4, <2>5, <2>6, PutAndGoOnInv
<1> QED BY <1>2, <1>3

LEMMA ReconcileEmbeddedBackendInv ==
    ASSUME TypeInv, ConvergenceInv, ReconcileEmbeddedBackend
    PROVE  ConvergenceInv'
<1> DEFINE b == local.spec.backend
<1>1. pc = "backend" /\ ~local.deleting /\ local.finalizer
  BY DEF ReconcileEmbeddedBackend, ConvergenceInv, LocalKnown
<1>2. b \in Backends
  BY <1>1, LocalType, StatusType, SpecsAssumption DEF AllSpecs
<1>3. PICK next \in {"configMap", "redisDeployment", "backendFailed"} :
        /\ Skip(next)
        /\ next = "configMap" => b # "redis" /\ b # "unsupported"
        /\ next = "redisDeployment" => b = "redis"
  BY <1>2 DEF ReconcileEmbeddedBackend, Backends
<1>4. pc' = next /\ local' = local
  BY <1>3 DEF Skip, Goto
<1>5. LocalKnown'
  BY <1>1, <1>3, <1>4 DEF LocalKnown, ServerSteps
<1>6. \A k \in Before(next) : k \in Owned /\ Dealt(k)
  BY <1>3 DEF Before, Dealt, Wants, Owned, Kinds
<1>7. next \in Steps \ {"idle"}
  BY <1>3 DEF Steps, Kinds
<1> QED BY <1>1, <1>3, <1>5, <1>6, <1>7, SkipInv

\* A step that ensures child k for a server step and goes on to next.
LEMMA ServerStepInv ==
    ASSUME TypeInv, ConvergenceInv, NEW k \in Kinds \cap ServerSteps, pc = k,
           NEW next \in ServerSteps, NEW ACTION Failed,
           Ensure(k, Goto(next, local, localFresh), Failed),
           Failed => Requeue \/ (Goto(next, local, localFresh) /\ k \notin Owned),
           \A j \in Before(next) : j \in Before(k) \/ j = k,
           Before(next) \subseteq Owned
    PROVE  ConvergenceInv'
<1> DEFINE Done == Goto(next, local, localFresh)
<1>1. Ensure(k, Done, Failed)
  OBVIOUS
<1>2. Done => /\ pc' = next
              /\ UNCHANGED <<local, queued, localFresh>>
  BY DEF Goto
<1>3. pc # "idle" /\ next \in Steps \ {"idle"}
  BY DEF ServerSteps, Steps, Kinds
<1>4. UNCHANGED local => SameObject
  BY DEF SameObject
<1>5. Done => LocalKnown'
  BY <1>2 DEF LocalKnown, ServerSteps, ConvergenceInv
<1>6. Failed => Requeue \/ (Done /\ k \notin Owned)
  OBVIOUS
<1> HIDE DEF Done
<1> QED BY <1>1, <1>2, <1>3, <1>4, <1>5, <1>6, EnsureInv

LEMMA ReconcileConfigMapInv ==
    ASSUME TypeInv, ConvergenceInv, ReconcileConfigMap
    PROVE  ConvergenceInv'
<1>1. /\ pc = "configMap"
      /\ Ensure("configMap", Goto("deployment", local, localFresh), Requeue)
  BY DEF ReconcileConfigMap
<1>2. /\ \A j \in Before("deployment") : j \in Before("configMap") \/ j = "configMap"
      /\ Before("deployment") \subseteq Owned
  BY DEF Before, Owned, Kinds
<1>3. "configMap" \in Kinds \cap ServerSteps /\ "deployment" \in ServerSteps
  BY DEF Kinds, ServerSteps
<1> QED BY <1>1, <1>2, <1>3, ServerStepInv

LEMMA ReconcileDeploymentInv ==
    ASSUME TypeInv, ConvergenceInv, ReconcileDeployment
    PROVE  ConvergenceInv'
<1>1. /\ pc = "deployment"
      /\ Ensure("deployment", Goto("service", local, localFresh), Requeue)
  BY DEF ReconcileDeployment
<1>2. /\ \A j \in Before("service") : j \in Before("deployment") \/ j = "deployment"
      /\ Before("service") \subseteq Owned
  BY DEF Before, Owned, Kinds
<1>3. "deployment" \in Kinds \cap ServerSteps /\ "service" \in ServerSteps
  BY DEF Kinds, ServerSteps
<1> QED BY <1>1, <1>2, <1>3, ServerStepInv

LEMMA ReconcileServiceInv ==
    ASSUME TypeInv, ConvergenceInv, ReconcileService
    PROVE  ConvergenceInv'
<1>1. /\ pc = "service"
      /\ Ensure("service", Goto("disruptionBudget", local, localFresh), Requeue)
  BY DEF ReconcileService
<1>2. /\ \A j \in Before("disruptionBudget") : j \in Before("service") \/ j = "service"
      /\ Before("disruptionBudget") \subseteq Owned
  BY DEF Before, Owned, Kinds
<1>3. "service" \in Kinds \cap ServerSteps /\ "disruptionBudget" \in ServerSteps
  BY DEF Kinds, ServerSteps
<1> QED BY <1>1, <1>2, <1>3, ServerStepInv

LEMMA ReconcilePDBInv ==
    ASSUME TypeInv, ConvergenceInv, ReconcilePDB
    PROVE  ConvergenceInv'
<1>1. pc = "disruptionBudget"
  BY DEF ReconcilePDB
<1>2. /\ \A j \in Before("serviceMonitor") :
           j \in Before("disruptionBudget") \/ j = "disruptionBudget"
      /\ Before("serviceMonitor") \subseteq Owned
  BY DEF Before, Owned, Kinds
<1>3. /\ "disruptionBudget" \in Kinds \cap ServerSteps
      /\ "serviceMonitor" \in ServerSteps
      /\ "serviceMonitor" \in Steps \ {"idle"}
  BY DEF Kinds, ServerSteps, Steps
<1>4. CASE Ensure("disruptionBudget",
                  Goto("serviceMonitor", local, localFresh), Requeue)
  BY <1>1, <1>2, <1>3, <1>4, ServerStepInv
<1>5. CASE /\ ~Wants("disruptionBudget", local.spec)
           /\ Skip("serviceMonitor")
  <2>1. Dealt("disruptionBudget")
    BY <1>5 DEF Dealt
  <2>2. pc' = "serviceMonitor" /\ local' = local
    BY <1>5 DEF Skip, Goto
  <2>3. LocalKnown'
    BY <1>1, <2>2 DEF LocalKnown, ServerSteps, ConvergenceInv
  <2> QED BY <1>1, <1>2, <1>3, <1>5, <2>1, <2>3, SkipInv
<1> QED BY <1>4, <1>5 DEF ReconcilePDB

LEMMA ReconcileServiceMonitorInv ==
    ASSUME TypeInv, ConvergenceInv, ReconcileServiceMonitor
    PROVE  ConvergenceInv'
<1>1. pc = "serviceMonitor"
  BY DEF ReconcileServiceMonitor
<1>2. /\ \A j \in Before("status") : j \in Before("serviceMonitor")
      /\ Before("status") \subseteq Owned /\ "serviceMonitor" \notin Owned
  BY DEF Before, Owned, Kinds
<1>3. /\ "serviceMonitor" \in Kinds \cap ServerSteps
      /\ "status" \in ServerSteps /\ "status" \in Steps \ {"idle"}
  BY DEF Kinds, ServerSteps, Steps
<1>4. CASE Ensure("serviceMonitor", Goto("status", local, localFresh),
                  Goto("status", local, localFresh))
  BY <1>1, <1>2, <1>3, <1>4, ServerStepInv
<1>5. CASE Skip("status")
  <2>1. pc' = "status" /\ local' = local
    BY <1>5 DEF Skip, Goto
  <2>2. LocalKnown'
    BY <1>1, <2>1 DEF LocalKnown, ServerSteps, ConvergenceInv
  <2> QED BY <1>1, <1>2, <1>3, <1>5, <2>2, SkipInv
<1> QED BY <1>4, <1>5 DEF ReconcileServiceMonitor

LEMMA ReconcileRedisDeploymentInv ==
    ASSUME TypeInv, ConvergenceInv, ReconcileRedisDeployment
    PROVE  ConvergenceInv'
<1> DEFINE Done == Goto("redisService", local, localFresh)
<1>1. pc = "redisDeployment" /\ Ensure("redisDeployment", Done, BackendFailed)
  BY DEF ReconcileRedisDeployment
<1>2. Done => /\ pc' = "redisService"
              /\ UNCHANGED <<local, queued, localFresh>>
  BY DEF Goto
<1>3. BackendFailed => /\ pc' = "backendFailed"
                       /\ UNCHANGED <<local, queued, localFresh>>
  BY DEF Goto, BackendFailed
<1>4. Done \/ BackendFailed => LocalKnown'
  BY <1>1, <1>2, <1>3 DEF LocalKnown, ServerSteps, ConvergenceInv
<1>5. UNCHANGED local => SameObject
  BY DEF SameObject
<1>6. /\ \A j \in Before("redisService") :
           j \in Before("redisDeployment") \/ j = "redisDeployment"
      /\ Before("redisService") \subseteq Owned
  BY DEF Before, Owned, Kinds
<1>7. "redisDeployment" \in Kinds /\ "redisService" \in Steps \ {"idle"}
  BY DEF Kinds, Steps
<1> HIDE DEF Done
<1> QED BY <1>1, <1>2, <1>4, <1>5, <1>6, <1>7, EnsureInv

LEMMA ReconcileRedisServiceInv ==
    ASSUME TypeInv, ConvergenceInv, ReconcileRedisService
    PROVE  ConvergenceInv'
<1> DEFINE conditions == SetConditions(local.status.conditions, local.gen,
                                       [BackendReady |-> "True"])
           marked == [local EXCEPT !.status.conditions = conditions]
           Done == Goto("configMap", marked, localFresh)
<1>1. pc = "redisService" /\ Ensure("redisService", Done, BackendFailed)
  BY DEF ReconcileRedisService
<1>2. local \in Objects
  BY <1>1, LocalType
<1>3. conditions["BackendReady"] = [status |-> "True", gen |-> local.gen]
  BY DEF SetConditions, CondTypes
<1> HIDE DEF conditions
<1>4. /\ marked.status.conditions = conditions
      /\ marked.uid = local.uid /\ marked.gen = local.gen
      /\ marked.spec = local.spec /\ marked.finalizer = local.finalizer
      /\ marked.deleting = local.deleting
  BY <1>2 DEF Objects, Statuses
<1> HIDE DEF marked
<1>5. Done => /\ pc' = "configMap" /\ local' = marked /\ SameObject
              /\ UNCHANGED <<queued, localFresh>>
  BY <1>4 DEF Goto, SameObject
<1>6. Done => LocalKnown'
  BY <1>1, <1>3, <1>4, <1>5 DEF LocalKnown, ServerSteps, ConvergenceInv
<1>7. BackendFailed => LocalKnown'
  BY <1>1 DEF Goto, BackendFailed, LocalKnown, ServerSteps, ConvergenceInv
<1>8. /\ \A j \in Before("configMap") :
           j \in Before("redisService") \/ j = "redisService"
      /\ Before("configMap") \subseteq Owned
  BY DEF Before, Owned, Kinds
<1>9. "redisService" \in Kinds /\ "configMap" \in Steps \ {"idle"}
  BY DEF Kinds, Steps
<1> HIDE DEF Done
<1> QED BY <1>1, <1>5, <1>6, <1>7, <1>8, <1>9, EnsureInv

LEMMA ReportBackendFailureInv ==
    ASSUME TypeInv, ConvergenceInv, ReportBackendFailure
    PROVE  ConvergenceInv'
<1> DEFINE failure == [BackendReady |-> "False", Degraded |-> "True"]
           status  == [local.status EXCEPT !.conditions =
                         SetConditions(@, local.gen, failure)]
           new     == [server EXCEPT !.status = status]
<1>1. pc = "backendFailed" /\ PutObject(new, Requeue, Requeue)
  BY DEF ReportBackendFailure
<1> HIDE DEF status
<1>2. localFresh => (new.deleting => new.finalizer)
  <2>1. localFresh => server \in Objects /\ server # Absent
    BY <1>1, LocalType, AbsentAssumption
  <2> QED BY <2>1 DEF Objects, ConvergenceInv, CopiesAgree
<1> HIDE DEF new
<1>3. ASSUME Requeue, localFresh, Store(new), UNCHANGED <<cached, childVars>>
      PROVE  ConvergenceInv'
  BY <1>2, <1>3, RequeueInv DEF Store, childVars, ConvergenceInv, CopiesAgree
<1> QED BY <1>1, <1>2, <1>3, PutInv

LEMMA UpdateStatusInv ==
    ASSUME TypeInv, ConvergenceInv, UpdateStatus
    PROVE  ConvergenceInv'
<1> DEFINE status == Report(local, cachedChild["deployment"])
           new    == [server EXCEPT !.status = status]
<1>1. pc = "status" /\ PutObject(new, Finish, Requeue)
  BY DEF UpdateStatus
<1>2. localFresh => (new.deleting => new.finalizer)
  <2>1. localFresh => server \in Objects /\ server # Absent
    BY <1>1, LocalType, AbsentAssumption
  <2> HIDE DEF status
  <2> QED BY <2>1 DEF Objects, ConvergenceInv, CopiesAgree
<1>3. Settled /\ new = server => Converged
  BY <1>1, FinishConverges
<1> HIDE DEF new
<1>4. ASSUME Finish, localFresh, Store(new), UNCHANGED <<cached, childVars>>
      PROVE  ConvergenceInv'
  <2>1. CopiesAgree'
    BY <1>2, <1>4 DEF Finish, Return, Store, childVars, ConvergenceInv,
                      CopiesAgree
  <2>2. LocalKnown' /\ PassSound'
    BY <1>4 DEF Finish, Return, LocalKnown, PassSound, ServerSteps
  <2>3. Settled' => Settled /\ new = server /\ server' = server
    BY <1>4 DEF Finish, Store, Settled, childVars
  <2>4. Settled' => Converged'
    BY <1>3, <1>4, <2>3 DEF Converged, StatusCurrent, ChildInPlace, childVars
  <2>5. NoLostWakeup'
    BY <2>4 DEF NoLostWakeup, Quiescent, Settled
  <2> QED BY <2>1, <2>2, <2>5 DEF ConvergenceInv
<1> QED BY <1>1, <1>2, <1>4, PutInv

LEMMA ReconcileStepInv ==
    ASSUME TypeInv, ConvergenceInv, ReconcileStep
    PROVE  ConvergenceInv'
BY StartReconcileInv, RemoveFinalizerInv, AddFinalizerInv, SetPendingPhaseInv,
   ReconcileEmbeddedBackendInv, ReconcileRedisDeploymentInv,
   ReconcileRedisServiceInv, ReportBackendFailureInv, ReconcileConfigMapInv,
   ReconcileDeploymentInv, ReconcileServiceInv, ReconcilePDBInv,
   ReconcileServiceMonitorInv, UpdateStatusInv DEF ReconcileStep

(***************************************************************************)
(* The steps of the environment.                                           *)
(***************************************************************************)

\* Another client's write of the object leaves a delivery outstanding.
LEMMA WriteObjectInv ==
    ASSUME TypeInv, ConvergenceInv, NEW STATE new, WriteObject(new),
           new # Absent /\ new.deleting => new.finalizer
    PROVE  ConvergenceInv'
<1>1. /\ server' = new /\ cacheFresh' = FALSE /\ localFresh' = FALSE
      /\ UNCHANGED <<cached, children, cachedChild, freshChild, pc, local>>
  BY DEF WriteObject, childVars
<1>2. CopiesAgree'
  BY <1>1 DEF ConvergenceInv, CopiesAgree
<1>3. LocalKnown'
  BY <1>1 DEF ConvergenceInv, LocalKnown
<1> QED BY <1>1, <1>2, <1>3, UnsettledInv DEF Settled

\* Another client's write of a child leaves a delivery outstanding, unless it
\* is the ServiceMonitor, which nothing is claimed about.
LEMMA WriteChildInv ==
    ASSUME TypeInv, ConvergenceInv, NEW k \in Kinds, NEW STATE new,
           WriteChild(k, new)
    PROVE  ConvergenceInv'
<1>1. /\ children' = [children EXCEPT ![k] = new]
      /\ freshChild' = freshChild \ {k}
      /\ UNCHANGED <<server, cached, cacheFresh, cachedChild,
                     pc, local, localFresh, queued>>
  BY DEF WriteChild, objectVars, runVars
<1>2. /\ children \in [Kinds -> Children \cup {Absent}]
      /\ freshChild \subseteq Owned /\ Owned \subseteq Kinds
  BY DEF TypeInv, TypeOK, Owned
<1>3. \A j \in Kinds \ {k} : children'[j] = children[j]
  BY <1>1, <1>2
<1>4. CopiesAgree'
  BY <1>1, <1>2, <1>3 DEF ConvergenceInv, CopiesAgree
<1>5. LocalKnown'
  BY <1>1 DEF ConvergenceInv, LocalKnown
<1>6. CASE k \in Owned
  BY <1>1, <1>4, <1>5, <1>6, UnsettledInv DEF Settled
<1>7. CASE k \notin Owned
  <2>1. /\ \A j \in Owned : children'[j] = children[j]
        /\ Settled' => Settled
    BY <1>1, <1>2, <1>3, <1>7 DEF Settled
  <2>2. Before(pc) \subseteq Owned
    BY DEF Before, Owned, Kinds
  <2>3. \A j \in Owned : ChildInPlace(j)' <=> ChildInPlace(j)
    BY <1>1, <2>1 DEF ChildInPlace
  <2>4. PassSound'
    BY <1>1, <2>1, <2>2, <2>3 DEF ConvergenceInv, PassSound
  <2>5. "deployment" \in Owned
    BY DEF Owned, Kinds
  <2>6. Converged => Converged'
    BY <1>1, <2>1, <2>3, <2>5 DEF Converged, StatusCurrent
  <2>7. NoLostWakeup'
    BY <1>1, <2>1, <2>6
       DEF ConvergenceInv, NoLostWakeup, Quiescent, Settled
  <2> QED BY <1>4, <1>5, <2>4, <2>7 DEF ConvergenceInv
<1> QED BY <1>6, <1>7

LEMMA InformersInv ==
    ASSUME TypeInv, ConvergenceInv, Informers
    PROVE  ConvergenceInv'
<1>1. CASE SyncObject
  <2>1. /\ cached' = server /\ cacheFresh' = TRUE /\ queued' = TRUE
        /\ UNCHANGED <<server, children, cachedChild, freshChild, pc, local,
                       localFresh>>
    BY <1>1 DEF SyncObject, childVars
  <2>2. CopiesAgree'
    BY <2>1 DEF ConvergenceInv, CopiesAgree
  <2>3. LocalKnown'
    BY <2>1 DEF ConvergenceInv, LocalKnown
  <2> QED BY <2>1, <2>2, <2>3, UnsettledInv DEF Settled
<1>2. ASSUME NEW k \in Owned, SyncChild(k)
      PROVE  ConvergenceInv'
  <2>1. /\ cachedChild' = [cachedChild EXCEPT ![k] = children[k]]
        /\ freshChild' = freshChild \cup {k} /\ queued' = TRUE
        /\ UNCHANGED <<server, cached, cacheFresh, children, pc, local,
                       localFresh>>
    BY <1>2 DEF SyncChild, objectVars
  <2>2. /\ DOMAIN cachedChild = Owned /\ freshChild \subseteq Owned
    BY DEF TypeInv, TypeOK
  <2>3. \A j \in freshChild' : cachedChild'[j] = children'[j]
    BY <2>1, <2>2 DEF ConvergenceInv, CopiesAgree
  <2>4. CopiesAgree'
    BY <2>1, <2>3 DEF ConvergenceInv, CopiesAgree
  <2>5. LocalKnown'
    BY <2>1 DEF ConvergenceInv, LocalKnown
  <2> QED BY <2>1, <2>4, <2>5, UnsettledInv DEF Settled
<1> QED BY <1>1, <1>2 DEF Informers

LEMMA UserInv ==
    ASSUME TypeInv, ConvergenceInv, User
    PROVE  ConvergenceInv'
<1>1. server # Absent => server \in Objects
  BY DEF TypeInv, TypeOK
<1>2. server # Absent /\ server.deleting => server.finalizer
  BY DEF ConvergenceInv, CopiesAgree
<1>3. ASSUME NEW s \in Specs, CreateCluster(s)
      PROVE  ConvergenceInv'
  BY <1>3, WriteObjectInv DEF CreateCluster
<1>4. ASSUME NEW s \in Specs, EditSpec(s)
      PROVE  ConvergenceInv'
  <2> DEFINE new == [server EXCEPT !.spec = s, !.gen = @ + 1]
  <2>1. WriteObject(new) /\ server # Absent
    BY <1>4 DEF EditSpec
  <2>2. new.deleting = server.deleting /\ new.finalizer = server.finalizer
    BY <1>1, <2>1 DEF Objects
  <2> HIDE DEF new
  <2> QED BY <1>2, <2>1, <2>2, WriteObjectInv
<1>5. CASE DeleteCluster
  <2> DEFINE marked == [server EXCEPT !.deleting = TRUE, !.gen = @ + 1]
             new    == IF server.finalizer THEN marked ELSE Absent
  <2>1. WriteObject(new) /\ server # Absent
    BY <1>5 DEF DeleteCluster
  <2>2. marked.finalizer = server.finalizer
    BY <1>1, <2>1 DEF Objects
  <2>3. new # Absent => new.finalizer
    BY <2>2
  <2> HIDE DEF new
  <2> QED BY <2>1, <2>3, WriteObjectInv
<1> QED BY <1>3, <1>4, <1>5 DEF User

LEMMA CrashInv ==
    ASSUME TypeInv, ConvergenceInv, Crash
    PROVE  ConvergenceInv'
<1>1. /\ Requeue /\ cached' = server /\ UNCHANGED <<server, children>>
      /\ freshChild' = Owned
      /\ cachedChild' = [k \in Owned |-> children[k]]
  BY DEF Crash, Restart, Watched, TypeInv, TypeOK
<1>2. \A k \in freshChild' : cachedChild'[k] = children'[k]
  BY <1>1
<1>3. server' # Absent /\ server'.deleting => server'.finalizer
  BY <1>1 DEF ConvergenceInv, CopiesAgree
<1> QED BY <1>1, <1>2, <1>3, RequeueInv

LEMMA EnvironmentInv ==
    ASSUME TypeInv, ConvergenceInv,
           \/ Informers \/ User \/ Crash \/ ToggleWebhook
           \/ \E k \in Deployments : PodsSettle(k) \/ PodsFlap(k)
           \/ \E k \in Kinds : DriftChild(k) \/ CollectGarbage(k)
    PROVE  ConvergenceInv'
<1>1. ASSUME NEW k \in Deployments, PodsSettle(k) \/ PodsFlap(k)
      PROVE  ConvergenceInv'
  BY <1>1, PodsReport, WriteChildInv
<1>2. ASSUME NEW k \in Kinds, DriftChild(k)
      PROVE  ConvergenceInv'
  BY <1>2, WriteChildInv DEF DriftChild
<1>3. ASSUME NEW k \in Kinds, CollectGarbage(k)
      PROVE  ConvergenceInv'
  BY <1>3, WriteChildInv DEF CollectGarbage
<1>4. CASE ToggleWebhook
  BY <1>4, FrameInv DEF ToggleWebhook, objectVars, childVars, runVars
<1> QED BY <1>1, <1>2, <1>3, <1>4, InformersInv, UserInv, CrashInv

(***************************************************************************)
(* The theorems.                                                           *)
(***************************************************************************)

\* As long as no delivery and no queued key is outstanding, the running call
\* works on the stored object and has put in place what it has dealt with, or
\* the last one has converged.
THEOREM ConvergenceInductive == Spec => []ConvergenceInv
<1>1. Init => ConvergenceInv
  <2> SUFFICES ASSUME Init PROVE ConvergenceInv
    OBVIOUS
  <2>1. CopiesAgree
    BY DEF Init, CopiesAgree, Owned
  <2>2. LocalKnown /\ PassSound /\ NoLostWakeup
    BY DEF Init, LocalKnown, PassSound, NoLostWakeup, ServerSteps
  <2> QED BY <2>1, <2>2 DEF ConvergenceInv
<1>2. TypeInv /\ ConvergenceInv /\ [Next]_vars => ConvergenceInv'
  <2>1. ConvergenceInv /\ UNCHANGED vars => ConvergenceInv'
    BY FrameInv DEF vars, objectVars, childVars, runVars
  <2>2. TypeInv /\ ConvergenceInv /\ Next => ConvergenceInv'
    BY ReconcileStepInv, EnvironmentInv DEF Next
  <2> QED BY <2>1, <2>2
<1> QED BY <1>1, <1>2, TypeCorrect, PTL DEF Spec

\* Whatever edits, drifts, conflicts, failed requests and crashes there were,
\* a controller at rest has converged.
THEOREM NoLostWakeupCorrect == Spec => []NoLostWakeup
<1>1. ConvergenceInv => NoLostWakeup
  BY DEF ConvergenceInv
<1> QED BY <1>1, ConvergenceInductive, PTL

(***************************************************************************)
(* MonitorFollows.                                                         *)
(***************************************************************************)

\* While no request fails the ServiceMonitor, which no watch tells of, is in
\* place from the step that makes it until something wakes the controller.
MonitorInv ==
    /\ fails = 0 /\ drifts = 0
    /\ Settled /\ pc \in {"idle", "status"}
    /\ server # Absent /\ Wants("serviceMonitor", server.spec)
    => ChildInPlace("serviceMonitor")

\* A step that wakes the controller or leaves what MonitorInv speaks of alone.
LEMMA StepMonitor ==
    ASSUME MonitorInv,
           \/ \/ fails' # 0 \/ drifts' # 0 \/ server' = Absent
              \/ queued' \/ ~cacheFresh' \/ freshChild' # Owned
              \/ pc' \notin {"idle", "status"}
           \/ /\ UNCHANGED server /\ pc \in {"idle", "status"}
              /\ children'["serviceMonitor"] = children["serviceMonitor"]
              /\ Settled' => Settled
              /\ fails' = 0 => fails = 0
              /\ drifts' = 0 => drifts = 0
    PROVE  MonitorInv'
BY DEF MonitorInv, ChildInPlace, Settled

\* Every request of the object that succeeds without changing it leaves nothing
\* else undone; only the one of the status ends a pass.
LEMMA PutMonitor ==
    ASSUME TypeInv, MonitorInv, UNCHANGED drifts, NEW STATE new,
           NEW ACTION Done, NEW ACTION Failed, PutObject(new, Done, Failed),
           Failed => queued',
           Done => \/ queued' \/ pc' \notin {"idle", "status"}
                   \/ new = Absent
                   \/ pc = "status" /\ Finish
    PROVE  MonitorInv'
<1>1. CASE Failed
  BY <1>1, StepMonitor
<1>2. CASE localFresh /\ Store(new) /\ Done /\ UNCHANGED fails
  <2>1. CASE new = server /\ pc = "status" /\ Finish
    BY <1>2, <2>1, StepMonitor
       DEF PutObject, Store, Finish, Settled, childVars
  <2>2. CASE new # server
    BY <1>2, <2>2, StepMonitor DEF Store
  <2> QED BY <1>2, <2>1, <2>2, StepMonitor DEF Store
<1> QED BY <1>1, <1>2 DEF PutObject

LEMMA ReconcileStepMonitor ==
    ASSUME TypeInv, ConvergenceInv, MonitorInv, ReconcileStep, UNCHANGED bounds
    PROVE  MonitorInv'
<1>0. UNCHANGED drifts
  BY DEF bounds
<1>1. ASSUME NEW next, Skip(next), next \notin {"idle", "status"}
      PROVE  MonitorInv'
  BY <1>1, StepMonitor DEF Skip, Goto
<1>2. ASSUME NEW k \in Kinds, NEW ACTION Done, NEW ACTION Failed,
             Ensure(k, Done, Failed),
             Done => pc' \notin {"idle", "status"},
             Failed => queued' \/ pc' \notin {"idle", "status"}
      PROVE  MonitorInv'
  BY <1>2, StepMonitor DEF Ensure, CreateOrUpdate
<1>3. CASE StartReconcile
  <2>1. CASE cached = Absent
    <3>1. UNCHANGED <<server, cacheFresh>>
      BY <1>3 DEF StartReconcile, objectVars
    <3>2. cacheFresh => server = Absent
      BY <2>1 DEF TypeInv, Copies
    <3> QED BY <3>1, <3>2, StepMonitor
  <2>2. CASE cached # Absent
    BY <1>3, <2>2, StepMonitor DEF StartReconcile
  <2> QED BY <2>1, <2>2
<1>4. CASE RemoveFinalizer
  <2>1. local.finalizer
    <3>1. local # Absent
      BY <1>4, LocalType, AbsentAssumption DEF RemoveFinalizer
    <3> QED BY <1>4, <3>1 DEF RemoveFinalizer, ConvergenceInv, CopiesAgree,
                              LocalKnown
  <2>2. PutCluster(Absent, Finish, Requeue)
    BY <1>4, <2>1 DEF RemoveFinalizer
  <2>3. CASE PutObject(Absent, Finish, Requeue)
    BY <1>0, <2>3, PutMonitor DEF Requeue
  <2> QED BY <2>2, <2>3, StepMonitor DEF PutCluster, Requeue
<1>5. CASE AddFinalizer
  <2> DEFINE new == [server EXCEPT !.finalizer = TRUE]
  <2>1. CASE local.finalizer
    BY <1>1, <1>5, <2>1 DEF AddFinalizer
  <2>2. CASE ~local.finalizer
    <3>1. PutCluster(new, Goto("phase", new, TRUE), Requeue)
      BY <1>5, <2>2 DEF AddFinalizer
    <3> HIDE DEF new
    <3>2. CASE PutObject(new, Goto("phase", new, TRUE), Requeue)
      BY <1>0, <3>2, PutMonitor DEF Goto, Requeue
    <3> QED BY <3>1, <3>2, StepMonitor DEF PutCluster, Requeue
  <2> QED BY <2>1, <2>2
<1>6. CASE SetPendingPhase
  <2>1. CASE local.status.phase # ""
    BY <1>1, <1>6, <2>1 DEF SetPendingPhase
  <2>2. CASE ~(local.status.phase # "")
    <3>1. \E new : PutObject(new, Goto("backend", new, TRUE), Requeue)
      BY <1>6, <2>2 DEF SetPendingPhase
    <3> QED BY <1>0, <3>1, PutMonitor DEF Goto, Requeue
  <2> QED BY <2>1, <2>2
<1>7. CASE ReconcileEmbeddedBackend
  <2>1. local.spec.backend \in Backends
    <3>1. local \in Objects
      BY <1>7, LocalType DEF ReconcileEmbeddedBackend
    <3> QED BY <3>1, SpecsAssumption DEF Objects, AllSpecs
  <2>2. pc' \notin {"idle", "status"}
    BY <1>7, <2>1 DEF ReconcileEmbeddedBackend, Skip, Goto, Backends
  <2> QED BY <2>2, StepMonitor
<1>8. CASE ReconcileRedisDeployment
  BY <1>2, <1>8 DEF ReconcileRedisDeployment, Goto, BackendFailed, Kinds
<1>9. CASE ReconcileRedisService
  BY <1>2, <1>9 DEF ReconcileRedisService, Goto, BackendFailed, Kinds
<1>10. CASE ReportBackendFailure
  BY <1>0, <1>10, PutMonitor DEF ReportBackendFailure, Requeue
<1>11. CASE ReconcileConfigMap \/ ReconcileDeployment \/ ReconcileService
  BY <1>2, <1>11 DEF ReconcileConfigMap, ReconcileDeployment,
                     ReconcileService, Goto, Requeue, Kinds
<1>12. CASE ReconcilePDB
  BY <1>1, <1>2, <1>12 DEF ReconcilePDB, Goto, Requeue, Kinds
<1>13. CASE ReconcileServiceMonitor
  <2>1. pc = "serviceMonitor" /\ UNCHANGED <<server, cached, cacheFresh,
                                            local, localFresh, queued>>
    BY <1>13 DEF ReconcileServiceMonitor, Ensure, CreateOrUpdate, Skip, Goto,
                 objectVars
  <2>2. CASE ~Settled
    <3>1. freshChild' \subseteq freshChild /\ freshChild \subseteq Owned
      BY <1>13 DEF ReconcileServiceMonitor, Ensure, CreateOrUpdate, Skip,
                   childVars, TypeInv, TypeOK
    <3> QED BY <2>1, <2>2, <3>1 DEF MonitorInv, Settled
  <2>3. CASE Settled
    <3>1. localFresh /\ local.uid = server.uid /\ local.spec = server.spec
      BY <2>1, <2>3 DEF ConvergenceInv, PassSound, CopiesAgree
    <3>2. CASE ~Wants("serviceMonitor", local.spec)
      BY <2>1, <3>1, <3>2 DEF MonitorInv
    <3>3. CASE Wants("serviceMonitor", local.spec)
      <4>1. CASE fails' # 0
        BY <4>1, StepMonitor
      <4>2. CASE fails' = 0
        <5> DEFINE new == [owner   |-> local.uid,
                           content |-> Desired("serviceMonitor", local.spec),
                           rollout |-> IF children["serviceMonitor"] = Absent
                                       THEN NoRollout
                                       ELSE children["serviceMonitor"].rollout]
        <5>1. fails \in Nat /\ fails' \in {fails, fails + 1}
              /\ "serviceMonitor" \in Kinds \ Watched
              /\ "serviceMonitor" \in AlwaysSent
          BY <1>13, <3>3 DEF ReconcileServiceMonitor, Ensure, CreateOrUpdate,
                             TypeInv, TypeOK, Kinds, Owned, Watched, AlwaysSent
        <5>2. children' = [children EXCEPT !["serviceMonitor"] = new]
          BY <1>13, <3>3, <4>2, <5>1
             DEF ReconcileServiceMonitor, Ensure, CreateOrUpdate, UpToDate, Seen
        <5>3. new \in Children
          BY <2>1, <5>1, EnsuredChildType
        <5>4. children'["serviceMonitor"] = new /\ new # Absent
          BY <5>1, <5>2, <5>3, AbsentAssumption DEF TypeInv, TypeOK
        <5> QED BY <2>1, <3>1, <5>4 DEF MonitorInv, ChildInPlace
      <4> QED BY <4>1, <4>2
    <3> QED BY <3>2, <3>3
  <2> QED BY <2>2, <2>3
<1>14. CASE UpdateStatus
  BY <1>0, <1>14, PutMonitor DEF UpdateStatus, Requeue
<1> QED
  BY <1>3, <1>4, <1>5, <1>6, <1>7, <1>8, <1>9, <1>10, <1>11, <1>12, <1>13,
     <1>14 DEF ReconcileStep

LEMMA EnvironmentMonitor ==
    ASSUME TypeInv, ConvergenceInv, MonitorInv,
           \/ Informers /\ UNCHANGED bounds
           \/ User
           \/ \E k \in Deployments : PodsSettle(k) \/ PodsFlap(k)
           \/ \E k \in Kinds : DriftChild(k)
           \/ \E k \in Kinds : CollectGarbage(k) /\ UNCHANGED bounds
           \/ Crash \/ ToggleWebhook
    PROVE  MonitorInv'
<1>1. CASE Informers \/ Crash
  BY <1>1, StepMonitor DEF Informers, SyncObject, SyncChild, Crash, Restart,
                           Requeue
<1>2. CASE User
  BY <1>2, StepMonitor DEF User, CreateCluster, EditSpec, DeleteCluster,
                           WriteObject
<1>3. ASSUME NEW k \in Deployments, PodsSettle(k) \/ PodsFlap(k)
      PROVE  MonitorInv'
  <2>1. k \in Owned /\ \E new : WriteChild(k, new)
    BY <1>3, PodsReport
  <2>2. freshChild' # Owned
    BY <2>1 DEF WriteChild
  <2> QED BY <2>2, StepMonitor
<1>4. ASSUME NEW k \in Kinds, DriftChild(k)
      PROVE  MonitorInv'
  <2>1. drifts' # 0
    BY <1>4 DEF DriftChild, TypeInv, TypeOK
  <2> QED BY <2>1, StepMonitor
<1>5. ASSUME NEW k \in Kinds, CollectGarbage(k), UNCHANGED bounds
      PROVE  MonitorInv'
  <2>1. /\ UNCHANGED <<server, cacheFresh, pc, queued, fails, drifts>>
        /\ children' = [children EXCEPT ![k] = Absent]
        /\ freshChild' = freshChild \ {k}
        /\ server # Absent => server.uid # children[k].owner
    BY <1>5 DEF CollectGarbage, WriteChild, objectVars, runVars, bounds
  <2>2. CASE k \in Owned
    BY <2>1, <2>2, StepMonitor
  <2>3. CASE k = "serviceMonitor"
    <3>1. Settled' => Settled
      BY <2>1, <2>3 DEF Settled, TypeInv, TypeOK, Owned
    <3> QED BY <2>1, <2>3, <3>1 DEF MonitorInv, ChildInPlace
  <2> QED BY <2>2, <2>3 DEF Owned
<1>6. CASE ToggleWebhook
  <2>1. UNCHANGED <<objectVars, childVars, runVars, fails, drifts>>
    BY <1>6 DEF ToggleWebhook
  <2> QED BY <2>1 DEF MonitorInv, Settled, ChildInPlace, objectVars, childVars,
                      runVars
<1> QED BY <1>1, <1>2, <1>3, <1>4, <1>5, <1>6

\* As long as no request fails and nobody else touches the children, the kind
\* that is neither watched nor retried is as reliable as the others: a
\* controller at rest has made the ServiceMonitor of the latest specification.
THEOREM MonitorFollowsCorrect == Spec => []MonitorFollows
<1>1. Init => MonitorInv
  BY DEF Init, MonitorInv
<1>2. TypeInv /\ ConvergenceInv /\ MonitorInv /\ [Next]_vars => MonitorInv'
  <2>1. MonitorInv /\ UNCHANGED vars => MonitorInv'
    BY DEF MonitorInv, Settled, ChildInPlace, vars, objectVars, childVars,
           runVars, bounds
  <2> QED BY <2>1, ReconcileStepMonitor, EnvironmentMonitor DEF Next
<1>3. MonitorInv => MonitorFollows
  BY DEF MonitorInv, MonitorFollows, Quiescent, Settled
<1> QED BY <1>1, <1>2, <1>3, TypeCorrect, ConvergenceInductive, PTL DEF Spec

===============================================================================
