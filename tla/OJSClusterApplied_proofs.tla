------------------------ MODULE OJSClusterApplied_proofs ------------------------
(***************************************************************************)
(* Proofs of what the OJSCluster controller's status and its children say  *)
(* about what was applied before: ObservedMeansApplied, DependenciesFirst, *)
(* BackendReadyMeansDeployed, UnsupportedStaysUnobserved and               *)
(* FirstGenerationExact; and of SteadyState, which needs to know what the  *)
(* stored status says.                                                     *)
(***************************************************************************)
EXTENDS OJSClusterHistory_proofs, OJSClusterConvergence_proofs

(***************************************************************************)
(* The inductive invariant.                                                *)
(***************************************************************************)

\* Child k is there under the stored cluster's control.
Mine(k) == children[k] # Absent /\ children[k].owner = server.uid

\* Copy o is of the stored cluster, and of its generation and specification.
Of(o)      == o # Absent /\ o.uid = server.uid
Current(o) == Of(o) /\ o.gen = server.gen /\ o.spec = server.spec

BackendReady(o) == o.status.conditions["BackendReady"]
HasBackend      == Mine("redisDeployment") /\ Mine("redisService")

\* A copy that would be accepted has the stored specification, and so has the
\* cache it came from.  Once the Ready condition carries the latest generation
\* no pass is left that works on another one.  A pass is never of a later
\* cluster than the cache.
CopiesInv ==
    /\ localFresh => Current(local) /\ Current(cached)
    /\ server # Absent /\ ReadyGen(server) = server.gen =>
         Current(cached) /\ (pc # "idle" => Current(local))
    /\ server # Absent /\ Of(local) => Of(cached)

\* As soon as the stored cluster has a child no pass of an earlier cluster of
\* the name can still write one; so what the cache shows of its children is
\* there.
OwnersInv ==
    /\ \A k \in Owned :
         cachedChild[k] # Absent => cachedChild[k].owner <= uids
    /\ server # Absent /\ (\E k \in Kinds : Mine(k)) =>
         Of(cached) /\ (pc # "idle" => Of(local))
    /\ drifts = 0 /\ server # Absent =>
         \A k \in Owned : /\ cachedChild[k] # Absent
                          /\ cachedChild[k].owner = server.uid
                          => Mine(k)

AfterDeployment == {"service", "disruptionBudget", "serviceMonitor", "status"}

\* What a pass has put in place by the step it stands at.
PassInv ==
    drifts = 0 /\ server # Absent =>
      /\ localFresh /\ pc \in AfterDeployment => ChildInPlace("deployment")
      /\ Of(local) =>
           /\ pc = "redisService" => Mine("redisDeployment")
           /\ pc \in ServerSteps /\ local.spec.backend = "redis" => HasBackend
           /\ pc \in ServerSteps \ {"configMap"} => Mine("configMap")

\* No version of the cluster, stored or copied, claims a backend it lacks.
ConditionInv ==
    drifts = 0 /\ server # Absent =>
      \A o \in {server, cached, local} :
         Of(o) /\ BackendReady(o).status = "True" => HasBackend

AppliedInv ==
    /\ CopiesInv /\ OwnersInv /\ PassInv /\ ConditionInv
    /\ ObservedMeansApplied /\ DependenciesFirst

\* The invariants this one rests on.
KnownInv == TypeInv /\ ObservedInv /\ FinalizerInv /\ ReadyInv

(***************************************************************************)
(* Steps that write no child.                                              *)
(***************************************************************************)

\* The running call's write of the object is accepted; only the one of the
\* status step moves the generation of the Ready condition.
Stored ==
    /\ localFresh /\ UNCHANGED <<uids, cached>>
    /\ server' # Absent =>
         /\ server'.uid = server.uid
         /\ server'.gen = server.gen /\ server'.spec = server.spec
         /\ ReadyGen(server') = ReadyGen(server) \/ pc = "status"
         /\ BackendReady(server').status = "True" =>
              BackendReady(server') \in {BackendReady(server),
                                        BackendReady(local)}
    /\ \/ Return
       \/ /\ server' # Absent /\ local' = server'
          /\ pc' \in {"phase", "backend"}

\* A user changes the specification of the object or deletes it.
Edited ==
    /\ server # Absent /\ ~localFresh' /\ UNCHANGED <<uids, cached, local, pc>>
    /\ \/ server' = Absent
       \/ /\ server' # Absent /\ server'.uid = server.uid
          /\ server'.gen = server.gen + 1
          /\ ReadyGen(server') # server'.gen
          /\ BackendReady(server') = BackendReady(server)

\* A user creates the object.
Created ==
    /\ server = Absent /\ ~localFresh' /\ UNCHANGED <<cached, local, pc>>
    /\ uids' = uids + 1 /\ server'.uid = uids'
    /\ ReadyGen(server') # server'.gen /\ BackendReady(server').status # "True"

\* A step of a pass that sends no request.
Skipped ==
    /\ pc # "idle" /\ UNCHANGED <<cached, local, localFresh>>
    /\ \/ pc' \in {"phase", "backend", "redisDeployment", "backendFailed"}
       \/ pc' = "configMap" /\ local.spec.backend # "redis"
       \/ pc = "disruptionBudget" /\ pc' = "serviceMonitor"
       \/ pc = "serviceMonitor" /\ pc' = "status"

\* The object stays as it is: a copy of it moves, or the running call does.
Moved ==
    /\ UNCHANGED <<server, uids>>
    /\ \/ UNCHANGED <<pc, local, localFresh>> /\ cached' \in {cached, server}
       \/ Return /\ UNCHANGED cached
       \/ /\ UNCHANGED cached /\ cached # Absent /\ local' = cached
          /\ localFresh' = cacheFresh /\ pc' \in {"delete", "finalizer"}
       \/ Skipped

ObjectStep ==
    /\ UNCHANGED <<children, cachedChild, drifts>>
    /\ Stored \/ Edited \/ Created \/ Moved

LEMMA KnownFacts ==
    ASSUME KnownInv
    PROVE  /\ localFresh => server # Absent /\ local # Absent /\ pc # "idle"
           /\ cacheFresh => cached = server
           /\ pc = "idle" <=> local = Absent
           /\ uids \in Nat
           /\ \A o \in {server, cached, local} :
                o # Absent => o.uid \in Nat /\ o.uid <= uids
           /\ \A k \in Kinds : children[k] # Absent =>
                children[k].owner \in Nat /\ children[k].owner <= uids
           /\ \A k \in Owned : cachedChild[k] # Absent =>
                cachedChild[k].owner \in Nat
<1>1. /\ localFresh => server # Absent /\ local # Absent /\ pc # "idle"
      /\ cacheFresh => cached = server
      /\ pc = "idle" <=> local = Absent
  BY DEF KnownInv, TypeInv, Copies
<1>2. uids \in Nat
  BY DEF KnownInv, TypeInv, TypeOK
<1>3. \A o \in {server, cached, local} :
        o # Absent => o.uid \in Nat /\ o.uid <= uids
  BY DEF KnownInv, TypeInv, TypeOK, FinalizerInv, Objects
<1>4. \A k \in Kinds : children[k] # Absent =>
        children[k].owner \in Nat /\ children[k].owner <= uids
  BY DEF KnownInv, TypeInv, TypeOK, FinalizerInv, Children
<1>5. \A k \in Owned : cachedChild[k] # Absent => cachedChild[k].owner \in Nat
  BY DEF KnownInv, TypeInv, TypeOK, Children
<1> QED BY <1>1, <1>2, <1>3, <1>4, <1>5

LEMMA ObjectStepCopies ==
    ASSUME KnownInv, CopiesInv, ObjectStep
    PROVE  CopiesInv'
<1>1. CASE Stored
  BY <1>1, KnownFacts DEF Stored, Return, CopiesInv, Current, Of, ReadyGen
<1>2. CASE Edited
  BY <1>2, KnownFacts DEF Edited, CopiesInv, Current, Of, ReadyGen
<1>3. CASE Created
  BY <1>3, KnownFacts DEF Created, CopiesInv, Current, Of, ReadyGen
<1>4. CASE Moved
  BY <1>4, KnownFacts DEF Moved, Skipped, Return, CopiesInv, Current, Of,
                          ReadyGen
<1> QED BY <1>1, <1>2, <1>3, <1>4 DEF ObjectStep

LEMMA ObjectStepOwners ==
    ASSUME KnownInv, CopiesInv, OwnersInv, ObjectStep
    PROVE  OwnersInv'
<1>1. CASE Stored
  BY <1>1, KnownFacts DEF ObjectStep, Stored, Return, CopiesInv, OwnersInv,
                          Mine, Current, Of, Owned
<1>2. CASE Edited
  BY <1>2, KnownFacts DEF ObjectStep, Edited, OwnersInv, Mine, Of, Owned
<1>3. CASE Created
  BY <1>3, KnownFacts DEF ObjectStep, Created, OwnersInv, Mine, Of, Owned
<1>4. CASE Moved
  BY <1>4, KnownFacts DEF ObjectStep, Moved, Skipped, Return, OwnersInv, Mine,
                          Of, Owned
<1> QED BY <1>1, <1>2, <1>3, <1>4 DEF ObjectStep

LEMMA ObjectStepPass ==
    ASSUME KnownInv, CopiesInv, PassInv, ObjectStep
    PROVE  PassInv'
<1>1. CASE Stored
  BY <1>1, KnownFacts DEF ObjectStep, Stored, Return, PassInv, ServerSteps,
                          AfterDeployment
<1>2. CASE Edited
  BY <1>2, KnownFacts DEF ObjectStep, Edited, PassInv, HasBackend, Mine, Of
<1>3. CASE Created
  BY <1>3, KnownFacts DEF ObjectStep, Created, PassInv, HasBackend, Mine, Of
<1>4. CASE Moved
  BY <1>4, KnownFacts DEF ObjectStep, Moved, Skipped, Return, PassInv,
       HasBackend, Mine, Of, ChildInPlace, ServerSteps, AfterDeployment
<1> QED BY <1>1, <1>2, <1>3, <1>4 DEF ObjectStep

LEMMA ObjectStepCondition ==
    ASSUME KnownInv, CopiesInv, ConditionInv, ObjectStep
    PROVE  ConditionInv'
<1>1. CASE Stored
  BY <1>1, KnownFacts DEF ObjectStep, Stored, Return, CopiesInv, Current,
       ConditionInv, HasBackend, Mine, Of, BackendReady
<1>2. CASE Edited
  BY <1>2, KnownFacts DEF ObjectStep, Edited, ConditionInv, HasBackend, Mine,
       Of, BackendReady
<1>3. CASE Created
  BY <1>3, KnownFacts DEF ObjectStep, Created, ConditionInv, HasBackend, Mine,
       Of, BackendReady
<1>4. CASE Moved
  BY <1>4, KnownFacts DEF ObjectStep, Moved, Skipped, Return, ConditionInv,
       HasBackend, Mine, Of, BackendReady
<1> QED BY <1>1, <1>2, <1>3, <1>4 DEF ObjectStep

LEMMA ObjectStepObserved ==
    ASSUME KnownInv, CopiesInv, PassInv, ObservedMeansApplied, ObjectStep
    PROVE  ObservedMeansApplied'
<1>1. CASE Stored
  BY <1>1, KnownFacts DEF ObjectStep, Stored, Return, PassInv, AfterDeployment,
       ChildInPlace, ObservedMeansApplied, ReadyGen
<1>2. CASE Edited
  BY <1>2, KnownFacts DEF ObjectStep, Edited, ObservedMeansApplied, ReadyGen
<1>3. CASE Created
  BY <1>3, KnownFacts DEF ObjectStep, Created, ObservedMeansApplied, ReadyGen
<1>4. CASE Moved
  BY <1>4 DEF ObjectStep, Moved, ObservedMeansApplied, ChildInPlace
<1> QED BY <1>1, <1>2, <1>3, <1>4 DEF ObjectStep

LEMMA ObjectStepDependencies ==
    ASSUME KnownInv, DependenciesFirst, ObjectStep
    PROVE  DependenciesFirst'
<1>1. CASE Stored
  BY <1>1, KnownFacts DEF ObjectStep, Stored, DependenciesFirst
<1>2. CASE Edited
  BY <1>2 DEF ObjectStep, Edited, DependenciesFirst
<1>3. CASE Created
  <2>1. children'["deployment"] # Absent
        => children'["deployment"].owner # server'.uid
    BY <1>3, KnownFacts DEF ObjectStep, Created, Kinds
  <2> QED BY <2>1 DEF DependenciesFirst
<1>4. CASE Moved
  BY <1>4 DEF ObjectStep, Moved, DependenciesFirst
<1> QED BY <1>1, <1>2, <1>3, <1>4 DEF ObjectStep

LEMMA ObjectStepApplied ==
    ASSUME KnownInv, AppliedInv, ObjectStep
    PROVE  AppliedInv'
BY ObjectStepCopies, ObjectStepOwners, ObjectStepPass, ObjectStepCondition,
   ObjectStepObserved, ObjectStepDependencies DEF AppliedInv

(***************************************************************************)
(* Steps of others that write children, and what the caches hear of them.  *)
(***************************************************************************)

\* Without drift the stored cluster's children stay, as they were; with it
\* they at least get no other owner.
ChildStep ==
    /\ UNCHANGED <<server, uids>>
    /\ cached' \in {cached, server}
    /\ UNCHANGED <<pc, local, localFresh>> \/ Return
    /\ \A k \in Kinds : children'[k] # Absent =>
         /\ children[k] # Absent /\ children'[k].owner = children[k].owner
         /\ drifts' = 0 => children'[k].content = children[k].content
    /\ drifts' = 0 =>
         /\ drifts = 0
         /\ server # Absent =>
              \A k \in Kinds : Mine(k) => children'[k] # Absent
    /\ \A k \in Owned : cachedChild'[k] \in {cachedChild[k], children'[k]}

LEMMA ChildStepCopies ==
    ASSUME KnownInv, CopiesInv, ChildStep
    PROVE  CopiesInv'
BY KnownFacts DEF ChildStep, Return, CopiesInv, Current, Of, ReadyGen

LEMMA ChildStepOwners ==
    ASSUME KnownInv, OwnersInv, ChildStep
    PROVE  OwnersInv'
<1>1. \A k \in Kinds : Mine(k)' => Mine(k)
  BY DEF ChildStep, Mine
<1>2. drifts' = 0 /\ server # Absent => \A k \in Kinds : Mine(k) => Mine(k)'
  BY DEF ChildStep, Mine
<1>3. server' # Absent /\ (\E k \in Kinds : Mine(k)') =>
        Of(cached)' /\ (pc' # "idle" => Of(local)')
  BY <1>1 DEF ChildStep, Return, OwnersInv, Of
<1>4. \A k \in Owned : cachedChild'[k] # Absent =>
        cachedChild'[k].owner <= uids'
  BY KnownFacts DEF ChildStep, OwnersInv, Owned
<1>5. ASSUME drifts' = 0, server' # Absent, NEW k \in Owned,
             cachedChild'[k] # Absent, cachedChild'[k].owner = server'.uid
      PROVE  Mine(k)'
  <2>1. CASE cachedChild'[k] = cachedChild[k]
    BY <1>2, <1>5, <2>1 DEF ChildStep, OwnersInv, Owned
  <2>2. CASE cachedChild'[k] = children'[k]
    BY <1>5, <2>2 DEF Mine
  <2> QED BY <2>1, <2>2 DEF ChildStep
<1> QED BY <1>3, <1>4, <1>5 DEF OwnersInv

\* The stored cluster's children stay in place.
LEMMA ChildStepKeeps ==
    ASSUME ChildStep, drifts' = 0, server # Absent
    PROVE  /\ drifts = 0
           /\ \A k \in Kinds : Mine(k)' <=> Mine(k)
           /\ \A k \in Kinds : Mine(k) =>
                children'[k].content = children[k].content
           /\ \A k \in Kinds : ChildInPlace(k) => ChildInPlace(k)'
           /\ HasBackend' <=> HasBackend
BY DEF ChildStep, Mine, ChildInPlace, HasBackend, Kinds

LEMMA ChildStepApplied ==
    ASSUME KnownInv, AppliedInv, ChildStep
    PROVE  AppliedInv'
<1>1. CopiesInv' /\ OwnersInv'
  BY ChildStepCopies, ChildStepOwners DEF AppliedInv
<1>2. UNCHANGED server /\ cached' \in {cached, server}
  BY DEF ChildStep
<1>3. UNCHANGED <<pc, local, localFresh>> \/ Return
  BY DEF ChildStep
<1>4. "deployment" \in Kinds /\ "configMap" \in Kinds
      /\ "redisDeployment" \in Kinds /\ "redisService" \in Kinds
  BY DEF Kinds
<1>5. PassInv'
  <2> SUFFICES ASSUME drifts' = 0, server # Absent
               PROVE  PassInv'
    BY <1>2 DEF PassInv
  <2>1. CASE UNCHANGED <<pc, local, localFresh>>
    BY <1>2, <1>4, <2>1, ChildStepKeeps DEF AppliedInv, PassInv, Of
  <2>2. CASE Return
    BY <2>2 DEF Return, PassInv, Of, AfterDeployment
  <2> QED BY <1>3, <2>1, <2>2
<1>6. ConditionInv'
  <2> SUFFICES ASSUME drifts' = 0, server # Absent
               PROVE  ConditionInv'
    BY <1>2 DEF ConditionInv
  <2> QED BY <1>2, <1>3, ChildStepKeeps
          DEF Return, AppliedInv, ConditionInv, Of, BackendReady
<1>7. ObservedMeansApplied'
  BY <1>2, <1>4, ChildStepKeeps DEF AppliedInv, ObservedMeansApplied
<1>8. DependenciesFirst'
  <2> SUFFICES ASSUME drifts' = 0, server # Absent, Mine("deployment")'
               PROVE  /\ Mine("configMap")'
                      /\ children'["deployment"].content.backend = "redis"
                           => HasBackend'
    BY <1>2 DEF DependenciesFirst, Mine, HasBackend
  <2>1. /\ drifts = 0 /\ Mine("deployment")
        /\ children'["deployment"].content = children["deployment"].content
    BY <1>4, ChildStepKeeps
  <2>2. /\ Mine("configMap")
        /\ children["deployment"].content.backend = "redis" => HasBackend
    BY <2>1 DEF AppliedInv, DependenciesFirst, Mine, HasBackend
  <2> QED BY <1>4, <2>1, <2>2, ChildStepKeeps
<1> QED BY <1>1, <1>5, <1>6, <1>7, <1>8 DEF AppliedInv

(***************************************************************************)
(* CreateOrUpdate of a child by the running call.                          *)
(***************************************************************************)

\* The step that follows the one of child k.
After(k) == CASE k = "redisDeployment"  -> "redisService"
              [] k = "redisService"     -> "configMap"
              [] k = "configMap"        -> "deployment"
              [] k = "deployment"       -> "service"
              [] k = "service"          -> "disruptionBudget"
              [] k = "disruptionBudget" -> "serviceMonitor"
              [] k = "serviceMonitor"   -> "status"

\* Child k is written as the running call wants it.
Written(k) ==
    /\ \A j \in Kinds \ {k} : children'[j] = children[j]
    /\ children'[k] # Absent
    /\ children'[k].owner = local.uid
    /\ children'[k].content = Desired(k, local.spec)

\* The cache shows child k under the control of the running call's cluster.
SeenDone(k) ==
    /\ k \in Owned /\ k # "deployment"
    /\ cachedChild[k] # Absent /\ cachedChild[k].owner = local.uid

\* The call goes on to the next child; only the ServiceMonitor may be missing
\* then.
Proceeds(k) ==
    /\ pc' = After(k) /\ UNCHANGED localFresh
    /\ local' # Absent /\ local'.uid = local.uid /\ local'.gen = local.gen
    /\ local'.spec = local.spec
    /\ k # "redisService" => UNCHANGED local
    /\ k # "serviceMonitor" => Written(k) \/ SeenDone(k)

\* The call gives up on the backend, or returns.
GivesUp ==
    \/ pc' = "backendFailed" /\ UNCHANGED <<local, localFresh>>
    \/ Return

EnsureStep(k) ==
    /\ pc = k
    /\ UNCHANGED <<server, cached, cachedChild, uids, drifts>>
    /\ UNCHANGED children \/ Written(k)
    /\ Proceeds(k) \/ GivesUp

\* The stored cluster loses no child, and gets one by its own passes only.
LEMMA EnsureStepChildren ==
    ASSUME KnownInv, OwnersInv, NEW k \in Kinds, EnsureStep(k), server # Absent
    PROVE  /\ local # Absent
           /\ \A j \in Kinds : Mine(j) => Mine(j)'
           /\ \A j \in Kinds : Mine(j)' => Mine(j) \/ (j = k /\ Of(local))
           /\ \A j \in Kinds \ {k} : children'[j] = children[j]
           /\ HasBackend => HasBackend'
<1>1. pc # "idle" /\ local # Absent
  BY KnownFacts DEF EnsureStep, Kinds
<1>2. \A j \in Kinds \ {k} : children'[j] = children[j]
  BY DEF EnsureStep, Written
<1>3. ASSUME NEW j \in Kinds, Mine(j)
      PROVE  Mine(j)'
  BY <1>1, <1>2, <1>3 DEF EnsureStep, Written, Mine, OwnersInv, Of
<1>4. ASSUME NEW j \in Kinds, Mine(j)'
      PROVE  Mine(j) \/ (j = k /\ Of(local))
  BY <1>1, <1>2, <1>4 DEF EnsureStep, Written, Mine, Of
<1>5. HasBackend => HasBackend'
  BY <1>3 DEF HasBackend, Kinds
<1> QED BY <1>1, <1>2, <1>3, <1>4, <1>5

\* A call that goes on has left child k under its cluster's control.
LEMMA ProceedsMine ==
    ASSUME KnownInv, OwnersInv, NEW k \in Kinds \ {"serviceMonitor"},
           EnsureStep(k), Proceeds(k), server # Absent, drifts = 0, Of(local)
    PROVE  Mine(k)'
<1>1. CASE Written(k)
  BY <1>1 DEF Written, EnsureStep, Mine, Of
<1>2. CASE SeenDone(k)
  <2>1. Mine(k)
    BY <1>2 DEF SeenDone, OwnersInv, Of
  <2> QED BY <2>1, EnsureStepChildren
<1> QED BY <1>1, <1>2 DEF Proceeds

LEMMA EnsureStepCopies ==
    ASSUME KnownInv, CopiesInv, NEW k \in Kinds, EnsureStep(k)
    PROVE  CopiesInv'
<1>1. pc # "idle"
  BY DEF EnsureStep, Kinds
<1> QED BY <1>1, KnownFacts DEF EnsureStep, Proceeds, GivesUp, Return,
                                CopiesInv, Current, Of, ReadyGen

LEMMA EnsureStepOwners ==
    ASSUME KnownInv, CopiesInv, OwnersInv, NEW k \in Kinds, EnsureStep(k)
    PROVE  OwnersInv'
<1>0. /\ UNCHANGED <<server, cached, cachedChild, uids, drifts>>
      /\ pc # "idle"
  BY DEF EnsureStep, Kinds
<1>1. \A j \in Owned : cachedChild'[j] # Absent => cachedChild'[j].owner <= uids'
  BY <1>0 DEF OwnersInv
<1>2. server' # Absent /\ (\E j \in Kinds : Mine(j)') =>
        Of(cached)' /\ (pc' # "idle" => Of(local)')
  <2> SUFFICES ASSUME server # Absent, NEW j \in Kinds, Mine(j)'
               PROVE  Of(cached)' /\ (pc' # "idle" => Of(local)')
    BY <1>0
  <2>1. Of(cached) /\ Of(local)
    BY <1>0, EnsureStepChildren DEF OwnersInv, CopiesInv
  <2> QED BY <1>0, <2>1 DEF EnsureStep, Proceeds, GivesUp, Return, Of
<1>3. drifts' = 0 /\ server' # Absent =>
        \A j \in Owned : /\ cachedChild'[j] # Absent
                         /\ cachedChild'[j].owner = server'.uid
                         => Mine(j)'
  BY <1>0, EnsureStepChildren DEF OwnersInv, Owned
<1> QED BY <1>1, <1>2, <1>3 DEF OwnersInv

LEMMA EnsureStepPass ==
    ASSUME KnownInv, CopiesInv, OwnersInv, PassInv,
           NEW k \in Kinds, EnsureStep(k)
    PROVE  PassInv'
<1> SUFFICES ASSUME drifts = 0, server # Absent
             PROVE  PassInv'
  BY DEF EnsureStep, PassInv
<1>0. pc = k /\ UNCHANGED <<server, drifts>>
  BY DEF EnsureStep
<1>1. CASE GivesUp
  BY <1>0, <1>1, EnsureStepChildren
     DEF GivesUp, Return, PassInv, Of, ServerSteps, AfterDeployment
<1>2. CASE Proceeds(k)
  <2>0. /\ pc' = After(k) /\ UNCHANGED localFresh /\ local' # Absent
        /\ local'.uid = local.uid /\ local'.spec = local.spec
    BY <1>2 DEF Proceeds
  <2>1. Of(local)' <=> Of(local)
    BY <1>0, <2>0, EnsureStepChildren DEF Of
  <2>2. ASSUME localFresh', pc' \in AfterDeployment
        PROVE  ChildInPlace("deployment")'
    <3>1. CASE k = "deployment"
      <4>1. Written("deployment")
        BY <1>2, <3>1 DEF Proceeds, SeenDone
      <4>2. local.uid = server.uid /\ local.spec = server.spec
        BY <2>0, <2>2 DEF CopiesInv, Current, Of
      <4> QED BY <1>0, <4>1, <4>2 DEF Written, ChildInPlace
    <3>2. CASE k # "deployment"
      <4>1. pc \in AfterDeployment
        BY <1>0, <2>0, <2>2, <3>2 DEF After, AfterDeployment, Kinds
      <4>2. ChildInPlace("deployment")
        BY <2>0, <2>2, <4>1 DEF PassInv
      <4>3. children'["deployment"] = children["deployment"]
        BY <3>2, EnsureStepChildren DEF Kinds
      <4> QED BY <1>0, <4>2, <4>3 DEF ChildInPlace
    <3> QED BY <3>1, <3>2
  <2>3. ASSUME Of(local), pc' = "redisService"
        PROVE  Mine("redisDeployment")'
    <3>1. k = "redisDeployment"
      BY <2>0, <2>3 DEF After, Kinds
    <3> QED BY <1>2, <2>3, <3>1, ProceedsMine
  <2>4. ASSUME Of(local), pc' \in ServerSteps, local.spec.backend = "redis"
        PROVE  HasBackend'
    <3>1. CASE k = "redisService"
      <4>1. Mine("redisDeployment")
        BY <1>0, <2>4, <3>1 DEF PassInv
      <4>2. Mine("redisDeployment")'
        BY <4>1, EnsureStepChildren DEF Kinds
      <4> QED BY <1>2, <2>4, <3>1, <4>2, ProceedsMine DEF HasBackend
    <3>2. CASE k # "redisService"
      <4>1. pc \in ServerSteps
        BY <1>0, <2>0, <2>4, <3>2 DEF After, ServerSteps, Kinds
      <4> QED BY <2>4, <4>1, EnsureStepChildren DEF PassInv
    <3> QED BY <3>1, <3>2
  <2>5. ASSUME Of(local), pc' \in ServerSteps \ {"configMap"}
        PROVE  Mine("configMap")'
    <3>1. CASE k = "configMap"
      BY <1>2, <2>5, <3>1, ProceedsMine
    <3>2. CASE k # "configMap"
      <4>1. pc \in ServerSteps \ {"configMap"}
        BY <1>0, <2>0, <2>5, <3>2 DEF After, ServerSteps, Kinds
      <4> QED BY <2>5, <4>1, EnsureStepChildren DEF PassInv, Kinds
    <3> QED BY <3>1, <3>2
  <2> QED BY <1>0, <2>0, <2>1, <2>2, <2>3, <2>4, <2>5 DEF PassInv
<1> QED BY <1>1, <1>2 DEF EnsureStep

LEMMA EnsureStepCondition ==
    ASSUME KnownInv, OwnersInv, PassInv, ConditionInv,
           NEW k \in Kinds, EnsureStep(k)
    PROVE  ConditionInv'
<1> SUFFICES ASSUME drifts = 0, server # Absent
             PROVE  ConditionInv'
  BY DEF EnsureStep, ConditionInv
<1>0. pc = k /\ UNCHANGED <<server, cached, drifts>>
  BY DEF EnsureStep
<1>1. HasBackend => HasBackend'
  BY EnsureStepChildren
<1>2. CASE local' \in {local, Absent}
  BY <1>0, <1>1, <1>2 DEF ConditionInv, Of, BackendReady
<1>3. CASE k = "redisService" /\ Proceeds(k)
  <2>1. ASSUME Of(local)'
        PROVE  HasBackend'
    <3>1. Of(local)
      BY <1>0, <1>3, <2>1, EnsureStepChildren DEF Proceeds, Of
    <3>2. Mine("redisDeployment")
      BY <1>0, <1>3, <3>1 DEF PassInv
    <3>3. Mine("redisDeployment")' /\ Mine("redisService")'
      BY <1>3, <3>1, <3>2, EnsureStepChildren, ProceedsMine DEF Kinds
    <3> QED BY <3>3 DEF HasBackend
  <2> QED BY <1>0, <1>1, <2>1 DEF ConditionInv, Of, BackendReady
<1> QED BY <1>2, <1>3 DEF EnsureStep, Proceeds, GivesUp, Return

LEMMA EnsureStepObserved ==
    ASSUME KnownInv, CopiesInv, ObservedMeansApplied,
           NEW k \in Kinds, EnsureStep(k)
    PROVE  ObservedMeansApplied'
<1> SUFFICES ASSUME drifts = 0, server # Absent,
                    ReadyGen(server) = server.gen
             PROVE  ChildInPlace("deployment")'
  BY DEF EnsureStep, ObservedMeansApplied, ReadyGen
<1>0. pc = k /\ UNCHANGED server /\ pc # "idle"
  BY DEF EnsureStep, Kinds
<1>1. ChildInPlace("deployment")
  BY DEF ObservedMeansApplied, ReadyGen
<1>2. CASE UNCHANGED children \/ (Written(k) /\ k # "deployment")
  <2>1. children'["deployment"] = children["deployment"]
    BY <1>2 DEF Written, Kinds
  <2> QED BY <1>0, <1>1, <2>1 DEF ChildInPlace
<1>3. CASE Written(k) /\ k = "deployment"
  <2>1. local.uid = server.uid /\ local.spec = server.spec
    BY <1>0 DEF CopiesInv, Current, Of
  <2> QED BY <1>0, <1>3, <2>1 DEF Written, ChildInPlace
<1> QED BY <1>2, <1>3 DEF EnsureStep

LEMMA EnsureStepDependencies ==
    ASSUME KnownInv, OwnersInv, PassInv, DependenciesFirst,
           NEW k \in Kinds, EnsureStep(k)
    PROVE  DependenciesFirst'
<1> SUFFICES ASSUME drifts = 0, server # Absent, Mine("deployment")'
             PROVE  /\ Mine("configMap")'
                    /\ children'["deployment"].content.backend = "redis"
                         => HasBackend'
  BY DEF EnsureStep, DependenciesFirst, Mine, HasBackend
<1>0. pc = k /\ UNCHANGED server
  BY DEF EnsureStep
<1>1. Mine("configMap") => Mine("configMap")'
  BY EnsureStepChildren DEF Kinds
<1>2. CASE children'["deployment"] = children["deployment"]
  <2>1. Mine("deployment")
    BY <1>0, <1>2 DEF Mine
  <2>2. /\ Mine("configMap")
        /\ children["deployment"].content.backend = "redis" => HasBackend
    BY <2>1 DEF DependenciesFirst, Mine, HasBackend
  <2> QED BY <1>1, <1>2, <2>2, EnsureStepChildren
<1>3. CASE k = "deployment" /\ Written(k)
  <2>1. Of(local)
    <3>1. local # Absent
      BY EnsureStepChildren
    <3>2. children'["deployment"].owner = local.uid
      BY <1>3 DEF Written
    <3>3. children'["deployment"].owner = server'.uid
      BY DEF Mine
    <3> QED BY <1>0, <3>1, <3>2, <3>3 DEF Of
  <2>2. children'["deployment"].content.backend = local.spec.backend
    <3>1. children'["deployment"].content = Desired("deployment", local.spec)
      BY <1>3 DEF Written
    <3>2. Desired("deployment", local.spec).backend = local.spec.backend
      BY DEF Desired
    <3> QED BY <3>1, <3>2
  <2>3. /\ Mine("configMap")
        /\ local.spec.backend = "redis" => HasBackend
    BY <1>0, <1>3, <2>1 DEF PassInv, ServerSteps
  <2> QED BY <1>1, <2>2, <2>3, EnsureStepChildren
<1> QED BY <1>2, <1>3 DEF EnsureStep, Written, Kinds

LEMMA EnsureStepApplied ==
    ASSUME KnownInv, AppliedInv, NEW k \in Kinds, EnsureStep(k)
    PROVE  AppliedInv'
BY EnsureStepCopies, EnsureStepOwners, EnsureStepPass, EnsureStepCondition,
   EnsureStepObserved, EnsureStepDependencies DEF AppliedInv

(***************************************************************************)
(* The actions.                                                            *)
(***************************************************************************)

\* How the step of child k goes on.
GoesOnTo(k) ==
    /\ pc' = After(k) /\ UNCHANGED localFresh
    /\ local' # Absent /\ local'.uid = local.uid /\ local'.gen = local.gen
    /\ local'.spec = local.spec
    /\ k # "redisService" => UNCHANGED local

LEMMA EnsureIsStep ==
    ASSUME KnownInv, UNCHANGED bounds, NEW k \in Kinds, pc = k,
           NEW ACTION Done, NEW ACTION Failed, Ensure(k, Done, Failed),
           Done => GoesOnTo(k),
           Failed => GivesUp \/ (k = "serviceMonitor" /\ GoesOnTo(k))
    PROVE  EnsureStep(k)
<1>0. TypeInv /\ pc # "idle"
  BY DEF KnownInv, Kinds
<1> DEFINE new == [owner   |-> local.uid,
                   content |-> Desired(k, local.spec),
                   rollout |-> IF children[k] = Absent THEN NoRollout
                               ELSE children[k].rollout]
           equal == /\ Seen(k) # Absent /\ k \notin AlwaysSent
                    /\ Seen(k).owner = local.uid
<1>1. /\ UNCHANGED <<objectVars, cachedChild>>
      /\ \/ equal /\ Done /\ UNCHANGED children
         \/ children' = [children EXCEPT ![k] = new] /\ (Done \/ Failed)
         \/ UNCHANGED children /\ Failed
  BY DEF Ensure, CreateOrUpdate
<1>2. new # Absent
  BY <1>0, AbsentAssumption, EnsuredChildType
<1>3. children' = [children EXCEPT ![k] = new] => Written(k)
  <2> SUFFICES ASSUME children' = [children EXCEPT ![k] = new]
               PROVE  Written(k)
    OBVIOUS
  <2>1. children \in [Kinds -> Children \cup {Absent}]
    BY <1>0 DEF TypeInv, TypeOK
  <2> HIDE DEF new
  <2>2. children'[k] = new /\ \A j \in Kinds \ {k} : children'[j] = children[j]
    BY <2>1
  <2> QED BY <1>2, <2>2 DEF Written, new
<1>4. equal => SeenDone(k)
  <2>1. DOMAIN cachedChild = Owned
    BY <1>0 DEF TypeInv, TypeOK
  <2>2. equal => k \in Owned /\ k # "deployment"
    BY DEF AlwaysSent, Owned
  <2> QED BY <2>1, <2>2 DEF SeenDone, Seen, Watched
<1>5. UNCHANGED children \/ Written(k)
  BY <1>1, <1>3
<1>6. Proceeds(k) \/ GivesUp
  BY <1>1, <1>3, <1>4 DEF GoesOnTo, Proceeds
<1> QED BY <1>1, <1>5, <1>6 DEF EnsureStep, objectVars, bounds

\* The actions that call it, but for the one that marks the copy.
LEMMA EnsureAndKeepIsStep ==
    ASSUME KnownInv, UNCHANGED bounds, NEW k \in Kinds \ {"redisService"},
           pc = k, NEW ACTION Failed,
           Ensure(k, Goto(After(k), local, localFresh), Failed),
           Failed => \/ Requeue \/ BackendFailed
                     \/ /\ k = "serviceMonitor"
                        /\ Goto(After(k), local, localFresh)
    PROVE  EnsureStep(k)
<1>1. local # Absent
  BY KnownFacts DEF Kinds
<1>2. Goto(After(k), local, localFresh) => GoesOnTo(k)
  BY <1>1 DEF Goto, GoesOnTo
<1>3. Requeue \/ BackendFailed => GivesUp
  BY DEF Requeue, BackendFailed, Goto, GivesUp
<1> QED BY <1>2, <1>3, EnsureIsStep

\* A write of the object by the running call.
LEMMA PutIsStep ==
    ASSUME KnownInv, TypeInv', UNCHANGED bounds,
           NEW STATE new, NEW ACTION Done, NEW ACTION Failed,
           PutObject(new, Done, Failed),
           localFresh /\ new # Absent =>
             /\ new.uid = server.uid
             /\ new.gen = server.gen /\ new.spec = server.spec
             /\ ReadyGen(new) = ReadyGen(server) \/ pc = "status"
             /\ BackendReady(new).status = "True" =>
                  BackendReady(new) \in {BackendReady(server),
                                         BackendReady(local)},
           Failed => Return,
           Done => \/ Return
                   \/ /\ localFresh' /\ local' = new
                      /\ pc' \in {"phase", "backend"}
    PROVE  ObjectStep
<1>1. /\ UNCHANGED <<children, cachedChild, drifts, cached, uids>>
      /\ \/ localFresh /\ server' = new /\ (Done \/ Failed)
         \/ UNCHANGED server /\ Failed
  BY DEF PutObject, Store, childVars, bounds
<1>2. CASE localFresh /\ server' = new /\ (Done \/ Failed)
  <2>1. \/ Return
        \/ server' # Absent /\ local' = server' /\ pc' \in {"phase", "backend"}
    BY <1>2 DEF TypeInv, Copies
  <2>2. Stored
    BY <1>1, <1>2, <2>1 DEF Stored, ReadyGen, BackendReady
  <2> QED BY <1>1, <2>2 DEF ObjectStep
<1>3. CASE UNCHANGED server /\ Failed
  BY <1>1, <1>3 DEF ObjectStep, Moved
<1> QED BY <1>1, <1>2, <1>3

\* The Ready and BackendReady conditions that SetConditions leaves.
LEMMA SetConditionsReadies ==
    ASSUME NEW conditions, NEW gen, NEW verdict
    PROVE  LET set == SetConditions(conditions, gen, verdict)
           IN  /\ "Ready" \notin DOMAIN verdict =>
                    set["Ready"] = conditions["Ready"]
               /\ "BackendReady" \notin DOMAIN verdict =>
                    set["BackendReady"] = conditions["BackendReady"]
               /\ "BackendReady" \in DOMAIN verdict =>
                    set["BackendReady"].status = verdict["BackendReady"]
BY DEF SetConditions, CondTypes

\* The write of a status whose conditions are set on the running call's.
LEMMA PutStatusIsStep ==
    ASSUME KnownInv, TypeInv', UNCHANGED bounds, pc # "idle",
           NEW STATE status, NEW STATE verdict, NEW ACTION Done,
           PutObject([server EXCEPT !.status = status], Done, Requeue),
           localFresh =>
             status.conditions = SetConditions(local.status.conditions,
                                               local.gen, verdict),
           "Ready" \notin DOMAIN verdict \/ pc = "status",
           "BackendReady" \in DOMAIN verdict =>
             verdict["BackendReady"] = "False",
           Done => \/ Return
                   \/ /\ local' = [server EXCEPT !.status = status]
                      /\ pc' \in {"phase", "backend"} /\ localFresh'
    PROVE  ObjectStep
<1> DEFINE new == [server EXCEPT !.status = status]
<1>1. localFresh => server \in Objects /\ local \in Objects
  BY DEF KnownInv, TypeInv, TypeOK, Copies
<1>2. localFresh => /\ new.uid = server.uid /\ new.gen = server.gen
                    /\ new.spec = server.spec /\ new.status = status
  BY <1>1 DEF Objects
<1>3. PutObject(new, Done, Requeue)
  OBVIOUS
<1>4. Done => Return \/ (local' = new /\ pc' \in {"phase", "backend"} /\ localFresh')
  OBVIOUS
<1> HIDE DEF new
<1>5. localFresh => ReadyGen(new) = ReadyGen(server) \/ pc = "status"
  <2>1. localFresh => ReadyGen(local) = ReadyGen(server)
    BY DEF KnownInv, ReadyInv
  <2> QED BY <1>2, <2>1, SetConditionsReadies DEF ReadyGen
<1>6. localFresh /\ BackendReady(new).status = "True"
      => BackendReady(new) = BackendReady(local)
  BY <1>2, SetConditionsReadies DEF BackendReady
<1> QED BY <1>2, <1>3, <1>4, <1>5, <1>6, PutIsStep DEF Requeue

\* The call ends without a request, or after a refused one.
LEMMA RefusedIsStep ==
    ASSUME Finish \/ Requeue, UNCHANGED <<objectVars, childVars, fails>>,
           UNCHANGED bounds
    PROVE  ObjectStep
BY DEF Finish, Requeue, ObjectStep, Moved, objectVars, childVars, bounds

LEMMA SkipIsStep ==
    ASSUME KnownInv, UNCHANGED bounds, pc # "idle", NEW next, Skip(next),
           \/ next \in {"phase", "backend", "redisDeployment", "backendFailed"}
           \/ next = "configMap" /\ local.spec.backend # "redis"
           \/ pc = "disruptionBudget" /\ next = "serviceMonitor"
           \/ pc = "serviceMonitor" /\ next = "status"
    PROVE  ObjectStep
<1>1. pc' = next /\ UNCHANGED <<cached, local, localFresh>>
  BY DEF Skip, Goto, objectVars
<1>2. Skipped
  BY <1>1 DEF Skipped
<1> QED BY <1>2 DEF Skip, ObjectStep, Moved, objectVars, childVars, bounds

LEMMA ReconcileStepIsStep ==
    ASSUME KnownInv, TypeInv', ReconcileStep, UNCHANGED bounds
    PROVE  ObjectStep \/ \E k \in Kinds : EnsureStep(k)
<1>0. localFresh => server \in Objects /\ local \in Objects
  BY DEF KnownInv, TypeInv, TypeOK, Copies
<1>1. CASE StartReconcile
  BY <1>1 DEF StartReconcile, ObjectStep, Moved, objectVars, childVars, bounds
<1>2. CASE RemoveFinalizer
  <2>1. CASE local.finalizer
    <3>1. PutCluster(Absent, Finish, Requeue)
      BY <1>2, <2>1 DEF RemoveFinalizer
    <3>2. CASE PutObject(Absent, Finish, Requeue)
      BY <3>2, PutIsStep DEF Finish, Requeue
    <3> QED BY <3>1, <3>2, RefusedIsStep DEF PutCluster
  <2>2. CASE ~local.finalizer
    BY <1>2, <2>2, RefusedIsStep DEF RemoveFinalizer
  <2> QED BY <2>1, <2>2
<1>3. CASE AddFinalizer
  <2>1. CASE local.finalizer
    BY <1>3, <2>1, SkipIsStep DEF AddFinalizer
  <2>2. CASE ~local.finalizer
    <3> DEFINE new == [server EXCEPT !.finalizer = TRUE]
    <3>1. PutCluster(new, Goto("phase", new, TRUE), Requeue)
      BY <1>3, <2>2 DEF AddFinalizer
    <3>2. localFresh => /\ new.uid = server.uid /\ new.gen = server.gen
                        /\ new.spec = server.spec /\ new.status = server.status
      BY <1>0 DEF Objects
    <3> HIDE DEF new
    <3>3. CASE PutObject(new, Goto("phase", new, TRUE), Requeue)
      BY <3>2, <3>3, PutIsStep DEF Goto, Requeue, ReadyGen, BackendReady
    <3> QED BY <3>1, <3>3, RefusedIsStep DEF PutCluster
  <2> QED BY <2>1, <2>2
<1>4. CASE SetPendingPhase
  <2>0. pc = "phase"
    BY <1>4 DEF SetPendingPhase
  <2>1. CASE local.status.phase # ""
    BY <1>4, <2>1, SkipIsStep DEF SetPendingPhase
  <2>2. CASE ~(local.status.phase # "")
    <3> DEFINE verdict == [Progressing |-> "True"]
               set     == SetConditions(local.status.conditions, local.gen,
                                        verdict)
               status  == [local.status EXCEPT !.phase = "Pending",
                                               !.conditions = set]
    <3>1. PutObject([server EXCEPT !.status = status],
                    Goto("backend", [server EXCEPT !.status = status], TRUE),
                    Requeue)
      BY <1>4, <2>2 DEF SetPendingPhase
    <3>2. localFresh => status.conditions = set
      BY <1>0 DEF Objects, Statuses
    <3>3. "Ready" \notin DOMAIN verdict /\ "BackendReady" \notin DOMAIN verdict
      OBVIOUS
    <3> HIDE DEF status, verdict
    <3> QED BY <2>0, <3>1, <3>2, <3>3, PutStatusIsStep DEF Goto
  <2> QED BY <2>1, <2>2
<1>5. CASE ReconcileEmbeddedBackend
  <2>1. local.spec.backend \in Backends
    BY <1>5, LocalType, StatusType, SpecsAssumption
       DEF ReconcileEmbeddedBackend, AllSpecs, KnownInv
  <2>2. /\ pc = "backend"
        /\ \/ Skip("redisDeployment") \/ Skip("backendFailed")
           \/ Skip("configMap") /\ local.spec.backend # "redis"
    BY <1>5, <2>1 DEF ReconcileEmbeddedBackend, Backends
  <2> QED BY <2>2, SkipIsStep
<1>6. CASE ReconcileRedisDeployment
  BY <1>6, EnsureAndKeepIsStep DEF ReconcileRedisDeployment, After, Kinds
<1>7. CASE ReconcileRedisService
  <2> DEFINE set    == SetConditions(local.status.conditions, local.gen,
                                     [BackendReady |-> "True"])
             marked == [local EXCEPT !.status.conditions = set]
             Done   == Goto("configMap", marked, localFresh)
  <2>1. /\ pc = "redisService"
        /\ Ensure("redisService", Done, BackendFailed)
    BY <1>7 DEF ReconcileRedisService
  <2>2. /\ local \in Objects /\ marked.uid = local.uid
        /\ marked.gen = local.gen /\ marked.spec = local.spec
    BY <2>1, LocalType DEF Objects, KnownInv
  <2>3. marked # Absent
    <3>1. local.status.conditions \in Conditions /\ local.gen \in Nat
      BY <2>2, StatusType
    <3>2. set \in Conditions
      BY <3>1, SetConditionsType
    <3>3. marked \in Objects
      BY <2>2, <3>2, ConditionsUpdateType
    <3> QED BY <3>3, AbsentAssumption
  <2> HIDE DEF marked
  <2>4. Done => GoesOnTo("redisService")
    BY <2>2, <2>3 DEF Goto, GoesOnTo, After
  <2>5. BackendFailed => GivesUp
    BY DEF BackendFailed, Goto, GivesUp
  <2> HIDE DEF Done
  <2> QED BY <2>1, <2>4, <2>5, EnsureIsStep DEF Kinds
<1>8. CASE ReportBackendFailure
  <2> DEFINE verdict == [BackendReady |-> "False", Degraded |-> "True"]
             set     == SetConditions(local.status.conditions, local.gen,
                                      verdict)
             status  == [local.status EXCEPT !.conditions = set]
  <2>1. /\ pc = "backendFailed"
        /\ PutObject([server EXCEPT !.status = status], Requeue, Requeue)
    BY <1>8 DEF ReportBackendFailure
  <2>2. localFresh => status.conditions = set
    BY <1>0 DEF Objects, Statuses
  <2>3. "Ready" \notin DOMAIN verdict /\ verdict["BackendReady"] = "False"
    OBVIOUS
  <2> HIDE DEF status, verdict
  <2> QED BY <2>1, <2>2, <2>3, PutStatusIsStep DEF Requeue
<1>9. CASE ReconcileConfigMap
  BY <1>9, EnsureAndKeepIsStep DEF ReconcileConfigMap, After, Kinds
<1>10. CASE ReconcileDeployment
  BY <1>10, EnsureAndKeepIsStep DEF ReconcileDeployment, After, Kinds
<1>11. CASE ReconcileService
  BY <1>11, EnsureAndKeepIsStep DEF ReconcileService, After, Kinds
<1>12. CASE ReconcilePDB
  BY <1>12, EnsureAndKeepIsStep, SkipIsStep DEF ReconcilePDB, After, Kinds
<1>13. CASE ReconcileServiceMonitor
  BY <1>13, EnsureAndKeepIsStep, SkipIsStep
     DEF ReconcileServiceMonitor, After, Kinds
<1>14. CASE UpdateStatus
  <2> DEFINE status == Report(local, cachedChild["deployment"])
  <2>1. /\ pc = "status"
        /\ PutObject([server EXCEPT !.status = status], Finish, Requeue)
    BY <1>14 DEF UpdateStatus
  <2>2. PICK phase : status.conditions =
                       SetConditions(local.status.conditions, local.gen,
                                     VerdictOf(phase))
    BY DEF Report
  <2>3. "BackendReady" \notin DOMAIN VerdictOf(phase)
    BY DEF VerdictOf
  <2> HIDE DEF status
  <2> QED BY <2>1, <2>2, <2>3, PutStatusIsStep DEF Finish
<1> QED
  BY <1>1, <1>2, <1>3, <1>4, <1>5, <1>6, <1>7, <1>8, <1>9, <1>10, <1>11,
     <1>12, <1>13, <1>14 DEF ReconcileStep

\* A child written by somebody else stays with its owner, or goes away if it is
\* nobody's; it only changes when a drift is counted.
LEMMA WriteChildIsStep ==
    ASSUME KnownInv, NEW k \in Kinds, NEW STATE new, WriteChild(k, new),
           UNCHANGED uids,
           new # Absent =>
             /\ children[k] # Absent /\ new.owner = children[k].owner
             /\ drifts' = 0 => new.content = children[k].content,
           drifts' = 0 => drifts = 0 /\ (new = Absent /\ server # Absent
                                           => ~Mine(k))
    PROVE  ChildStep
<1>1. children \in [Kinds -> Children \cup {Absent}]
  BY DEF KnownInv, TypeInv, TypeOK
<1>2. /\ UNCHANGED <<server, cached, cachedChild, pc, local, localFresh>>
      /\ children'[k] = new
      /\ \A j \in Kinds \ {k} : children'[j] = children[j]
  BY <1>1 DEF WriteChild, objectVars, runVars
<1>3. \A j \in Owned : cachedChild'[j] = cachedChild[j]
  BY <1>2
<1> QED BY <1>2, <1>3 DEF ChildStep, Mine

LEMMA EnvironmentIsStep ==
    ASSUME KnownInv,
           \/ Informers /\ UNCHANGED bounds
           \/ User
           \/ \E k \in Deployments : PodsSettle(k) \/ PodsFlap(k)
           \/ \E k \in Kinds : DriftChild(k)
           \/ \E k \in Kinds : CollectGarbage(k) /\ UNCHANGED bounds
           \/ Crash \/ ToggleWebhook
    PROVE  ObjectStep \/ ChildStep
<1>0. /\ children \in [Kinds -> Children \cup {Absent}]
      /\ cachedChild \in [Owned -> Children \cup {Absent}]
      /\ server # Absent => server \in Objects
      /\ drifts \in Nat /\ Owned \subseteq Kinds
  BY DEF KnownInv, TypeInv, TypeOK, Owned
<1>1. CASE Informers /\ UNCHANGED bounds
  <2>1. CASE SyncObject
    BY <1>1, <2>1 DEF SyncObject, ObjectStep, Moved, childVars, bounds
  <2>2. ASSUME NEW k \in Owned, SyncChild(k)
        PROVE  ChildStep
    <3>1. \A j \in Owned : cachedChild'[j] \in {cachedChild[j], children[j]}
      BY <1>0, <2>2 DEF SyncChild
    <3> QED BY <1>1, <2>2, <3>1 DEF SyncChild, ChildStep, Mine, objectVars,
                                    bounds
  <2> QED BY <1>1, <2>1, <2>2 DEF Informers
<1>2. CASE User
  <2>1. ASSUME NEW s \in Specs, CreateCluster(s)
        PROVE  ObjectStep
    <3>1. /\ server = Absent /\ ~localFresh' /\ uids' = uids + 1
          /\ server'.uid = uids' /\ server'.gen = 1 /\ server'.status = NoStatus
          /\ UNCHANGED <<cached, local, pc, children, cachedChild, drifts>>
      BY <2>1 DEF CreateCluster, WriteObject, childVars
    <3>2. /\ NoStatus.conditions["Ready"].gen = 0
          /\ NoStatus.conditions["BackendReady"].status = ""
      BY DEF NoStatus, CondTypes
    <3>3. /\ server'.status.conditions["Ready"].gen = 0
          /\ server'.status.conditions["BackendReady"].status = ""
      BY <3>1, <3>2
    <3>4. ReadyGen(server') # server'.gen
      <4>1. server'.gen = 1 /\ 0 # 1
        BY <3>1
      <4>2. ReadyGen(server') = 0
        BY <3>3 DEF ReadyGen
      <4> QED BY <4>1, <4>2
    <3>5. BackendReady(server').status # "True"
      BY <3>3 DEF BackendReady
    <3>6. Created
      BY <3>1, <3>4, <3>5 DEF Created
    <3> QED BY <3>1, <3>6 DEF ObjectStep
  <2>2. ASSUME NEW STATE new, WriteObject(new), server # Absent,
               UNCHANGED bounds,
               new # Absent => /\ new.uid = server.uid
                               /\ new.gen = server.gen + 1
                               /\ new.status = server.status
        PROVE  ObjectStep
    <3>1. /\ ~localFresh' /\ server' = new
          /\ UNCHANGED <<cached, local, pc, children, cachedChild, drifts,
                         uids>>
      BY <2>2 DEF WriteObject, childVars, bounds
    <3>2. /\ server.gen \in Nat /\ ReadyGen(server) \in Nat
          /\ ReadyGen(server) <= server.gen
      BY <1>0, <2>2, GenerationTypes
         DEF KnownInv, ObservedInv, ReadyGen, CondTypes
    <3>3. new # Absent => /\ ReadyGen(new) # new.gen
                          /\ BackendReady(new) = BackendReady(server)
      BY <2>2, <3>2 DEF ReadyGen, BackendReady
    <3> QED BY <2>2, <3>1, <3>3
            DEF ObjectStep, Edited, ReadyGen, BackendReady
  <2>3. ASSUME NEW s \in Specs, EditSpec(s)
        PROVE  ObjectStep
    <3> DEFINE new == [server EXCEPT !.spec = s, !.gen = @ + 1]
    <3>1. server # Absent /\ WriteObject(new) /\ UNCHANGED bounds
      BY <2>3 DEF EditSpec
    <3>2. /\ new.uid = server.uid /\ new.gen = server.gen + 1
          /\ new.status = server.status
      BY <1>0, <3>1 DEF Objects
    <3> HIDE DEF new
    <3> QED BY <2>2, <3>1, <3>2
  <2>4. CASE DeleteCluster
    <3> DEFINE new == IF server.finalizer
                      THEN [server EXCEPT !.deleting = TRUE, !.gen = @ + 1]
                      ELSE Absent
    <3>1. server # Absent /\ WriteObject(new) /\ UNCHANGED bounds
      BY <2>4 DEF DeleteCluster
    <3>2. new # Absent => /\ new.uid = server.uid /\ new.gen = server.gen + 1
                          /\ new.status = server.status
      BY <1>0, <3>1 DEF Objects
    <3> HIDE DEF new
    <3> QED BY <2>2, <3>1, <3>2
  <2> QED BY <1>2, <2>1, <2>3, <2>4 DEF User
<1>3. ASSUME NEW k \in Kinds, children[k] # Absent
      PROVE  /\ \A r : /\ [children[k] EXCEPT !.rollout = r].owner
                            = children[k].owner
                       /\ [children[k] EXCEPT !.rollout = r].content
                            = children[k].content
             /\ \A c : [children[k] EXCEPT !.content = c].owner
                          = children[k].owner
  BY <1>0, <1>3 DEF Children
<1>4. ASSUME NEW k \in Deployments, PodsSettle(k) \/ PodsFlap(k)
      PROVE  ChildStep
  <2>1. PICK r \in Rollouts : WriteChild(k, [children[k] EXCEPT !.rollout = r])
    BY <1>4, PodsReport DEF KnownInv
  <2>2. k \in Kinds /\ children[k] # Absent /\ UNCHANGED <<uids, drifts>>
    BY <1>4, PodsReport DEF KnownInv
  <2> DEFINE new == [children[k] EXCEPT !.rollout = r]
  <2>3. WriteChild(k, new)
    BY <2>1
  <2>4. new.owner = children[k].owner /\ new.content = children[k].content
    BY <1>3, <2>2
  <2>5. new # Absent
    <3>1. new \in Children
      BY <1>0, <2>2 DEF Children
    <3> QED BY <3>1, AbsentAssumption
  <2> HIDE DEF new
  <2> QED BY <2>2, <2>3, <2>4, <2>5, WriteChildIsStep
<1>5. ASSUME NEW k \in Kinds, DriftChild(k)
      PROVE  ChildStep
  <2> DEFINE new == [children[k] EXCEPT !.content = Drifted]
  <2>1. /\ children[k] # Absent /\ UNCHANGED uids /\ drifts' = drifts + 1
        /\ WriteChild(k, new) \/ WriteChild(k, Absent)
    BY <1>5 DEF DriftChild
  <2>2. new.owner = children[k].owner
    BY <1>3, <2>1
  <2>3. drifts' # 0
    BY <1>0, <2>1
  <2> HIDE DEF new
  <2> QED BY <2>1, <2>2, <2>3, WriteChildIsStep
<1>6. ASSUME NEW k \in Kinds, CollectGarbage(k), UNCHANGED bounds
      PROVE  ChildStep
  <2>1. /\ UNCHANGED <<uids, drifts>> /\ WriteChild(k, Absent)
        /\ server # Absent => ~Mine(k)
    BY <1>6 DEF CollectGarbage, Mine, bounds
  <2> QED BY <2>1, WriteChildIsStep
<1>7. CASE Crash
  <2>1. /\ UNCHANGED <<server, children, uids, drifts>> /\ cached' = server
        /\ cachedChild' = [k \in Watched |-> children[k]] /\ Return
    BY <1>7 DEF Crash, Restart, Requeue
  <2>2. \A k \in Owned : cachedChild'[k] = children'[k]
    BY <1>0, <2>1 DEF Watched
  <2> QED BY <2>1, <2>2 DEF ChildStep, Mine
<1>8. CASE ToggleWebhook
  BY <1>8 DEF ToggleWebhook, ObjectStep, Moved, objectVars, childVars, runVars
<1> QED BY <1>1, <1>2, <1>4, <1>5, <1>6, <1>7, <1>8

LEMMA NextIsStep ==
    ASSUME KnownInv, TypeInv', [Next]_vars
    PROVE  ObjectStep \/ ChildStep \/ \E k \in Kinds : EnsureStep(k)
<1>1. UNCHANGED vars => ObjectStep
  BY DEF ObjectStep, Moved, vars, objectVars, childVars, runVars, bounds
<1> QED BY <1>1, ReconcileStepIsStep, EnvironmentIsStep DEF Next

(***************************************************************************)
(* The theorems.                                                           *)
(***************************************************************************)

\* AppliedInv holds in every reachable state.
THEOREM AppliedInductive == Spec => []AppliedInv
<1>1. Init => AppliedInv
  BY DEF Init, AppliedInv, CopiesInv, OwnersInv, PassInv, ConditionInv,
         ObservedMeansApplied, DependenciesFirst, Of
<1>2. KnownInv /\ TypeInv' /\ AppliedInv /\ [Next]_vars => AppliedInv'
  BY NextIsStep, ObjectStepApplied, ChildStepApplied, EnsureStepApplied
<1> QED BY <1>1, <1>2, TypeCorrect, ObservedInductive, FinalizerInductive,
           ReadyInductive, PTL DEF Spec, KnownInv

\* While nobody else changes the children, a Ready condition that carries the
\* latest generation means that the server Deployment is as that generation
\* asks, however stale the copies and however many answers were lost.
THEOREM ObservedMeansAppliedCorrect == Spec => []ObservedMeansApplied
<1>1. AppliedInv => ObservedMeansApplied
  BY DEF AppliedInv
<1> QED BY <1>1, AppliedInductive, PTL

\* The server Deployment never exists without the ConfigMap, nor one for the
\* embedded redis without the backend, though passes are interrupted anywhere
\* and clusters of the name come and go.
THEOREM DependenciesFirstCorrect == Spec => []DependenciesFirst
<1>1. AppliedInv => DependenciesFirst
  BY DEF AppliedInv
<1> QED BY <1>1, AppliedInductive, PTL

(***************************************************************************)
(* BackendReadyMeansDeployed.                                              *)
(***************************************************************************)

\* A version of the cluster that claims the backend for its own generation
\* embeds it.
Claims(o) == BackendReady(o).status = "True" /\ BackendReady(o).gen = o.gen

BackendKinds == {"redisDeployment", "redisService"}

\* What the stored cluster owns of the backend is as any specification that
\* embeds it asks for, and no version of the cluster, stored or copied, claims
\* one that it does not ask for.
BackendInv ==
    /\ drifts = 0 /\ server # Absent =>
         \A k \in BackendKinds : Mine(k) => ChildInPlace(k)
    /\ \A o \in {server, cached, local} :
         o # Absent /\ Claims(o) => o.spec.backend = "redis"

\* The backend does not depend on the specification.
LEMMA BackendDesired ==
    ASSUME NEW k \in BackendKinds, NEW s, NEW t
    PROVE  Desired(k, s) = Desired(k, t)
BY DEF BackendKinds, Desired

LEMMA ObjectStepBackend ==
    ASSUME KnownInv, CopiesInv, BackendInv, ObjectStep
    PROVE  BackendInv'
<1>0. BackendKinds \subseteq Kinds
  BY DEF BackendKinds, Kinds
<1>1. CASE Stored
  <2>1. localFresh => /\ local # Absent /\ server # Absent
                      /\ local.gen = server.gen /\ local.spec = server.spec
    BY KnownFacts DEF CopiesInv, Current, Of
  <2>2. server' # Absent /\ Claims(server)' => server'.spec.backend = "redis"
    BY <1>1, <2>1 DEF Stored, BackendInv, Claims, BackendReady
  <2> QED BY <1>1, <2>1, <2>2 DEF ObjectStep, Stored, Return, BackendInv, Claims,
                                  BackendReady, Mine, ChildInPlace
<1>2. CASE Edited
  <2>1. server' # Absent => ~Claims(server)'
    <3>1. /\ server.gen \in Nat /\ BackendReady(server).gen \in Nat
          /\ BackendReady(server).gen <= server.gen
      BY <1>2, GenerationTypes
         DEF Edited, KnownInv, TypeInv, TypeOK, ObservedInv, BackendReady,
             CondTypes
    <3> QED BY <1>2, <3>1 DEF Edited, Claims, BackendReady
  <2> QED BY <1>2, <2>1, BackendDesired
          DEF ObjectStep, Edited, BackendInv, Claims, BackendReady, Mine,
              ChildInPlace
<1>3. CASE Created
  BY <1>0, <1>3, KnownFacts DEF ObjectStep, Created, BackendInv, Claims,
                                BackendReady, Mine
<1>4. CASE Moved
  BY <1>4 DEF ObjectStep, Moved, Skipped, Return, BackendInv, Claims,
              BackendReady, Mine, ChildInPlace
<1> QED BY <1>1, <1>2, <1>3, <1>4 DEF ObjectStep

LEMMA ChildStepBackend ==
    ASSUME BackendInv, ChildStep
    PROVE  BackendInv'
<1>1. BackendKinds \subseteq Kinds
  BY DEF BackendKinds, Kinds
<1>2. drifts' = 0 /\ server' # Absent =>
        \A k \in BackendKinds : Mine(k)' => ChildInPlace(k)'
  BY <1>1, ChildStepKeeps DEF ChildStep, BackendInv
<1> QED BY <1>2 DEF ChildStep, Return, BackendInv, Claims, BackendReady

LEMMA EnsureStepBackend ==
    ASSUME KnownInv, ConvergenceInv, BackendInv, NEW k \in Kinds, EnsureStep(k)
    PROVE  BackendInv'
<1>0. pc = k /\ UNCHANGED <<server, cached, drifts>>
  BY DEF EnsureStep
<1>1. ASSUME drifts = 0, server # Absent, NEW j \in BackendKinds, Mine(j)'
      PROVE  ChildInPlace(j)'
  <2>1. CASE children'[j] = children[j]
    BY <1>0, <1>1, <2>1 DEF BackendInv, Mine, ChildInPlace
  <2>2. CASE j = k /\ Written(k)
    BY <1>0, <1>1, <2>2, BackendDesired DEF Written, Mine, ChildInPlace
  <2> QED BY <2>1, <2>2 DEF EnsureStep, Written, BackendKinds, Kinds
<1>2. local' # Absent /\ Claims(local)' => local'.spec.backend = "redis"
  <2>1. CASE k = "redisService" /\ Proceeds(k)
    BY <1>0, <2>1 DEF Proceeds, ConvergenceInv, LocalKnown
  <2>2. CASE local' \in {local, Absent}
    BY <2>2 DEF BackendInv, Claims, BackendReady
  <2> QED BY <2>1, <2>2 DEF EnsureStep, Proceeds, GivesUp, Return
<1> QED BY <1>0, <1>1, <1>2 DEF BackendInv, Claims, BackendReady

\* BackendReady is never True without the redis Deployment and Service as the
\* operator makes them, nor for the latest generation unless that generation
\* embeds redis, though the condition is never taken back when the embedded
\* backend is turned off, and is stored from stale copies.
THEOREM BackendReadyMeansDeployedCorrect ==
    Spec => []BackendReadyMeansDeployed
<1>1. Init => BackendInv
  BY DEF Init, BackendInv
<1>2. /\ KnownInv /\ TypeInv' /\ AppliedInv /\ ConvergenceInv /\ BackendInv
      /\ [Next]_vars
      => BackendInv'
  BY NextIsStep, ObjectStepBackend, ChildStepBackend, EnsureStepBackend
     DEF AppliedInv
<1>3. TypeInv /\ AppliedInv /\ BackendInv => BackendReadyMeansDeployed
  BY DEF AppliedInv, ConditionInv, BackendInv, BackendReadyMeansDeployed,
         BackendReady, Claims, BackendKinds, HasBackend, Mine, Of
<1> QED BY <1>1, <1>2, <1>3, TypeCorrect, ObservedInductive,
           FinalizerInductive, ReadyInductive, AppliedInductive,
           ConvergenceInductive, PTL DEF Spec, KnownInv

(***************************************************************************)
(* UnsupportedStaysUnobserved.                                             *)
(***************************************************************************)

\* A backend the operator cannot embed is never reported on: the only step that
\* stores a Ready condition is never reached for it, and what a pass for
\* another generation has stored is of that generation.
THEOREM UnsupportedStaysUnobservedCorrect ==
    Spec => []UnsupportedStaysUnobserved
<1>1. Init => UnsupportedStaysUnobserved
  BY DEF Init, UnsupportedStaysUnobserved
<1>2. /\ KnownInv /\ TypeInv' /\ ObservedInv' /\ ConvergenceInv
      /\ UnsupportedStaysUnobserved /\ [Next]_vars
      => UnsupportedStaysUnobserved'
  <2> SUFFICES ASSUME KnownInv, TypeInv', ObservedInv', ConvergenceInv,
                      UnsupportedStaysUnobserved, [Next]_vars
               PROVE  UnsupportedStaysUnobserved'
    OBVIOUS
  <2>1. CASE UNCHANGED server
    BY <2>1 DEF UnsupportedStaysUnobserved
  <2>2. ASSUME server' # Absent, ReadyGen(server') # server'.gen
        PROVE  UnsupportedStaysUnobserved'
    <3>1. /\ server'.gen \in Nat /\ ReadyGen(server') \in Nat
          /\ ReadyGen(server') <= server'.gen
      BY <2>2 DEF TypeInv, TypeOK, Objects, Statuses, Conditions, CondTypes,
                  ObservedInv, ReadyGen
    <3> QED BY <2>2, <3>1 DEF UnsupportedStaysUnobserved, ReadyGen
  <2>3. CASE Stored
    <3>1. local.spec = server.spec /\ server # Absent
      BY <2>3, KnownFacts DEF Stored, ConvergenceInv, CopiesAgree
    <3>2. CASE pc = "status"
      <4>1. server' # Absent => server'.spec.backend # "unsupported"
        BY <2>3, <3>1, <3>2
           DEF Stored, ConvergenceInv, LocalKnown, ServerSteps
      <4> QED BY <4>1 DEF UnsupportedStaysUnobserved
    <3>3. CASE pc # "status"
      BY <2>3, <3>1, <3>3 DEF Stored, UnsupportedStaysUnobserved, ReadyGen
    <3> QED BY <3>2, <3>3
  <2>4. ObjectStep => UnsupportedStaysUnobserved'
    <3>1. CASE Edited
      BY <2>2, <3>1 DEF Edited, UnsupportedStaysUnobserved
    <3>2. CASE Created
      BY <2>2, <3>2 DEF Created, UnsupportedStaysUnobserved
    <3> QED BY <2>1, <2>3, <3>1, <3>2 DEF ObjectStep, Moved
  <2>5. ChildStep \/ (\E k \in Kinds : EnsureStep(k))
        => UnsupportedStaysUnobserved'
    BY <2>1 DEF ChildStep, EnsureStep
  <2> QED BY <2>4, <2>5, NextIsStep
<1> QED BY <1>1, <1>2, TypeCorrect, ObservedInductive, FinalizerInductive,
           ReadyInductive, ConvergenceInductive, PTL DEF Spec, KnownInv

(***************************************************************************)
(* FirstGenerationExact.                                                   *)
(***************************************************************************)

\* While the stored cluster is of its first generation every copy of it has its
\* specification, and what it owns is what that specification asks for.
ExactInv ==
    server # Absent /\ server.gen = 1 =>
      /\ \A o \in {cached, local} : Of(o) => o.spec = server.spec
      /\ drifts = 0 =>
           \A k \in Kinds : Mine(k) =>
             /\ server.spec.backend # "unsupported" /\ Wants(k, server.spec)
             /\ ChildInPlace(k)

\* A pass writes no child but the one whose step it is at, and only if its
\* specification asks for it.
LEMMA WritesWanted ==
    ASSUME TypeInv, ConvergenceInv, ReconcileStep, children' # children
    PROVE  /\ pc \in Kinds /\ Wants(pc, local.spec)
           /\ local.spec.backend # "unsupported"
<1>1. pc \in ServerSteps => local.spec.backend # "unsupported"
  BY DEF ConvergenceInv, LocalKnown
<1>2. pc \in {"redisDeployment", "redisService"} => local.spec.backend = "redis"
  BY DEF ConvergenceInv, LocalKnown
<1>3. CASE \/ StartReconcile \/ RemoveFinalizer \/ AddFinalizer
           \/ SetPendingPhase \/ ReconcileEmbeddedBackend
           \/ ReportBackendFailure \/ UpdateStatus
  BY <1>3 DEF StartReconcile, RemoveFinalizer, AddFinalizer, SetPendingPhase,
              ReconcileEmbeddedBackend, ReportBackendFailure, UpdateStatus,
              PutCluster, PutObject, Skip, childVars
<1>4. CASE ReconcileRedisDeployment \/ ReconcileRedisService
  BY <1>2, <1>4 DEF ReconcileRedisDeployment, ReconcileRedisService, Kinds,
                    Wants
<1>5. CASE ReconcileConfigMap \/ ReconcileDeployment \/ ReconcileService
  BY <1>1, <1>5 DEF ReconcileConfigMap, ReconcileDeployment, ReconcileService,
                    Kinds, Wants, ServerSteps
<1>6. CASE ReconcilePDB
  BY <1>1, <1>6 DEF ReconcilePDB, Skip, childVars, Kinds, ServerSteps
<1>7. CASE ReconcileServiceMonitor
  BY <1>1, <1>7 DEF ReconcileServiceMonitor, Skip, childVars, Kinds, ServerSteps
<1> QED BY <1>3, <1>4, <1>5, <1>6, <1>7 DEF ReconcileStep

LEMMA EnsureStepExact ==
    ASSUME KnownInv, OwnersInv, ExactInv, NEW k \in Kinds, EnsureStep(k),
           children' # children => /\ Wants(k, local.spec)
                                   /\ local.spec.backend # "unsupported"
    PROVE  ExactInv'
<1> SUFFICES ASSUME server # Absent, server.gen = 1
             PROVE  ExactInv'
  BY DEF EnsureStep, ExactInv
<1>0. pc = k /\ UNCHANGED <<server, cached, drifts>> /\ local # Absent
  BY EnsureStepChildren DEF EnsureStep
<1>1. Of(cached)' => cached'.spec = server'.spec
  BY <1>0 DEF ExactInv, Of
<1>2. Of(local)' => local'.spec = server'.spec
  BY <1>0 DEF EnsureStep, Proceeds, GivesUp, Return, ExactInv, Of
<1>3. ASSUME drifts = 0, NEW j \in Kinds, Mine(j)'
      PROVE  /\ server.spec.backend # "unsupported" /\ Wants(j, server.spec)
             /\ ChildInPlace(j)'
  <2>1. CASE children'[j] = children[j]
    BY <1>0, <1>3, <2>1 DEF ExactInv, Mine, ChildInPlace
  <2>2. CASE j = k /\ Written(k)
    <3>1. Of(local)
      BY <1>0, <1>3, <2>2 DEF Written, Mine, Of
    <3>2. local.spec = server.spec
      BY <3>1 DEF ExactInv
    <3>3. CASE children' # children
      BY <1>0, <1>3, <2>2, <3>2, <3>3 DEF Written, Mine, ChildInPlace
    <3>4. CASE children' = children
      BY <2>1, <3>4
    <3> QED BY <3>3, <3>4
  <2> QED BY <2>1, <2>2 DEF EnsureStep, Written
<1> QED BY <1>0, <1>1, <1>2, <1>3 DEF ExactInv

LEMMA ObjectStepExact ==
    ASSUME KnownInv, ExactInv, ObjectStep
    PROVE  ExactInv'
<1>1. CASE Stored
  BY <1>1, KnownFacts DEF ObjectStep, Stored, Return, ExactInv, Mine, Of,
                          ChildInPlace
<1>2. CASE Edited
  <2>1. server' # Absent => server'.gen # 1
    <3>1. server.gen \in Nat /\ server.gen >= 1
      BY <1>2 DEF Edited, KnownInv, TypeInv, TypeOK, Objects, ReadyInv
    <3> QED BY <1>2, <3>1 DEF Edited
  <2> QED BY <2>1 DEF ExactInv
<1>3. CASE Created
  BY <1>3, KnownFacts DEF ObjectStep, Created, ExactInv, Mine, Of
<1>4. CASE Moved
  BY <1>4 DEF ObjectStep, Moved, Skipped, Return, ExactInv, Mine, Of,
              ChildInPlace
<1> QED BY <1>1, <1>2, <1>3, <1>4 DEF ObjectStep

LEMMA ChildStepExact ==
    ASSUME KnownInv, ExactInv, ChildStep
    PROVE  ExactInv'
BY DEF ChildStep, Return, ExactInv, Mine, Of, ChildInPlace

\* What a cluster of the first generation owns is exactly what that generation
\* asks for: nothing comes from an earlier cluster of the name, from a pass that
\* still works for it, or before the backend is known to be supported.
THEOREM FirstGenerationExactCorrect == Spec => []FirstGenerationExact
<1>1. Init => ExactInv
  BY DEF Init, ExactInv
<1>2. /\ KnownInv /\ TypeInv' /\ AppliedInv /\ ConvergenceInv /\ ExactInv
      /\ [Next]_vars
      => ExactInv'
  <2> SUFFICES ASSUME KnownInv, TypeInv', AppliedInv, ConvergenceInv, ExactInv,
                      [Next]_vars
               PROVE  ExactInv'
    OBVIOUS
  <2>1. CASE ReconcileStep /\ UNCHANGED bounds
    <3>1. ASSUME NEW k \in Kinds, EnsureStep(k)
          PROVE  ExactInv'
      <4>1. pc = k
        BY <3>1 DEF EnsureStep
      <4> QED BY <2>1, <3>1, <4>1, WritesWanted, EnsureStepExact
              DEF KnownInv, AppliedInv
    <3> QED BY <2>1, <3>1, ReconcileStepIsStep, ObjectStepExact
  <2>2. CASE ~(ReconcileStep /\ UNCHANGED bounds)
    <3>1. UNCHANGED vars => ObjectStep
      BY DEF ObjectStep, Moved, vars, objectVars, childVars, runVars, bounds
    <3> QED BY <2>2, <3>1, EnvironmentIsStep, ObjectStepExact, ChildStepExact
            DEF Next
  <2> QED BY <2>1, <2>2
<1>3. ExactInv => FirstGenerationExact
  BY DEF ExactInv, FirstGenerationExact, Mine
<1> QED BY <1>1, <1>2, <1>3, TypeCorrect, ObservedInductive,
           FinalizerInductive, ReadyInductive, AppliedInductive,
           ConvergenceInductive, PTL DEF Spec, KnownInv

(***************************************************************************)
(* SteadyState.                                                            *)
(***************************************************************************)

Verdict == CondTypes \ {"BackendReady"}

\* A status that a pass computed from the Deployment for generation g: but for
\* BackendReady its conditions are the verdict on its phase.
Computed(status, g) ==
    /\ status.phase \in {"Running", "Scaling", "Pending"}
    /\ \A t \in Verdict :
         status.conditions[t] = [status |-> VerdictOf(status.phase)[t], gen |-> g]

\* Version o of the cluster reports on its own generation, and no failure of the
\* embedded redis since.
Reporting(o) ==
    /\ ReadyGen(o) = o.gen
    /\ o.spec.backend = "redis" =>
         o.status.conditions["BackendReady"]
           = [status |-> "True", gen |-> o.gen]

\* A version without a phase has not been reported on.
Started(o) == o # Absent /\ o.status.phase = "" => ReadyGen(o) = 0

Sound(o) ==
    Started(o) /\ (o # Absent /\ Reporting(o) => Computed(o.status, o.gen))

\* A stored status that reports on the latest generation is one verdict, and an
\* accepted copy has its BackendReady condition but for the mark of the embedded
\* redis.
StatusInv ==
    /\ Sound(server) /\ Started(cached) /\ Started(local)
    /\ localFresh /\ local.spec.backend # "redis" =>
         local.status.conditions["BackendReady"]
           = server.status.conditions["BackendReady"]
    /\ pc = "backendFailed" => local.spec.backend \in {"redis", "unsupported"}

\* What a step has to do to the stored object and to its copies.
LEMMA StepStatus ==
    ASSUME StatusInv,
           UNCHANGED server \/ Sound(server'), cached' \in {cached, server},
           \/ UNCHANGED local /\ (localFresh' => localFresh /\ UNCHANGED server)
           \/ local' = Absent /\ ~localFresh'
           \/ /\ local' = cached
              /\ localFresh' => cached = server /\ UNCHANGED server
           \/ local' = server'
           \/ /\ local'.spec = local.spec /\ local.spec.backend = "redis"
              /\ local # Absent /\ local'.status.phase = local.status.phase
              /\ ReadyGen(local') = ReadyGen(local),
           pc' = "backendFailed" =>
             \/ pc = "backendFailed" /\ UNCHANGED local
             \/ local'.spec.backend \in {"redis", "unsupported"}
    PROVE  StatusInv'
<1>1. Sound(server)'
  BY DEF StatusInv, Sound, Started, Reporting, Computed, ReadyGen
<1>2. /\ Started(server) /\ Started(cached) /\ Started(local)
      /\ Started(server)'
  BY <1>1 DEF StatusInv, Sound
<1>3. Started(cached)'
  BY <1>2 DEF Started, ReadyGen
<1>4. Started(local)'
  BY <1>2 DEF Started, ReadyGen
<1>5. localFresh' /\ local'.spec.backend # "redis" =>
        local'.status.conditions["BackendReady"]
          = server'.status.conditions["BackendReady"]
  BY DEF StatusInv
<1> QED BY <1>1, <1>3, <1>4, <1>5 DEF StatusInv

\* The running call's write of the object, after which it ends or goes on with
\* what it has written.
LEMMA PutStatus ==
    ASSUME TypeInv, StatusInv, NEW STATE new, NEW ACTION Done,
           NEW ACTION Failed, PutObject(new, Done, Failed),
           localFresh => Sound(new),
           Failed => Return,
           Done => Return \/ (local' = new /\ pc' # "backendFailed")
    PROVE  StatusInv'
<1>1. /\ UNCHANGED cached
      /\ \/ localFresh /\ server' = new /\ (Return \/ (local' = new /\ pc' # "backendFailed"))
         \/ UNCHANGED server /\ Return
  BY DEF PutObject, Store
<1>2. UNCHANGED server \/ Sound(server')
  BY <1>1 DEF Sound, Started, Reporting, Computed, ReadyGen
<1> QED BY <1>1, <1>2, StepStatus DEF Return

\* A new status of the stored cluster.
LEMMA NewStatusSound ==
    ASSUME TypeInv, localFresh, NEW status,
           status.phase = "" => status.conditions["Ready"].gen = 0,
           \/ status.conditions["Ready"].gen # server.gen
           \/ /\ server.spec.backend = "redis"
              /\ status.conditions["BackendReady"].status # "True"
           \/ Computed(status, server.gen)
    PROVE  Sound([server EXCEPT !.status = status])
<1> DEFINE new == [server EXCEPT !.status = status]
<1>1. server \in Objects
  BY DEF TypeInv, TypeOK, Copies
<1>2. new.status = status /\ new.gen = server.gen /\ new.spec = server.spec
  BY <1>1 DEF Objects
<1>3. status.conditions["BackendReady"].status # "True" =>
        status.conditions["BackendReady"]
          # [status |-> "True", gen |-> server.gen]
  <2>1. [status |-> "True", gen |-> server.gen].status = "True"
    OBVIOUS
  <2> QED BY <2>1
<1> HIDE DEF new
<1>4. Sound(new)
  BY <1>2, <1>3 DEF Sound, Started, Reporting, ReadyGen
<1> QED BY <1>4 DEF new

\* What updateStatus computes is a verdict for the copy's generation.
LEMMA ReportComputed ==
    ASSUME NEW o, NEW dep
    PROVE  /\ Computed(Report(o, dep), o.gen) /\ Report(o, dep).phase # ""
<1> DEFINE rollout == IF dep = Absent THEN o.status.rollout ELSE dep.rollout
           phase   == IF dep = Absent THEN "Pending" ELSE PhaseOf(rollout)
           conds   == SetConditions(o.status.conditions, o.gen,
                                    VerdictOf(phase))
<1>1. Report(o, dep).phase = phase /\ Report(o, dep).conditions = conds
  BY DEF Report
<1>2. phase \in {"Running", "Scaling", "Pending"}
  BY DEF PhaseOf
<1> HIDE DEF phase
<1>3. DOMAIN VerdictOf(phase) = Verdict
  BY DEF VerdictOf, Verdict, CondTypes
<1>4. \A t \in Verdict :
        conds[t] = [status |-> VerdictOf(phase)[t], gen |-> o.gen]
  BY <1>3 DEF SetConditions, Verdict
<1> HIDE DEF conds
<1> QED BY <1>1, <1>2, <1>4 DEF Computed

\* A CreateOrUpdate, after which the running call goes on or returns.
LEMMA EnsureStatus ==
    ASSUME StatusInv, NEW k \in Kinds, NEW ACTION Done, NEW ACTION Failed,
           Ensure(k, Done, Failed),
           Done \/ Failed =>
             \/ Return
             \/ UNCHANGED <<local, localFresh>> /\ pc' # "backendFailed"
             \/ local.spec.backend = "redis" /\ BackendFailed
    PROVE  StatusInv'
<1>1. UNCHANGED <<server, cached>> /\ (Done \/ Failed)
  BY DEF Ensure, CreateOrUpdate, objectVars
<1> QED BY <1>1, StepStatus DEF Return, BackendFailed, Goto

LEMMA RefusedStatus ==
    ASSUME StatusInv, Finish \/ Requeue,
           UNCHANGED <<objectVars, childVars, fails>>
    PROVE  StatusInv'
BY StepStatus DEF Finish, Requeue, Return, objectVars

LEMMA SkipStatus ==
    ASSUME StatusInv, NEW next, Skip(next),
           next = "backendFailed" => local.spec.backend = "unsupported"
    PROVE  StatusInv'
BY StepStatus DEF Skip, Goto, objectVars

LEMMA ReconcileStepStatus ==
    ASSUME KnownInv, ConvergenceInv, UnsupportedStaysUnobserved, StatusInv,
           ReconcileStep
    PROVE  StatusInv'
<1>1. TypeInv /\ (localFresh => /\ server \in Objects /\ server # Absent
                               /\ local \in Objects /\ local # Absent)
  BY AbsentAssumption DEF KnownInv, TypeInv, TypeOK, Copies
<1>2. localFresh => /\ local.gen = server.gen /\ local.spec = server.spec
                    /\ ReadyGen(local) = ReadyGen(server)
                    /\ server.gen \in Nat /\ server.gen >= 1
                    /\ ReadyGen(server) \in Nat
  BY <1>1 DEF KnownInv, ConvergenceInv, CopiesAgree, ReadyInv, ReadyGen,
              Objects, Statuses, Conditions, CondTypes
<1>3. CASE StartReconcile
  <2>1. /\ UNCHANGED <<server, cached>>
        /\ \/ UNCHANGED <<pc, local, localFresh>>
           \/ /\ local' = cached /\ localFresh' = cacheFresh
              /\ pc' # "backendFailed"
    BY <1>3 DEF StartReconcile, objectVars
  <2>2. cacheFresh => cached = server
    BY <1>1 DEF TypeInv, Copies
  <2> QED BY <2>1, <2>2, StepStatus
<1>4. CASE RemoveFinalizer
  <2>1. CASE PutObject(Absent, Finish, Requeue)
    <3>1. Sound(Absent)
      BY DEF Sound, Started
    <3> QED BY <1>1, <2>1, <3>1, PutStatus DEF Finish, Requeue
  <2> QED BY <1>4, <2>1, RefusedStatus DEF RemoveFinalizer, PutCluster
<1>5. CASE AddFinalizer
  <2>1. CASE local.finalizer
    BY <1>5, <2>1, SkipStatus DEF AddFinalizer
  <2>2. CASE ~local.finalizer
    <3> DEFINE new == [server EXCEPT !.finalizer = TRUE]
    <3>1. PutCluster(new, Goto("phase", new, TRUE), Requeue)
      BY <1>5, <2>2 DEF AddFinalizer
    <3>2. localFresh => /\ new.gen = server.gen /\ new.spec = server.spec
                        /\ new.status = server.status
      BY <1>1 DEF Objects
    <3> HIDE DEF new
    <3>3. localFresh => Sound(new)
      BY <1>1, <3>2 DEF StatusInv, Sound, Started, Reporting, ReadyGen
    <3>4. CASE PutObject(new, Goto("phase", new, TRUE), Requeue)
      BY <1>1, <3>3, <3>4, PutStatus DEF Goto, Requeue
    <3> QED BY <3>1, <3>4, RefusedStatus DEF PutCluster
  <2> QED BY <2>1, <2>2
<1>6. CASE SetPendingPhase
  <2>1. CASE local.status.phase # ""
    BY <1>6, <2>1, SkipStatus DEF SetPendingPhase
  <2>2. CASE ~(local.status.phase # "")
    <3> DEFINE verdict == [Progressing |-> "True"]
               set     == SetConditions(local.status.conditions, local.gen,
                                        verdict)
               status  == [local.status EXCEPT !.phase = "Pending",
                                               !.conditions = set]
               new     == [server EXCEPT !.status = status]
    <3>1. PutObject(new, Goto("backend", new, TRUE), Requeue)
      BY <1>6, <2>2 DEF SetPendingPhase
    <3>2. set["Ready"] = local.status.conditions["Ready"]
      BY DEF SetConditions, CondTypes
    <3>3. localFresh => status.phase = "Pending" /\ status.conditions = set
      BY <1>1 DEF Objects, Statuses
    <3>4. localFresh => ReadyGen(local) = 0
      BY <1>1, <2>2 DEF StatusInv, Started
    <3> HIDE DEF set, status
    <3>5. localFresh => status.conditions["Ready"].gen = 0 /\ server.gen # 0
      BY <1>2, <3>2, <3>3, <3>4 DEF ReadyGen
    <3>6. localFresh => Sound(new)
      BY <1>1, <3>5, NewStatusSound
    <3> HIDE DEF new
    <3> QED BY <1>1, <3>1, <3>6, PutStatus DEF Goto, Requeue
  <2> QED BY <2>1, <2>2
<1>7. CASE ReconcileEmbeddedBackend
  <2>1. local.spec.backend \in Backends
    BY <1>1, <1>7, LocalType, StatusType, SpecsAssumption
       DEF ReconcileEmbeddedBackend, AllSpecs
  <2>2. \/ Skip("redisDeployment") \/ Skip("configMap")
        \/ Skip("backendFailed") /\ local.spec.backend = "unsupported"
    BY <1>7, <2>1 DEF ReconcileEmbeddedBackend, Backends
  <2> QED BY <2>2, SkipStatus
<1>8. pc \in {"redisDeployment", "redisService"} => local.spec.backend = "redis"
  BY DEF ConvergenceInv, LocalKnown
<1>9. CASE ReconcileRedisDeployment
  BY <1>8, <1>9, EnsureStatus DEF ReconcileRedisDeployment, Goto, Kinds
<1>10. CASE ReconcileRedisService
  <2> DEFINE set    == SetConditions(local.status.conditions, local.gen,
                                     [BackendReady |-> "True"])
             marked == [local EXCEPT !.status.conditions = set]
  <2>1. /\ UNCHANGED <<server, cached>>
        /\ Goto("configMap", marked, localFresh) \/ BackendFailed
    BY <1>10 DEF ReconcileRedisService, Ensure, CreateOrUpdate, objectVars
  <2>2. local \in Objects /\ local # Absent /\ local.spec.backend = "redis"
    BY <1>1, <1>8, <1>10, LocalType, AbsentAssumption DEF ReconcileRedisService
  <2>3. set["Ready"] = local.status.conditions["Ready"]
    BY DEF SetConditions, CondTypes
  <2>4. /\ marked.spec = local.spec
        /\ marked.status.phase = local.status.phase
        /\ marked.status.conditions = set
    BY <2>2 DEF Objects, Statuses
  <2> HIDE DEF marked, set
  <2>5. ReadyGen(marked) = ReadyGen(local)
    BY <2>3, <2>4 DEF ReadyGen
  <2> QED BY <2>1, <2>2, <2>4, <2>5, StepStatus DEF Goto, BackendFailed
<1>11. CASE ReportBackendFailure
  <2> DEFINE set    == SetConditions(local.status.conditions, local.gen,
                         [BackendReady |-> "False", Degraded |-> "True"])
             status == [local.status EXCEPT !.conditions = set]
             new    == [server EXCEPT !.status = status]
  <2>1. pc = "backendFailed" /\ PutObject(new, Requeue, Requeue)
    BY <1>11 DEF ReportBackendFailure
  <2>2. /\ set["Ready"] = local.status.conditions["Ready"]
        /\ set["BackendReady"].status = "False"
    BY DEF SetConditions, CondTypes
  <2>3. localFresh => /\ status.conditions = set
                      /\ status.phase = local.status.phase
    BY <1>1 DEF Objects, Statuses
  <2> HIDE DEF set, status
  <2>4. localFresh => status.conditions["Ready"].gen = ReadyGen(server)
    BY <1>2, <2>2, <2>3 DEF ReadyGen
  <2>5. localFresh /\ status.phase = "" => status.conditions["Ready"].gen = 0
    BY <1>1, <1>2, <2>3, <2>4 DEF StatusInv, Started
  <2>6. localFresh =>
          \/ status.conditions["Ready"].gen # server.gen
          \/ /\ server.spec.backend = "redis"
             /\ status.conditions["BackendReady"].status # "True"
    <3>1. localFresh => server.spec.backend \in {"redis", "unsupported"}
      BY <1>2, <2>1 DEF StatusInv
    <3>2. localFresh /\ server.spec.backend = "unsupported" =>
            ReadyGen(server) # server.gen
      BY <1>1, <1>2 DEF UnsupportedStaysUnobserved, ReadyGen
    <3> QED BY <2>2, <2>3, <2>4, <3>1, <3>2
  <2>7. localFresh => Sound(new)
    BY <1>1, <2>5, <2>6, NewStatusSound
  <2> HIDE DEF new
  <2> QED BY <1>1, <2>1, <2>7, PutStatus DEF Requeue
<1>12. CASE ReconcileConfigMap \/ ReconcileDeployment \/ ReconcileService
  BY <1>12, EnsureStatus DEF ReconcileConfigMap, ReconcileDeployment,
                             ReconcileService, Goto, Requeue, Kinds
<1>13. CASE ReconcilePDB
  BY <1>13, EnsureStatus, SkipStatus DEF ReconcilePDB, Goto, Requeue, Kinds
<1>14. CASE ReconcileServiceMonitor
  BY <1>14, EnsureStatus, SkipStatus DEF ReconcileServiceMonitor, Goto, Kinds
<1>15. CASE UpdateStatus
  <2> DEFINE status == Report(local, cachedChild["deployment"])
             new    == [server EXCEPT !.status = status]
  <2>1. PutObject(new, Finish, Requeue)
    BY <1>15 DEF UpdateStatus
  <2>2. Computed(status, local.gen) /\ status.phase # ""
    BY ReportComputed
  <2> HIDE DEF status
  <2>3. localFresh => Sound(new)
    BY <1>1, <1>2, <2>2, NewStatusSound
  <2> HIDE DEF new
  <2> QED BY <1>1, <2>1, <2>3, PutStatus DEF Finish, Requeue
<1> QED
  BY <1>3, <1>4, <1>5, <1>6, <1>7, <1>9, <1>10, <1>11, <1>12, <1>13, <1>14,
     <1>15 DEF ReconcileStep

LEMMA EnvironmentStatus ==
    ASSUME KnownInv, StatusInv,
           \/ Informers /\ UNCHANGED bounds
           \/ User
           \/ \E k \in Deployments : PodsSettle(k) \/ PodsFlap(k)
           \/ \E k \in Kinds : DriftChild(k)
           \/ \E k \in Kinds : CollectGarbage(k) /\ UNCHANGED bounds
           \/ Crash \/ ToggleWebhook
    PROVE  StatusInv'
<1>1. ASSUME UNCHANGED <<server, local, localFresh, pc>>,
             cached' \in {cached, server}
      PROVE  StatusInv'
  BY <1>1, StepStatus
<1>2. CASE Informers
  BY <1>1, <1>2 DEF Informers, SyncObject, SyncChild, objectVars
<1>3. CASE User
  <2>1. ASSUME NEW STATE new, WriteObject(new), Sound(new)
        PROVE  StatusInv'
    <3>1. server' = new /\ ~localFresh' /\ UNCHANGED <<cached, local, pc>>
      BY <2>1 DEF WriteObject
    <3>2. Sound(server')
      BY <2>1, <3>1 DEF Sound, Started, Reporting, Computed, ReadyGen
    <3> QED BY <3>1, <3>2, StepStatus
  <2>2. ASSUME NEW s \in Specs, CreateCluster(s)
        PROVE  StatusInv'
    <3> DEFINE new == [uid |-> uids + 1, gen |-> 1, spec |-> s,
                       finalizer |-> FALSE, deleting |-> FALSE,
                       status |-> NoStatus]
    <3>1. WriteObject(new)
      BY <2>2 DEF CreateCluster
    <3>2. NoStatus.conditions["Ready"].gen = 0
      BY DEF NoStatus, CondTypes
    <3>3. new.gen = 1 /\ new.status = NoStatus
      OBVIOUS
    <3> HIDE DEF new
    <3>4. ReadyGen(new) = 0 /\ new.gen # 0
      BY <3>2, <3>3 DEF ReadyGen
    <3>5. Sound(new)
      BY <3>4 DEF Sound, Started, Reporting
    <3> QED BY <2>1, <3>1, <3>5
  <2>3. ASSUME NEW STATE new, WriteObject(new), server # Absent,
               new # Absent => /\ new.gen = server.gen + 1
                               /\ new.status = server.status
        PROVE  StatusInv'
    <3>1. /\ server.gen \in Nat /\ ReadyGen(server) \in Nat
          /\ ReadyGen(server) <= server.gen
      BY <2>3, GenerationTypes
         DEF KnownInv, TypeInv, TypeOK, ObservedInv, ReadyGen, CondTypes
    <3>2. new # Absent => ReadyGen(new) = ReadyGen(server)
      BY <2>3 DEF ReadyGen
    <3>3. new # Absent => ReadyGen(new) # new.gen
      BY <2>3, <3>1, <3>2
    <3>4. Sound(new)
      BY <2>3, <3>2, <3>3 DEF StatusInv, Sound, Started, Reporting
    <3> QED BY <2>1, <2>3, <3>4
  <2>4. ASSUME NEW s \in Specs, EditSpec(s)
        PROVE  StatusInv'
    <3> DEFINE new == [server EXCEPT !.spec = s, !.gen = @ + 1]
    <3>1. server \in Objects /\ server # Absent /\ WriteObject(new)
      BY <2>4 DEF EditSpec, KnownInv, TypeInv, TypeOK
    <3>2. new.gen = server.gen + 1 /\ new.status = server.status
      BY <3>1 DEF Objects
    <3> HIDE DEF new
    <3> QED BY <2>3, <3>1, <3>2
  <2>5. CASE DeleteCluster
    <3> DEFINE new == IF server.finalizer
                      THEN [server EXCEPT !.deleting = TRUE, !.gen = @ + 1]
                      ELSE Absent
    <3>1. server \in Objects /\ server # Absent /\ WriteObject(new)
      BY <2>5 DEF DeleteCluster, KnownInv, TypeInv, TypeOK
    <3>2. new # Absent => /\ new.gen = server.gen + 1
                          /\ new.status = server.status
      BY <3>1 DEF Objects
    <3> HIDE DEF new
    <3> QED BY <2>3, <3>1, <3>2
  <2> QED BY <1>3, <2>2, <2>4, <2>5 DEF User
<1>4. CASE \/ \E k \in Deployments : PodsSettle(k) \/ PodsFlap(k)
           \/ \E k \in Kinds : DriftChild(k)
           \/ \E k \in Kinds : CollectGarbage(k) /\ UNCHANGED bounds
  <2>1. \E k, new : WriteChild(k, new)
    BY <1>4 DEF PodsSettle, PodsFlap, DriftChild, CollectGarbage
  <2>2. UNCHANGED <<server, cached, local, localFresh, pc>>
    BY <2>1 DEF WriteChild, objectVars, runVars
  <2> QED BY <1>1, <2>2
<1>5. CASE Crash
  BY <1>5, StepStatus DEF Crash, Restart, Requeue, Return
<1>6. CASE ToggleWebhook
  BY <1>1, <1>6 DEF ToggleWebhook, objectVars, runVars
<1> QED BY <1>2, <1>3, <1>4, <1>5, <1>6

\* A status that reports on the latest generation is one verdict: phase and
\* conditions agree, whatever failures were reported in between.
THEOREM StatusInductive == Spec => []StatusInv
<1>1. Init => StatusInv
  BY DEF Init, StatusInv, Sound, Started
<1>2. KnownInv /\ ConvergenceInv /\ UnsupportedStaysUnobserved /\ StatusInv
      /\ [Next]_vars => StatusInv'
  <2> SUFFICES ASSUME KnownInv, ConvergenceInv, UnsupportedStaysUnobserved,
                      StatusInv, [Next]_vars
               PROVE  StatusInv'
    OBVIOUS
  <2>1. CASE UNCHANGED vars
    BY <2>1, StepStatus DEF vars, objectVars, runVars
  <2> QED BY <2>1, ReconcileStepStatus, EnvironmentStatus DEF Next
<1> QED BY <1>1, <1>2, TypeCorrect, ObservedInductive, FinalizerInductive,
           ReadyInductive, ConvergenceInductive,
           UnsupportedStaysUnobservedCorrect, PTL DEF Spec, KnownInv

\* The status of a cluster that has converged is the one that the next pass
\* will compute.
LEMMA ConvergedStatus ==
    ASSUME TypeInv, StatusInv, server # Absent, Converged
    PROVE  server.status = Report(server, children["deployment"])
<1> DEFINE dep     == children["deployment"]
           r       == dep.rollout
           status  == server.status
           phase   == PhaseOf(r)
           verdict == VerdictOf(phase)
<1>1. "deployment" \in Owned /\ "deployment" \in Kinds
      /\ Wants("deployment", server.spec)
  BY DEF Owned, Kinds, Wants
<1>2. /\ dep # Absent /\ dep \in Children
      /\ r.ready \in Nat /\ r.replicas \in Nat
  BY <1>1 DEF Converged, ChildInPlace, TypeInv, TypeOK, Children, Rollouts
<1>3. status \in Statuses /\ server.gen \in Nat
  BY DEF TypeInv, TypeOK, Objects
<1>4. /\ status.rollout = r
      /\ status.conditions["Ready"].gen = server.gen
      /\ status.phase = "Running" <=> r.ready = r.replicas /\ r.ready > 0
      /\ status.conditions["Available"].status = "True" <=> r.ready > 0
      /\ server.spec.backend = "redis" =>
           status.conditions["BackendReady"]
             = [status |-> "True", gen |-> server.gen]
  BY DEF Converged, StatusCurrent, CondTypes
<1>5. Computed(status, server.gen)
  BY <1>4 DEF StatusInv, Sound, Reporting, ReadyGen
<1>6. status.conditions["Available"].status = "True"
        <=> status.phase # "Pending"
  <2>1. VerdictOf(status.phase)["Available"] = "True"
          <=> status.phase # "Pending"
    BY DEF VerdictOf
  <2>2. "Available" \in Verdict
    BY DEF Verdict, CondTypes
  <2>3. status.conditions["Available"]
          = [status |-> VerdictOf(status.phase)["Available"],
             gen    |-> server.gen]
    BY <1>5, <2>2 DEF Computed
  <2> QED BY <2>1, <2>3
<1>7. status.phase = phase
  BY <1>2, <1>4, <1>5, <1>6 DEF Computed, PhaseOf
<1> HIDE DEF phase
<1>8. DOMAIN verdict = Verdict
  BY DEF VerdictOf, Verdict, CondTypes
<1>9. \A t \in Verdict :
        status.conditions[t] = [status |-> verdict[t], gen |-> server.gen]
  BY <1>5, <1>7 DEF Computed
<1> HIDE DEF verdict
<1>10. SetConditions(status.conditions, server.gen, verdict) = status.conditions
  BY <1>3, <1>8, <1>9 DEF SetConditions, Statuses, Conditions
<1>11. status = [phase |-> phase, conditions |-> status.conditions,
                 rollout |-> r]
  BY <1>3, <1>4, <1>7 DEF Statuses
<1>12. Report(server, dep) =
         [phase      |-> phase,
          conditions |-> SetConditions(status.conditions, server.gen, verdict),
          rollout    |-> r]
  BY <1>2 DEF Report, phase, verdict
<1> QED BY <1>10, <1>11, <1>12

\* A request about a child that is in place stores what is there.
LEMMA InPlaceKept ==
    ASSUME TypeInv, ConvergenceInv, localFresh, NEW k \in Kinds,
           ChildInPlace(k), NEW ACTION Done, NEW ACTION Failed,
           Ensure(k, Done, Failed)
    PROVE  UNCHANGED <<server, children>>
<1> DEFINE have == children[k]
           new  == [owner   |-> local.uid,
                    content |-> Desired(k, local.spec),
                    rollout |-> have.rollout]
<1>1. have # Absent /\ have \in Children
  BY DEF ChildInPlace, TypeInv, TypeOK
<1>2. local.uid = server.uid /\ local.spec = server.spec
  BY DEF ConvergenceInv, CopiesAgree
<1>3. new = have
  BY <1>1, <1>2 DEF ChildInPlace, Children
<1>4. UNCHANGED children \/ children' = [children EXCEPT ![k] = new]
  BY <1>1 DEF Ensure, CreateOrUpdate
<1>5. UNCHANGED server
  BY DEF Ensure, CreateOrUpdate, objectVars
<1>6. [children EXCEPT ![k] = children[k]] = children
  BY DEF TypeInv, TypeOK
<1> HIDE DEF new
<1> QED BY <1>3, <1>4, <1>5, <1>6

LEMMA SteadyStep ==
    ASSUME KnownInv, ConvergenceInv, StatusInv, ReconcileStep,
           pc \notin {"idle", "backendFailed"}, localFresh,
           freshChild = Owned, Converged
    PROVE  UNCHANGED server /\ \A k \in Owned : children'[k] = children[k]
<1>1. /\ TypeInv /\ server \in Objects /\ server # Absent /\ local \in Objects
      /\ local.gen = server.gen /\ local.spec = server.spec
      /\ local.finalizer = server.finalizer
      /\ local.deleting = server.deleting
  BY DEF KnownInv, TypeInv, TypeOK, Copies, ConvergenceInv, CopiesAgree
<1>2. \A k \in Owned : cachedChild[k] = children[k]
  BY DEF ConvergenceInv, CopiesAgree
<1>3. ASSUME UNCHANGED <<server, children>>
      PROVE  UNCHANGED server /\ \A k \in Owned : children'[k] = children[k]
  BY <1>3
<1>4. ASSUME NEW next, Skip(next)
      PROVE  UNCHANGED <<server, children>>
  BY <1>4 DEF Skip, objectVars, childVars
<1>5. ASSUME NEW k \in Owned, NEW ACTION Done, NEW ACTION Failed,
             Ensure(k, Done, Failed), Wants(k, server.spec)
      PROVE  UNCHANGED <<server, children>>
  <2>1. k \in Kinds /\ ChildInPlace(k)
    BY <1>5 DEF Converged, Owned
  <2> QED BY <1>1, <1>5, <2>1, InPlaceKept
<1>6. CASE \/ StartReconcile \/ ReportBackendFailure
           \/ ReconcileEmbeddedBackend
  BY <1>4, <1>6 DEF StartReconcile, ReportBackendFailure,
                    ReconcileEmbeddedBackend
<1>7. CASE RemoveFinalizer \/ AddFinalizer
  BY <1>1, <1>4, <1>7 DEF RemoveFinalizer, AddFinalizer, Converged,
                          ConvergenceInv, LocalKnown
<1>8. CASE SetPendingPhase
  <2>1. ReadyGen(server) = server.gen
    BY DEF Converged, StatusCurrent, ReadyGen, CondTypes
  <2>2. ReadyGen(local) = ReadyGen(server) /\ server.gen # 0
    BY <1>1 DEF KnownInv, ReadyInv, Objects
  <2>3. local # Absent /\ (local.status.phase = "" => ReadyGen(local) = 0)
    BY <1>1, AbsentAssumption DEF StatusInv, Started
  <2>4. local.status.phase # ""
    BY <2>1, <2>2, <2>3
  <2> QED BY <1>4, <1>8, <2>4 DEF SetPendingPhase
<1>9. CASE ReconcileRedisDeployment \/ ReconcileRedisService
  <2>1. local.spec.backend = "redis"
    BY <1>9 DEF ReconcileRedisDeployment, ReconcileRedisService,
                ConvergenceInv, LocalKnown
  <2>2. \A k \in {"redisDeployment", "redisService"} :
          k \in Owned /\ Wants(k, server.spec)
    BY <1>1, <2>1 DEF Owned, Kinds, Wants
  <2> QED BY <1>5, <1>9, <2>2
          DEF ReconcileRedisDeployment, ReconcileRedisService
<1>10. CASE ReconcileConfigMap \/ ReconcileDeployment \/ ReconcileService
  <2>1. \A k \in {"configMap", "deployment", "service"} :
          k \in Owned /\ Wants(k, server.spec)
    BY DEF Owned, Kinds, Wants
  <2> QED BY <1>5, <1>10, <2>1
          DEF ReconcileConfigMap, ReconcileDeployment, ReconcileService
<1>11. CASE ReconcilePDB
  <2>1. "disruptionBudget" \in Owned
    BY DEF Owned, Kinds
  <2> QED BY <1>1, <1>4, <1>5, <1>11, <2>1 DEF ReconcilePDB
<1>12. CASE ReconcileServiceMonitor
  <2>1. CASE Wants("serviceMonitor", local.spec)
    <3>1. /\ UNCHANGED server
          /\ \/ UNCHANGED children
             \/ \E new :
                  children' = [children EXCEPT !["serviceMonitor"] = new]
      BY <1>12, <2>1 DEF ReconcileServiceMonitor, Ensure, CreateOrUpdate,
                         objectVars
    <3> QED BY <1>1, <3>1 DEF TypeInv, TypeOK, Owned
  <2> QED BY <1>4, <1>12, <2>1 DEF ReconcileServiceMonitor
<1>13. CASE UpdateStatus
  <2> DEFINE status == Report(local, cachedChild["deployment"])
             new    == [server EXCEPT !.status = status]
  <2>1. pc = "status" /\ UNCHANGED children
        /\ (UNCHANGED server \/ server' = new)
    BY <1>13 DEF UpdateStatus, PutObject, Store, childVars
  <2>2. /\ "deployment" \in Owned
        /\ children["deployment"] # Absent
    BY DEF Converged, ChildInPlace, Owned, Kinds, Wants
  <2>3. local.status.conditions["BackendReady"]
          = server.status.conditions["BackendReady"]
    <3>1. CASE server.spec.backend = "redis"
      BY <1>1, <2>1, <3>1 DEF Converged, StatusCurrent, ConvergenceInv,
                              LocalKnown, ServerSteps
    <3>2. CASE server.spec.backend # "redis"
      BY <1>1, <3>2 DEF StatusInv
    <3> QED BY <3>1, <3>2
  <2>4. status = Report(server, children["deployment"])
    <3>1. ASSUME NEW verdict, DOMAIN verdict = Verdict
          PROVE  SetConditions(local.status.conditions, local.gen, verdict)
                   = SetConditions(server.status.conditions, server.gen,
                                   verdict)
      BY <1>1, <2>3, <3>1 DEF SetConditions, Verdict, CondTypes
    <3>2. \A phase : DOMAIN VerdictOf(phase) = Verdict
      BY DEF VerdictOf, Verdict, CondTypes
    <3> QED BY <1>2, <2>2, <3>1, <3>2 DEF Report
  <2>5. new = server
    <3>1. server.status = status
      BY <1>1, <2>4, ConvergedStatus
    <3> HIDE DEF status
    <3> QED BY <1>1, <3>1 DEF Objects
  <2> HIDE DEF new
  <2> QED BY <1>3, <2>1, <2>5
<1> QED BY <1>3, <1>6, <1>7, <1>8, <1>9, <1>10, <1>11, <1>12, <1>13
        DEF ReconcileStep

\* Once a cluster has converged the controller's own writes store what is there
\* already: the Updates it sends on every pass wake nobody, and a pass ends
\* where it began, whatever came before.
THEOREM SteadyStateCorrect == Spec => SteadyState
<1>1. KnownInv /\ ConvergenceInv /\ StatusInv /\ [Next]_vars
      => [ /\ ReconcileStep /\ pc \notin {"idle", "backendFailed"}
           /\ localFresh /\ freshChild = Owned /\ Converged
           => /\ UNCHANGED server
              /\ \A k \in Owned : children'[k] = children[k] ]_vars
  BY SteadyStep
<1> QED BY <1>1, TypeCorrect, ObservedInductive, FinalizerInductive,
           ReadyInductive, ConvergenceInductive, StatusInductive, PTL
        DEF Spec, SteadyState, KnownInv

===============================================================================
