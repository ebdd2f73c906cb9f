-------------------------- MODULE ControllerRuntime --------------------------
(***************************************************************************)
(* What the reconcilers of this operator get from controller-runtime and   *)
(* from the Kubernetes API server, for one reconciled object (an           *)
(* OJSCluster or an OJSWorker) and its child objects: the optimistically   *)
(* locked store, the informer caches the client reads from, the            *)
(* de-duplicating work queue, CreateOrUpdate, and the garbage collector.   *)
(* None of this code is in the repository; it is modelled from how         *)
(* internal/controller uses it.                                            *)
(*                                                                         *)
(* A resourceVersion is only ever compared with the stored one, so instead *)
(* of numbering versions the model remembers which copies still carry the  *)
(* stored version: cacheFresh, localFresh and freshChild.                  *)
(***************************************************************************)
EXTENDS Naturals

CONSTANTS
    Absent,     \* the value of an object that does not exist
    MaxFail     \* bound: API requests that fail for reasons of their own

VARIABLES
    server,      \* the stored object, or Absent
    cached,      \* the informer's copy of it
    cacheFresh,  \* cached carries the stored resourceVersion
    local,       \* the copy the running Reconcile call works on
    localFresh,  \* local carries the stored resourceVersion
    children,    \* the stored child objects
    cachedChild, \* the informers' copies of the kinds watched with Owns()
    freshChild,  \* the owned kinds whose copy carries the stored version
    pc,          \* "idle", or the step of Reconcile to run next
    queued,      \* the object's key is in the work queue
    fails        \* API requests that have failed so far

objectVars == <<server, cached, cacheFresh>>
childVars  == <<children, cachedChild, freshChild>>
runVars    == <<pc, local, localFresh, queued>>

NoRollout == [replicas |-> 0, ready |-> 0]

(***************************************************************************)
(* The running Reconcile call.                                             *)
(***************************************************************************)

\* Reconcile goes on to step next with obj as its copy of the object.
Goto(next, obj, fresh) ==
    /\ pc' = next
    /\ local' = obj
    /\ localFresh' = fresh
    /\ UNCHANGED queued

\* Reconcile returns; its copy goes out of scope.
Return == pc' = "idle" /\ local' = Absent /\ localFresh' = FALSE

Finish  == Return /\ UNCHANGED queued   \* return ctrl.Result{}, nil
Requeue == Return /\ queued' = TRUE     \* return an error or a RequeueAfter

(***************************************************************************)
(* Requests of the running call.  Each one may be executed and answered,   *)
(* executed with its answer lost, rejected by the API server, or fail      *)
(* without effect.                                                         *)
(***************************************************************************)

\* A write that changes nothing leaves the resourceVersion as it is.
Store(new) ==
    /\ server' = new
    /\ cacheFresh' = (cacheFresh /\ new = server)

\* Update or Status().Update of the reconciled object: the server rejects
\* (Conflict, NotFound) what does not carry the stored resourceVersion.
PutObject(new, Done, Failed) ==
    /\ UNCHANGED <<cached, childVars>>
    /\ \/ localFresh /\ Store(new) /\ Done /\ UNCHANGED fails
       \/ /\ localFresh /\ Store(new) /\ Failed
          /\ fails < MaxFail /\ fails' = fails + 1
       \/ ~localFresh /\ Failed /\ UNCHANGED <<server, cacheFresh, fails>>
       \/ /\ fails < MaxFail /\ fails' = fails + 1
          /\ Failed /\ UNCHANGED <<server, cacheFresh>>

Watched == DOMAIN cachedChild

\* The client reads watched kinds from the cache, others from the server.
Seen(k) == IF k \in Watched THEN cachedChild[k] ELSE children[k]

UpToDate(k) == k \in Watched => k \in freshChild

\* controllerutil.CreateOrUpdate of child k: Get, mutate (the controller
\* reference and the fields in content), then Create if the Get found nothing,
\* no request if nothing was changed, Update otherwise.  always says that the
\* mutation never compares equal with what the server stores.
CreateOrUpdate(k, owner, content, always, Done, Failed) ==
    LET have     == children[k]
        seen     == Seen(k)
        accepted == IF seen = Absent THEN have = Absent ELSE UpToDate(k)
        new      == [owner   |-> owner,
                     content |-> content,
                     rollout |-> IF have = Absent THEN NoRollout
                                 ELSE have.rollout]
        equal    == /\ seen # Absent /\ ~always
                    /\ seen.owner = owner /\ seen.content = content
        write    == /\ children' = [children EXCEPT ![k] = new]
                    /\ freshChild' = IF new = have THEN freshChild
                                     ELSE freshChild \ {k}
    IN  /\ UNCHANGED <<objectVars, cachedChild>>
        /\ \/ equal /\ Done /\ UNCHANGED <<children, freshChild, fails>>
           \/ ~equal /\ accepted /\ write /\ Done /\ UNCHANGED fails
           \/ /\ ~equal /\ accepted /\ write /\ Failed
              /\ fails < MaxFail /\ fails' = fails + 1
           \/ /\ ~equal /\ ~accepted /\ Failed
              /\ UNCHANGED <<children, freshChild, fails>>
           \/ /\ ~equal /\ fails < MaxFail /\ fails' = fails + 1
              /\ Failed /\ UNCHANGED <<children, freshChild>>

\* Delete of child k by name: NotFound if the server does not have it.
DeleteChild(k, Done, Failed) ==
    LET gone == /\ children' = [children EXCEPT ![k] = Absent]
                /\ freshChild' = freshChild \ {k}
    IN  /\ UNCHANGED <<objectVars, cachedChild>>
        /\ \/ children[k] # Absent /\ gone /\ Done /\ UNCHANGED fails
           \/ /\ children[k] # Absent /\ gone /\ Failed
              /\ fails < MaxFail /\ fails' = fails + 1
           \/ /\ children[k] = Absent /\ Failed
              /\ UNCHANGED <<children, freshChild, fails>>
           \/ /\ fails < MaxFail /\ fails' = fails + 1
              /\ Failed /\ UNCHANGED <<children, freshChild>>

(***************************************************************************)
(* Watches, the work queue and the other clients of the API server.        *)
(***************************************************************************)

\* The For() watch delivers the stored object and enqueues its key.
SyncObject ==
    /\ ~cacheFresh
    /\ cached' = server
    /\ cacheFresh' = TRUE
    /\ queued' = TRUE
    /\ UNCHANGED <<server, childVars, pc, local, localFresh, fails>>

\* An Owns() watch delivers the stored child and enqueues its owner's key.
SyncChild(k) ==
    /\ k \notin freshChild
    /\ cachedChild' = [cachedChild EXCEPT ![k] = children[k]]
    /\ freshChild' = freshChild \cup {k}
    /\ queued' = TRUE
    /\ UNCHANGED <<objectVars, children, pc, local, localFresh, fails>>

\* Another client writes the object: no other copy is up to date any more.
WriteObject(new) ==
    /\ server' = new
    /\ cacheFresh' = FALSE
    /\ localFresh' = FALSE
    /\ UNCHANGED <<cached, childVars, pc, local, queued, fails>>

\* Another client writes child k.
WriteChild(k, new) ==
    /\ new # children[k]
    /\ children' = [children EXCEPT ![k] = new]
    /\ freshChild' = freshChild \ {k}
    /\ UNCHANGED <<objectVars, cachedChild, runVars, fails>>

\* The garbage collector deletes a child whose owner does not exist; one
\* without an owner reference, which would be owner 0, is nobody's garbage.
CollectGarbage(k) ==
    /\ children[k] # Absent /\ children[k].owner # 0
    /\ server # Absent => server.uid # children[k].owner
    /\ WriteChild(k, Absent)

\* The manager dies or loses its lease and another one takes over: the running
\* call is lost, the caches are listed anew and every key is enqueued.
Restart ==
    /\ cached' = server
    /\ cacheFresh' = TRUE
    /\ cachedChild' = [k \in Watched |-> children[k]]
    /\ freshChild' = Watched
    /\ Requeue
    /\ UNCHANGED <<server, children, fails>>
==============================================================================
