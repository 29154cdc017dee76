------------------------------ MODULE Controller ------------------------------
(***************************************************************************)
(* What the Topic and the Stream reconciler share, for one resource: the   *)
(* resource at the Kubernetes API, the informer's cache of it, the work    *)
(* queue and the RequeueAfter timer of controller-runtime (external), and  *)
(* the frame of Reconcile: read the cache, process, write the result back, *)
(* decide on a retry.  One worker at a time holds the key of a resource.   *)
(*                                                                         *)
(* Resource versions are two flags: whether the cache, and whether the     *)
(* worker's copy, is of the version that the API has now.  The cache never *)
(* goes back to an older version.                                          *)
(*                                                                         *)
(* A resource is a record with, among others, these fields:                *)
(*   spec      the declaration, with defaults applied                      *)
(*   hash      status.SynchronizationHash; the hash of a declaration is    *)
(*             the declaration                                             *)
(*   fin       Kafkarator's finalizer is set                               *)
(*   deleting  it has a DeletionTimestamp                                  *)
(***************************************************************************)
EXTENDS Naturals

CONSTANTS
  NoObj,          \* there is no resource
  NoHash,         \* no hash, or the one that sync_all_topics.sh writes
  EarlierObjs,    \* what an earlier process may have left: resources or NoObj
  ClientDryRun    \* the DryRun option of the manager's Kubernetes client

VARIABLES
  obj,            \* the resource at the API
  cache,          \* the resource in the informer's cache
  cacheCurrent,   \* the cache is of the API's version
  queued,         \* the key is in the work queue
  delayed,        \* a RequeueAfter timer runs for the key
  pc,             \* where the worker is in Reconcile
  work,           \* the worker's copy of the resource
  workCurrent     \* that copy is of the API's version

clusterVars == <<obj, cache, cacheCurrent>>
queueVars == <<queued, delayed>>
workerVars == <<pc, work, workCurrent>>
controllerVars == <<obj, cache, cacheCurrent, queued, delayed, pc, work, workCurrent>>

ControllerInit ==
  /\ obj \in EarlierObjs
  /\ cache = obj
  /\ cacheCurrent = TRUE
  /\ queued = (obj # NoObj)
  /\ delayed = FALSE
  /\ pc = "idle"
  /\ work = NoObj
  /\ workCurrent = FALSE

-----------------------------------------------------------------------------
(* Users write to the API.                                                 *)

\* Every write makes a new version; copies of the old one are out of date.
Written(o) ==
  /\ obj' = o
  /\ cacheCurrent' = FALSE
  /\ workCurrent' = FALSE
  /\ UNCHANGED <<cache, queueVars, pc, work>>

\* Without a finalizer a deleted resource is gone at once.
Remove ==
  /\ obj # NoObj
  /\ ~obj.deleting
  /\ Written(IF obj.fin THEN [obj EXCEPT !.deleting = TRUE] ELSE NoObj)

\* scripts/sync_all_topics.sh
ResetHash ==
  /\ obj # NoObj
  /\ obj.hash # NoHash
  /\ Written([obj EXCEPT !.hash = NoHash])

-----------------------------------------------------------------------------
(* The manager: informer, resync and timer.                                *)

\* The watch brings the cache up to date, and the change enqueues the key.
CacheSync ==
  /\ ~cacheCurrent
  /\ cache' = obj
  /\ cacheCurrent' = TRUE
  /\ queued' = TRUE
  /\ UNCHANGED <<obj, delayed, workerVars>>

\* --sync-period: the key is enqueued although nothing changed.
Resync ==
  /\ cache # NoObj
  /\ queued' = TRUE
  /\ UNCHANGED <<clusterVars, delayed, workerVars>>

Timer ==
  /\ delayed
  /\ delayed' = FALSE
  /\ queued' = TRUE
  /\ UNCHANGED <<clusterVars, workerVars>>

\* The process stops anywhere (main.go exits at once, on a signal or an
\* error); the next one lists the resources, all of which are enqueued.
RestartController ==
  /\ cache' = obj
  /\ cacheCurrent' = TRUE
  /\ queued' = (obj # NoObj)
  /\ delayed' = FALSE
  /\ pc' = "idle"
  /\ work' = NoObj
  /\ workCurrent' = FALSE
  /\ UNCHANGED obj

-----------------------------------------------------------------------------
(* Reconcile reads the cache.                                              *)

\* Mutant: the worker keeps its copy.
ReturnWithCopy(requeue) ==
  /\ pc' = "idle"
  /\ UNCHANGED <<work, workCurrent>>
  /\ delayed' = (delayed \/ requeue)

Return(requeue) ==
  /\ pc' = "idle"
  /\ work' = NoObj
  /\ workCurrent' = FALSE
  /\ delayed' = (delayed \/ requeue)

Dequeue == pc = "idle" /\ queued /\ queued' = FALSE

GetNotFound ==
  /\ Dequeue
  /\ cache = NoObj
  /\ UNCHANGED <<clusterVars, delayed, workerVars>>

GetFails == Dequeue /\ Return(TRUE) /\ UNCHANGED clusterVars

\* The worker goes on with a copy of what the cache holds.
GetObject(copy, first) ==
  /\ Dequeue
  /\ cache # NoObj
  /\ work' = copy
  /\ workCurrent' = cacheCurrent
  /\ pc' = first
  /\ UNCHANGED <<clusterVars, delayed>>

-----------------------------------------------------------------------------
(* Reconcile processes the copy.                                           *)

WorkerAt(from, to) ==
  /\ pc = from
  /\ pc' = to
  /\ UNCHANGED <<clusterVars, queueVars, work, workCurrent>>

NeedsSynchronization(o) == o.hash # o.spec

\* What a status of a resource that is not being deleted claims.
Synced(o) == o # NoObj /\ ~o.deleting /\ ~NeedsSynchronization(o)

\* Mutant: the hash is looked at before the deletion.
SkipDeletedAt(step) ==
  /\ pc = step
  /\ ~NeedsSynchronization(work)
  /\ Return(FALSE)
  /\ UNCHANGED <<clusterVars, queued>>

\* The hash says that there is nothing to do: nothing is written either.
SkipAt(step) ==
  /\ pc = step
  /\ ~work.deleting
  /\ ~NeedsSynchronization(work)
  /\ Return(FALSE)
  /\ UNCHANGED <<clusterVars, queued>>

-----------------------------------------------------------------------------
(* Reconcile writes the result back: "retry" and "failed" after an error   *)
(* that is or is not retried, "complete" and "finalize" after a success.   *)

Reporting == pc \in {"retry", "failed", "complete", "finalize"}

\* A dry run's Update is checked by the API and changes nothing; nor does a
\* failure that repeats itself and writes what is there already.
WritesNothing(report) ==
  ClientDryRun \/ (pc \in {"retry", "failed"} /\ report = obj)

\* Mutant: the client is a real one.
AlwaysApplies(report) ==
  /\ workCurrent
  /\ obj' = report
  /\ cacheCurrent' = FALSE

\* Mutant: a conflict is resolved in favour of the worker's copy.
Overwrites(report) ==
  /\ ~ClientDryRun
  /\ obj # NoObj
  /\ obj' = IF report = NoObj THEN NoObj ELSE [obj EXCEPT !.hash = report.hash, !.fin = report.fin]
  /\ cacheCurrent' = FALSE

\* An Update of the current version succeeds.
UpdateApplies(report) ==
  /\ workCurrent
  /\ \/ ~ClientDryRun /\ obj' = report /\ cacheCurrent' = FALSE
     \/ WritesNothing(report) /\ UNCHANGED <<obj, cacheCurrent>>

WriteOk(report) ==
  /\ Reporting
  /\ UpdateApplies(report)
  /\ Return(pc = "retry")
  /\ UNCHANGED <<cache, queued>>

\* Mutant: an error of Update is never retried.
NeverRequeued == FALSE

\* An error of Update is retried after a success; after a failure it is only
\* logged, and the failure itself decides.
Requeued == pc # "failed"

WriteConflict ==
  /\ Reporting
  /\ ~workCurrent
  /\ Return(Requeued)
  /\ UNCHANGED <<clusterVars, queued>>

\* The request does not reach the API, or its answer does not come back.
WriteFails(report) ==
  /\ Reporting
  /\ UpdateApplies(report) \/ UNCHANGED <<obj, cacheCurrent>>
  /\ Return(Requeued)
  /\ UNCHANGED <<cache, queued>>

-----------------------------------------------------------------------------
(* What both reconcilers are checked for.                                  *)

\* The resources and the places that a reconciler adds are its own.
ControllerTypeOK(objects, places) ==
  /\ obj \in objects \cup {NoObj} /\ cache \in objects \cup {NoObj}
  /\ work \in objects \cup {NoObj}
  /\ {cacheCurrent, workCurrent, queued, delayed} \subseteq BOOLEAN
  /\ pc \in places \cup {"idle", "retry", "failed", "complete", "finalize"}
  /\ (work = NoObj) = (pc = "idle")

Awake == queued \/ delayed \/ ~cacheCurrent \/ pc # "idle"

\* There is something to do, but nothing that triggers it.
Forgotten ==
  /\ obj # NoObj
  /\ obj.deleting \/ NeedsSynchronization(obj)
  /\ ~Awake

\* Which copies are of the current version: the cache's is not older than the
\* worker's, and what the worker does not see yet is queued or on its way.
CopyInv ==
  /\ cacheCurrent => cache = obj
  /\ workCurrent => cacheCurrent
  /\ pc = "idle" => ~workCurrent
  /\ pc # "idle" /\ cacheCurrent /\ ~queued => workCurrent

\* As long as users do not return to what was synchronized last: only a copy
\* that declares the same can be older than one that claims to be synchronized.
SpecInv ==
  /\ Synced(obj) /\ cache # NoObj => ~cache.deleting /\ cache.spec = obj.spec
  /\ Synced(obj) /\ pc # "idle" => ~work.deleting /\ work.spec = obj.spec
  /\ Synced(cache) /\ pc # "idle" => ~work.deleting /\ work.spec = cache.spec

\* Nothing is left to do until something happens outside.
AtRest == pc = "idle" /\ ~queued /\ ~delayed /\ cacheCurrent

=============================================================================
