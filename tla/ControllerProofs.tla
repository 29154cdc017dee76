--------------------------- MODULE ControllerProofs ---------------------------
(***************************************************************************)
(* What the proofs about both reconcilers share: the steps of the API, the *)
(* manager and the frame of Reconcile keep CopyInv and SpecInv, and forget *)
(* no work, for any resource and any Process in between.                   *)
(***************************************************************************)
EXTENDS Controller, TLAPS

LEMMA InitTypes ==
  ASSUME NEW objects, NEW places, NoObj \notin objects, EarlierObjs \subseteq objects \cup {NoObj},
         ControllerInit
  PROVE  ControllerTypeOK(objects, places)
<1>1. {cacheCurrent, workCurrent, queued, delayed} \subseteq BOOLEAN
  BY DEF ControllerInit
<1> QED
  BY <1>1 DEF ControllerInit, ControllerTypeOK

\* Users write resources; the manager copies them.
LEMMA OutsideKeepsTypes ==
  ASSUME NEW objects, NEW places, ControllerTypeOK(objects, places),
         \/ \E o \in objects \cup {NoObj} : Written(o)
         \/ CacheSync \/ Resync \/ Timer \/ RestartController
  PROVE  ControllerTypeOK(objects, places)'
<1> USE DEF queueVars, clusterVars, workerVars
<1>1. {cacheCurrent, workCurrent, queued, delayed}' \subseteq BOOLEAN
  BY DEF ControllerTypeOK, Written, CacheSync, Resync, Timer, RestartController
<1>2. CASE \E o \in objects \cup {NoObj} : Written(o)
  BY <1>1, <1>2 DEF Written, ControllerTypeOK
<1>3. CASE CacheSync \/ Resync \/ Timer
  BY <1>1, <1>3 DEF CacheSync, Resync, Timer, ControllerTypeOK
<1>4. CASE RestartController
  BY <1>1, <1>4 DEF RestartController, ControllerTypeOK
<1> QED
  BY <1>2, <1>3, <1>4

LEMMA ReadingKeepsTypes ==
  ASSUME NEW objects, NEW places, ControllerTypeOK(objects, places), NoObj \notin objects,
         \/ GetNotFound \/ GetFails
         \/ \E copy \in objects, first \in places \ {"idle"} : GetObject(copy, first)
         \/ \E from, to \in places \cup {"retry", "failed", "complete", "finalize"} :
              from # "idle" /\ to # "idle" /\ WorkerAt(from, to)
         \/ \E step : SkipAt(step)
         \/ UNCHANGED controllerVars
  PROVE  ControllerTypeOK(objects, places)'
<1> USE DEF queueVars, clusterVars, workerVars
<1>1. {cacheCurrent, workCurrent, queued, delayed}' \subseteq BOOLEAN
  BY DEF ControllerTypeOK, GetNotFound, GetFails, Dequeue, Return, GetObject, WorkerAt, SkipAt,
         controllerVars
<1>2. CASE GetNotFound \/ GetFails
  BY <1>1, <1>2 DEF GetNotFound, GetFails, Return, ControllerTypeOK
<1>3. CASE \E copy \in objects, first \in places \ {"idle"} : GetObject(copy, first)
  BY <1>1, <1>3 DEF GetObject, ControllerTypeOK
<1>4. CASE \E from, to \in places \cup {"retry", "failed", "complete", "finalize"} :
              from # "idle" /\ to # "idle" /\ WorkerAt(from, to)
  BY <1>1, <1>4 DEF WorkerAt, ControllerTypeOK
<1>5. CASE \E step : SkipAt(step)
  BY <1>1, <1>5 DEF SkipAt, Return, ControllerTypeOK
<1>6. CASE UNCHANGED controllerVars
  BY <1>1, <1>6 DEF controllerVars, ControllerTypeOK
<1> QED
  BY <1>2, <1>3, <1>4, <1>5, <1>6

LEMMA WritingKeepsTypes ==
  ASSUME NEW objects, NEW places, ControllerTypeOK(objects, places),
         NEW report \in objects \cup {NoObj},
         WriteOk(report) \/ WriteConflict \/ WriteFails(report)
  PROVE  ControllerTypeOK(objects, places)'
<1>1. {cacheCurrent, workCurrent, queued, delayed}' \subseteq BOOLEAN
  BY DEF ControllerTypeOK, WriteOk, WriteConflict, WriteFails, UpdateApplies, Return,
         clusterVars
<1>2. /\ UNCHANGED cache /\ obj' \in {obj, report}
      /\ pc' = "idle" /\ work' = NoObj
  BY DEF WriteOk, WriteConflict, WriteFails, UpdateApplies, Return, clusterVars
<1> QED
  BY <1>1, <1>2 DEF ControllerTypeOK

-----------------------------------------------------------------------------
(* Versions.                                                               *)

\* Steps of users and of the manager, whatever a user writes.
LEMMA OutsideKeepsCopies ==
  ASSUME CopyInv,
         \/ \E o : Written(o)
         \/ CacheSync \/ Resync \/ Timer \/ RestartController
  PROVE  CopyInv'
<1>1. CASE \E o : Written(o)
  BY <1>1 DEF Written, queueVars, CopyInv
<1>2. CASE CacheSync
  BY <1>2 DEF CacheSync, workerVars, CopyInv
<1>3. CASE Resync
  BY <1>3 DEF Resync, clusterVars, workerVars, CopyInv
<1>4. CASE Timer
  BY <1>4 DEF Timer, clusterVars, workerVars, CopyInv
<1>5. CASE RestartController
  BY <1>5 DEF RestartController, CopyInv
<1> QED
  BY <1>1, <1>2, <1>3, <1>4, <1>5

\* Reading a resource, and processing it up to the result.
LEMMA ReadingKeepsCopies ==
  ASSUME CopyInv,
         \/ GetNotFound \/ GetFails
         \/ \E copy, first : first # "idle" /\ GetObject(copy, first)
         \/ \E from, to : from # "idle" /\ to # "idle" /\ WorkerAt(from, to)
         \/ \E step : SkipAt(step)
         \/ UNCHANGED controllerVars
  PROVE  CopyInv'
<1> USE DEF clusterVars, queueVars, workerVars
<1>1. CASE GetNotFound
  BY <1>1 DEF GetNotFound, Dequeue, CopyInv
<1>2. CASE GetFails
  BY <1>2 DEF GetFails, Dequeue, Return, CopyInv
<1>3. CASE \E copy, first : first # "idle" /\ GetObject(copy, first)
  BY <1>3 DEF GetObject, Dequeue, CopyInv
<1>4. CASE \E from, to : from # "idle" /\ to # "idle" /\ WorkerAt(from, to)
  BY <1>4 DEF WorkerAt, CopyInv
<1>5. CASE \E step : SkipAt(step)
  BY <1>5 DEF SkipAt, Return, CopyInv
<1>6. CASE UNCHANGED controllerVars
  BY <1>6 DEF controllerVars, CopyInv
<1> QED
  BY <1>1, <1>2, <1>3, <1>4, <1>5, <1>6

\* Writing a result back.
LEMMA WritingKeepsCopies ==
  ASSUME CopyInv, NEW report, WriteOk(report) \/ WriteConflict \/ WriteFails(report)
  PROVE  CopyInv'
<1>1. CASE WriteOk(report)
  BY <1>1 DEF WriteOk, UpdateApplies, Return, CopyInv
<1>2. CASE WriteConflict
  BY <1>2 DEF WriteConflict, Return, clusterVars, CopyInv
<1>3. CASE WriteFails(report)
  BY <1>3 DEF WriteFails, UpdateApplies, Return, CopyInv
<1> QED
  BY <1>1, <1>2, <1>3

-----------------------------------------------------------------------------
(* No work is forgotten.                                                   *)

\* Users and the manager wake the worker.
LEMMA OutsideForgetsNothing ==
  ASSUME \/ \E o : Written(o)
         \/ CacheSync \/ Resync \/ Timer \/ RestartController
  PROVE  ~Forgotten'
BY DEF Written, CacheSync, Resync, Timer, RestartController, Forgotten, Awake

\* Returning without a write leaves nothing to do, or a timer.
LEMMA ReadingForgetsNothing ==
  ASSUME CopyInv,
         \/ GetNotFound \/ GetFails
         \/ \E copy, first : first # "idle" /\ GetObject(copy, first)
         \/ \E from, to : from # "idle" /\ to # "idle" /\ WorkerAt(from, to)
  PROVE  ~Forgotten'
<1>1. CASE GetNotFound
  BY <1>1 DEF GetNotFound, clusterVars, CopyInv, Forgotten, Awake
<1>2. CASE GetFails
  BY <1>2 DEF GetFails, Return, Forgotten, Awake
<1>3. CASE \E copy, first : first # "idle" /\ GetObject(copy, first)
  BY <1>3 DEF GetObject, Forgotten, Awake
<1>4. CASE \E from, to : from # "idle" /\ to # "idle" /\ WorkerAt(from, to)
  BY <1>4 DEF WorkerAt, Forgotten, Awake
<1> QED
  BY <1>1, <1>2, <1>3, <1>4

\* A worker that skips has seen the current version, or it is queued again.
LEMMA SkippingForgetsNothing ==
  ASSUME CopyInv, NEW step, step # "idle", SkipAt(step),
         workCurrent => work.spec = obj.spec /\ work.hash = obj.hash
                          /\ work.deleting = obj.deleting
  PROVE  ~Forgotten'
BY DEF SkipAt, Return, clusterVars, CopyInv, NeedsSynchronization, Forgotten, Awake

\* A write that changes something is seen by the watch; an error of Update, or
\* one that the report tells of, starts a timer, unless it is not retried.
LEMMA WritingForgetsNothing ==
  ASSUME ~ClientDryRun, CopyInv, pc # "failed", NEW report,
         WriteOk(report) \/ WriteConflict \/ WriteFails(report)
  PROVE  ~Forgotten'
<1>1. CASE WriteOk(report)
  BY <1>1 DEF WriteOk, UpdateApplies, WritesNothing, Return, Forgotten, Awake
<1>2. CASE WriteConflict
  BY <1>2 DEF WriteConflict, Requeued, Return, Forgotten, Awake
<1>3. CASE WriteFails(report)
  BY <1>3 DEF WriteFails, Requeued, Return, Forgotten, Awake
<1> QED
  BY <1>1, <1>2, <1>3

-----------------------------------------------------------------------------
(* No copy is older than a version that claims to be synchronized, unless  *)
(* it declares the same.                                                   *)

\* A write of a user does not make a resource count as synchronized.
LEMMA WrittenKeepsSpec ==
  ASSUME SpecInv, NEW o, Written(o),
         Synced(o) => Synced(obj) /\ o.spec = obj.spec
  PROVE  SpecInv'
BY DEF Written, SpecInv, Synced, NeedsSynchronization

LEMMA ManagerKeepsSpec ==
  ASSUME SpecInv, CacheSync \/ Resync \/ Timer \/ RestartController
  PROVE  SpecInv'
<1> USE DEF clusterVars, workerVars, SpecInv, Synced, NeedsSynchronization
<1>1. CASE CacheSync
  BY <1>1 DEF CacheSync
<1>2. CASE Resync \/ Timer
  BY <1>2 DEF Resync, Timer
<1>3. CASE RestartController
  BY <1>3 DEF RestartController
<1> QED
  BY <1>1, <1>2, <1>3

\* The worker's copy has the declaration of the cache.
LEMMA ReadingKeepsSpec ==
  ASSUME SpecInv,
         \/ GetNotFound \/ GetFails
         \/ \E copy, first : /\ copy.spec = cache.spec /\ copy.deleting = cache.deleting
                            /\ GetObject(copy, first)
         \/ \E from, to : from # "idle" /\ WorkerAt(from, to)
         \/ \E step : SkipAt(step)
         \/ UNCHANGED controllerVars
  PROVE  SpecInv'
<1> USE DEF clusterVars, workerVars, SpecInv, Synced, NeedsSynchronization
<1>1. CASE GetNotFound
  BY <1>1 DEF GetNotFound
<1>2. CASE GetFails
  BY <1>2 DEF GetFails, Return
<1>3. CASE \E copy, first : /\ copy.spec = cache.spec /\ copy.deleting = cache.deleting
                            /\ GetObject(copy, first)
  BY <1>3 DEF GetObject
<1>4. CASE \E from, to : from # "idle" /\ WorkerAt(from, to)
  BY <1>4 DEF WorkerAt
<1>5. CASE \E step : SkipAt(step)
  BY <1>5 DEF SkipAt, Return
<1>6. CASE UNCHANGED controllerVars
  BY <1>6 DEF controllerVars
<1> QED
  BY <1>1, <1>2, <1>3, <1>4, <1>5, <1>6

\* A write of the worker replaces the version of its copy, which the cache has.
LEMMA WritingKeepsSpec ==
  ASSUME SpecInv, CopyInv, NEW report,
         workCurrent /\ Synced(report) => ~obj.deleting /\ report.spec = obj.spec,
         WriteOk(report) \/ WriteConflict \/ WriteFails(report)
  PROVE  SpecInv'
<1>1. pc' = "idle" /\ UNCHANGED cache
  BY DEF WriteOk, WriteConflict, WriteFails, Return, clusterVars
<1>2. CASE UNCHANGED obj
  BY <1>1, <1>2 DEF SpecInv, Synced, NeedsSynchronization
<1>3. CASE workCurrent /\ obj' = report
  <2>1. cache = obj
    BY <1>3 DEF CopyInv
  <2> QED
    BY <1>1, <1>3, <2>1 DEF SpecInv, Synced, NeedsSynchronization
<1> QED
  BY <1>2, <1>3 DEF WriteOk, WriteConflict, WriteFails, UpdateApplies, clusterVars

=============================================================================
