------------------------ MODULE TopicReconcilerProofs ------------------------
(***************************************************************************)
(* Proofs about TopicReconciler, for every set of declarations, users,     *)
(* pools and resources: ReconcilerInv, part by part, and from it that a    *)
(* status is truthful, that nothing is destroyed early or left behind, and *)
(* that no work is forgotten.  The invariants of the two managers carry    *)
(* over, as their calls are run one after the other.                       *)
(***************************************************************************)
EXTENDS TopicReconciler, AclManagerProofs, TopicManagerProofs, ControllerProofs

Places == {"resolve", "revoke", "purge", "grant", "topic"}

LEMMA TypeParts ==
  TypeOK <=> /\ AclTypeOK /\ TopicTypeOK
             /\ ControllerTypeOK(Objects, Places) /\ allowed \in PoolChoices
BY DEF TypeOK, Places

\* What a worker that is not idle has in its hands.
LEMMA WorkFacts ==
  ASSUME TypeOK, pc # "idle"
  PROVE  /\ work \in Objects /\ work.spec \in Declarations
         /\ work.spec.acl \in Seq(Entries) /\ work.spec.config \in Configs
<1>1. work \in Objects
  BY DEF TypeOK, ControllerTypeOK
<1>2. work.spec \in Declarations
  BY <1>1 DEF Objects
<1> QED
  BY <1>1, <1>2, ReconcilerAssumption, AclAssumption

-----------------------------------------------------------------------------
(* The steps, by what they leave alone.                                    *)

\* The steps in which the ACL manager is neither called nor left.
AclIdleStep ==
  \/ User \/ Manager \/ Get \/ ResolveFails \/ PurgeTopic \/ PurgeFails \/ Skip \/ RefusePool
  \/ RunTopic \/ TopicDone \/ Write \/ WriteLost \/ UNCHANGED vars

LEMMA AclIdle == AclIdleStep => UNCHANGED aclVars
BY DEF AclIdleStep, User, Manager, Get, ResolveFails, PurgeTopic, PurgeFails, Skip, RefusePool,
       RunTopic, TopicDone, Write, WriteLost, Local, vars, aclVars, aclCall, aivenVars

LEMMA NextSplitAcl ==
  [Next]_vars =>
    \/ AclIdleStep \/ RunAcls \/ StartRevoke \/ StartGrant
    \/ Restart \/ Revoked \/ AclsFailed \/ StartTopic
BY DEF Next, Reconcile, Process, AclIdleStep

\* The steps in which the topic manager is neither called nor left.
TopicIdleStep ==
  \/ User \/ Manager \/ Get \/ ResolveFails \/ StartRevoke \/ Revoked \/ Skip \/ RefusePool
  \/ StartGrant \/ RunAcls \/ AclsFailed \/ Write \/ WriteLost \/ UNCHANGED vars

LEMMA TopicIdle == TopicIdleStep => UNCHANGED topicVars
BY DEF TopicIdleStep, User, Manager, Get, ResolveFails, StartRevoke, Revoked, Skip, RefusePool,
       StartGrant, RunAcls, AclsFailed, Write, WriteLost, Local, vars, topicVars, topicCall,
       aivenVars

LEMMA NextSplitTopic ==
  [Next]_vars =>
    TopicIdleStep \/ RunTopic \/ StartTopic \/ PurgeTopic \/ PurgeFails \/ TopicDone \/ Restart
BY DEF Next, Reconcile, Process, TopicIdleStep

-----------------------------------------------------------------------------
(* The managers keep their invariants.                                     *)

LEMMA AclPart == ASSUME TypeOK, PlaceInv, AclInv, [Next]_vars PROVE AclInv'
<1>1. CASE AclIdleStep
  BY <1>1, AclIdle, AclNextInv
<1>2. CASE RunAcls
  BY <1>2, AclNextInv DEF RunAcls, AclNext
<1>3. ASSUME NEW ls \in Seq(Entries), Begin(ls) PROVE AclInv'
  <2>1. toAdd = {}
    BY <1>3 DEF Begin, Returned, AclInv
  <2> QED
    BY <1>3, <2>1, NoPlanInv DEF Begin, AclInv, AclTypeOK
<1>4. CASE StartRevoke
  <2>1. <<>> \in Seq(Entries)
    OBVIOUS
  <2> QED
    BY <1>3, <1>4, <2>1 DEF StartRevoke
<1>5. CASE StartGrant
  <2>1. work.spec.acl \in Seq(Entries)
    BY <1>5, WorkFacts DEF StartGrant, WorkerAt
  <2> QED
    BY <1>3, <1>5, <2>1 DEF StartGrant
<1>6. CASE Restart \/ Revoked \/ AclsFailed \/ StartTopic
  <2>1. ResetAcl /\ UNCHANGED aivenAcls
    BY <1>6 DEF Restart, Revoked, AclsFailed, StartTopic, aivenVars
  <2> QED
    BY <2>1, NoPlanInv DEF ResetAcl, AclInv, AclTypeOK
<1> QED
  BY <1>1, <1>2, <1>4, <1>5, <1>6, NextSplitAcl

LEMMA TopicPart == ASSUME TypeOK, PlaceInv, TopicInv, [Next]_vars PROVE TopicInv'
<1>1. CASE TopicIdleStep
  BY <1>1, TopicIdle, TopicNextInv
<1>2. CASE RunTopic
  BY <1>2, TopicNextInv DEF RunTopic, TopicNext
<1>3. CASE StartTopic
  <2>1. work.spec.config \in Configs
    BY <1>3, WorkFacts DEF StartTopic, WorkerAt
  <2> QED
    BY <1>3, <2>1, TopicNextInv DEF StartTopic, TopicNext, TopicSubmit
<1>4. CASE PurgeTopic \/ PurgeFails
  <2>1. topicPc = "idle" /\ UNCHANGED <<topicPc, config>>
    BY <1>4 DEF PurgeTopic, PurgeFails, WorkerAt, PlaceInv, topicCall
  <2>2. aivenTopic' \in {aivenTopic, NoTopic}
    BY <1>4 DEF PurgeTopic, PurgeFails
  <2> QED
    BY <2>1, <2>2 DEF TopicInv, TopicTypeOK, ConfiguredOnSuccess
<1>5. CASE TopicDone \/ Restart
  <2>1. ResetTopic /\ UNCHANGED aivenTopic
    BY <1>5 DEF TopicDone, Restart, aivenVars
  <2> QED
    BY <2>1, QuietStep DEF ResetTopic
<1> QED
  BY <1>1, <1>2, <1>3, <1>4, <1>5, NextSplitTopic

-----------------------------------------------------------------------------
(* Types, and the versions of the copies.                                  *)

\* What users write: never a resource that counts as synchronized, unless it
\* did so before or they return to what was synchronized last; and a resource
\* that is being deleted, or has the finalizer, stays.
LEMMA UserWrites ==
  ASSUME TypeOK, User
  PROVE  \E o \in Objects \cup {NoObj} :
           /\ Written(o)
           /\ Synced(o) => \/ Synced(obj) /\ o.spec = obj.spec
                           \/ MayRevert /\ obj # NoObj /\ o.spec # obj.spec
           /\ BeingDeleted(obj) => BeingDeleted(o)
           /\ obj # NoObj /\ obj.fin => o # NoObj
<1>1. obj \in Objects \cup {NoObj} /\ NoObj \notin Objects /\ NoHash \notin Declarations
  BY EarlierAssumption, ReconcilerAssumption DEF TypeOK, ControllerTypeOK
<1>2. \A p \in PurgeChoices : p \in BOOLEAN
  BY ReconcilerAssumption
<1> USE DEF Synced, NeedsSynchronization, BeingDeleted
<1>3. CASE Apply
  <2>1. PICK d \in Declarations, p \in PurgeChoices :
          Written([spec |-> d, hash |-> NoHash, fin |-> FALSE, deleting |-> FALSE, purge |-> p])
    BY <1>3 DEF Apply
  <2>2. obj = NoObj
    BY <1>3 DEF Apply
  <2>3. [spec |-> d, hash |-> NoHash, fin |-> FALSE, deleting |-> FALSE, purge |-> p] \in Objects
    BY <1>2 DEF Objects
  <2> QED
    BY <1>1, <2>1, <2>2, <2>3
<1>4. CASE Edit
  <2>1. PICK d \in Declarations, p \in PurgeChoices :
          /\ d # obj.spec /\ d = obj.hash => MayRevert
          /\ Written([obj EXCEPT !.spec = d, !.purge = p])
    BY <1>4 DEF Edit
  <2>2. obj \in Objects /\ obj # NoObj
    BY <1>1, <1>4 DEF Edit
  <2> DEFINE o == [obj EXCEPT !.spec = d, !.purge = p]
  <2>3. /\ o \in Objects /\ o.spec = d /\ o.hash = obj.hash /\ o.fin = obj.fin
        /\ o.deleting = obj.deleting
    BY <1>2, <2>2 DEF Objects
  <2> HIDE DEF o
  <2>4. Written(o)
    BY <2>1 DEF o
  <2> QED
    BY <1>1, <2>1, <2>2, <2>3, <2>4
<1>5. CASE Remove
  <2>1. obj \in Objects /\ obj # NoObj /\ ~obj.deleting
    BY <1>1, <1>5 DEF Remove
  <2>2. CASE obj.fin
    <3> DEFINE o == [obj EXCEPT !.deleting = TRUE]
    <3>1. o \in Objects /\ o.deleting
      BY <2>1 DEF Objects
    <3>2. Written(o)
      BY <1>5, <2>2 DEF Remove
    <3> HIDE DEF o
    <3> QED
      BY <1>1, <2>1, <3>1, <3>2
  <2>3. CASE ~obj.fin
    BY <1>5, <2>1, <2>3 DEF Remove
  <2> QED
    BY <2>2, <2>3
<1>6. CASE ResetHash
  <2>1. obj \in Objects /\ obj # NoObj
    BY <1>1, <1>6 DEF ResetHash
  <2> DEFINE o == [obj EXCEPT !.hash = NoHash]
  <2>2. /\ o \in Objects /\ o.spec = obj.spec /\ o.hash = NoHash /\ o.fin = obj.fin
        /\ o.deleting = obj.deleting /\ o.spec \in Declarations
    BY <2>1 DEF Objects
  <2>3. Written(o)
    BY <1>6 DEF ResetHash
  <2> HIDE DEF o
  <2> QED
    BY <1>1, <2>1, <2>2, <2>3
<1> QED
  BY <1>3, <1>4, <1>5, <1>6 DEF User

\* What the worker takes up, and what it reports.
LEMMA Copied ==
  ASSUME TypeOK, cache # NoObj
  PROVE  LET copy == [cache EXCEPT !.fin = TRUE]
         IN  /\ copy \in Objects /\ copy.spec = cache.spec /\ copy.hash = cache.hash
             /\ copy.deleting = cache.deleting /\ copy.purge = cache.purge
BY DEF TypeOK, ControllerTypeOK, Objects

LEMMA Reports ==
  ASSUME TypeOK, Reporting
  PROVE  /\ Report \in Objects \cup {NoObj}
         /\ Report = NoObj <=> pc = "finalize"
         /\ pc # "finalize" =>
              /\ Report.spec = work.spec /\ Report.deleting = work.deleting
              /\ Report.purge = work.purge
              /\ pc # "complete" => Report.hash = work.hash
<1>1. work \in Objects /\ NoObj \notin Objects
  BY WorkFacts, EarlierAssumption DEF Reporting
<1>2. /\ [work EXCEPT !.hash = work.spec] \in Objects
      /\ [work EXCEPT !.hash = work.spec].spec = work.spec
      /\ [work EXCEPT !.hash = work.spec].deleting = work.deleting
      /\ [work EXCEPT !.hash = work.spec].purge = work.purge
  BY <1>1 DEF Objects
<1>3. CASE pc = "complete"
  BY <1>1, <1>2, <1>3 DEF Report
<1>4. CASE pc = "finalize"
  BY <1>1, <1>4 DEF Report
<1>5. CASE pc \in {"retry", "failed"}
  BY <1>1, <1>5 DEF Report
<1> QED
  BY <1>3, <1>4, <1>5 DEF Reporting

\* A step of Process moves the worker on, returns, or is one of a manager.
LEMMA ProcessMoves ==
  ASSUME Process
  PROVE  \/ \E from, to \in Places \cup {"retry", "failed", "complete", "finalize"} :
              from # "idle" /\ to # "idle" /\ WorkerAt(from, to)
         \/ SkipAt("resolve")
         \/ UNCHANGED controllerVars
BY DEF Process, ResolveFails, StartRevoke, Revoked, AfterRevoke, PurgeTopic, PurgeFails, Skip,
       RefusePool, StartGrant, RunAcls, AclsFailed, StartTopic, RunTopic, TopicDone, Places

LEMMA ProcessBusy == Process => pc # "idle"
BY DEF Process, ResolveFails, StartRevoke, Revoked, PurgeTopic, PurgeFails, Skip, SkipAt, RefusePool,
       StartGrant, RunAcls, AclsFailed, StartTopic, RunTopic, TopicDone, WorkerAt

LEMMA TypePart ==
  ASSUME TypeOK, AclTypeOK', TopicTypeOK', [Next]_vars
  PROVE  TypeOK'
<1> USE EarlierAssumption
<1>1. ControllerTypeOK(Objects, Places) /\ allowed \in PoolChoices
  BY TypeParts
<1>2. allowed' \in PoolChoices
  BY <1>1 DEF Next, User, Manager, Restart, Reconcile, Get, Process, ResolveFails, StartRevoke,
     Revoked, PurgeTopic, PurgeFails, Skip, RefusePool, StartGrant, RunAcls, AclsFailed,
     StartTopic, RunTopic, TopicDone, Write, WriteLost, Local, vars
<1>3. ControllerTypeOK(Objects, Places)'
  <2>1. CASE User
    BY <1>1, <2>1, UserWrites, OutsideKeepsTypes
  <2>2. CASE Manager \/ Restart
    BY <1>1, <2>2, OutsideKeepsTypes DEF Manager, Restart
  <2>3. CASE Get
    <3>1. "resolve" \in Places \ {"idle"}
      BY DEF Places
    <3> QED
      BY <1>1, <2>3, <3>1, Copied, ReadingKeepsTypes DEF Get
  <2>4. CASE Process
    BY <1>1, <2>4, ProcessMoves, ReadingKeepsTypes
  <2>5. CASE Write \/ WriteLost
    <3>1. Reporting /\ (WriteOk(Report) \/ WriteConflict \/ WriteFails(Report))
      BY <2>5 DEF Write, WriteLost, WriteOk, WriteConflict, WriteFails
    <3> QED
      BY <1>1, <3>1, Reports, WritingKeepsTypes
  <2>6. CASE UNCHANGED vars
    BY <1>1, <2>6, ReadingKeepsTypes DEF vars, controllerVars
  <2> QED
    BY <2>1, <2>2, <2>3, <2>4, <2>5, <2>6 DEF Next, Reconcile
<1>4. TypeOK' <=> /\ AclTypeOK' /\ TopicTypeOK'
                  /\ ControllerTypeOK(Objects, Places)' /\ allowed' \in PoolChoices
  BY DEF TypeOK, Places
<1> QED
  BY <1>2, <1>3, <1>4

LEMMA CopyPart ==
  ASSUME TypeOK, CopyInv, [Next]_vars
  PROVE  CopyInv'
<1>1. CASE User
  BY <1>1, UserWrites, OutsideKeepsCopies
<1>2. CASE Manager \/ Restart
  BY <1>2, OutsideKeepsCopies DEF Manager, Restart
<1>3. CASE Get \/ Process
  BY <1>3, ProcessMoves, ReadingKeepsCopies DEF Get
<1>4. CASE Write \/ WriteLost
  BY <1>4, WritingKeepsCopies DEF Write, WriteLost
<1>5. CASE UNCHANGED vars
  BY <1>5, ReadingKeepsCopies DEF vars, controllerVars
<1> QED
  BY <1>1, <1>2, <1>3, <1>4, <1>5 DEF Next, Reconcile

-----------------------------------------------------------------------------
(* Which manager runs where.                                               *)

\* A call keeps what it was called for.
LEMMA AclStepKeepsLines == AclStep => UNCHANGED lines /\ aclPc' # "idle" /\ aclPc # "idle"
BY DEF AclStep, ListFails, WantedFails, Fail, List, Create, NextToAdd, Added, CreateFails, AddDone,
       DeleteWithoutId, NextToDelete, Delete, Deleted, DeleteFails, DeleteDone

LEMMA TopicStepKeepsConfig == TopicStep => UNCHANGED config
BY DEF TopicStep, GetTopic, GetTopicFails, RefuseTopic, CreateTopic, CreateTopicFails,
       UpdateTopic, UpdateTopicFails, GoTo

LEMMA PlacePart ==
  ASSUME TypeOK, CopyInv, PlaceInv, [Next]_vars
  PROVE  PlaceInv'
<1> USE DEF PlaceInv, clusterVars, queueVars, workerVars, aivenVars, aclCall, topicCall
<1>1. CASE User
  <2>1. UNCHANGED <<pc, work, allowed, aclCall, topicCall>> /\ workCurrent' = FALSE
    BY <1>1 DEF User, Apply, Edit, Remove, ResetHash, Written
  <2> QED
    BY <2>1
<1>2. CASE Manager
  <2>1. UNCHANGED <<pc, work, workCurrent, obj, allowed, aclCall, topicCall>>
    BY <1>2 DEF Manager, CacheSync, Resync, Timer
  <2> QED
    BY <2>1
<1>3. CASE Restart
  BY <1>3 DEF Restart, RestartController, ResetAcl, ResetTopic
<1>4. CASE Get
  <2>1. UNCHANGED <<obj, allowed, aclCall, topicCall>> /\ pc = "idle"
    BY <1>4 DEF Get, GetNotFound, GetFails, GetObject, Dequeue
  <2>2. CASE GetNotFound \/ GetFails
    BY <2>1, <2>2 DEF GetNotFound, GetFails, Return
  <2>3. CASE GetObject([cache EXCEPT !.fin = TRUE], "resolve")
    BY <2>1, <2>3 DEF GetObject, CopyInv
  <2> QED
    BY <1>4, <2>2, <2>3 DEF Get
<1>5. CASE ResolveFails \/ Skip \/ RefusePool
  BY <1>5 DEF ResolveFails, Skip, SkipAt, Return, RefusePool, WorkerAt, Local
<1>6. CASE StartRevoke
  BY <1>6 DEF StartRevoke, WorkerAt, Begin
<1>7. CASE StartGrant
  BY <1>7 DEF StartGrant, ToSynchronize, WorkerAt, Begin
<1>8. CASE Revoked
  BY <1>8 DEF Revoked, AfterRevoke, WorkerAt, ResetAcl
<1>9. CASE PurgeTopic \/ PurgeFails
  BY <1>9 DEF PurgeTopic, PurgeFails, WorkerAt
<1>10. CASE RunAcls
  BY <1>10, AclStepKeepsLines DEF RunAcls, controllerVars
<1>11. CASE AclsFailed
  BY <1>11 DEF AclsFailed, WorkerAt, ResetAcl
<1>12. CASE StartTopic
  BY <1>12 DEF StartTopic, WorkerAt, ResetAcl, TopicBegin
<1>13. CASE RunTopic
  BY <1>13, TopicStepKeepsConfig DEF RunTopic, controllerVars
<1>14. CASE TopicDone
  BY <1>14 DEF TopicDone, WorkerAt, ResetTopic
<1>15. CASE Write \/ WriteLost
  <2>1. UNCHANGED <<allowed, aclCall, topicCall>> /\ pc' = "idle" /\ workCurrent' = FALSE
        /\ Reporting
    BY <1>15 DEF Write, WriteLost, WriteOk, WriteConflict, WriteFails, Return, Local
  <2> QED
    BY <2>1 DEF Reporting
<1>16. CASE UNCHANGED vars
  BY <1>16 DEF vars
<1> QED
  BY <1>1, <1>2, <1>3, <1>4, <1>5, <1>6, <1>7, <1>8, <1>9, <1>10, <1>11, <1>12, <1>13, <1>14,
     <1>15, <1>16 DEF Next, Reconcile, Process

-----------------------------------------------------------------------------
(* What Process has achieved.                                              *)

\* Nothing of it is lost while the worker and Aiven stay as they are.
LEMMA ProgressStays ==
  ASSUME ProgressInv, UNCHANGED <<pc, work, aivenAcls, aivenTopic>>
  PROVE  ProgressInv'
BY DEF ProgressInv, HasAccess, InAiven, Granted

\* The access of a declaration is the access that the ACL manager aims at.
LEMMA AccessOfLines ==
  ASSUME AclInv, ~DryRun, aclPc = "ok", NEW d, lines = d.acl
  PROVE  HasAccess(d)
BY DEF AclInv, SyncedOnSuccess, Goal, HasAccess

LEMMA ProgressPart ==
  ASSUME TypeOK, AclInv, TopicInv, PlaceInv, ProgressInv, [Next]_vars
  PROVE  ProgressInv'
<1> SUFFICES ASSUME ~DryRun PROVE ProgressInv'
  BY DEF ProgressInv
<1> USE DEF clusterVars, queueVars, workerVars, aivenVars, aclCall, topicCall
<1>1. CASE User \/ Manager \/ UNCHANGED vars
  <2>1. UNCHANGED <<pc, work, aivenAcls, aivenTopic>>
    BY <1>1 DEF User, Apply, Edit, Remove, ResetHash, Written, Manager, CacheSync, Resync, Timer,
                vars
  <2> QED
    BY <2>1, ProgressStays
<1>2. ASSUME pc' \in {"idle", "resolve", "revoke", "grant", "retry", "failed"}
      PROVE  ProgressInv'
  BY <1>2 DEF ProgressInv
<1>3. CASE Restart \/ Get \/ ResolveFails \/ Skip \/ RefusePool \/ StartRevoke \/ StartGrant
             \/ AclsFailed \/ PurgeFails \/ Write \/ WriteLost \/ RunAcls
  <2>1. pc' \in {"idle", "resolve", "revoke", "grant", "retry", "failed"}
    BY <1>3 DEF Restart, RestartController, Get, GetNotFound, GetFails, GetObject, Dequeue, Return,
       ResolveFails, Skip, SkipAt, RefusePool, StartRevoke, StartGrant, AclsFailed, PurgeFails,
       WorkerAt, Write, WriteLost, WriteOk, WriteConflict, WriteFails, RunAcls, controllerVars
  <2> QED
    BY <1>2, <2>1
<1>4. CASE Revoked
  <2>1. pc = "revoke" /\ aclPc = "ok" /\ pc' = AfterRevoke /\ UNCHANGED <<work, aivenVars>>
    BY <1>4 DEF Revoked, WorkerAt
  <2>2. Goal = {}
    BY <2>1 DEF PlaceInv, Goal
  <2>3. Granted' = {}
    BY <2>1, <2>2 DEF AclInv, SyncedOnSuccess, Granted
  <2> QED
    BY <2>1, <2>3 DEF AfterRevoke, ProgressInv
<1>5. CASE PurgeTopic
  <2>1. /\ pc = "purge" /\ pc' = "finalize" /\ UNCHANGED aivenAcls
        /\ aivenTopic' = NoTopic
    BY <1>5 DEF PurgeTopic, WorkerAt
  <2> QED
    BY <2>1 DEF ProgressInv, Granted
<1>6. CASE StartTopic
  <2>1. /\ pc = "grant" /\ pc' = "topic" /\ aclPc = "ok"
        /\ UNCHANGED <<work, aivenAcls>>
    BY <1>6 DEF StartTopic, WorkerAt
  <2>2. HasAccess(work.spec)
    BY <2>1, AccessOfLines DEF PlaceInv
  <2> QED
    BY <2>1, <2>2 DEF ProgressInv, HasAccess, Granted
<1>7. CASE RunTopic
  <2>1. pc = "topic" /\ pc' = "topic" /\ UNCHANGED <<work, aivenAcls>>
    BY <1>7 DEF RunTopic, controllerVars
  <2> QED
    BY <2>1 DEF ProgressInv, HasAccess, Granted
<1>8. CASE TopicDone /\ pc' = "complete"
  <2>1. /\ pc = "topic" /\ topicPc = "ok" /\ UNCHANGED <<work, aivenAcls, aivenTopic>>
    BY <1>8 DEF TopicDone, WorkerAt
  <2>2. /\ aivenTopic # NoTopic
        /\ \A f \in Propagated : Sent(work.spec.config, f) \in {Unset, aivenTopic[f]}
    BY <2>1, ReconcilerAssumption DEF PlaceInv, TopicInv, ConfiguredOnSuccess, Agrees
  <2>3. InAiven(work.spec)
    BY <2>1, <2>2 DEF ProgressInv, InAiven
  <2> QED
    BY <1>8, <2>1, <2>3 DEF ProgressInv, InAiven, HasAccess, Granted
<1>9. CASE TopicDone /\ pc' # "complete"
  BY <1>2, <1>9 DEF TopicDone, WorkerAt
<1> QED
  BY <1>1, <1>3, <1>4, <1>5, <1>6, <1>7, <1>8, <1>9 DEF Next, Reconcile, Process

-----------------------------------------------------------------------------
(* Deletions.                                                              *)

\* The steps of Process by what they do to the topic at Aiven.
LEMMA ProcessTouchesTopic ==
  ASSUME Process
  PROVE  UNCHANGED aivenTopic \/ RunTopic \/ PurgeTopic \/ PurgeFails
BY DEF Process, ResolveFails, StartRevoke, Revoked, Skip, RefusePool, StartGrant, RunAcls,
       AclsFailed, StartTopic, TopicBegin, TopicDone, Local, aivenVars

LEMMA WritesBack ==
  ASSUME Write \/ WriteLost
  PROVE  /\ Reporting /\ UNCHANGED <<cache, allowed, aivenVars>>
         /\ pc' = "idle" /\ work' = NoObj
         /\ UNCHANGED obj \/ (~ClientDryRun /\ workCurrent /\ obj' = Report)
<1>1. UNCHANGED <<allowed, aivenVars>>
  BY DEF Write, WriteLost, Local
<1>2. UNCHANGED cache /\ pc' = "idle" /\ work' = NoObj
  BY DEF Write, WriteLost, WriteOk, WriteConflict, WriteFails, Return, clusterVars
<1>3. Reporting
  BY DEF Write, WriteLost, WriteOk, WriteConflict, WriteFails
<1>4. UNCHANGED obj \/ (~ClientDryRun /\ workCurrent /\ obj' = Report)
  BY DEF Write, WriteLost, WriteOk, WriteConflict, WriteFails, UpdateApplies, WritesNothing,
         clusterVars
<1> QED
  BY <1>1, <1>2, <1>3, <1>4

LEMMA DeletionPart ==
  ASSUME TypeOK, CopyInv, PlaceInv, ProgressInv, DeletionInv, [Next]_vars
  PROVE  DeletionInv'
<1> SUFFICES ASSUME ~DryRun PROVE DeletionInv'
  BY DEF DeletionInv
<1> USE DEF BeingDeleted, clusterVars, queueVars, workerVars, aivenVars
<1>1. CASE User
  <2>1. UNCHANGED <<cache, work, pc, aivenTopic>> /\ (BeingDeleted(obj) => BeingDeleted(obj'))
    BY <1>1, UserWrites DEF User, Written
  <2> QED
    BY <2>1 DEF DeletionInv
<1>2. CASE Manager \/ UNCHANGED vars
  <2>1. UNCHANGED <<obj, work, pc, aivenTopic>> /\ cache' \in {cache, obj}
    BY <1>2 DEF Manager, CacheSync, Resync, Timer, vars
  <2> QED
    BY <2>1 DEF DeletionInv
<1>3. CASE Restart
  BY <1>3 DEF Restart, RestartController, DeletionInv
<1>4. CASE Get
  <2>1. UNCHANGED <<obj, cache, aivenTopic>>
    BY <1>4 DEF Get, GetNotFound, GetFails, GetObject
  <2>2. CASE GetNotFound \/ GetFails
    BY <2>1, <2>2 DEF GetNotFound, GetFails, Dequeue, Return, DeletionInv
  <2>3. CASE cache # NoObj /\ GetObject([cache EXCEPT !.fin = TRUE], "resolve")
    <3>1. work'.deleting = cache.deleting /\ work'.purge = cache.purge
      BY <2>3, Copied DEF GetObject
    <3> QED
      BY <2>1, <2>3, <3>1 DEF DeletionInv
  <2> QED
    BY <1>4, <2>2, <2>3 DEF Get
<1>5. CASE Process
  <2>1. UNCHANGED <<obj, cache>> /\ pc # "idle"
    <3>1. pc # "idle"
      BY <1>5, ProcessBusy
    <3>2. UNCHANGED <<obj, cache>>
      BY <1>5, ProcessMoves DEF WorkerAt, SkipAt, controllerVars
    <3> QED
      BY <3>1, <3>2
  <2>2. UNCHANGED work \/ (work' = NoObj /\ pc' = "idle")
    BY <1>5, ProcessMoves DEF WorkerAt, SkipAt, Return, controllerVars
  <2>3. CASE aivenTopic' \in {aivenTopic, NoTopic}
    BY <2>1, <2>2, <2>3 DEF DeletionInv
  <2>4. CASE RunTopic
    <3>1. pc = "topic" /\ pc' = "topic" /\ UNCHANGED work
      BY <2>4 DEF RunTopic, controllerVars
    <3>2. ~work.deleting
      BY <3>1 DEF PlaceInv
    <3> QED
      BY <2>1, <3>1, <3>2 DEF DeletionInv
  <2> QED
    BY <1>5, <2>3, <2>4, ProcessTouchesTopic DEF PurgeTopic, PurgeFails
<1>6. CASE Write \/ WriteLost
  <2>1. /\ Reporting /\ UNCHANGED <<cache, aivenTopic>> /\ pc' = "idle" /\ work' = NoObj
        /\ UNCHANGED obj \/ (workCurrent /\ obj' = Report)
    BY <1>6, WritesBack
  <2>2. CASE UNCHANGED obj
    BY <2>1, <2>2 DEF DeletionInv
  <2>3. CASE workCurrent /\ obj' = Report
    <3>1. SUFFICES ASSUME BeingDeleted(cache), cache.purge
                   PROVE  BeingDeleted(obj') \/ aivenTopic = NoTopic
      BY <2>1 DEF DeletionInv
    <3>2. cache = obj /\ work = [obj EXCEPT !.fin = TRUE] /\ obj \in Objects
      BY <2>3, <3>1 DEF CopyInv, PlaceInv, TypeOK, ControllerTypeOK
    <3>3. work.deleting /\ work.purge
      BY <3>1, <3>2 DEF Objects
    <3>4. CASE pc = "finalize"
      BY <3>3, <3>4 DEF ProgressInv
    <3>5. CASE pc # "finalize"
      BY <2>1, <2>3, <3>3, <3>5, Reports
    <3> QED
      BY <3>4, <3>5
  <2> QED
    BY <2>1, <2>2, <2>3
<1> QED
  BY <1>1, <1>2, <1>3, <1>4, <1>5, <1>6 DEF Next, Reconcile

-----------------------------------------------------------------------------
(* What the statuses claim.                                                *)

\* A declaration stays in place as long as Aiven and the version stay as they are.
LEMMA AivenStays ==
  ASSUME UNCHANGED <<aivenAcls, aivenTopic>>
  PROVE  \A d : InAiven(d) => InAiven(d)'
BY DEF InAiven, HasAccess, Granted

\* A dry run leaves Aiven as it is.
LEMMA DryRunLeavesAiven == DryRun /\ Process => UNCHANGED aivenVars
<1> SUFFICES ASSUME DryRun, Process PROVE UNCHANGED <<aivenAcls, aivenTopic>>
  BY DEF aivenVars
<1> USE DEF aivenVars
<1>1. CASE RunAcls
  BY <1>1 DEF RunAcls, AclStep, ListFails, WantedFails, List, Create, CreateFails, AddDone,
     DeleteWithoutId, Delete, DeleteFails, DeleteDone, UnlessDryRun
<1>2. CASE RunTopic
  BY <1>2, ReconcilerAssumption DEF RunTopic, TopicStep, GetTopic, GetTopicFails, RefuseTopic,
     CreateTopic, UpdateTopic, TopicUnlessDryRun, CreateTopicFails, UpdateTopicFails
<1>3. CASE ~RunAcls /\ ~RunTopic
  BY <1>3 DEF Process, ResolveFails, StartRevoke, Revoked, PurgeTopic, PurgeFails, Skip,
     RefusePool, StartGrant, Begin, AclsFailed, StartTopic, TopicBegin, TopicDone, Local
<1> QED
  BY <1>1, <1>2, <1>3

\* Synchronizing a declaration that Aiven holds already disturbs nothing: no
\* call for it revokes access that it declares, or changes a propagated setting.
LEMMA ProcessKeepsDeclaration ==
  ASSUME TypeOK, AclInv, TopicInv, PlaceInv, Process, ~work.deleting
  PROVE  \A d : d = work.spec /\ InAiven(d) => InAiven(d)'
<1>a. CASE DryRun
  BY <1>a, DryRunLeavesAiven, AivenStays DEF aivenVars
<1>b. SUFFICES ASSUME ~DryRun PROVE \A d : d = work.spec /\ InAiven(d) => InAiven(d)'
  BY <1>a
<1> SUFFICES ASSUME NEW d, d = work.spec, InAiven(d) PROVE InAiven(d)'
  OBVIOUS
<1> USE DEF aivenVars
<1>1. CASE RunAcls
  <2>1. pc = "grant" /\ UNCHANGED aivenTopic /\ AclStep
    BY <1>1 DEF RunAcls, PlaceInv
  <2>2. Granted = Goal
    BY <2>1 DEF InAiven, HasAccess, PlaceInv, Goal
  <2>3. Granted' = Granted
    <3>1. CASE UNCHANGED aivenAcls
      BY <3>1 DEF Granted
    <3>2. CASE \E i \in toAdd : AivenCreate(lines[i])
      <4>1. PICK i \in toAdd : AivenCreate(lines[i])
        BY <3>2
      <4>2. AclTypeOK /\ UniqueIds(aivenAcls) /\ i \in DOMAIN lines
        BY DEF AclInv, AclTypeOK
      <4>3. lines[i] \in Entries /\ Entry(lines[i]) = lines[i]
        BY <4>2, LineIsEntry
      <4>4. lines[i] \in Goal
        BY <4>2, <4>3 DEF Goal
      <4> QED
        BY <2>2, <4>1, <4>2, <4>3, <4>4, CreateEffect
    <3>3. ASSUME NEW a \in Obsolete, a.id # NoId, AivenDelete(a.id) PROVE FALSE
      BY <2>2, <3>3 DEF Obsolete, Granted
    <3> QED
      BY <2>1, <3>1, <3>2, <3>3, AclStepKinds
  <2> QED
    BY <2>1, <2>3 DEF InAiven, HasAccess
<1>2. CASE RunTopic
  <2>1. pc = "topic" /\ UNCHANGED aivenAcls /\ TopicStep
    BY <1>2 DEF RunTopic
  <2>2. CASE UNCHANGED aivenTopic
    BY <2>1, <2>2 DEF InAiven, HasAccess, Granted
  <2>3. CASE AivenUpdateTopic
    <3>1. UNCHANGED config /\ config = d.config
      BY <2>1, TopicStepKeepsConfig DEF PlaceInv
    <3>2. /\ aivenTopic' # NoTopic
          /\ \A f \in Propagated : Sent(d.config, f) \in {Unset, aivenTopic'[f]}
      BY <2>3, <3>1, UpdateConfigures DEF Agrees
    <3> QED
      BY <2>1, <3>2 DEF InAiven, HasAccess, Granted
  <2>4. ~AivenCreateTopic
    BY DEF InAiven, AivenCreateTopic
  <2> QED
    BY <2>1, <2>2, <2>3, <2>4 DEF TopicStep, GetTopic, GetTopicFails, RefuseTopic, CreateTopic,
       UpdateTopic, TopicUnlessDryRun, CreateTopicFails, UpdateTopicFails
<1>3. CASE ~RunAcls /\ ~RunTopic
  <2>1. UNCHANGED <<aivenAcls, aivenTopic>>
    BY <1>3 DEF Process, ResolveFails, StartRevoke, Revoked, PurgeTopic, PurgeFails, Skip,
       RefusePool, StartGrant, Begin, AclsFailed, StartTopic, TopicBegin, TopicDone, Local,
       WorkerAt, PlaceInv
  <2> QED
    BY <2>1 DEF InAiven, HasAccess, Granted
<1> QED
  BY <1>1, <1>2, <1>3

LEMMA SpecPart ==
  ASSUME TypeOK, CopyInv, PlaceInv, ~MayRevert, SpecInv, [Next]_vars
  PROVE  SpecInv'
<1>1. CASE User
  BY <1>1, UserWrites, WrittenKeepsSpec
<1>2. CASE Manager \/ Restart
  BY <1>2, ManagerKeepsSpec DEF Manager, Restart
<1>3. CASE Get
  BY <1>3, Copied, ReadingKeepsSpec DEF Get
<1>4. CASE Process
  BY <1>4, ProcessMoves, ReadingKeepsSpec
<1>5. CASE Write \/ WriteLost
  <2>1. workCurrent /\ Synced(Report) => ~obj.deleting /\ Report.spec = obj.spec
    <3> SUFFICES ASSUME workCurrent, Synced(Report)
                 PROVE  ~obj.deleting /\ Report.spec = obj.spec
      OBVIOUS
    <3>1. /\ Reporting /\ work = [obj EXCEPT !.fin = TRUE]
      BY <1>5, WritesBack DEF PlaceInv
    <3>2. Report.spec = work.spec /\ Report.deleting = work.deleting
      BY <3>1, Reports DEF Synced
    <3>3. obj \in Objects
      BY DEF TypeOK, ControllerTypeOK, PlaceInv
    <3>4. work.spec = obj.spec /\ work.deleting = obj.deleting
      BY <3>1, <3>3 DEF Objects
    <3> QED
      BY <3>2, <3>4 DEF Synced
  <2> QED
    BY <1>5, <2>1, WritingKeepsSpec DEF Write, WriteLost
<1>6. CASE UNCHANGED vars
  BY <1>6, ReadingKeepsSpec DEF vars, controllerVars
<1> QED
  BY <1>1, <1>2, <1>3, <1>4, <1>5, <1>6 DEF Next, Reconcile

LEMMA StatusPart ==
  ASSUME TypeOK, AclInv, TopicInv, CopyInv, PlaceInv, ProgressInv, StatusInv, [Next]_vars
  PROVE  StatusInv'
<1> SUFFICES ASSUME ~MayRevert PROVE StatusInv'
  BY DEF StatusInv
<1>a. SpecInv' /\ SpecInv
  BY SpecPart DEF StatusInv
<1> DEFINE Truthful(o) == Synced(o) => InAiven(o.spec)
<1>b. /\ Truthful(obj) /\ Truthful(cache)
      /\ pc = "resolve" => Truthful(work)
  BY DEF StatusInv, TruthfulStatus
<1>c. SUFFICES /\ (Synced(obj) => InAiven(obj.spec))'
               /\ (Synced(cache) => InAiven(cache.spec))'
               /\ (pc = "resolve" /\ Synced(work) => InAiven(work.spec))'
  BY <1>a DEF StatusInv, TruthfulStatus
<1> USE DEF clusterVars, queueVars, workerVars, aivenVars
<1>1. CASE User
  <2>1. UNCHANGED <<cache, work, pc, aivenAcls, aivenTopic>>
    BY <1>1, UserWrites DEF User, Written
  <2>2. Synced(obj') => Synced(obj) /\ obj'.spec = obj.spec
    BY <1>1, UserWrites DEF Written
  <2> QED
    BY <1>b, <2>1, <2>2, AivenStays DEF Synced, NeedsSynchronization
<1>2. CASE Manager \/ Restart \/ UNCHANGED vars
  <2>1. /\ UNCHANGED <<obj, aivenAcls, aivenTopic>> /\ cache' \in {cache, obj}
        /\ UNCHANGED <<pc, work>> \/ pc' = "idle"
    BY <1>2 DEF Manager, CacheSync, Resync, Timer, Restart, RestartController, vars
  <2> QED
    BY <1>b, <2>1, AivenStays DEF Synced, NeedsSynchronization
<1>3. CASE Get
  <2>1. UNCHANGED <<obj, cache, aivenAcls, aivenTopic>>
    BY <1>3 DEF Get, GetNotFound, GetFails, GetObject
  <2>2. pc' = "resolve" => /\ cache # NoObj
                           /\ work'.spec = cache.spec /\ work'.hash = cache.hash
                           /\ work'.deleting = cache.deleting
    BY <1>3, Copied DEF Get, GetNotFound, GetFails, Dequeue, Return, GetObject
  <2> QED
    BY <1>b, <2>1, <2>2, AivenStays DEF Synced, NeedsSynchronization
<1>4. CASE Process
  <2>1. UNCHANGED <<obj, cache>> /\ pc # "idle" /\ pc' # "resolve"
    <3>1. pc # "idle"
      BY <1>4, ProcessBusy
    <3>2. UNCHANGED <<obj, cache>>
      BY <1>4, ProcessMoves DEF WorkerAt, SkipAt, controllerVars
    <3>3. pc' # "resolve"
      BY <1>4 DEF Process, ResolveFails, StartRevoke, Revoked, AfterRevoke, PurgeTopic, PurgeFails,
         Skip, SkipAt, Return, RefusePool, StartGrant, RunAcls, AclsFailed, StartTopic, RunTopic,
         TopicDone, WorkerAt, controllerVars
    <3> QED
      BY <3>1, <3>2, <3>3
  <2>2. ASSUME NEW o \in {obj, cache}, Synced(o) PROVE InAiven(o.spec) /\ ~work.deleting
                                                      /\ o.spec = work.spec
    BY <1>a, <1>b, <2>1, <2>2 DEF SpecInv
  <2>3. ASSUME ~work.deleting PROVE \A d : d = work.spec /\ InAiven(d) => InAiven(d)'
    BY <1>4, <2>3, ProcessKeepsDeclaration
  <2>4. Synced(obj) => InAiven(obj.spec)'
    BY <2>1, <2>2, <2>3
  <2>5. Synced(cache) => InAiven(cache.spec)'
    BY <2>1, <2>2, <2>3
  <2> QED
    BY <2>1, <2>4, <2>5 DEF Synced, NeedsSynchronization
<1>5. CASE Write \/ WriteLost
  <2>1. /\ Reporting /\ UNCHANGED <<cache, aivenAcls, aivenTopic>> /\ pc' = "idle"
        /\ UNCHANGED obj \/ (~DryRun /\ workCurrent /\ obj' = Report)
    BY <1>5, WritesBack, ReconcilerAssumption
  <2>2. ASSUME ~DryRun, workCurrent, obj' = Report, Synced(obj') PROVE InAiven(obj'.spec)
    <3>1. /\ obj \in Objects /\ work = [obj EXCEPT !.fin = TRUE]
      BY <2>2 DEF TypeOK, ControllerTypeOK, PlaceInv
    <3>2. /\ Report.spec = work.spec /\ Report.deleting = work.deleting
          /\ pc # "complete" => Report.hash = work.hash
      BY <2>1, <2>2, Reports DEF Synced
    <3>3. CASE pc = "complete"
      BY <2>2, <3>2, <3>3 DEF ProgressInv
    <3>4. CASE pc # "complete"
      <4>1. work.spec = obj.spec /\ work.hash = obj.hash /\ work.deleting = obj.deleting
        BY <3>1 DEF Objects
      <4>2. obj # NoObj
        BY <2>2 DEF PlaceInv
      <4> QED
        BY <1>b, <2>2, <3>2, <3>4, <4>1, <4>2 DEF Synced, NeedsSynchronization
    <3> QED
      BY <3>3, <3>4
  <2> QED
    BY <1>b, <2>1, <2>2, AivenStays DEF Synced, NeedsSynchronization
<1> QED
  BY <1>1, <1>2, <1>3, <1>4, <1>5 DEF Next, Reconcile

-----------------------------------------------------------------------------
(* The invariants.                                                         *)

LEMMA InitInv == Init => ReconcilerInv
<1> SUFFICES ASSUME Init PROVE ReconcilerInv
  OBVIOUS
<1>1. AclInv /\ TopicInv
  BY AclInitInv, TopicInitInv DEF Init
<1>2. TypeOK
  <2>1. ControllerTypeOK(Objects, Places)
    BY InitTypes, EarlierAssumption DEF Init
  <2> QED
    BY <1>1, <2>1, TypeParts DEF Init, AclInv, TopicInv
<1>3. CopyInv
  BY DEF Init, ControllerInit, CopyInv
<1>4. PlaceInv
  BY DEF Init, ControllerInit, AclInit, TopicInit, PlaceInv
<1>5. ProgressInv
  BY DEF Init, ControllerInit, ProgressInv
<1>6. DeletionInv
  BY DEF Init, ControllerInit, DeletionInv, BeingDeleted
<1> QED
  BY <1>1, <1>2, <1>3, <1>4, <1>5, <1>6 DEF ReconcilerInv

\* Where the worker is, what it has achieved for its copy, and how old the
\* copies are: the strengthening that the properties below rest on.
THEOREM ReconcilerInvariant == Spec => []ReconcilerInv
<1>1. ReconcilerInv /\ [Next]_vars => ReconcilerInv'
  <2> SUFFICES ASSUME ReconcilerInv, [Next]_vars PROVE ReconcilerInv'
    OBVIOUS
  <2>1. AclInv' /\ TopicInv'
    BY AclPart, TopicPart DEF ReconcilerInv
  <2>2. AclTypeOK' /\ TopicTypeOK'
    BY <2>1 DEF AclInv, TopicInv
  <2> QED
    BY <2>1, <2>2, TypePart, CopyPart, PlacePart, ProgressPart, DeletionPart DEF ReconcilerInv
<1> QED
  BY <1>1, InitInv, PTL DEF Spec

\* The variables keep their types, whatever users do and whichever calls fail.
THEOREM ReconcilerTypeInvariant == Spec => []TypeOK
<1>1. ReconcilerInv => TypeOK
  BY DEF ReconcilerInv
<1> QED
  BY <1>1, ReconcilerInvariant, PTL

\* Unless users return to the declaration synchronized last, a status that
\* was true when the process started, or says nothing, stays true, and so do
\* the copies of it that the cache and the worker hold.
THEOREM StatusInvariant == Spec /\ TruthfulStatus => []StatusInv
<1>1. Init /\ TruthfulStatus => StatusInv
  BY DEF Init, ControllerInit, StatusInv, SpecInv, TruthfulStatus, Synced
<1>2. ReconcilerInv /\ StatusInv /\ [Next]_vars => StatusInv'
  BY StatusPart DEF ReconcilerInv
<1> QED
  BY <1>1, <1>2, ReconcilerInvariant, PTL DEF Spec

\* A resource whose status says that its declaration is synchronized is
\* synchronized (topic_controller.go:181-199): through stale copies,
\* edits during a synchronization, failed calls, lost answers and restarts.
THEOREM TruthfulStatusTheorem ==
  ASSUME ~MayRevert
  PROVE  Spec /\ TruthfulStatus => []TruthfulStatus
<1>1. StatusInv => TruthfulStatus
  BY DEF StatusInv
<1> QED
  BY <1>1, StatusInvariant, PTL

\* The hash that the reconciler takes for proof (topic_controller.go:170) is
\* one: what it skips is in place.
THEOREM SkipOnlyWhenSyncedTheorem ==
  ASSUME ~MayRevert
  PROVE  Spec /\ TruthfulStatus => SkipOnlyWhenSynced
<1>1. ReconcilerInv /\ StatusInv /\ [Next]_vars => [Skip => InAiven(work.spec)]_vars
  <2> SUFFICES ASSUME ReconcilerInv, StatusInv, Skip PROVE InAiven(work.spec)
    OBVIOUS
  <2>1. pc = "resolve" /\ ~work.deleting /\ ~NeedsSynchronization(work)
    BY DEF Skip, SkipAt
  <2>2. work # NoObj
    BY <2>1 DEF ReconcilerInv, TypeOK, ControllerTypeOK
  <2> QED
    BY <2>1, <2>2 DEF StatusInv, Synced
<1> QED
  BY <1>1, ReconcilerInvariant, StatusInvariant, PTL DEF Spec, SkipOnlyWhenSynced

-----------------------------------------------------------------------------
(* What a step may never do.                                               *)

\* The reconciler's own steps neither make nor remove ACLs.
LEMMA OnlyCallsChangeAcls ==
  ASSUME [Next]_vars, ~RunAcls
  PROVE  UNCHANGED aivenAcls
BY WritesBack DEF Next, Reconcile, User, Manager, Restart, Get, Process, ResolveFails, StartRevoke,
   Revoked, PurgeTopic, PurgeFails, Skip, RefusePool, StartGrant, Begin, AclsFailed, StartTopic,
   RunTopic, TopicDone, Local, aivenVars, vars

\* When the finalizer lets a resource go, no one has access any more and its
\* data is gone if the version that is deleted said so
\* (topic_controller.go:114-158): a conflict keeps every other away.
THEOREM GoneMeansCleanedTheorem == Spec => GoneMeansCleaned
<1> DEFINE Cleaned == obj # NoObj /\ obj.fin /\ obj' = NoObj =>
                        Granted = {} /\ (obj.purge => aivenTopic = NoTopic)
<1>1. ReconcilerInv /\ [Next]_vars => [Cleaned]_vars
  <2> SUFFICES ASSUME ReconcilerInv, Next, obj # NoObj, obj.fin, obj' = NoObj
               PROVE  Granted = {} /\ (obj.purge => aivenTopic = NoTopic)
    OBVIOUS
  <2>a. TypeOK /\ PlaceInv /\ ProgressInv
    BY DEF ReconcilerInv
  <2>1. ~User
    BY <2>a, UserWrites DEF Written
  <2>2. ~Manager /\ ~Restart /\ ~Get
    BY DEF Manager, CacheSync, Resync, Timer, Restart, RestartController, Get, GetNotFound,
           GetFails, GetObject, clusterVars
  <2>3. ~Process
    BY ProcessMoves DEF WorkerAt, SkipAt, clusterVars, controllerVars
  <2>4. Reporting /\ ~DryRun /\ workCurrent /\ Report = NoObj
    BY <2>1, <2>2, <2>3, WritesBack, ReconcilerAssumption DEF Next, Reconcile
  <2>5. pc = "finalize"
    BY <2>a, <2>4, Reports
  <2>6. obj \in Objects /\ work = [obj EXCEPT !.fin = TRUE]
    BY <2>a, <2>4 DEF TypeOK, ControllerTypeOK, PlaceInv
  <2>7. work.purge = obj.purge
    BY <2>6 DEF Objects
  <2> QED
    BY <2>a, <2>4, <2>5, <2>7 DEF ProgressInv
<1> QED
  BY <1>1, ReconcilerInvariant, PTL DEF Spec, GoneMeansCleaned

\* Data is destroyed only while the API has the resource as being deleted, and
\* only after the last access was revoked (topic_controller.go:114-158): a
\* copy of an earlier resource of that name destroys nothing.
THEOREM DataOnlyOnDeletionTheorem == Spec => DataOnlyOnDeletion
<1> DEFINE Deleted1 == aivenTopic # NoTopic /\ aivenTopic' = NoTopic =>
                         obj # NoObj /\ obj.deleting /\ Granted = {}
<1>1. ReconcilerInv /\ [Next]_vars => [Deleted1]_vars
  <2> SUFFICES ASSUME ReconcilerInv, Next, aivenTopic # NoTopic, aivenTopic' = NoTopic
               PROVE  obj # NoObj /\ obj.deleting /\ Granted = {}
    OBVIOUS
  <2>a. TypeOK /\ PlaceInv /\ ProgressInv /\ DeletionInv
    BY DEF ReconcilerInv
  <2>1. Process
    BY WritesBack DEF Next, Reconcile, User, Manager, Restart, Get, aivenVars
  <2>2. ~DryRun
    BY <2>1, DryRunLeavesAiven DEF aivenVars
  <2>3. ~RunTopic
    <3>1. ASSUME RunTopic PROVE FALSE
      <4>1. TopicStep /\ UNCHANGED config
        BY <3>1, TopicStepKeepsConfig DEF RunTopic
      <4>2. ~AivenCreateTopic /\ ~AivenUpdateTopic
        BY <4>1, CreateConfigures, UpdateConfigures
      <4> QED
        BY <4>1, <4>2 DEF TopicStep, GetTopic, GetTopicFails, RefuseTopic, CreateTopic,
           UpdateTopic, TopicUnlessDryRun, CreateTopicFails, UpdateTopicFails
    <3> QED
      BY <3>1
  <2>4. pc = "purge"
    BY <2>1, <2>3, ProcessTouchesTopic DEF PurgeTopic, PurgeFails, WorkerAt
  <2>5. work # NoObj /\ work.deleting /\ work.purge
    BY <2>a, <2>4 DEF TypeOK, ControllerTypeOK, PlaceInv
  <2> QED
    BY <2>a, <2>2, <2>4, <2>5 DEF DeletionInv, ProgressInv, BeingDeleted
<1> QED
  BY <1>1, ReconcilerInvariant, PTL DEF Spec, DataOnlyOnDeletion

\* A pool that --projects does not name gets no ACL and no topic
\* (topic_controller.go:177-179), also when the process before was given other
\* pools, and deleting a resource of it only takes away.
THEOREM RefusedPoolUntouchedTheorem == Spec => RefusedPoolUntouched
<1> DEFINE Untouched ==
      ~allowed => Granted' \subseteq Granted /\ aivenTopic' \in {aivenTopic, NoTopic}
<1>1. ReconcilerInv /\ [Next]_vars => [Untouched]_vars
  <2> SUFFICES ASSUME ReconcilerInv, Next, ~allowed
               PROVE  Granted' \subseteq Granted /\ aivenTopic' \in {aivenTopic, NoTopic}
    OBVIOUS
  <2>a. TypeOK /\ AclInv /\ PlaceInv
    BY DEF ReconcilerInv
  <2>b. AclTypeOK /\ UniqueIds(aivenAcls)
    BY <2>a DEF AclInv
  <2>1. CASE RunAcls
    <3>1. /\ AclStep /\ UNCHANGED aivenTopic /\ lines = <<>>
      BY <2>1, <2>a DEF RunAcls, PlaceInv
    <3>2. toAdd = {}
      BY <2>b, <3>1 DEF AclTypeOK
    <3>3. CASE UNCHANGED aivenAcls
      BY <3>1, <3>3 DEF Granted
    <3>4. CASE \E a \in Obsolete : a.id # NoId /\ AivenDelete(a.id)
      BY <2>b, <3>1, <3>4, DeleteEffect
    <3> QED
      BY <2>a, <3>1, <3>2, <3>3, <3>4, AclStepKinds
  <2>2. CASE ~RunAcls
    <3>1. ~RunTopic
      BY <2>a DEF RunTopic, PlaceInv
    <3>2. aivenTopic' \in {aivenTopic, NoTopic}
      BY <3>1, ProcessTouchesTopic, WritesBack DEF Next, Reconcile, User, Manager, Restart, Get,
         PurgeTopic, PurgeFails, aivenVars
    <3>3. UNCHANGED aivenAcls
      BY <2>2, OnlyCallsChangeAcls
    <3> QED
      BY <3>2, <3>3 DEF Granted
  <2> QED
    BY <2>1, <2>2
<1> QED
  BY <1>1, ReconcilerInvariant, PTL DEF Spec, RefusedPoolUntouched

\* As long as there is something to do, something is there to trigger it,
\* whichever step failed last (topic_controller.go:205-294); only a failure
\* that is not retried gives up.
THEOREM NoLostWakeupTheorem == Spec => NoLostWakeup
<1>1. ReconcilerInv /\ [Next]_vars
        => [~DryRun /\ Forgotten' => Forgotten \/ pc = "failed"]_vars
  <2> SUFFICES ASSUME ReconcilerInv, Next, ~DryRun, pc # "failed", Forgotten' PROVE Forgotten
    OBVIOUS
  <2>a. TypeOK /\ CopyInv /\ PlaceInv
    BY DEF ReconcilerInv
  <2>1. CASE User
    BY <2>1, <2>a, UserWrites, OutsideForgetsNothing
  <2>2. CASE Manager \/ Restart
    BY <2>2, OutsideForgetsNothing DEF Manager, Restart
  <2>3. CASE Get
    BY <2>3, <2>a, ReadingForgetsNothing DEF Get
  <2>4. CASE Process
    <3>1. CASE \E from, to : from # "idle" /\ to # "idle" /\ WorkerAt(from, to)
      BY <2>a, <3>1, ReadingForgetsNothing
    <3>2. CASE SkipAt("resolve")
      <4>1. workCurrent => work.spec = obj.spec /\ work.hash = obj.hash
                             /\ work.deleting = obj.deleting
        BY <2>a DEF TypeOK, ControllerTypeOK, PlaceInv, Objects
      <4> QED
        BY <2>a, <3>2, <4>1, SkippingForgetsNothing
    <3>3. CASE UNCHANGED controllerVars
      BY <3>3 DEF controllerVars, Forgotten, Awake
    <3> QED
      BY <2>4, <3>1, <3>2, <3>3, ProcessMoves
  <2>5. CASE Write \/ WriteLost
    BY <2>5, <2>a, ReconcilerAssumption, WritingForgetsNothing DEF Write, WriteLost
  <2> QED
    BY <2>1, <2>2, <2>3, <2>4, <2>5 DEF Next, Reconcile
<1> QED
  BY <1>1, ReconcilerInvariant, PTL DEF Spec, NoLostWakeup

\* A dry run changes nothing, neither at Aiven nor in the status of the
\* resource (cmd/kafkarator/main.go:85), whichever path it takes.
THEOREM DryRunUntouchedTheorem == Spec => DryRunUntouched
<1>1. [Next]_vars => [DryRun /\ Reconcile => UNCHANGED <<aivenVars, obj>>]_vars
  <2> SUFFICES ASSUME DryRun, Reconcile PROVE UNCHANGED <<aivenVars, obj>>
    OBVIOUS
  <2>1. CASE Get
    BY <2>1 DEF Get, GetNotFound, GetFails, GetObject, clusterVars
  <2>2. CASE Process
    <3>1. UNCHANGED obj
      BY <2>2, ProcessMoves DEF WorkerAt, SkipAt, clusterVars, controllerVars
    <3> QED
      BY <2>2, <3>1, DryRunLeavesAiven
  <2>3. CASE Write \/ WriteLost
    BY <2>3, WritesBack, ReconcilerAssumption
  <2> QED
    BY <2>1, <2>2, <2>3 DEF Reconcile
<1> QED
  BY <1>1, PTL DEF Spec, DryRunUntouched

-----------------------------------------------------------------------------
(* What the managers promise, of the reconciler that runs them.            *)

\* Through every synchronization, retry, deletion and restart of a Topic
\* (topic_controller.go:106-199): other topics keep their ACLs, access is
\* revoked only when the version at hand does not declare it and all that it
\* declares is granted, and no pair that is declared once gets a second ACL.
THEOREM ReconcilerKeepsAccess ==
  Spec => ForeignUntouched /\ RevokeAfterGrant /\ NoDuplicates
<1> DEFINE Effect ==
      /\ Foreign' = Foreign
      /\ \A e \in Granted \ Granted' : e \notin Goal /\ Goal \subseteq Granted
      /\ \A a \in aivenAcls' \ aivenAcls : DeclaredOnce(Entry(a)) => Entry(a) \notin Granted
<1>1. ReconcilerInv /\ [Next]_vars => Effect
  <2> SUFFICES ASSUME ReconcilerInv, [Next]_vars PROVE Effect
    OBVIOUS
  <2>1. CASE RunAcls
    BY <2>1, AclStepEffect DEF ReconcilerInv, RunAcls
  <2>2. CASE ~RunAcls
    <3>1. UNCHANGED aivenAcls
      BY <2>2, OnlyCallsChangeAcls
    <3> QED
      BY <3>1 DEF Foreign, Granted
  <2> QED
    BY <2>1, <2>2
<1>2. Effect =>
        /\ [AclStep => Foreign' = Foreign]_aclVars
        /\ [\A e \in Granted \ Granted' : e \notin Goal /\ Goal \subseteq Granted]_aclVars
        /\ [\A a \in aivenAcls' \ aivenAcls :
              a.topic = Own /\ DeclaredOnce(Entry(a)) => Entry(a) \notin Granted]_aclVars
  OBVIOUS
<1> QED
  BY <1>1, <1>2, ReconcilerInvariant, PTL DEF Spec, ForeignUntouched, RevokeAfterGrant,
     NoDuplicates

\* No Topic, however often it is edited, removed and declared anew, ends with
\* more replicas demanded in sync than it has (topic.go:89-92, 140-143).
THEOREM ReconcilerReplicasSuffice == Spec => []ReplicasSuffice
<1>1. Init => ReplicasSuffice
  BY ReplicaAssumption DEF Init, TopicInit, ReplicasSuffice
<1>2. ReconcilerInv /\ ReplicasSuffice /\ [Next]_vars => ReplicasSuffice'
  <2> SUFFICES ASSUME ReconcilerInv, ReplicasSuffice, [Next]_vars PROVE ReplicasSuffice'
    OBVIOUS
  <2>1. TopicTypeOK
    BY DEF ReconcilerInv, TypeOK
  <2>2. CASE RunTopic
    BY <2>1, <2>2, ReplicasNext DEF RunTopic, TopicNext
  <2>3. CASE ~RunTopic
    <3>1. aivenTopic' \in {aivenTopic, NoTopic}
      BY <2>3, ProcessTouchesTopic, WritesBack DEF Next, Reconcile, User, Manager, Restart, Get,
         PurgeTopic, PurgeFails, aivenVars, vars
    <3> QED
      BY <3>1 DEF ReplicasSuffice
  <2> QED
    BY <2>2, <2>3
<1> QED
  BY <1>1, <1>2, ReconcilerInvariant, PTL DEF Spec

=============================================================================
