--------------------------- MODULE MaintenanceProofs ---------------------------
(***************************************************************************)
(* Proofs about Maintenance: with other writers at work on the same Kafka  *)
(* service, a status is true and a deletion leaves nothing behind, unless  *)
(* somebody changed something after the processing had begun.              *)
(*                                                                         *)
(* The invariants of the managers do not survive the others.  They are     *)
(* recovered: whoever takes up a version that is still to be processed     *)
(* begins its calls anew, and UndisturbedInv holds from there on until the *)
(* others change something, which unseen remembers.                        *)
(***************************************************************************)
EXTENDS Maintenance, TopicReconcilerProofs

-----------------------------------------------------------------------------
(* What holds whatever the others do.                                      *)

LEMMA AclTypesPart ==
  ASSUME TypeOK, UniqueIds(aivenAcls), toAdd # {} => aclPc = "add", [Next]_vars
  PROVE  AclTypeOK' /\ UniqueIds(aivenAcls') /\ (toAdd' # {} => aclPc' = "add")
<1>1. AclTypeOK
  BY DEF TypeOK
<1>2. CASE AclIdleStep
  BY <1>1, <1>2, AclIdle DEF aclVars, AclTypeOK
<1>3. CASE RunAcls
  BY <1>1, <1>3, AclStepTypes DEF RunAcls
<1>4. ASSUME NEW ls \in Seq(Entries), Begin(ls)
      PROVE  AclTypeOK' /\ UniqueIds(aivenAcls') /\ (toAdd' # {} => aclPc' = "add")
  BY <1>1, <1>4 DEF Begin, Returned, AclTypeOK
<1>5. CASE StartRevoke
  <2>1. <<>> \in Seq(Entries)
    OBVIOUS
  <2> QED
    BY <1>4, <1>5, <2>1 DEF StartRevoke
<1>6. CASE StartGrant
  <2>1. work.spec.acl \in Seq(Entries)
    BY <1>6, WorkFacts DEF StartGrant, WorkerAt
  <2> QED
    BY <1>4, <1>6, <2>1 DEF StartGrant
<1>7. CASE Restart \/ Revoked \/ AclsFailed \/ StartTopic
  <2>1. ResetAcl /\ UNCHANGED aivenAcls
    BY <1>7 DEF Restart, Revoked, AclsFailed, StartTopic, aivenVars
  <2>2. <<>> \in Seq(Entries)
    OBVIOUS
  <2> QED
    BY <1>1, <2>1, <2>2 DEF ResetAcl, AclTypeOK
<1> QED
  BY <1>2, <1>3, <1>5, <1>6, <1>7, NextSplitAcl

LEMMA TopicTypesPart == ASSUME TypeOK, [Next]_vars PROVE TopicTypeOK'
<1>1. TopicTypeOK
  BY DEF TypeOK
<1>2. CASE TopicIdleStep
  BY <1>1, <1>2, TopicIdle DEF topicVars, TopicTypeOK
<1>3. CASE RunTopic
  BY <1>1, <1>3, TopicStepTypes DEF RunTopic
<1>4. CASE StartTopic
  <2>1. work.spec.config \in Configs
    BY <1>4, WorkFacts DEF StartTopic, WorkerAt
  <2> QED
    BY <1>1, <1>4, <2>1 DEF StartTopic, TopicBegin, TopicTypeOK
<1>5. CASE PurgeTopic \/ PurgeFails
  BY <1>1, <1>5 DEF PurgeTopic, PurgeFails, topicCall, TopicTypeOK
<1>6. CASE TopicDone \/ Restart
  BY <1>1, <1>6 DEF TopicDone, Restart, ResetTopic, aivenVars, TopicTypeOK
<1> QED
  BY <1>2, <1>3, <1>4, <1>5, <1>6, NextSplitTopic

\* Steps of others at Aiven, and of nobody at the API, in the queue or in the
\* worker.
OnlyAtAiven ==
  /\ UNCHANGED <<aclCall, topicCall, controllerVars, allowed>>
  /\ aivenAcls' \subseteq Acls /\ UniqueIds(aivenAcls')
  /\ aivenTopic' = NoTopic \/ DOMAIN aivenTopic' = CreateFields

LEMMA CleanerAtAiven == ASSUME MaintInv, Cleaner PROVE OnlyAtAiven /\ UNCHANGED here
<1>1. UNCHANGED <<aclCall, topicCall, controllerVars, allowed, here, aivenTopic>>
  BY DEF Cleaner
<1>2. aivenAcls \subseteq Acls /\ UniqueIds(aivenAcls)
      /\ (aivenTopic = NoTopic \/ DOMAIN aivenTopic = CreateFields)
  BY DEF MaintInv, TypeOK, AclTypeOK, TopicTypeOK
<1>3. aivenAcls' \subseteq aivenAcls
  BY DEF Cleaner, CleanerScan, CleanerDelete, CleanerFails, AivenDelete
<1> QED
  BY <1>1, <1>2, <1>3 DEF OnlyAtAiven, UniqueIds

LEMMA OthersAtAivenOnly == ASSUME MaintInv, OthersAtAiven PROVE OnlyAtAiven /\ UNCHANGED here
<1>1. UNCHANGED <<aclCall, topicCall, controllerVars, allowed, here>>
  BY DEF OthersAtAiven
<1>2. /\ AclTypeOK /\ aivenAcls \subseteq Acls /\ UniqueIds(aivenAcls)
      /\ aivenTopic = NoTopic \/ DOMAIN aivenTopic = CreateFields
  BY DEF MaintInv, TypeOK, AclTypeOK, TopicTypeOK
<1>3. CASE OthersGrant
  <2>1. PICK d \in Declarations : \E i \in DOMAIN d.acl : AivenCreate(d.acl[i])
    BY <1>3 DEF OthersGrant
  <2>2. PICK i \in DOMAIN d.acl : AivenCreate(d.acl[i])
    BY <2>1
  <2>3. d.acl \in Seq(Entries)
    BY ReconcilerAssumption, AclAssumption
  <2>4. d.acl[i] \in Entries
    BY <2>2, <2>3
  <2>5. aivenAcls' \subseteq Acls /\ UniqueIds(aivenAcls')
    BY <1>2, <2>2, <2>4, CreateEffect
  <2> QED
    BY <1>1, <1>2, <1>3, <2>5 DEF OthersGrant, OnlyAtAiven
<1>4. CASE OthersRevoke
  BY <1>1, <1>2, <1>4 DEF OthersRevoke, AivenDelete, OnlyAtAiven, UniqueIds
<1>5. CASE OthersSetTopic
  BY <1>1, <1>2, <1>5, TopicAssumption DEF OthersSetTopic, OnlyAtAiven
<1> QED
  BY <1>3, <1>4, <1>5 DEF OthersAtAiven

\* What may be in the pool that the worker turns to.
LEMMA TurnAtAiven == ASSUME Turn PROVE OnlyAtAiven
<1>1. \A left \in Leftovers : left \subseteq Acls /\ UniqueIds(left)
  BY AclAssumption DEF Leftovers, Acls, UniqueIds
<1> QED
  BY <1>1, TopicAssumption DEF Turn, OnlyAtAiven

LEMMA AtAivenKeepsTypes ==
  ASSUME MaintInv, OnlyAtAiven
  PROVE  /\ TypeOK' /\ UniqueIds(aivenAcls') /\ (toAdd' # {} => aclPc' = "add")
         /\ CopyInv' /\ PlaceInv'
<1>1. UNCHANGED <<obj, cache, cacheCurrent, queued, delayed, pc, work, workCurrent, allowed,
                  aclPc, lines, toAdd, toDelete, topicPc, config>>
  BY DEF OnlyAtAiven, controllerVars, aclCall, topicCall
<1>2. AclTypeOK' /\ TopicTypeOK'
  BY <1>1 DEF MaintInv, OnlyAtAiven, TypeOK, AclTypeOK, TopicTypeOK
<1>3. TypeOK'
  BY <1>1, <1>2 DEF MaintInv, TypeOK, ControllerTypeOK
<1>4. CopyInv' /\ PlaceInv'
  BY <1>1 DEF MaintInv, CopyInv, PlaceInv
<1> QED
  BY <1>1, <1>3, <1>4 DEF MaintInv, OnlyAtAiven

\* The other process writes a resource like any other.
LEMMA OthersWrite ==
  ASSUME MaintInv, OthersReport
  PROVE  \E o \in Objects \cup {NoObj} : Written(o)
<1> DEFINE o == [obj EXCEPT !.fin = TRUE, !.hash = obj.spec]
<1>1. obj \in Objects
  BY DEF MaintInv, TypeOK, ControllerTypeOK, OthersReport
<1>2. o \in Objects
  BY <1>1 DEF Objects
<1>3. Written(NoObj) \/ Written(o)
  BY DEF OthersReport
<1> HIDE DEF o
<1> QED
  BY <1>2, <1>3

LEMMA ReportKeepsTypes ==
  ASSUME MaintInv, OthersReport
  PROVE  /\ TypeOK' /\ UniqueIds(aivenAcls') /\ (toAdd' # {} => aclPc' = "add")
         /\ CopyInv' /\ PlaceInv'
<1>1. /\ UNCHANGED <<aivenAcls, aivenTopic, allowed, aclPc, lines, toAdd, toDelete, topicPc,
                     config>>
      /\ UNCHANGED <<pc, work>> /\ workCurrent' = FALSE
  BY DEF OthersReport, Written, aivenVars, aclCall, topicCall
<1>2. AclTypeOK' /\ TopicTypeOK'
  BY <1>1 DEF MaintInv, TypeOK, AclTypeOK, TopicTypeOK
<1>3. ControllerTypeOK(Objects, Places)'
  BY OthersWrite, OutsideKeepsTypes, TypeParts DEF MaintInv
<1>4. TypeOK'
  BY <1>1, <1>2, <1>3 DEF MaintInv, TypeOK, Places
<1>5. CopyInv'
  BY OthersWrite, OutsideKeepsCopies DEF MaintInv
<1>6. PlaceInv'
  BY <1>1 DEF MaintInv, PlaceInv
<1> QED
  BY <1>1, <1>4, <1>5, <1>6 DEF MaintInv

\* The worker stays in the pool it took its copy up for.
LEMMA WorkerStays ==
  ASSUME TypeOK, [Next]_vars, pc # "idle", pc' # "idle"
  PROVE  UNCHANGED work
<1>1. CASE User \/ Manager \/ UNCHANGED vars
  BY <1>1 DEF User, Apply, Edit, Remove, ResetHash, Written, Manager, CacheSync, Resync, Timer,
     vars, workerVars
<1>2. ~Restart /\ ~Get /\ ~Write /\ ~WriteLost
  BY DEF Restart, RestartController, Get, GetNotFound, GetFails, GetObject, Dequeue, Write,
     WriteLost, WriteOk, WriteConflict, WriteFails, Return
<1>3. CASE Process
  BY <1>3, ProcessMoves DEF WorkerAt, SkipAt, Return, controllerVars
<1> QED
  BY <1>1, <1>2, <1>3 DEF Next, Reconcile

\* What unseen being reset, or not set, tells of a step.
LEMMA NoteSays ==
  ASSUME unseen \in BOOLEAN, Note
  PROVE  /\ unseen' \in BOOLEAN
         /\ ~unseen' /\ ~AllAhead' => ~unseen /\ ~ChangedByOthers /\ ~Reverted
<1>1. unseen' = (~AllAhead' /\ (unseen \/ ChangedByOthers \/ Reverted))
  BY DEF Note
<1> HIDE DEF AllAhead, ChangedByOthers, Reverted
<1> QED
  BY <1>1

LEMMA MaintPart ==
  ASSUME MaintInv, [MaintNext]_maintVars
  PROVE  MaintInv'
<1>a. unseen' \in BOOLEAN
  BY NoteSays DEF MaintInv, MaintNext, maintVars
<1>1. CASE Turn
  <2>1. pc' = "idle"
    BY <1>1 DEF Turn, controllerVars
  <2> QED
    BY <1>a, <1>1, <2>1, TurnAtAiven, AtAivenKeepsTypes DEF MaintInv
<1>2. CASE Cleaner \/ OthersAtAiven
  <2>1. OnlyAtAiven /\ UNCHANGED here
    BY <1>2, CleanerAtAiven, OthersAtAivenOnly
  <2>2. UNCHANGED <<pc, work>>
    BY <2>1 DEF OnlyAtAiven, controllerVars
  <2> QED
    BY <1>a, <2>1, <2>2, AtAivenKeepsTypes DEF MaintInv
<1>3. CASE OthersReport
  <2>1. UNCHANGED <<pc, work, here>>
    BY <1>3 DEF OthersReport, Written
  <2> QED
    BY <1>a, <1>3, <2>1, ReportKeepsTypes DEF MaintInv
<1>4. CASE Reconciler \/ UNCHANGED maintVars
  <2>1. [Next]_vars /\ UNCHANGED here
    BY <1>4 DEF Reconciler, maintVars
  <2>2. AclTypeOK' /\ UniqueIds(aivenAcls') /\ (toAdd' # {} => aclPc' = "add") /\ TopicTypeOK'
    BY <2>1, AclTypesPart, TopicTypesPart DEF MaintInv
  <2>3. TypeOK' /\ CopyInv' /\ PlaceInv'
    BY <2>1, <2>2, TypePart, CopyPart, PlacePart DEF MaintInv
  <2>4. (pc # "idle" => here = projectName(work.spec))'
    <3>1. CASE pc = "idle"
      BY <1>4, <3>1 DEF Reconciler, maintVars, vars, projectName
    <3>2. CASE pc # "idle"
      BY <2>1, <3>2, WorkerStays DEF MaintInv, projectName
    <3> QED
      BY <3>1, <3>2
  <2> QED
    BY <1>a, <2>2, <2>3, <2>4 DEF MaintInv
<1> QED
  BY <1>1, <1>2, <1>3, <1>4 DEF MaintNext, Others

-----------------------------------------------------------------------------
(* While no one disturbs the processing that counts.                       *)

\* Where no call runs, or one is about to begin, there is nothing to be wrong
\* about.
LEMMA NothingDoneYet ==
  ASSUME MaintInv', aclPc' \in {"idle", "list"}, topicPc' = "idle",
         pc' \in {"idle", "resolve", "revoke", "grant", "failed"}
  PROVE  AclInv' /\ TopicInv' /\ ProgressInv'
<1>1. AclTypeOK' /\ TopicTypeOK' /\ UniqueIds(aivenAcls') /\ (toAdd' # {} => aclPc' = "add")
  BY DEF MaintInv, TypeOK
<1>2. AclInv'
  BY <1>1 DEF AclInv, SyncedOnSuccess, PlanIsExact
<1>3. TopicInv'
  BY <1>1 DEF TopicInv, ConfiguredOnSuccess
<1>4. ProgressInv'
  BY DEF ProgressInv
<1> QED
  BY <1>2, <1>3, <1>4

\* A processing that will count begins with the worker's first step on a copy
\* that is current: no other step ends what AllAhead says.
LEMMA BeginsAnew ==
  ASSUME MaintInv, [Next]_vars, AllAhead, ~AllAhead', ~Reverted
  PROVE  /\ ResolveFails \/ StartRevoke \/ RefusePool \/ StartGrant
         /\ ~Synced(obj) /\ UNCHANGED obj
<1>a. TypeOK /\ CopyInv /\ PlaceInv
  BY DEF MaintInv
<1>b. ~Synced(obj)
  BY DEF AllAhead, Synced
<1> USE DEF clusterVars, queueVars, workerVars, AllAhead
<1>1. ~User
  <2> SUFFICES ASSUME User PROVE FALSE
    OBVIOUS
  <2>1. /\ workCurrent' = FALSE
        /\ Synced(obj') => obj # NoObj /\ obj'.spec # obj.spec
        /\ BeingDeleted(obj) => BeingDeleted(obj')
    BY <1>a, <1>b, UserWrites DEF Written
  <2>2. Synced(obj')
    BY <2>1 DEF Synced
  <2> QED
    BY <2>1, <2>2 DEF Synced, Reverted
<1>2. ~Manager /\ ~Restart /\ ~(UNCHANGED vars)
  BY DEF Manager, CacheSync, Resync, Timer, Restart, RestartController, vars, NeedsSynchronization
<1>3. ~Get
  BY DEF Get, GetNotFound, GetFails, Return, GetObject, NeedsSynchronization
<1>4. ~Write /\ ~WriteLost
  <2>1. ASSUME Write \/ WriteLost PROVE FALSE
    <3>1. Reporting /\ workCurrent' = FALSE /\ (UNCHANGED obj \/ workCurrent)
      BY <2>1, WritesBack DEF Write, WriteLost, WriteOk, WriteConflict, WriteFails, Return
    <3>2. CASE workCurrent
      BY <1>a, <3>1, <3>2 DEF PlaceInv, Reporting
    <3>3. CASE UNCHANGED obj
      BY <3>1, <3>3 DEF NeedsSynchronization
    <3> QED
      BY <3>1, <3>2, <3>3
  <2> QED
    BY <2>1
<1>5. Process /\ UNCHANGED obj
  <2>1. Process
    BY <1>1, <1>2, <1>3, <1>4 DEF Next, Reconcile
  <2> QED
    BY <2>1, ProcessMoves DEF WorkerAt, SkipAt, controllerVars
<1>6. workCurrent /\ pc = "resolve"
  <2>1. obj # NoObj /\ (workCurrent' => workCurrent)
    BY <1>5, ProcessMoves DEF WorkerAt, SkipAt, Return, controllerVars
  <2>2. workCurrent
    BY <1>5, <2>1 DEF NeedsSynchronization
  <2> QED
    BY <2>1, <2>2
<1>7. ~Skip
  <2>1. /\ obj \in Objects /\ work = [obj EXCEPT !.fin = TRUE]
    BY <1>6, <1>a DEF TypeOK, ControllerTypeOK, PlaceInv
  <2>2. /\ work.spec = obj.spec /\ work.hash = obj.hash /\ work.deleting = obj.deleting
        /\ obj # NoObj
    BY <1>6, <1>a, <2>1 DEF Objects, PlaceInv
  <2> QED
    BY <1>b, <2>2 DEF Skip, SkipAt, Synced, NeedsSynchronization
<1>8. ~RunAcls /\ ~RunTopic
  BY <1>6 DEF RunAcls, RunTopic
<1> QED
  BY <1>b, <1>5, <1>6, <1>7, <1>8 DEF Process, Revoked, PurgeTopic, PurgeFails, AclsFailed,
     StartTopic, TopicDone, WorkerAt

LEMMA UndisturbedPart ==
  ASSUME MaintInv, UndisturbedInv, [MaintNext]_maintVars
  PROVE  UndisturbedInv'
<1> SUFFICES ASSUME ~unseen', ~AllAhead' PROVE AclInv' /\ TopicInv' /\ ProgressInv'
  BY DEF UndisturbedInv
<1>a. MaintInv'
  BY MaintPart
<1>b. ASSUME ~AllAhead, ~unseen, [Next]_vars PROVE AclInv' /\ TopicInv' /\ ProgressInv'
  BY <1>b, AclPart, TopicPart, ProgressPart DEF UndisturbedInv, MaintInv
<1>1. CASE UNCHANGED maintVars
  <2>1. UNCHANGED <<unseen, AllAhead>> /\ [Next]_vars
    BY <1>1 DEF maintVars, vars, AllAhead, NeedsSynchronization
  <2> QED
    BY <1>b, <2>1
<1>2. CASE MaintNext
  <2>1. ~unseen /\ ~ChangedByOthers /\ ~Reverted
    BY <1>2, NoteSays DEF MaintNext, MaintInv
  <2>2. CASE Turn
    <3>1. pc' = "idle"
      BY <2>2 DEF Turn, controllerVars
    <3>2. aclPc' = "idle" /\ topicPc' = "idle"
      BY <1>a, <3>1 DEF MaintInv, PlaceInv
    <3> QED
      BY <1>a, <3>1, <3>2, NothingDoneYet
  <2>3. CASE Cleaner
    <3>1. UNCHANGED <<vars, AllAhead>>
      BY <2>1, <2>3 DEF ChangedByOthers, Cleaner, aclCall, topicCall, controllerVars, vars,
         AllAhead, NeedsSynchronization
    <3> QED
      BY <1>b, <2>1, <3>1
  <2>4. CASE Reconciler /\ ~AllAhead
    BY <1>b, <2>1, <2>4 DEF Reconciler
  <2>5. CASE Reconciler /\ AllAhead
    <3>1. ResolveFails \/ StartRevoke \/ RefusePool \/ StartGrant
      BY <2>1, <2>5, BeginsAnew DEF Reconciler
    <3>2. pc = "resolve" /\ pc' \in {"revoke", "grant", "failed"}
      BY <3>1 DEF ResolveFails, StartRevoke, RefusePool, StartGrant, WorkerAt
    <3>3. aclPc = "idle" /\ topicPc = "idle"
      BY <3>2 DEF MaintInv, PlaceInv
    <3>4. aclPc' \in {"idle", "list"} /\ topicPc' = "idle"
      BY <3>1, <3>3 DEF ResolveFails, StartRevoke, RefusePool, StartGrant, Begin, Local, aclCall,
         topicCall
    <3> QED
      BY <1>a, <3>2, <3>4, NothingDoneYet
  <2> QED
    BY <1>2, <2>1, <2>2, <2>3, <2>4, <2>5 DEF MaintNext, ChangedByOthers
<1> QED
  BY <1>1, <1>2

-----------------------------------------------------------------------------
(* What a status tells of.                                                 *)

\* A step of the reconciler while a processing counts and no one disturbs it.
LEMMA ReconcilerRepairs ==
  ASSUME MaintInv, UndisturbedInv, RepairInv, Reconciler, ~unseen, ~AllAhead,
         Synced(obj'), ~Reverted
  PROVE  /\ here = projectName(obj'.spec) /\ InAiven(obj.spec)'
         /\ cache' # NoObj => ~cache'.deleting /\ cache'.spec = obj'.spec
         /\ pc' # "idle" => ~work'.deleting /\ work'.spec = obj'.spec
<1>a. TypeOK /\ CopyInv /\ PlaceInv /\ AclInv /\ TopicInv /\ ProgressInv
  BY DEF MaintInv, UndisturbedInv
<1>b. Synced(obj) => /\ here = projectName(obj.spec) /\ InAiven(obj.spec)
                     /\ cache # NoObj => ~cache.deleting /\ cache.spec = obj.spec
                     /\ pc # "idle" => ~work.deleting /\ work.spec = obj.spec
  BY DEF RepairInv
<1> USE DEF clusterVars, queueVars, workerVars, aivenVars, projectName
<1>1. CASE User
  <2>1. UNCHANGED <<cache, work, pc, aivenAcls, aivenTopic>>
    BY <1>1 DEF User, Apply, Edit, Remove, ResetHash, Written
  <2>2. Synced(obj) /\ obj'.spec = obj.spec
    BY <1>a, <1>1, UserWrites DEF Written, Synced, Reverted
  <2> QED
    BY <1>b, <2>1, <2>2, AivenStays
<1>2. CASE Manager \/ Restart
  <2>1. /\ UNCHANGED <<obj, aivenAcls, aivenTopic>> /\ cache' \in {cache, obj}
        /\ UNCHANGED <<pc, work>> \/ pc' = "idle"
    BY <1>2 DEF Manager, CacheSync, Resync, Timer, Restart, RestartController
  <2> QED
    BY <1>b, <2>1, AivenStays DEF Synced
<1>3. CASE Get
  <2>1. UNCHANGED <<obj, cache, aivenAcls, aivenTopic>>
    BY <1>3 DEF Get, GetNotFound, GetFails, GetObject
  <2>2. pc' # "idle" => /\ cache # NoObj
                        /\ work'.spec = cache.spec /\ work'.deleting = cache.deleting
    BY <1>a, <1>3, Copied DEF Get, GetNotFound, GetFails, Dequeue, Return, GetObject
  <2> QED
    BY <1>b, <2>1, <2>2, AivenStays
<1>4. CASE Process
  <2>1. UNCHANGED <<obj, cache>> /\ pc # "idle"
    BY <1>4, ProcessBusy, ProcessMoves DEF WorkerAt, SkipAt, controllerVars
  <2>2. UNCHANGED work \/ pc' = "idle"
    BY <1>4, ProcessMoves DEF WorkerAt, SkipAt, Return, controllerVars
  <2>3. InAiven(obj.spec)'
    BY <1>a, <1>b, <1>4, <2>1, ProcessKeepsDeclaration
  <2> QED
    BY <1>b, <2>1, <2>2, <2>3
<1>5. CASE Write \/ WriteLost
  <2>1. /\ Reporting /\ UNCHANGED <<cache, aivenAcls, aivenTopic>> /\ pc' = "idle"
        /\ UNCHANGED obj \/ (~DryRun /\ workCurrent /\ obj' = Report)
    BY <1>5, WritesBack, ReconcilerAssumption
  <2>2. CASE UNCHANGED obj
    BY <1>b, <2>1, <2>2, AivenStays
  <2>3. CASE ~DryRun /\ workCurrent /\ obj' = Report
    <3>1. obj \in Objects /\ obj # NoObj /\ work = [obj EXCEPT !.fin = TRUE] /\ cache = obj
      BY <1>a, <2>3 DEF TypeOK, ControllerTypeOK, PlaceInv, CopyInv
    <3>2. work.spec = obj.spec /\ work.hash = obj.hash /\ work.deleting = obj.deleting
      BY <3>1 DEF Objects
    <3>3. /\ Report.spec = work.spec /\ Report.deleting = work.deleting
          /\ pc # "complete" => Report.hash = work.hash
      BY <1>a, <2>1, <2>3, Reports DEF Synced
    <3>4. ~cache.deleting /\ cache.spec = obj'.spec
      BY <2>3, <3>1, <3>2, <3>3 DEF Synced
    <3>5. here = projectName(work.spec)
      BY <2>1 DEF MaintInv, Reporting
    <3>6. InAiven(work.spec)
      <4>1. CASE pc = "complete"
        BY <1>a, <2>3, <4>1 DEF ProgressInv
      <4>2. CASE pc # "complete"
        BY <1>b, <2>3, <3>1, <3>2, <3>3, <4>2 DEF Synced, NeedsSynchronization
      <4> QED
        BY <4>1, <4>2
    <3> QED
      BY <2>1, <2>3, <3>3, <3>4, <3>5, <3>6, AivenStays
  <2> QED
    BY <2>1, <2>2, <2>3
<1> QED
  BY <1>1, <1>2, <1>3, <1>4, <1>5 DEF Reconciler, Next, Reconcile

LEMMA RepairPart ==
  ASSUME MaintInv, UndisturbedInv, RepairInv, [MaintNext]_maintVars
  PROVE  RepairInv'
<1>1. CASE UNCHANGED maintVars
  BY <1>1 DEF maintVars, vars, RepairInv, Synced, NeedsSynchronization, InAiven, HasAccess, Granted
<1>2. CASE MaintNext
  <2> SUFFICES ASSUME Synced(obj'), ~unseen' PROVE RepairInv'
    BY DEF RepairInv, Synced, NeedsSynchronization
  <2>1. ~AllAhead'
    BY DEF AllAhead, Synced, NeedsSynchronization
  <2>2. ~unseen /\ ~ChangedByOthers /\ ~Reverted
    BY <1>2, <2>1, NoteSays DEF MaintNext, MaintInv
  <2>3. ~Turn
    <3>1. Turn => UNCHANGED obj /\ cache # NoObj /\ projectName(cache.spec) # here
      BY DEF Turn, controllerVars
    <3> QED
      BY <2>2, <3>1 DEF RepairInv
  <2>4. CASE Cleaner
    <3>1. UNCHANGED <<aivenAcls, aivenTopic, obj, cache, pc, work, here>>
      BY <2>2, <2>4 DEF ChangedByOthers, Cleaner, controllerVars
    <3> QED
      BY <2>2, <3>1, AivenStays DEF RepairInv, Synced, NeedsSynchronization
  <2>5. CASE Reconciler /\ AllAhead
    BY <2>1, <2>2, <2>5, BeginsAnew DEF Reconciler
  <2>6. CASE Reconciler /\ ~AllAhead
    <3>1. UNCHANGED here
      BY <2>6 DEF Reconciler
    <3> QED
      BY <2>2, <2>6, <3>1, ReconcilerRepairs DEF RepairInv, projectName
  <2> QED
    BY <1>2, <2>2, <2>3, <2>4, <2>5, <2>6 DEF MaintNext, ChangedByOthers
<1> QED
  BY <1>1, <1>2

-----------------------------------------------------------------------------
(* The invariants.                                                         *)

\* What the reconciler's own invariants leave when others change the same
\* service: types and copies always, the managers' plans and the progress of a
\* processing while it counts and no one has disturbed it.
THEOREM MaintenanceInvariant == MaintSpec => [](MaintInv /\ UndisturbedInv)
<1>1. MaintInit => MaintInv /\ UndisturbedInv
  <2>1. MaintInit => ReconcilerInv /\ pc = "idle" /\ unseen = FALSE
    BY InitInv DEF MaintInit, Init, ControllerInit
  <2> QED
    BY <2>1 DEF MaintInv, UndisturbedInv, ReconcilerInv, AclInv
<1>2. MaintInv /\ UndisturbedInv /\ [MaintNext]_maintVars => MaintInv' /\ UndisturbedInv'
  BY MaintPart, UndisturbedPart
<1> QED
  BY <1>1, <1>2, PTL DEF MaintSpec

\* A status that says "synchronized" is true of the pool that the declaration
\* names now, unless something changed at Aiven after that synchronization had
\* begun (topic_controller.go:100-126, 168-180): for every number of writers,
\* users, pools and declarations, also when users return to what was
\* synchronized last.
THEOREM RepairedOrUnseenTheorem ==
  MaintSpec /\ RepairedOrUnseen => []RepairedOrUnseen
<1>1. MaintInit /\ RepairedOrUnseen => RepairInv
  BY DEF MaintInit, Init, ControllerInit, RepairedOrUnseen, RepairInv, Synced, projectName
<1>2. MaintInv /\ UndisturbedInv /\ RepairInv /\ [MaintNext]_maintVars => RepairInv'
  BY RepairPart
<1>3. RepairInv => RepairedOrUnseen
  BY DEF RepairInv, RepairedOrUnseen, Synced, projectName
<1> QED
  BY <1>1, <1>2, <1>3, MaintenanceInvariant, PTL DEF MaintSpec

\* The worker lets a resource go only when it left no access in the pool named
\* last, and no data that was to go (topic_controller.go:114-158): what others
\* changed before it began to clean up is cleaned up too, and their deletions
\* do not disturb it.
THEOREM CleanedOrUnseenTheorem == MaintSpec => CleanedOrUnseen
<1> DEFINE Cleaned ==
      obj # NoObj /\ obj.fin /\ obj' = NoObj /\ pc = "finalize" /\ pc' = "idle" /\ ~unseen =>
        here = PoolOf[obj.spec] /\ Granted = {} /\ (obj.purge => aivenTopic = NoTopic)
<1>1. MaintInv /\ UndisturbedInv /\ [MaintNext]_maintVars => [Cleaned]_maintVars
  <2> SUFFICES ASSUME MaintInv, UndisturbedInv, MaintNext, ~unseen,
                      obj # NoObj, obj.fin, obj' = NoObj, pc = "finalize", pc' = "idle"
               PROVE  /\ here = PoolOf[obj.spec] /\ Granted = {}
                      /\ obj.purge => aivenTopic = NoTopic
    OBVIOUS
  <2>a. TypeOK /\ PlaceInv
    BY DEF MaintInv
  <2>1. ~Turn /\ ~Cleaner /\ ~Others
    BY DEF Turn, Cleaner, Others, OthersAtAiven, OthersReport, Written, controllerVars
  <2>2. Next
    BY <2>1 DEF MaintNext, Reconciler
  <2>3. ~User /\ ~Manager /\ ~Restart /\ ~Get /\ ~Process
    BY ProcessMoves DEF User, Apply, Edit, Remove, ResetHash, Written, Manager, CacheSync, Resync,
       Timer, Restart, RestartController, Get, GetNotFound, GetFails, GetObject, Dequeue, WorkerAt,
       SkipAt, clusterVars, controllerVars, workerVars
  <2>4. ~DryRun /\ workCurrent
    BY <2>2, <2>3, WritesBack, ReconcilerAssumption DEF Next, Reconcile
  <2>5. obj \in Objects /\ work = [obj EXCEPT !.fin = TRUE]
    BY <2>a, <2>4 DEF TypeOK, ControllerTypeOK, PlaceInv
  <2>6. work.purge = obj.purge /\ work.spec = obj.spec
    BY <2>5 DEF Objects
  <2>7. here = PoolOf[obj.spec]
    BY <2>6 DEF MaintInv, projectName
  <2>8. ~AllAhead
    BY <2>4 DEF AllAhead
  <2> QED
    BY <2>4, <2>6, <2>7, <2>8 DEF UndisturbedInv, ProgressInv
<1> QED
  BY <1>1, MaintenanceInvariant, PTL DEF MaintSpec, CleanedOrUnseen

=============================================================================
