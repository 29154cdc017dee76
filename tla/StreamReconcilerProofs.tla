------------------------ MODULE StreamReconcilerProofs ------------------------
(***************************************************************************)
(* Proofs about StreamReconciler, for every set of declarations, users,    *)
(* internal topics, pools and resources: its inductive invariant, part by  *)
(* part, and from it that a status is truthful, that a Stream leaves with  *)
(* everything that belongs to it and takes nothing before, and that no     *)
(* work is forgotten.                                                      *)
(***************************************************************************)
EXTENDS StreamReconciler, AclManagerProofs, ControllerProofs

Places == {"process", "grant", "revoke", "purge"}

LEMMA TypeParts ==
  TypeOK <=> /\ AclTypeOK /\ ControllerTypeOK(Objects, Places) /\ allowed \in PoolChoices
             /\ toPurge \subseteq InternalTopics /\ streamTopics \subseteq InternalTopics
             /\ toPurge # {} => pc = "purge"
BY DEF TypeOK, Places

\* What a worker that is not idle has in its hands.
LEMMA WorkFacts ==
  ASSUME TypeOK, pc # "idle"
  PROVE  /\ work \in Objects /\ work.spec \in Declarations
         /\ StreamACLs(work.spec) \in Seq(Entries)
<1>1. work \in Objects
  BY DEF TypeOK, ControllerTypeOK
<1>2. work.spec \in Declarations
  BY <1>1 DEF Objects
<1> QED
  BY <1>1, <1>2, StreamAssumption, AclAssumption

-----------------------------------------------------------------------------
(* The ACL manager that a deletion uses makes real calls.                  *)

\* Its steps keep the types, in a dry run, too.
LEMMA RealStepTypes ==
  ASSUME AclTypeOK, RealAcl!AclStep
  PROVE  AclTypeOK'
<1> USE DEF AclTypeOK
<1>1. CASE RealAcl!ListFails \/ RealAcl!WantedFails \/ RealAcl!DeleteWithoutId
  BY <1>1 DEF RealAcl!ListFails, RealAcl!WantedFails, RealAcl!DeleteWithoutId, RealAcl!Fail
<1>2. CASE RealAcl!List
  BY <1>2 DEF RealAcl!List, RealAcl!NewACLs, RealAcl!DeleteACLs, RealAcl!topicACLs
<1>3. ASSUME NEW i \in toAdd, RealAcl!AivenCreate(lines[i]) PROVE aivenAcls' \subseteq Acls
  <2>1. lines[i] \in Entries
    BY <1>3
  <2>2. PICK id \in Ids :
          aivenAcls' = aivenAcls \cup
            {[id |-> id, topic |-> Own, user |-> lines[i].user, perm |-> lines[i].perm]}
    BY <1>3 DEF RealAcl!AivenCreate, RealAcl!FreshIds
  <2> QED
    BY <2>1, <2>2, AclAssumption DEF Entries, Acls
<1>4. CASE RealAcl!Create
  BY <1>3, <1>4 DEF RealAcl!Create, RealAcl!UnlessDryRun, RealAcl!Added
<1>5. CASE RealAcl!CreateFails
  BY <1>3, <1>5 DEF RealAcl!CreateFails, RealAcl!Fail
<1>6. CASE RealAcl!AddDone \/ RealAcl!DeleteDone
  BY <1>6 DEF RealAcl!AddDone, RealAcl!DeleteDone
<1>7. CASE RealAcl!Delete
  BY <1>7 DEF RealAcl!Delete, RealAcl!UnlessDryRun, RealAcl!AivenDelete, RealAcl!Deleted
<1>8. CASE RealAcl!DeleteFails
  BY <1>8 DEF RealAcl!DeleteFails, RealAcl!AivenDelete, RealAcl!Fail
<1> QED
  BY <1>1, <1>2, <1>4, <1>5, <1>6, <1>7, <1>8 DEF RealAcl!AclStep

\* Without a dry run it is the manager that grants.
LEMMA RealIsAcl ==
  ASSUME ~DryRun
  PROVE  RealAcl!AclStep <=> AclStep
<1> USE DEF Fail, RealAcl!Fail
<1>1. RealAcl!ListFails <=> ListFails
  BY DEF RealAcl!ListFails, ListFails
<1>2. RealAcl!WantedFails <=> WantedFails
  BY DEF RealAcl!WantedFails, WantedFails, RealAcl!Nameable, Nameable
<1>3. RealAcl!List <=> List
  BY DEF RealAcl!List, List, RealAcl!NewACLs, NewACLs, RealAcl!DeleteACLs, DeleteACLs,
     RealAcl!topicACLs, topicACLs, RealAcl!Wanted, Wanted, RealAcl!FromTopicACL, FromTopicACL,
     RealAcl!Contains, Contains, RealAcl!Nameable, Nameable
<1>4. \A line : RealAcl!AivenCreate(line) <=> AivenCreate(line)
  BY DEF RealAcl!AivenCreate, AivenCreate, RealAcl!FreshIds, FreshIds
<1>5. \A i : RealAcl!NextToAdd(i) <=> NextToAdd(i)
  BY DEF RealAcl!NextToAdd, NextToAdd
<1>6. RealAcl!Create <=> Create
  BY <1>4, <1>5 DEF RealAcl!Create, Create, RealAcl!UnlessDryRun, UnlessDryRun, RealAcl!Added, Added
<1>7. RealAcl!CreateFails <=> CreateFails
  BY <1>4, <1>5 DEF RealAcl!CreateFails, CreateFails
<1>8. (RealAcl!AddDone <=> AddDone) /\ (RealAcl!DeleteDone <=> DeleteDone)
  BY DEF RealAcl!AddDone, AddDone, RealAcl!DeleteDone, DeleteDone
<1> USE DEF RealAcl!NextToDelete, NextToDelete, RealAcl!AivenDelete, AivenDelete
<1>9. RealAcl!DeleteWithoutId <=> DeleteWithoutId
  BY DEF RealAcl!DeleteWithoutId, DeleteWithoutId
<1>10. RealAcl!Delete <=> Delete
  BY DEF RealAcl!Delete, Delete, RealAcl!UnlessDryRun, UnlessDryRun, RealAcl!Deleted, Deleted
<1>11. RealAcl!DeleteFails <=> DeleteFails
  BY DEF RealAcl!DeleteFails, DeleteFails
<1> QED
  BY <1>1, <1>2, <1>3, <1>6, <1>7, <1>8, <1>9, <1>10, <1>11 DEF RealAcl!AclStep, AclStep

-----------------------------------------------------------------------------
(* The steps, by what they leave alone.                                    *)

\* The steps in which the ACL manager is neither called nor left.
AclIdleStep ==
  \/ User \/ MakeTopic \/ Manager \/ Get \/ Skip \/ RefusePool \/ ResolveFails
  \/ PurgeTopic \/ PurgeFails \/ PurgeDone \/ Write \/ WriteLost \/ UNCHANGED vars

LEMMA AclIdle == AclIdleStep => UNCHANGED aclVars
BY DEF AclIdleStep, User, MakeTopic, Manager, Get, Skip, RefusePool, ResolveFails, PurgeTopic,
       PurgeFails, PurgeDone, Write, WriteLost, Local, vars, aclVars, aclCall

\* The steps in which a call of it begins, goes on or is left.
AclCallStep ==
  \/ RunGrant \/ RunRevoke \/ StartGrant \/ StartRevoke
  \/ Restart \/ GrantDone \/ AclsFailed \/ ListTopics \/ ListTopicsFails

LEMMA NextSplitAcl == [Next]_vars => AclIdleStep \/ AclCallStep
BY DEF Next, Reconcile, Process, AclIdleStep, AclCallStep

LEMMA Leaves ==
  ASSUME Restart \/ GrantDone \/ AclsFailed \/ ListTopics \/ ListTopicsFails
  PROVE  ResetAcl /\ UNCHANGED aivenAcls
BY DEF Restart, GrantDone, AclsFailed, ListTopics, ListTopicsFails

\* A call is made for a sequence of entries.
LEMMA Begins ==
  ASSUME TypeOK, StartGrant \/ StartRevoke
  PROVE  \E ls \in Seq(Entries) : Begin(ls)
<1>1. CASE StartGrant
  <2>1. StreamACLs(work.spec) \in Seq(Entries)
    BY <1>1, WorkFacts DEF StartGrant, WorkerAt
  <2> QED
    BY <1>1, <2>1 DEF StartGrant
<1>2. CASE StartRevoke
  <2>1. <<>> \in Seq(Entries)
    OBVIOUS
  <2> QED
    BY <1>2, <2>1 DEF StartRevoke
<1> QED
  BY <1>1, <1>2

\* A step of Process moves the worker on, returns, or is one of a call or a purge.
LEMMA ProcessMoves ==
  ASSUME Process
  PROVE  \/ \E from, to \in Places \cup {"retry", "failed", "complete", "finalize"} :
              from # "idle" /\ to # "idle" /\ WorkerAt(from, to)
         \/ SkipAt("process")
         \/ UNCHANGED controllerVars
BY DEF Process, Skip, RefusePool, ResolveFails, StartGrant, RunGrant, GrantDone, AclsFailed,
       StartRevoke, RunRevoke, ListTopics, ListTopicsFails, PurgeTopic, PurgeFails, PurgeDone,
       Places

LEMMA ProcessBusy ==
  ASSUME Process
  PROVE  pc # "idle" /\ UNCHANGED <<obj, cache>> /\ pc' # "process"
<1>1. pc # "idle"
  BY DEF Process, Skip, SkipAt, RefusePool, ResolveFails, StartGrant, RunGrant, GrantDone,
         AclsFailed, StartRevoke, RunRevoke, ListTopics, ListTopicsFails, PurgeTopic, PurgeFails,
         PurgeDone, WorkerAt
<1>2. UNCHANGED <<obj, cache>>
  BY ProcessMoves DEF WorkerAt, SkipAt, clusterVars, controllerVars
<1>3. pc' # "process"
  BY DEF Process, Skip, SkipAt, Return, RefusePool, ResolveFails, StartGrant, RunGrant, GrantDone,
         AclsFailed, StartRevoke, RunRevoke, ListTopics, ListTopicsFails, PurgeTopic, PurgeFails,
         PurgeDone, WorkerAt, controllerVars
<1> QED
  BY <1>1, <1>2, <1>3

LEMMA WritesBack ==
  ASSUME Write \/ WriteLost
  PROVE  /\ Reporting /\ UNCHANGED <<cache, aivenAcls, aclCall, streamTopics, toPurge, allowed>>
         /\ pc' = "idle" /\ work' = NoObj /\ workCurrent' = FALSE
         /\ UNCHANGED obj \/ (~ClientDryRun /\ workCurrent /\ obj' = Report)
<1>1. UNCHANGED <<aivenAcls, aclCall, streamTopics, toPurge, allowed>>
  BY DEF Write, WriteLost, Local, streamVars
<1>2. UNCHANGED cache /\ pc' = "idle" /\ work' = NoObj /\ workCurrent' = FALSE
  BY DEF Write, WriteLost, WriteOk, WriteConflict, WriteFails, Return, clusterVars
<1>3. Reporting
  BY DEF Write, WriteLost, WriteOk, WriteConflict, WriteFails
<1>4. UNCHANGED obj \/ (~ClientDryRun /\ workCurrent /\ obj' = Report)
  BY DEF Write, WriteLost, WriteOk, WriteConflict, WriteFails, UpdateApplies, WritesNothing,
         clusterVars
<1> QED
  BY <1>1, <1>2, <1>3, <1>4

-----------------------------------------------------------------------------
(* The ACL manager keeps its invariant; in a dry run, its types.           *)

LEMMA AclTypePart == ASSUME TypeOK, PlaceInv, [Next]_vars PROVE AclTypeOK'
<1>a. AclTypeOK
  BY DEF TypeOK
<1>1. CASE AclIdleStep
  BY <1>1, <1>a, AclIdle DEF AclTypeOK, aclVars
<1>2. CASE RunGrant /\ DryRun
  BY <1>2, <1>a DEF RunGrant, AclTypeOK, AclStep, ListFails, WantedFails, Fail, List, NewACLs,
     DeleteACLs, topicACLs, Create, UnlessDryRun, Added, CreateFails, AddDone, DeleteWithoutId,
     Delete, Deleted, DeleteFails, DeleteDone
<1>3. CASE (RunGrant /\ ~DryRun) \/ RunRevoke
  BY <1>3, <1>a, RealStepTypes, RealIsAcl DEF RunGrant, RunRevoke
<1>4. CASE StartGrant \/ StartRevoke
  <2>1. toAdd = {}
    BY <1>4 DEF StartGrant, StartRevoke, WorkerAt, PlaceInv
  <2> QED
    BY <1>4, <1>a, <2>1, Begins DEF Begin, AclTypeOK
<1>5. CASE Restart \/ GrantDone \/ AclsFailed \/ ListTopics \/ ListTopicsFails
  <2>1. <<>> \in Seq(Entries)
    OBVIOUS
  <2> QED
    BY <1>5, <1>a, <2>1, Leaves DEF ResetAcl, AclTypeOK
<1> QED
  BY <1>1, <1>2, <1>3, <1>4, <1>5, NextSplitAcl DEF AclCallStep

LEMMA AclPart ==
  ASSUME ~DryRun, TypeOK, AclInv, [Next]_vars
  PROVE  AclInv'
<1>1. CASE AclIdleStep
  BY <1>1, AclIdle, AclNextInv
<1>2. CASE RunGrant \/ RunRevoke
  BY <1>2, RealIsAcl, AclNextInv DEF RunGrant, RunRevoke, AclNext
<1>3. CASE StartGrant \/ StartRevoke
  <2>1. PICK ls \in Seq(Entries) : Begin(ls)
    BY <1>3, Begins
  <2>2. toAdd = {}
    BY <2>1 DEF Begin, Returned, AclInv
  <2> QED
    BY <2>1, <2>2, NoPlanInv DEF Begin, AclInv, AclTypeOK
<1>4. CASE Restart \/ GrantDone \/ AclsFailed \/ ListTopics \/ ListTopicsFails
  <2>1. <<>> \in Seq(Entries)
    OBVIOUS
  <2> QED
    BY <1>4, <2>1, Leaves, NoPlanInv DEF ResetAcl, AclInv, AclTypeOK
<1> QED
  BY <1>1, <1>2, <1>3, <1>4, NextSplitAcl DEF AclCallStep

-----------------------------------------------------------------------------
(* Types, and the versions of the copies.                                  *)

\* What users write: never a Stream that counts as synchronized, unless it did
\* so before or they return to what was synchronized last; and a Stream that is
\* being deleted, or has the finalizer, stays.
LEMMA UserWrites ==
  ASSUME TypeOK, User
  PROVE  \E o \in Objects \cup {NoObj} :
           /\ Written(o)
           /\ ~MayRevert /\ Synced(o) => Synced(obj) /\ o.spec = obj.spec
           /\ BeingDeleted(obj) => BeingDeleted(o)
           /\ obj # NoObj /\ obj.fin => o # NoObj
<1>1. obj \in Objects \cup {NoObj} /\ NoObj \notin Objects /\ NoHash \notin Declarations
  BY EarlierAssumption, StreamAssumption DEF TypeOK, ControllerTypeOK
<1> USE DEF Synced, NeedsSynchronization, BeingDeleted
<1>2. CASE Apply
  <2>1. PICK d \in Declarations :
          Written([spec |-> d, hash |-> NoHash, fin |-> FALSE, deleting |-> FALSE])
    BY <1>2 DEF Apply
  <2>2. obj = NoObj
    BY <1>2 DEF Apply
  <2>3. [spec |-> d, hash |-> NoHash, fin |-> FALSE, deleting |-> FALSE] \in Objects
    BY DEF Objects
  <2> QED
    BY <1>1, <2>1, <2>2, <2>3
<1>3. CASE Edit
  <2>1. PICK d \in Declarations \ {obj.spec} :
          (d = obj.hash => MayRevert) /\ Written([obj EXCEPT !.spec = d])
    BY <1>3 DEF Edit
  <2>2. obj \in Objects /\ obj # NoObj
    BY <1>1, <1>3 DEF Edit
  <2> DEFINE o == [obj EXCEPT !.spec = d]
  <2>3. /\ o \in Objects /\ o.spec = d /\ o.hash = obj.hash /\ o.fin = obj.fin
        /\ o.deleting = obj.deleting
    BY <2>2 DEF Objects
  <2>4. Written(o)
    BY <2>1
  <2> HIDE DEF o
  <2> QED
    BY <1>1, <2>1, <2>2, <2>3, <2>4
<1>4. CASE Remove
  <2>1. obj \in Objects /\ obj # NoObj /\ ~obj.deleting
    BY <1>1, <1>4 DEF Remove
  <2>2. CASE obj.fin
    <3> DEFINE o == [obj EXCEPT !.deleting = TRUE]
    <3>1. o \in Objects /\ o.deleting
      BY <2>1 DEF Objects
    <3>2. Written(o)
      BY <1>4, <2>2 DEF Remove
    <3> HIDE DEF o
    <3> QED
      BY <1>1, <2>1, <3>1, <3>2
  <2>3. CASE ~obj.fin
    BY <1>4, <2>1, <2>3 DEF Remove
  <2> QED
    BY <2>2, <2>3
<1>5. CASE ResetHash
  <2>1. obj \in Objects /\ obj # NoObj
    BY <1>1, <1>5 DEF ResetHash
  <2> DEFINE o == [obj EXCEPT !.hash = NoHash]
  <2>2. /\ o \in Objects /\ o.spec = obj.spec /\ o.hash = NoHash /\ o.fin = obj.fin
        /\ o.deleting = obj.deleting /\ o.spec \in Declarations
    BY <2>1 DEF Objects
  <2>3. Written(o)
    BY <1>5 DEF ResetHash
  <2> HIDE DEF o
  <2> QED
    BY <1>1, <2>1, <2>2, <2>3
<1> QED
  BY <1>2, <1>3, <1>4, <1>5 DEF User

\* What the worker reports.
LEMMA Reports ==
  ASSUME TypeOK, Reporting
  PROVE  /\ Report \in Objects \cup {NoObj}
         /\ Report = NoObj <=> pc = "finalize"
         /\ pc # "finalize" =>
              /\ Report.spec = work.spec /\ Report.deleting = work.deleting
              /\ pc # "complete" => Report = work
<1>1. work \in Objects /\ NoObj \notin Objects
  BY WorkFacts, EarlierAssumption DEF Reporting
<1>2. /\ [work EXCEPT !.hash = work.spec, !.fin = TRUE] \in Objects
      /\ [work EXCEPT !.hash = work.spec, !.fin = TRUE].spec = work.spec
      /\ [work EXCEPT !.hash = work.spec, !.fin = TRUE].deleting = work.deleting
  BY <1>1 DEF Objects
<1>3. CASE pc = "complete"
  BY <1>1, <1>2, <1>3 DEF Report
<1>4. CASE pc = "finalize"
  BY <1>1, <1>4 DEF Report
<1>5. CASE pc \in {"retry", "failed"}
  BY <1>1, <1>5 DEF Report
<1> QED
  BY <1>3, <1>4, <1>5 DEF Reporting

LEMMA TypePart ==
  ASSUME TypeOK, PlaceInv, [Next]_vars
  PROVE  TypeOK'
<1> USE EarlierAssumption
<1>1. /\ ControllerTypeOK(Objects, Places) /\ allowed \in PoolChoices
      /\ toPurge \subseteq InternalTopics /\ streamTopics \subseteq InternalTopics
      /\ toPurge # {} => pc = "purge"
  BY TypeParts
<1>2. AclTypeOK'
  BY AclTypePart
<1>3. /\ allowed' \in PoolChoices
      /\ toPurge' \subseteq InternalTopics /\ streamTopics' \subseteq InternalTopics
  BY <1>1, WritesBack DEF Next, User, MakeTopic, Manager, Restart, Reconcile, Get, Process, Skip,
     RefusePool, ResolveFails, StartGrant, RunGrant, GrantDone, AclsFailed, StartRevoke, RunRevoke,
     ListTopics, ListTopicsFails, PurgeTopic, PurgeFails, PurgeDone, Local, streamVars, vars
<1>4. toPurge' # {} => pc' = "purge"
  <2>1. CASE Process
    BY <1>1, <2>1 DEF Process, Skip, SkipAt, Return, RefusePool, ResolveFails, StartGrant, RunGrant,
       GrantDone, AclsFailed, StartRevoke, RunRevoke, ListTopics, ListTopicsFails, PurgeTopic,
       PurgeFails, PurgeDone, WorkerAt, Local, streamVars, controllerVars
  <2>2. CASE Write \/ WriteLost
    BY <1>1, <2>2, WritesBack DEF Reporting
  <2>3. CASE Get
    BY <1>1, <2>3 DEF Get, GetNotFound, GetFails, GetObject, Dequeue, streamVars
  <2>4. CASE User \/ MakeTopic \/ Manager \/ Restart \/ UNCHANGED vars
    <3>1. UNCHANGED <<pc, toPurge>> \/ toPurge' = {}
      BY <2>4 DEF User, Apply, Edit, Remove, ResetHash, Written, MakeTopic, Manager, CacheSync,
         Resync, Timer, Restart, streamVars, controllerVars, workerVars, vars
    <3> QED
      BY <1>1, <3>1
  <2> QED
    BY <2>1, <2>2, <2>3, <2>4 DEF Next, Reconcile
<1>5. ControllerTypeOK(Objects, Places)'
  <2>1. CASE User
    BY <1>1, <2>1, UserWrites, OutsideKeepsTypes
  <2>2. CASE Manager \/ Restart
    BY <1>1, <2>2, OutsideKeepsTypes DEF Manager, Restart
  <2>3. CASE Get
    <3>1. "process" \in Places \ {"idle"}
      BY DEF Places
    <3>2. cache # NoObj => cache \in Objects
      BY <1>1 DEF ControllerTypeOK
    <3> QED
      BY <1>1, <2>3, <3>1, <3>2, ReadingKeepsTypes DEF Get, GetObject
  <2>4. CASE Process
    BY <1>1, <2>4, ProcessMoves, ReadingKeepsTypes
  <2>5. CASE Write \/ WriteLost
    <3>1. Reporting /\ (WriteOk(Report) \/ WriteConflict \/ WriteFails(Report))
      BY <2>5 DEF Write, WriteLost, WriteOk, WriteConflict, WriteFails
    <3> QED
      BY <1>1, <3>1, Reports, WritingKeepsTypes
  <2>6. CASE MakeTopic \/ UNCHANGED vars
    BY <1>1, <2>6, ReadingKeepsTypes DEF MakeTopic, vars, controllerVars
  <2> QED
    BY <2>1, <2>2, <2>3, <2>4, <2>5, <2>6 DEF Next, Reconcile
<1>6. TypeOK' <=> /\ AclTypeOK' /\ ControllerTypeOK(Objects, Places)' /\ allowed' \in PoolChoices
                  /\ toPurge' \subseteq InternalTopics /\ streamTopics' \subseteq InternalTopics
                  /\ toPurge' # {} => pc' = "purge"
  BY DEF TypeOK, Places
<1> QED
  BY <1>2, <1>3, <1>4, <1>5, <1>6

LEMMA CopyPart ==
  ASSUME TypeOK, CopyInv, [Next]_vars
  PROVE  CopyInv'
<1>1. CASE User
  BY <1>1, UserWrites, OutsideKeepsCopies
<1>2. CASE Manager \/ Restart
  BY <1>2, OutsideKeepsCopies DEF Manager, Restart
<1>3. CASE Get \/ Process
  BY <1>3, ProcessMoves, ReadingKeepsCopies DEF Get
<1>4. CASE Write \/ WriteLost
  BY <1>4, WritingKeepsCopies DEF Write, WriteLost
<1>5. CASE MakeTopic \/ UNCHANGED vars
  BY <1>5, ReadingKeepsCopies DEF MakeTopic, vars, controllerVars
<1> QED
  BY <1>1, <1>2, <1>3, <1>4, <1>5 DEF Next, Reconcile

-----------------------------------------------------------------------------
(* On behalf of which copy the ACL manager runs.                           *)

\* A call keeps what it was called for.
LEMMA StepKeepsLines == AclStep => UNCHANGED lines /\ aclPc' # "idle" /\ aclPc # "idle"
BY DEF AclStep, ListFails, WantedFails, Fail, List, Create, NextToAdd, Added, CreateFails, AddDone,
       DeleteWithoutId, NextToDelete, Delete, Deleted, DeleteFails, DeleteDone

LEMMA RealStepKeepsLines ==
  RealAcl!AclStep => UNCHANGED lines /\ aclPc' # "idle" /\ aclPc # "idle"
BY DEF RealAcl!AclStep, RealAcl!ListFails, RealAcl!WantedFails, RealAcl!Fail, RealAcl!List,
       RealAcl!Create, RealAcl!NextToAdd, RealAcl!Added, RealAcl!CreateFails, RealAcl!AddDone,
       RealAcl!DeleteWithoutId, RealAcl!NextToDelete, RealAcl!Delete, RealAcl!Deleted,
       RealAcl!DeleteFails, RealAcl!DeleteDone

LEMMA PlacePart ==
  ASSUME TypeOK, CopyInv, PlaceInv, [Next]_vars
  PROVE  PlaceInv'
<1> USE DEF PlaceInv, clusterVars, queueVars, workerVars, streamVars, aclCall
<1>1. CASE User
  <2>1. UNCHANGED <<pc, work, aclCall>> /\ workCurrent' = FALSE
    BY <1>1 DEF User, Apply, Edit, Remove, ResetHash, Written
  <2> QED
    BY <2>1
<1>2. CASE Manager \/ MakeTopic
  <2>1. UNCHANGED <<pc, work, workCurrent, obj, aclCall>>
    BY <1>2 DEF Manager, CacheSync, Resync, Timer, MakeTopic, controllerVars
  <2> QED
    BY <2>1
<1>3. CASE Restart
  BY <1>3 DEF Restart, RestartController, ResetAcl
<1>4. CASE Get
  <2>1. UNCHANGED <<obj, aclCall>> /\ pc = "idle"
    BY <1>4 DEF Get, GetNotFound, GetFails, GetObject, Dequeue
  <2>2. CASE GetNotFound \/ GetFails
    BY <2>1, <2>2 DEF GetNotFound, GetFails, Return
  <2>3. CASE GetObject(cache, "process")
    BY <2>1, <2>3 DEF GetObject, CopyInv
  <2> QED
    BY <1>4, <2>2, <2>3 DEF Get
<1>5. CASE ResolveFails \/ Skip \/ RefusePool
  BY <1>5 DEF ResolveFails, Skip, SkipAt, Return, RefusePool, WorkerAt, Local
<1>6. CASE StartRevoke
  BY <1>6 DEF StartRevoke, WorkerAt, Begin
<1>7. CASE StartGrant
  BY <1>7 DEF StartGrant, WorkerAt, Begin
<1>8. CASE RunGrant
  BY <1>8, StepKeepsLines DEF RunGrant, controllerVars
<1>9. CASE RunRevoke
  BY <1>9, RealStepKeepsLines DEF RunRevoke, controllerVars
<1>10. CASE GrantDone \/ AclsFailed \/ ListTopics \/ ListTopicsFails
  BY <1>10 DEF GrantDone, AclsFailed, ListTopics, ListTopicsFails, WorkerAt, ResetAcl
<1>11. CASE PurgeTopic
  BY <1>11 DEF PurgeTopic, controllerVars
<1>12. CASE PurgeFails \/ PurgeDone
  BY <1>12 DEF PurgeFails, PurgeDone, WorkerAt, Local
<1>13. CASE Write \/ WriteLost
  BY <1>13, WritesBack DEF Reporting
<1>14. CASE UNCHANGED vars
  BY <1>14 DEF vars
<1> QED
  BY <1>1, <1>2, <1>3, <1>4, <1>5, <1>6, <1>7, <1>8, <1>9, <1>10, <1>11, <1>12, <1>13, <1>14
     DEF Next, Reconcile, Process

-----------------------------------------------------------------------------
(* What Process has achieved.                                              *)

LEMMA ProgressPart ==
  ASSUME TypeOK, ~DryRun => AclInv, PlaceInv, ProgressInv, [Next]_vars
  PROVE  ProgressInv'
<1> SUFFICES ASSUME ~DryRun PROVE ProgressInv'
  BY DEF ProgressInv
<1> USE DEF clusterVars, queueVars, workerVars, streamVars, aclCall
<1>1. CASE User \/ Manager \/ UNCHANGED vars
  <2>1. UNCHANGED <<pc, work, aivenAcls, streamTopics, toPurge>>
    BY <1>1 DEF User, Apply, Edit, Remove, ResetHash, Written, Manager, CacheSync, Resync, Timer,
                vars
  <2> QED
    BY <2>1 DEF ProgressInv, HasAccess, Granted
<1>2. CASE MakeTopic
  <2>1. UNCHANGED <<pc, work, aivenAcls>> /\ Granted # {}
    BY <1>2 DEF MakeTopic, controllerVars
  <2> QED
    BY <2>1 DEF ProgressInv, HasAccess, Granted
<1>3. ASSUME pc' \in {"idle", "process", "revoke", "grant", "retry", "failed"}
      PROVE  ProgressInv'
  BY <1>3 DEF ProgressInv
<1>4. CASE Restart \/ Get \/ Skip \/ RefusePool \/ ResolveFails \/ StartGrant \/ RunGrant
             \/ AclsFailed \/ StartRevoke \/ RunRevoke \/ ListTopicsFails \/ PurgeFails
             \/ Write \/ WriteLost
  <2>1. pc' \in {"idle", "process", "revoke", "grant", "retry", "failed"}
    BY <1>4, WritesBack DEF Restart, RestartController, Get, GetNotFound, GetFails, GetObject,
       Dequeue, Return, Skip, SkipAt, RefusePool, ResolveFails, StartGrant, RunGrant, AclsFailed,
       StartRevoke, RunRevoke, ListTopicsFails, PurgeFails, WorkerAt, controllerVars
  <2> QED
    BY <1>3, <2>1
<1>5. CASE GrantDone
  <2>1. /\ pc = "grant" /\ pc' = "complete" /\ aclPc = "ok" /\ UNCHANGED <<work, aivenAcls>>
    BY <1>5 DEF GrantDone, WorkerAt
  <2>2. HasAccess(work.spec)
    BY <2>1 DEF PlaceInv, AclInv, SyncedOnSuccess, Goal, HasAccess
  <2> QED
    BY <2>1, <2>2 DEF ProgressInv, HasAccess, Granted
<1>6. CASE ListTopics
  <2>1. /\ pc = "revoke" /\ pc' = "purge" /\ aclPc = "ok" /\ UNCHANGED <<aivenAcls, streamTopics>>
        /\ toPurge' = streamTopics
    BY <1>6 DEF ListTopics, WorkerAt
  <2>2. Goal = {}
    BY <2>1 DEF PlaceInv, Goal
  <2>3. Granted' = {}
    BY <2>1, <2>2 DEF AclInv, SyncedOnSuccess, Granted
  <2> QED
    BY <2>1, <2>3 DEF ProgressInv
<1>7. CASE PurgeTopic
  BY <1>7 DEF PurgeTopic, controllerVars, ProgressInv, Granted
<1>8. CASE PurgeDone
  BY <1>8 DEF PurgeDone, WorkerAt, Local, ProgressInv, Granted
<1> QED
  BY <1>1, <1>2, <1>4, <1>5, <1>6, <1>7, <1>8 DEF Next, Reconcile, Process

-----------------------------------------------------------------------------
(* Deletions.                                                              *)

\* A call that revokes grants no one anything.
LEMMA RevokeTakes ==
  ASSUME ~DryRun, AclInv, PlaceInv, RunRevoke
  PROVE  Granted' \subseteq Granted
<1>1. AclStep /\ lines = <<>>
  BY RealIsAcl DEF RunRevoke, PlaceInv
<1>2. AclTypeOK /\ UniqueIds(aivenAcls) /\ toAdd = {}
  BY <1>1 DEF AclInv, AclTypeOK
<1>3. CASE UNCHANGED aivenAcls
  BY <1>3 DEF Granted
<1>4. CASE \E a \in Obsolete : a.id # NoId /\ AivenDelete(a.id)
  BY <1>2, <1>4, DeleteEffect
<1> QED
  BY <1>1, <1>2, <1>3, <1>4, AclStepKinds

\* Only these steps change anyone's access.
LEMMA AccessChanges == [Next]_vars => RunGrant \/ RunRevoke \/ UNCHANGED aivenAcls
BY AclIdle, NextSplitAcl, Leaves DEF AclCallStep, aclVars, StartGrant, StartRevoke, Begin

\* Only these steps change the topics under the prefix.
LEMMA TopicChanges ==
  [Next]_vars => MakeTopic \/ PurgeTopic \/ PurgeFails \/ UNCHANGED streamTopics
BY WritesBack DEF Next, User, Manager, Restart, Reconcile, Get, Process, Skip, RefusePool,
   ResolveFails, StartGrant, RunGrant, GrantDone, AclsFailed, StartRevoke, RunRevoke, ListTopics,
   ListTopicsFails, PurgeDone, Local, streamVars, vars

LEMMA DeletionPart ==
  ASSUME TypeOK, ~DryRun => AclInv, CopyInv, PlaceInv, ProgressInv, DeletionInv, [Next]_vars
  PROVE  DeletionInv'
<1> SUFFICES ASSUME ~DryRun PROVE DeletionInv'
  BY DEF DeletionInv
<1> USE DEF BeingDeleted, clusterVars, queueVars, workerVars, streamVars
<1> DEFINE Empty == Granted = {} /\ streamTopics = {}
<1>a. Empty /\ (~RunGrant \/ UNCHANGED aivenAcls) => Empty'
  <2> SUFFICES ASSUME Empty, ~RunGrant \/ UNCHANGED aivenAcls PROVE Empty'
    OBVIOUS
  <2>1. Granted' = {}
    BY AccessChanges, RevokeTakes DEF Granted
  <2>2. streamTopics' = {}
    BY TopicChanges DEF MakeTopic, PurgeTopic, PurgeFails
  <2> QED
    BY <2>1, <2>2
<1> HIDE DEF Empty
<1>b. /\ BeingDeleted(cache) => BeingDeleted(obj) \/ Empty
      /\ BeingDeleted(work) => BeingDeleted(obj) \/ Empty
      /\ BeingDeleted(cache) /\ pc # "idle" => work.deleting \/ BeingDeleted(obj)
  BY DEF DeletionInv, Empty
<1>c. SUFFICES /\ BeingDeleted(cache') => BeingDeleted(obj') \/ Empty'
               /\ BeingDeleted(work') => BeingDeleted(obj') \/ Empty'
               /\ BeingDeleted(cache') /\ pc' # "idle" => work'.deleting \/ BeingDeleted(obj')
  BY DEF DeletionInv, Empty
<1>1. CASE User
  <2>1. UNCHANGED <<cache, work, pc>> /\ (BeingDeleted(obj) => BeingDeleted(obj'))
    BY <1>1, UserWrites DEF User, Written
  <2>2. UNCHANGED aivenAcls
    BY <1>1 DEF User
  <2> QED
    BY <1>a, <1>b, <2>1, <2>2
<1>2. CASE Manager \/ Restart \/ MakeTopic \/ UNCHANGED vars
  <2>1. /\ UNCHANGED <<obj, aivenAcls>> /\ cache' \in {cache, obj}
        /\ UNCHANGED <<pc, work>> \/ (pc' = "idle" /\ work' = NoObj)
    BY <1>2 DEF Manager, CacheSync, Resync, Timer, Restart, RestartController, MakeTopic, vars,
       controllerVars
  <2> QED
    BY <1>a, <1>b, <2>1
<1>3. CASE Get
  <2>1. UNCHANGED <<obj, cache, aivenAcls>>
    BY <1>3 DEF Get, GetNotFound, GetFails, GetObject
  <2>2. CASE GetNotFound \/ GetFails
    BY <1>a, <1>b, <2>1, <2>2 DEF GetNotFound, GetFails, Dequeue, Return
  <2>3. CASE GetObject(cache, "process")
    BY <1>a, <1>b, <2>1, <2>3 DEF GetObject
  <2> QED
    BY <1>3, <2>2, <2>3 DEF Get
<1>4. CASE Process
  <2>1. UNCHANGED <<obj, cache>> /\ pc # "idle"
    BY <1>4, ProcessBusy
  <2>2. UNCHANGED work \/ (work' = NoObj /\ pc' = "idle")
    BY <1>4, ProcessMoves DEF WorkerAt, SkipAt, Return, controllerVars
  <2>3. CASE RunGrant
    <3>1. pc = "grant" /\ UNCHANGED work
      BY <2>3 DEF RunGrant, controllerVars
    <3>2. ~work.deleting
      BY <3>1 DEF PlaceInv
    <3> QED
      BY <1>b, <2>1, <3>1, <3>2
  <2>4. CASE ~RunGrant
    BY <1>a, <1>b, <2>1, <2>2, <2>4
  <2> QED
    BY <2>3, <2>4
<1>5. CASE Write \/ WriteLost
  <2>1. /\ Reporting /\ UNCHANGED <<cache, aivenAcls>> /\ pc' = "idle" /\ work' = NoObj
        /\ UNCHANGED obj \/ (workCurrent /\ obj' = Report)
    BY <1>5, WritesBack
  <2>2. CASE UNCHANGED obj
    BY <1>a, <1>b, <2>1, <2>2
  <2>3. CASE workCurrent /\ obj' = Report
    <3>1. SUFFICES ASSUME BeingDeleted(cache) PROVE BeingDeleted(obj') \/ Empty'
      BY <2>1
    <3>2. cache = obj /\ work = obj
      BY <2>3 DEF CopyInv, PlaceInv
    <3>3. CASE pc = "finalize"
      <4>1. Empty
        BY <3>3 DEF ProgressInv, Empty
      <4> QED
        BY <1>a, <2>1, <4>1
    <3>4. CASE pc # "finalize"
      BY <2>1, <2>3, <3>1, <3>2, <3>4, Reports
    <3> QED
      BY <3>3, <3>4
  <2> QED
    BY <2>1, <2>2, <2>3
<1> QED
  BY <1>1, <1>2, <1>3, <1>4, <1>5 DEF Next, Reconcile

-----------------------------------------------------------------------------
(* What the statuses claim.                                                *)

\* Granting what is granted already changes no one's access.
LEMMA ProcessKeepsAccess ==
  ASSUME TypeOK, ~DryRun => AclInv, PlaceInv, Process, ~work.deleting
  PROVE  \A d : d = work.spec /\ HasAccess(d) => HasAccess(d)'
<1> SUFFICES ASSUME NEW d, d = work.spec, HasAccess(d) PROVE Granted' = Granted
  BY DEF HasAccess
<1>1. CASE UNCHANGED aivenAcls
  BY <1>1 DEF Granted
<1>2. ~RunRevoke
  BY DEF RunRevoke, PlaceInv
<1>3. CASE RunGrant /\ DryRun
  <2>1. UNCHANGED aivenAcls
    BY <1>3 DEF RunGrant, AclStep, ListFails, WantedFails, List, Create, CreateFails, AddDone,
       DeleteWithoutId, Delete, DeleteFails, DeleteDone, UnlessDryRun
  <2> QED
    BY <1>1, <2>1
<1>4. CASE RunGrant /\ ~DryRun
  <2>1. AclStep /\ Granted = Goal /\ AclInv
    BY <1>4 DEF RunGrant, PlaceInv, HasAccess, Goal
  <2>2. CASE \E i \in toAdd : AivenCreate(lines[i])
    <3>1. PICK i \in toAdd : AivenCreate(lines[i])
      BY <2>2
    <3>2. AclTypeOK /\ UniqueIds(aivenAcls) /\ i \in DOMAIN lines
      BY <2>1 DEF AclInv, AclTypeOK
    <3>3. lines[i] \in Entries /\ Entry(lines[i]) = lines[i]
      BY <3>2, LineIsEntry
    <3>4. lines[i] \in Goal
      BY <3>2, <3>3 DEF Goal
    <3> QED
      BY <2>1, <3>1, <3>2, <3>3, <3>4, CreateEffect
  <2>3. ASSUME NEW a \in Obsolete, a.id # NoId, AivenDelete(a.id) PROVE FALSE
    BY <2>1, <2>3 DEF Obsolete, Granted
  <2> QED
    BY <1>1, <2>1, <2>2, <2>3, AclStepKinds
<1> QED
  BY <1>1, <1>2, <1>3, <1>4, AccessChanges DEF Next, Reconcile

LEMMA SpecPart ==
  ASSUME TypeOK, CopyInv, PlaceInv, ~MayRevert, SpecInv, [Next]_vars
  PROVE  SpecInv'
<1>1. CASE User
  BY <1>1, UserWrites, WrittenKeepsSpec
<1>2. CASE Manager \/ Restart
  BY <1>2, ManagerKeepsSpec DEF Manager, Restart
<1>3. CASE Get
  BY <1>3, ReadingKeepsSpec DEF Get
<1>4. CASE Process
  BY <1>4, ProcessMoves, ReadingKeepsSpec
<1>5. CASE Write \/ WriteLost
  <2>1. workCurrent /\ Synced(Report) => ~obj.deleting /\ Report.spec = obj.spec
    BY <1>5, WritesBack, Reports DEF Synced, PlaceInv
  <2> QED
    BY <1>5, <2>1, WritingKeepsSpec DEF Write, WriteLost
<1>6. CASE MakeTopic \/ UNCHANGED vars
  BY <1>6, ReadingKeepsSpec DEF MakeTopic, vars, controllerVars
<1> QED
  BY <1>1, <1>2, <1>3, <1>4, <1>5, <1>6 DEF Next, Reconcile

LEMMA StatusPart ==
  ASSUME TypeOK, ~DryRun => AclInv, CopyInv, PlaceInv, ProgressInv, StatusInv, [Next]_vars
  PROVE  StatusInv'
<1> SUFFICES ASSUME ~MayRevert PROVE StatusInv'
  BY DEF StatusInv
<1>a. SpecInv' /\ SpecInv /\ (Synced(obj) => HasAccess(obj.spec))
  BY SpecPart DEF StatusInv, TruthfulStatus
<1>b. SUFFICES (Synced(obj) => HasAccess(obj.spec))'
  BY <1>a DEF StatusInv, TruthfulStatus
<1>c. UNCHANGED aivenAcls => \A d : HasAccess(d) => HasAccess(d)'
  BY DEF HasAccess, Granted
<1> USE DEF clusterVars, queueVars, workerVars
<1>1. CASE User
  <2>1. UNCHANGED aivenAcls
    BY <1>1 DEF User
  <2>2. Synced(obj') => Synced(obj) /\ obj'.spec = obj.spec
    BY <1>1, UserWrites DEF Written
  <2> QED
    BY <1>a, <1>c, <2>1, <2>2 DEF Synced, NeedsSynchronization
<1>2. CASE Manager \/ Restart \/ MakeTopic \/ Get \/ UNCHANGED vars
  <2>1. UNCHANGED <<obj, aivenAcls>>
    BY <1>2 DEF Manager, CacheSync, Resync, Timer, Restart, RestartController, MakeTopic, Get,
       GetNotFound, GetFails, GetObject, vars, controllerVars
  <2> QED
    BY <1>a, <1>c, <2>1 DEF Synced, NeedsSynchronization
<1>3. CASE Process
  <2>1. UNCHANGED obj /\ pc # "idle"
    BY <1>3, ProcessBusy
  <2>2. ASSUME Synced(obj) PROVE HasAccess(obj.spec) /\ ~work.deleting /\ obj.spec = work.spec
    BY <1>a, <2>1, <2>2 DEF SpecInv
  <2>3. ASSUME ~work.deleting PROVE \A d : d = work.spec /\ HasAccess(d) => HasAccess(d)'
    BY <1>3, <2>3, ProcessKeepsAccess
  <2>4. Synced(obj) => HasAccess(obj.spec)'
    BY <2>1, <2>2, <2>3
  <2> QED
    BY <2>1, <2>4 DEF Synced, NeedsSynchronization
<1>4. CASE Write \/ WriteLost
  <2>1. /\ Reporting /\ UNCHANGED aivenAcls
        /\ UNCHANGED obj \/ (~DryRun /\ workCurrent /\ obj' = Report)
    BY <1>4, WritesBack, StreamAssumption
  <2>2. ASSUME ~DryRun, workCurrent, obj' = Report, Synced(obj') PROVE HasAccess(obj'.spec)
    <3>1. work = obj
      BY <2>2 DEF PlaceInv
    <3>2. Report.spec = work.spec /\ (pc # "complete" => Report = work)
      BY <2>1, <2>2, Reports DEF Synced
    <3>3. CASE pc = "complete"
      BY <2>2, <3>2, <3>3 DEF ProgressInv
    <3>4. CASE pc # "complete"
      BY <1>a, <2>2, <3>1, <3>2, <3>4
    <3> QED
      BY <3>3, <3>4
  <2> QED
    BY <1>a, <1>c, <2>1, <2>2 DEF Synced, NeedsSynchronization
<1> QED
  BY <1>1, <1>2, <1>3, <1>4 DEF Next, Reconcile

-----------------------------------------------------------------------------
(* The invariants.                                                         *)

LEMMA InitInv == Init => ReconcilerInv
<1> SUFFICES ASSUME Init PROVE ReconcilerInv
  OBVIOUS
<1>1. AclInv
  BY AclInitInv DEF Init
<1>2. TypeOK
  <2>1. ControllerTypeOK(Objects, Places)
    BY InitTypes, EarlierAssumption DEF Init
  <2> QED
    BY <1>1, <2>1, TypeParts DEF Init, AclInv
<1>3. CopyInv
  BY DEF Init, ControllerInit, CopyInv
<1>4. PlaceInv
  BY DEF Init, ControllerInit, AclInit, PlaceInv
<1>5. ProgressInv
  BY DEF Init, ControllerInit, ProgressInv
<1>6. DeletionInv
  BY DEF Init, ControllerInit, DeletionInv, BeingDeleted
<1> QED
  BY <1>1, <1>2, <1>3, <1>4, <1>5, <1>6 DEF ReconcilerInv

\* On behalf of which copy the worker acts, what it has achieved and how old
\* the copies are: the strengthening that the properties below rest on.
THEOREM StreamInvariant == Spec => []ReconcilerInv
<1>1. ReconcilerInv /\ [Next]_vars => ReconcilerInv'
  BY AclPart, TypePart, CopyPart, PlacePart, ProgressPart, DeletionPart DEF ReconcilerInv
<1> QED
  BY <1>1, InitInv, PTL DEF Spec

\* The variables keep their types, in a dry run, too; what is left of a listing
\* is dropped whenever a deletion ends.
THEOREM StreamTypeInvariant == Spec => []TypeOK
<1>1. ReconcilerInv => TypeOK
  BY DEF ReconcilerInv
<1> QED
  BY <1>1, StreamInvariant, PTL

\* Unless users return to the declaration synchronized last, a status that was
\* true when the process started, or says nothing, stays true.
THEOREM StreamStatusInvariant == Spec /\ TruthfulStatus => []StatusInv
<1>1. Init /\ TruthfulStatus => StatusInv
  BY DEF Init, ControllerInit, StatusInv, SpecInv, Synced
<1>2. ReconcilerInv /\ StatusInv /\ [Next]_vars => StatusInv'
  BY StatusPart DEF ReconcilerInv
<1> QED
  BY <1>1, <1>2, StreamInvariant, PTL DEF Spec

\* A Stream that counts as synchronized has its access in place
\* (stream_controller.go:212-233): for its owner, its additional users
\* and no one else, through stale copies, failed calls and restarts.
THEOREM StreamTruthfulStatus ==
  ASSUME ~MayRevert
  PROVE  Spec /\ TruthfulStatus => []TruthfulStatus
<1>1. StatusInv => TruthfulStatus
  BY DEF StatusInv
<1> QED
  BY <1>1, StreamStatusInvariant, PTL

-----------------------------------------------------------------------------
(* What a step may never do.                                               *)

\* When the finalizer lets a Stream go no one has access and no topic is left
\* under the prefix (stream_controller.go:236-290): none was made after the
\* listing, as the access went before.
THEOREM StreamGoneMeansCleaned == Spec => GoneMeansCleaned
<1>1. ReconcilerInv /\ [Next]_vars
        => [obj # NoObj /\ obj.fin /\ obj' = NoObj => Granted = {} /\ streamTopics = {}]_vars
  <2> SUFFICES ASSUME ReconcilerInv, Next, obj # NoObj, obj.fin, obj' = NoObj
               PROVE  Granted = {} /\ streamTopics = {}
    OBVIOUS
  <2>a. TypeOK /\ ProgressInv
    BY DEF ReconcilerInv
  <2>1. ~User
    BY <2>a, UserWrites DEF Written
  <2>2. ~Manager /\ ~Restart /\ ~MakeTopic /\ ~Get
    BY DEF Manager, CacheSync, Resync, Timer, Restart, RestartController, MakeTopic, Get,
       GetNotFound, GetFails, GetObject, clusterVars, controllerVars
  <2>3. ~Process
    BY ProcessBusy
  <2>4. Reporting /\ ~DryRun /\ Report = NoObj
    BY <2>1, <2>2, <2>3, WritesBack, StreamAssumption DEF Next, Reconcile
  <2>5. pc = "finalize"
    BY <2>a, <2>4, Reports
  <2> QED
    BY <2>a, <2>4, <2>5 DEF ProgressInv
<1> QED
  BY <1>1, StreamInvariant, PTL DEF Spec, GoneMeansCleaned

\* Topics are destroyed only while the API has the Stream as being deleted,
\* and only after the last access was revoked (stream_controller.go:236-290):
\* a copy of an earlier Stream of that name destroys nothing.
THEOREM StreamDataOnlyOnDeletion == Spec => DataOnlyOnDeletion
<1>1. ReconcilerInv /\ [Next]_vars
        => [~(streamTopics \subseteq streamTopics')
              => obj # NoObj /\ obj.deleting /\ Granted = {}]_vars
  <2> SUFFICES ASSUME ReconcilerInv, Next, ~(streamTopics \subseteq streamTopics')
               PROVE  obj # NoObj /\ obj.deleting /\ Granted = {}
    OBVIOUS
  <2>a. TypeOK /\ PlaceInv /\ ProgressInv /\ DeletionInv
    BY DEF ReconcilerInv
  <2>1. PurgeTopic \/ PurgeFails
    BY TopicChanges DEF MakeTopic
  <2>2. pc = "purge" /\ ~DryRun
    BY <2>1 DEF PurgeTopic, PurgeFails, WorkerAt
  <2>3. work # NoObj /\ work.deleting /\ streamTopics # {}
    BY <2>a, <2>2 DEF TypeOK, ControllerTypeOK, PlaceInv
  <2> QED
    BY <2>a, <2>2, <2>3 DEF DeletionInv, ProgressInv, BeingDeleted
<1> QED
  BY <1>1, StreamInvariant, PTL DEF Spec, DataOnlyOnDeletion

\* As long as there is something to do, something is there to trigger it,
\* whichever step failed last (stream_controller.go:49-135); only a failure
\* that is not retried gives up.
THEOREM StreamNoLostWakeup == Spec => NoLostWakeup
<1>1. ReconcilerInv /\ [Next]_vars
        => [~DryRun /\ Forgotten' => Forgotten \/ pc = "failed"]_vars
  <2> SUFFICES ASSUME ReconcilerInv, Next, ~DryRun, pc # "failed", Forgotten' PROVE Forgotten
    OBVIOUS
  <2>a. TypeOK /\ CopyInv /\ PlaceInv
    BY DEF ReconcilerInv
  <2>1. CASE User
    BY <2>1, <2>a, UserWrites, OutsideForgetsNothing
  <2>2. CASE Manager \/ Restart
    BY <2>2, OutsideForgetsNothing DEF Manager, Restart
  <2>3. CASE Get
    BY <2>3, <2>a, ReadingForgetsNothing DEF Get
  <2>4. ASSUME UNCHANGED controllerVars PROVE Forgotten
    BY <2>4 DEF controllerVars, Forgotten, Awake
  <2>5. CASE Process
    <3>1. CASE \E from, to : from # "idle" /\ to # "idle" /\ WorkerAt(from, to)
      BY <2>a, <3>1, ReadingForgetsNothing
    <3>2. CASE SkipAt("process")
      <4>1. workCurrent => work.spec = obj.spec /\ work.hash = obj.hash
                             /\ work.deleting = obj.deleting
        BY <2>a DEF PlaceInv
      <4> QED
        BY <2>a, <3>2, <4>1, SkippingForgetsNothing
    <3> QED
      BY <2>4, <2>5, <3>1, <3>2, ProcessMoves
  <2>6. CASE Write \/ WriteLost
    BY <2>6, <2>a, StreamAssumption, WritingForgetsNothing DEF Write, WriteLost
  <2> QED
    BY <2>1, <2>2, <2>3, <2>4, <2>5, <2>6 DEF Next, Reconcile, MakeTopic
<1> QED
  BY <1>1, StreamInvariant, PTL DEF Spec, NoLostWakeup

-----------------------------------------------------------------------------
(* What the ACL manager promises, of the reconciler that runs it.          *)

\* Through every synchronization, retry, deletion and restart of a Stream
\* (stream_controller.go:137-290), unless it is a dry run, whose deletions do
\* call Aiven: others keep their ACLs, access is revoked only when the version
\* at hand does not give it and all that it gives is granted, and no pair that
\* it gives once gets a second ACL.
THEOREM StreamKeepsAccess ==
  ASSUME ~DryRun
  PROVE  Spec => ForeignUntouched /\ RevokeAfterGrant /\ NoDuplicates
<1> DEFINE Effect ==
      /\ Foreign' = Foreign
      /\ \A e \in Granted \ Granted' : e \notin Goal /\ Goal \subseteq Granted
      /\ \A a \in aivenAcls' \ aivenAcls : DeclaredOnce(Entry(a)) => Entry(a) \notin Granted
<1>1. ReconcilerInv /\ [Next]_vars => Effect
  <2> SUFFICES ASSUME ReconcilerInv, [Next]_vars PROVE Effect
    OBVIOUS
  <2>1. CASE RunGrant \/ RunRevoke
    BY <2>1, AclStepEffect, RealIsAcl DEF ReconcilerInv, RunGrant, RunRevoke
  <2>2. CASE UNCHANGED aivenAcls
    BY <2>2 DEF Foreign, Granted
  <2> QED
    BY <2>1, <2>2, AccessChanges
<1>2. Effect =>
        /\ [AclStep => Foreign' = Foreign]_aclVars
        /\ [\A e \in Granted \ Granted' : e \notin Goal /\ Goal \subseteq Granted]_aclVars
        /\ [\A a \in aivenAcls' \ aivenAcls :
              a.topic = Own /\ DeclaredOnce(Entry(a)) => Entry(a) \notin Granted]_aclVars
  OBVIOUS
<1> QED
  BY <1>1, <1>2, StreamInvariant, PTL DEF Spec, ForeignUntouched, RevokeAfterGrant, NoDuplicates

=============================================================================
