---------------------------- MODULE TopicReconciler ----------------------------
(***************************************************************************)
(* TopicReconciler (controllers/topic_controller.go), for one Topic: what  *)
(* Process does between reading the resource and writing its result, call  *)
(* by call, with the ACL and the topic manager that it runs.               *)
(***************************************************************************)
EXTENDS AclManager, TopicManager, Controller

CONSTANTS
  Declarations,     \* what a Topic may declare: records of acl and config
  PoolChoices,      \* whether --projects may name the pool of the topic
  PurgeChoices,     \* whether a Topic asks for its data to be removed with it
  MayRevert         \* whether a user may return to the declaration last synchronized

ASSUME ReconcilerAssumption ==
  /\ \A d \in Declarations : d.acl \in AclLists /\ d.config \in Configs
  /\ NoHash \notin Declarations
  /\ TopicDryRun = DryRun /\ ClientDryRun = DryRun
  /\ PoolChoices \in SUBSET BOOLEAN \ {{}}
  /\ PurgeChoices \in SUBSET BOOLEAN \ {{}}
  /\ MayRevert \in BOOLEAN

VARIABLE allowed    \* the pool is one of --projects, since the process started

aivenVars == <<aivenAcls, aivenTopic>>
aclCall == <<aclPc, lines, toAdd, toDelete>>
topicCall == <<topicPc, config>>
vars == <<aivenAcls, aclPc, lines, toAdd, toDelete, aivenTopic, topicPc, config,
          obj, cache, cacheCurrent, queued, delayed, pc, work, workCurrent, allowed>>

\* purge: the resource asks for its data to be removed with it.
Objects ==
  [ spec : Declarations, hash : Declarations \cup {NoHash},
    fin : BOOLEAN, deleting : BOOLEAN, purge : BOOLEAN ]

ASSUME EarlierAssumption ==
  NoObj \notin Objects /\ EarlierObjs \subseteq Objects \cup {NoObj}

Init == AclInit /\ TopicInit /\ ControllerInit /\ allowed \in PoolChoices

-----------------------------------------------------------------------------
(* Users and the manager.                                                  *)

Apply ==
  /\ obj = NoObj
  /\ \E d \in Declarations, p \in PurgeChoices :
       Written([spec |-> d, hash |-> NoHash, fin |-> FALSE, deleting |-> FALSE, purge |-> p])

Edit ==
  /\ obj # NoObj
  /\ \E d \in Declarations, p \in PurgeChoices :
       /\ <<d, p>> # <<obj.spec, obj.purge>>
       /\ d # obj.spec /\ d = obj.hash => MayRevert
       /\ Written([obj EXCEPT !.spec = d, !.purge = p])

User ==
  /\ Apply \/ Edit \/ Remove \/ ResetHash
  /\ UNCHANGED <<aivenVars, aclCall, topicCall, allowed>>

Manager ==
  /\ CacheSync \/ Resync \/ Timer
  /\ UNCHANGED <<aivenVars, aclCall, topicCall, allowed>>

\* The managers live as long as the call of Process that made them.
ResetAcl == aclPc' = "idle" /\ lines' = <<>> /\ toAdd' = {} /\ toDelete' = {}
ResetTopic == topicPc' = "idle" /\ config' = NilConfig

\* The next process (startReconcilers) may allow other pools.
Restart ==
  /\ RestartController
  /\ ResetAcl
  /\ ResetTopic
  /\ allowed' \in PoolChoices
  /\ UNCHANGED aivenVars

\* The finalizer is added to the copy; it reaches the API with the status.
Get ==
  /\ \/ GetNotFound
     \/ GetFails
     \/ cache # NoObj /\ GetObject([cache EXCEPT !.fin = TRUE], "resolve")
  /\ UNCHANGED <<aivenVars, aclCall, topicCall, allowed>>

-----------------------------------------------------------------------------
(* Process: a resource being deleted.                                      *)

\* Steps of the worker that leave the managers and Aiven alone.
Local == UNCHANGED <<aivenVars, aclCall, topicCall, allowed>>

ResolveFails == WorkerAt("resolve", "failed") /\ Local

\* Mutant: the data goes before the access.
StartPurge ==
  /\ WorkerAt("resolve", "purge")
  /\ work.deleting
  /\ Local

\* ACLs are synchronized with a copy of the Topic that declares none.
StartRevoke ==
  /\ WorkerAt("resolve", "revoke")
  /\ work.deleting
  /\ Begin(<<>>)
  /\ UNCHANGED <<aivenTopic, topicCall, allowed>>

\* Mutant: the data is never removed.
AlwaysFinalize == "finalize"

AfterRevoke == IF work.purge THEN "purge" ELSE "finalize"

Revoked ==
  /\ aclPc = "ok"
  /\ WorkerAt("revoke", AfterRevoke)
  /\ ResetAcl
  /\ UNCHANGED <<aivenVars, topicCall, allowed>>

\* Mutant: a topic that is gone already is an error.
PurgeExisting ==
  /\ WorkerAt("purge", IF aivenTopic = NoTopic THEN "retry" ELSE "finalize")
  /\ aivenTopic' = IF DryRun THEN aivenTopic ELSE NoTopic
  /\ UNCHANGED <<aivenAcls, aclCall, topicCall, allowed>>

\* A topic that Aiven does not have any more counts as deleted.
PurgeTopic ==
  /\ WorkerAt("purge", "finalize")
  /\ aivenTopic' = IF DryRun THEN aivenTopic ELSE NoTopic
  /\ UNCHANGED <<aivenAcls, aclCall, topicCall, allowed>>

PurgeFails ==
  /\ ~DryRun
  /\ WorkerAt("purge", "retry")
  /\ aivenTopic' = NoTopic \/ UNCHANGED aivenTopic
  /\ UNCHANGED <<aivenAcls, aclCall, topicCall, allowed>>

-----------------------------------------------------------------------------
(* Process: a resource to synchronize; ACLs first, then the topic.         *)

Skip == SkipAt("resolve") /\ Local

ToSynchronize == ~work.deleting /\ NeedsSynchronization(work)

RefusePool == WorkerAt("resolve", "failed") /\ ToSynchronize /\ ~allowed /\ Local

\* Mutant: the pool is not looked at.
StartGrantAnywhere ==
  /\ WorkerAt("resolve", "grant")
  /\ ToSynchronize
  /\ Begin(work.spec.acl)
  /\ UNCHANGED <<aivenTopic, topicCall, allowed>>

StartGrant ==
  /\ WorkerAt("resolve", "grant")
  /\ ToSynchronize
  /\ allowed
  /\ Begin(work.spec.acl)
  /\ UNCHANGED <<aivenTopic, topicCall, allowed>>

RunAcls ==
  /\ pc \in {"revoke", "grant"}
  /\ AclStep
  /\ UNCHANGED <<aivenTopic, topicCall, controllerVars, allowed>>

AclsFailed ==
  /\ aclPc = "failed"
  /\ WorkerAt("revoke", "retry") \/ WorkerAt("grant", "retry")
  /\ ResetAcl
  /\ UNCHANGED <<aivenVars, topicCall, allowed>>

StartTopic ==
  /\ aclPc = "ok"
  /\ WorkerAt("grant", "topic")
  /\ ResetAcl
  /\ TopicBegin(work.spec.config)
  /\ UNCHANGED <<aivenAcls, allowed>>

RunTopic ==
  /\ pc = "topic"
  /\ TopicStep
  /\ UNCHANGED <<aivenAcls, aclCall, controllerVars, allowed>>

\* Mutant: the error of the topic manager is dropped.
TopicDoneAnyway ==
  /\ topicPc \in {"ok", "refused", "failed"}
  /\ WorkerAt("topic", "complete")
  /\ ResetTopic
  /\ UNCHANGED <<aivenVars, aclCall, allowed>>

TopicDone ==
  /\ \/ topicPc = "ok" /\ WorkerAt("topic", "complete")
     \/ topicPc \in {"refused", "failed"} /\ WorkerAt("topic", "retry")
  /\ ResetTopic
  /\ UNCHANGED <<aivenVars, aclCall, allowed>>

Process ==
  \/ ResolveFails \/ StartRevoke \/ Revoked \/ PurgeTopic \/ PurgeFails
  \/ Skip \/ RefusePool \/ StartGrant \/ RunAcls \/ AclsFailed
  \/ StartTopic \/ RunTopic \/ TopicDone

-----------------------------------------------------------------------------
(* Reconcile: write the result back.                                       *)

\* Mutant: the hash is set before the synchronization.
ReportHashAlways ==
  IF pc = "finalize" THEN NoObj ELSE [work EXCEPT !.hash = work.spec]

\* What Update sends: the copy, with its finalizer, and the new status.
\* Without the finalizer a resource that is being deleted is gone.
Report ==
  CASE pc = "complete" -> [work EXCEPT !.hash = work.spec]
    [] pc = "finalize" -> NoObj
    [] OTHER -> work

Write == (WriteOk(Report) \/ WriteConflict) /\ Local
WriteLost == WriteFails(Report) /\ Local

Reconcile == Get \/ Process \/ Write \/ WriteLost

Next == User \/ Manager \/ Restart \/ Reconcile

Spec == Init /\ [][Next]_vars

\* A process that runs keeps its watch, its timers and its worker going.
Fairness ==
  /\ WF_vars(CacheSync /\ Manager) /\ WF_vars(Resync /\ Manager)
  /\ WF_vars(Timer /\ Manager) /\ WF_vars(Reconcile)

LiveSpec == Spec /\ Fairness

-----------------------------------------------------------------------------
(* Correctness.                                                            *)

TypeOK ==
  /\ AclTypeOK /\ TopicTypeOK
  /\ ControllerTypeOK(Objects, {"resolve", "revoke", "purge", "grant", "topic"})
  /\ allowed \in PoolChoices

\* Aiven holds what a declaration says: its access, no more and no less, and
\* the topic with every setting that updates propagate.
HasAccess(d) == Granted = {Entry(d.acl[i]) : i \in DOMAIN d.acl}

InAiven(d) ==
  /\ HasAccess(d)
  /\ aivenTopic # NoTopic
  /\ \A f \in Propagated : Sent(d.config, f) \in {Unset, aivenTopic[f]}

\* A resource whose status says that its declaration is synchronized is
\* synchronized: through stale copies, edits during a synchronization, calls
\* that fail half-way, lost answers and restarts, as long as no user returns
\* to the declaration synchronized last.
TruthfulStatus ==
  Synced(obj) => InAiven(obj.spec)

\* "Synchronization already complete" (topic_controller.go:171): the reconciler
\* takes its hash for proof only when Aiven holds the declaration.
SkipOnlyWhenSynced == [][Skip => InAiven(work.spec)]_vars

\* When Kafkarator's finalizer lets a resource go, no one has access through
\* the topic any more, and its data is gone if the resource said so, in the
\* version that is deleted and not in one the worker read before.
GoneMeansCleaned ==
  [][obj # NoObj /\ obj.fin /\ obj' = NoObj =>
       Granted = {} /\ (obj.purge => aivenTopic = NoTopic)]_vars

\* Data is destroyed only while the API has the resource as being deleted, and
\* only after the last access was revoked: not for a copy of an earlier
\* resource of that name.
DataOnlyOnDeletion ==
  [][aivenTopic # NoTopic /\ aivenTopic' = NoTopic =>
       obj # NoObj /\ obj.deleting /\ Granted = {}]_vars

\* A pool that --projects does not name gets no ACL and no topic.
RefusedPoolUntouched ==
  [][~allowed => Granted' \subseteq Granted /\ aivenTopic' \in {aivenTopic, NoTopic}]_vars

\* As long as there is something to do, something is there to trigger it
\* without waiting for the next resync, whichever step failed last; only a
\* failure that the code does not retry gives up.
NoLostWakeup == [][~DryRun /\ Forgotten' => Forgotten \/ pc = "failed"]_vars

\* Steps that fail although nothing is wrong with the resource.
Faults ==
  \/ GetFails \/ ResolveFails \/ PurgeFails \/ WriteLost
  \/ (ListFails \/ CreateFails \/ DeleteFails) /\ UNCHANGED pc
  \/ (GetTopicFails \/ CreateTopicFails \/ UpdateTopicFails) /\ UNCHANGED pc

Settled ==
  \/ obj = NoObj
  \/ Synced(obj)
  \/ ~obj.deleting /\ (~allowed \/ Invalid(obj.spec.config))

\* What changes as much in an undisturbed step is no disturbance: a restart
\* while the worker is idle looks like a resync, a lost write like a conflict.
Disturbance ==
  /\ User \/ Restart \/ Faults
  /\ ~(Manager \/ GetNotFound \/ RefusePool \/ Skip \/ PurgeTopic \/ Write)

\* Once users, restarts and faults pause, the resource ends up synchronized, or
\* gone if it was deleted, and stays so; unless its pool or its configuration
\* is refused.
EventuallySettled == <>[][~Disturbance]_vars => <>[]Settled

\* "Append Kafkarator to finalizers to ensure proper cleanup when topic is
\* deleted" (topic_controller.go:249): when the resource is gone and nothing
\* is left to do, no access is left at Aiven.
NoOrphanedAccess ==
  obj = NoObj /\ AtRest => Granted = {}

\* "If true, do not make any changes" (cmd/kafkarator/main.go:85), whichever
\* path a synchronization, a deletion or their retries take: not at Aiven,
\* and not to the resource, whose status would count as synchronized later.
DryRunUntouched == [][DryRun /\ Reconcile => UNCHANGED <<aivenVars, obj>>]_vars

-----------------------------------------------------------------------------
(* The inductive invariant, in parts that rest on those before.            *)

\* Which manager runs where, on behalf of which copy.
PlaceInv ==
  /\ aclPc # "idle" => pc \in {"revoke", "grant"}
  /\ topicPc # "idle" => pc = "topic"
  /\ pc \in {"grant", "topic"} => allowed
  /\ pc = "grant" => lines = work.spec.acl
  /\ pc = "topic" => config = work.spec.config
  /\ pc = "revoke" => lines = <<>>
  /\ pc \in {"grant", "topic", "complete"} => ~work.deleting
  /\ pc \in {"revoke", "purge", "finalize"} => work.deleting
  /\ pc = "purge" => work.purge
  /\ workCurrent => obj # NoObj /\ work = [obj EXCEPT !.fin = TRUE]

\* What Process has achieved so far for its copy.
ProgressInv ==
  ~DryRun =>
    /\ pc \in {"topic", "complete"} => HasAccess(work.spec)
    /\ pc = "complete" => InAiven(work.spec)
    /\ pc \in {"purge", "finalize"} => Granted = {}
    /\ pc = "finalize" /\ work.purge => aivenTopic = NoTopic

BeingDeleted(o) == o # NoObj /\ o.deleting

\* A copy is of a resource that is being deleted only while the API's is, or
\* when there is no data left that the copy could destroy.
DeletionInv ==
  ~DryRun =>
    /\ \A copy \in {cache, work} :
         BeingDeleted(copy) /\ copy.purge => BeingDeleted(obj) \/ aivenTopic = NoTopic
    /\ BeingDeleted(cache) /\ pc # "idle" => work.deleting \/ BeingDeleted(obj)

\* Every version that claims to be synchronized does so rightly, if those that
\* were there when the process started did.
StatusInv ==
  ~MayRevert =>
    /\ SpecInv
    /\ TruthfulStatus
    /\ Synced(cache) => InAiven(cache.spec)
    /\ pc = "resolve" /\ Synced(work) => InAiven(work.spec)

ReconcilerInv ==
  TypeOK /\ AclInv /\ TopicInv /\ CopyInv /\ PlaceInv /\ ProgressInv /\ DeletionInv

=============================================================================
