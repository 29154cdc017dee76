---------------------------- MODULE StreamReconciler ----------------------------
(***************************************************************************)
(* StreamReconciler (controllers/stream_controller.go), for one Stream:    *)
(* access to every topic under the Stream's prefix for the application     *)
(* that owns it and the additional users it names.  The application makes  *)
(* topics under the prefix by itself, for as long as it has access; when   *)
(* the Stream is deleted its ACLs go first, then those topics.             *)
(*                                                                         *)
(* On deletion the ACL manager is made without the DryRun flag             *)
(* (stream_controller.go:249-255): it runs as RealAcl.                     *)
(***************************************************************************)
EXTENDS AclManager, Controller

RealAcl == INSTANCE AclManager WITH DryRun <- FALSE

CONSTANTS
  Owner,            \* the application that owns the Stream
  Declarations,     \* what a Stream may declare: its additional users, in order
  InternalTopics,   \* the topics that the application may make under the prefix
  PoolChoices,      \* whether --projects may name the pool of the Stream
  MayRevert         \* whether a user may return to the declaration last synchronized

\* StreamAdapter.ACLs, of a Stream that is not deleted.
StreamACLs(additional) ==
  <<[user |-> Owner, perm |-> "admin"]>>
    \o [i \in DOMAIN additional |-> [user |-> additional[i], perm |-> "admin"]]

ASSUME StreamAssumption ==
  /\ \A d \in Declarations : StreamACLs(d) \in AclLists
  /\ NoHash \notin Declarations
  /\ ClientDryRun = DryRun
  /\ PoolChoices \in SUBSET BOOLEAN \ {{}}
  /\ MayRevert \in BOOLEAN

VARIABLES
  streamTopics,   \* the topics under the prefix, at Aiven
  toPurge,        \* the listed topics that handleDelete has still to delete
  allowed         \* the pool is one of --projects, since the process started

aclCall == <<aclPc, lines, toAdd, toDelete>>
streamVars == <<streamTopics, toPurge, allowed>>
vars == <<aivenAcls, aclPc, lines, toAdd, toDelete, obj, cache, cacheCurrent,
          queued, delayed, pc, work, workCurrent, streamTopics, toPurge, allowed>>

Objects ==
  [ spec : Declarations, hash : Declarations \cup {NoHash},
    fin : BOOLEAN, deleting : BOOLEAN ]

ASSUME EarlierAssumption ==
  NoObj \notin Objects /\ EarlierObjs \subseteq Objects \cup {NoObj}

Init ==
  /\ AclInit
  /\ ControllerInit
  /\ streamTopics = {}
  /\ toPurge = {}
  /\ allowed \in PoolChoices

-----------------------------------------------------------------------------
(* Users, the application (external) and the manager.                      *)

Apply ==
  /\ obj = NoObj
  /\ \E d \in Declarations :
       Written([spec |-> d, hash |-> NoHash, fin |-> FALSE, deleting |-> FALSE])

Edit ==
  /\ obj # NoObj
  /\ \E d \in Declarations \ {obj.spec} :
       /\ d = obj.hash => MayRevert
       /\ Written([obj EXCEPT !.spec = d])

User ==
  /\ Apply \/ Edit \/ Remove \/ ResetHash
  /\ UNCHANGED <<aivenAcls, aclCall, streamVars>>

\* Someone who is granted access makes a topic under the prefix.
MakeTopic ==
  /\ Granted # {}
  /\ \E t \in InternalTopics \ streamTopics : streamTopics' = streamTopics \cup {t}
  /\ UNCHANGED <<aivenAcls, aclCall, controllerVars, toPurge, allowed>>

Manager ==
  /\ CacheSync \/ Resync \/ Timer
  /\ UNCHANGED <<aivenAcls, aclCall, streamVars>>

ResetAcl == aclPc' = "idle" /\ lines' = <<>> /\ toAdd' = {} /\ toDelete' = {}

\* The next process (startReconcilers) may allow other pools.
Restart ==
  /\ RestartController
  /\ ResetAcl
  /\ toPurge' = {}
  /\ allowed' \in PoolChoices
  /\ UNCHANGED <<aivenAcls, streamTopics>>

Get ==
  /\ GetNotFound \/ GetFails \/ GetObject(cache, "process")
  /\ UNCHANGED <<aivenAcls, aclCall, streamVars>>

-----------------------------------------------------------------------------
(* Process of a Stream that is not deleted: hash, pool, name, ACLs.        *)

Local == UNCHANGED <<aivenAcls, aclCall, streamVars>>

Skip == SkipAt("process") /\ Local

\* A deleted Stream is not compared with its hash.
ToProcess == work.deleting \/ NeedsSynchronization(work)

\* The pool is checked on deletion, too: a Stream in a pool that has left
\* --projects keeps its finalizer.
RefusePool == WorkerAt("process", "failed") /\ ToProcess /\ ~allowed /\ Local

ResolveFails == WorkerAt("process", "failed") /\ ToProcess /\ allowed /\ Local

StartGrant ==
  /\ WorkerAt("process", "grant")
  /\ ~work.deleting /\ ToProcess
  /\ allowed
  /\ Begin(StreamACLs(work.spec))
  /\ UNCHANGED streamVars

RunGrant == pc = "grant" /\ AclStep /\ UNCHANGED <<controllerVars, streamVars>>

GrantDone ==
  /\ aclPc = "ok"
  /\ WorkerAt("grant", "complete")
  /\ ResetAcl
  /\ UNCHANGED <<aivenAcls, streamVars>>

AclsFailed ==
  /\ aclPc = "failed"
  /\ WorkerAt("grant", "retry") \/ WorkerAt("revoke", "retry")
  /\ ResetAcl
  /\ UNCHANGED <<aivenAcls, streamVars>>

-----------------------------------------------------------------------------
(* handleDelete: ACLs, then a listing of the service, then the topics.     *)

\* Mutant: the adapter is not told of the deletion.
RevokeNothing ==
  /\ WorkerAt("process", "revoke")
  /\ work.deleting
  /\ allowed
  /\ Begin(StreamACLs(work.spec))
  /\ UNCHANGED streamVars

\* Mutant: the topics go before the access.
ListTopicsFirst ==
  /\ WorkerAt("process", "purge")
  /\ work.deleting
  /\ allowed
  /\ toPurge' = streamTopics
  /\ UNCHANGED <<aivenAcls, aclCall, streamTopics, allowed>>

StartRevoke ==
  /\ WorkerAt("process", "revoke")
  /\ work.deleting
  /\ allowed
  /\ Begin(<<>>)
  /\ UNCHANGED streamVars

RunRevoke == pc = "revoke" /\ RealAcl!AclStep /\ UNCHANGED <<controllerVars, streamVars>>

\* Topics that appear after the listing are not deleted.
ListTopics ==
  /\ aclPc = "ok"
  /\ WorkerAt("revoke", "purge")
  /\ ResetAcl
  /\ toPurge' = streamTopics
  /\ UNCHANGED <<aivenAcls, streamTopics, allowed>>

ListTopicsFails ==
  /\ aclPc = "ok"
  /\ WorkerAt("revoke", "retry")
  /\ ResetAcl
  /\ UNCHANGED <<aivenAcls, streamVars>>

\* Unlike for a Topic, a topic that is gone already is an error.
PurgeTopic ==
  /\ pc = "purge"
  /\ \E t \in toPurge :
       /\ toPurge' = toPurge \ {t}
       /\ IF DryRun THEN UNCHANGED streamTopics
          ELSE t \in streamTopics /\ streamTopics' = streamTopics \ {t}
  /\ UNCHANGED <<aivenAcls, aclCall, controllerVars, allowed>>

\* Mutant: the rest of the listing is not dropped.
PurgeFailsLater ==
  /\ ~DryRun
  /\ \E t \in toPurge : streamTopics' \in {streamTopics, streamTopics \ {t}}
  /\ WorkerAt("purge", "retry")
  /\ UNCHANGED <<aivenAcls, aclCall, toPurge, allowed>>

PurgeFails ==
  /\ ~DryRun
  /\ \E t \in toPurge : streamTopics' \in {streamTopics, streamTopics \ {t}}
  /\ WorkerAt("purge", "retry")
  /\ toPurge' = {}
  /\ UNCHANGED <<aivenAcls, aclCall, allowed>>

PurgeDone == toPurge = {} /\ WorkerAt("purge", "finalize") /\ Local

Process ==
  \/ Skip \/ RefusePool \/ ResolveFails \/ StartGrant \/ RunGrant \/ GrantDone
  \/ AclsFailed \/ StartRevoke \/ RunRevoke \/ ListTopics \/ ListTopicsFails
  \/ PurgeTopic \/ PurgeFails \/ PurgeDone

-----------------------------------------------------------------------------
(* Reconcile: write the result back; only a success adds the finalizer.    *)

\* Mutant: the hash is set before the synchronization.
ReportHashAlways ==
  IF pc = "finalize" THEN NoObj ELSE [work EXCEPT !.hash = work.spec, !.fin = TRUE]

Report ==
  CASE pc = "complete" -> [work EXCEPT !.hash = work.spec, !.fin = TRUE]
    [] pc = "finalize" -> NoObj
    [] OTHER -> work

Write == (WriteOk(Report) \/ WriteConflict) /\ Local
WriteLost == WriteFails(Report) /\ Local

Reconcile == Get \/ Process \/ Write \/ WriteLost

Next == User \/ MakeTopic \/ Manager \/ Restart \/ Reconcile

Spec == Init /\ [][Next]_vars

Fairness ==
  /\ WF_vars(CacheSync /\ Manager) /\ WF_vars(Resync /\ Manager)
  /\ WF_vars(Timer /\ Manager) /\ WF_vars(Reconcile)

LiveSpec == Spec /\ Fairness

-----------------------------------------------------------------------------
(* Correctness.                                                            *)

TypeOK ==
  /\ AclTypeOK
  /\ ControllerTypeOK(Objects, {"process", "grant", "revoke", "purge"})
  /\ allowed \in PoolChoices
  /\ toPurge \subseteq InternalTopics /\ streamTopics \subseteq InternalTopics
  /\ toPurge # {} => pc = "purge"

\* The owner and the additional users of a declaration, and no one else.
HasAccess(d) == Granted = {Entry(StreamACLs(d)[i]) : i \in DOMAIN StreamACLs(d)}

\* A Stream that counts as synchronized has its access in place.
TruthfulStatus == Synced(obj) => HasAccess(obj.spec)

\* A Stream leaves with everything that belongs to it: when its finalizer is
\* removed no one has access and no topic is left under the prefix, although
\* applications make topics until their access is revoked.
GoneMeansCleaned ==
  [][obj # NoObj /\ obj.fin /\ obj' = NoObj =>
       Granted = {} /\ streamTopics = {}]_vars

\* Topics are destroyed only while the API has the Stream as being deleted,
\* and only after the last access was revoked.
DataOnlyOnDeletion ==
  [][~(streamTopics \subseteq streamTopics') =>
       obj # NoObj /\ obj.deleting /\ Granted = {}]_vars

\* As long as there is something to do, something is there to trigger it
\* without waiting for the next resync, whichever step failed last; only a
\* failure that the code does not retry gives up.
NoLostWakeup == [][~DryRun /\ Forgotten' => Forgotten \/ pc = "failed"]_vars

Faults ==
  \/ GetFails \/ ResolveFails \/ ListTopicsFails \/ PurgeFails \/ WriteLost
  \/ (ListFails \/ CreateFails \/ RealAcl!DeleteFails) /\ UNCHANGED pc

Settled ==
  \/ obj = NoObj
  \/ Synced(obj)
  \/ ~allowed

\* What changes as much in an undisturbed step is no disturbance: a restart
\* while the worker is idle looks like a resync, a lost write like a conflict.
Disturbance ==
  /\ User \/ Restart \/ Faults
  /\ ~(Manager \/ GetNotFound \/ RefusePool \/ Skip \/ PurgeTopic \/ Write)

\* Once users, restarts and faults pause, the Stream ends up synchronized, or
\* gone if it was deleted, and stays so; unless its pool is refused.
EventuallySettled == <>[][~Disturbance]_vars => <>[]Settled

\* "If true, do not make any changes" (cmd/kafkarator/main.go:85).
DryRunUntouched == [][DryRun /\ Reconcile => UNCHANGED <<aivenAcls, streamTopics, obj>>]_vars

-----------------------------------------------------------------------------
(* The inductive invariant, in parts that rest on those before.            *)

\* On behalf of which copy the ACL manager runs.
PlaceInv ==
  /\ aclPc # "idle" => pc \in {"grant", "revoke"}
  /\ aclPc = "idle" => toAdd = {}
  /\ pc = "grant" => lines = StreamACLs(work.spec)
  /\ pc = "revoke" => lines = <<>>
  /\ pc \in {"grant", "complete"} => ~work.deleting
  /\ pc \in {"revoke", "purge", "finalize"} => work.deleting
  /\ workCurrent => obj # NoObj /\ work = obj

\* What Process has achieved so far for its copy: no topic escapes the listing.
ProgressInv ==
  ~DryRun =>
    /\ pc = "complete" => HasAccess(work.spec)
    /\ pc \in {"purge", "finalize"} => Granted = {}
    /\ pc = "purge" => streamTopics \subseteq toPurge
    /\ pc = "finalize" => streamTopics = {}

BeingDeleted(o) == o # NoObj /\ o.deleting

\* A copy is of a Stream that is being deleted only while the API's is, or
\* when nothing is left that the copy could destroy, and nothing can come.
DeletionInv ==
  ~DryRun =>
    /\ \A copy \in {cache, work} :
         BeingDeleted(copy) => BeingDeleted(obj) \/ (Granted = {} /\ streamTopics = {})
    /\ BeingDeleted(cache) /\ pc # "idle" => work.deleting \/ BeingDeleted(obj)

\* Who counts as synchronized does so rightly, if it did when the process started.
StatusInv == ~MayRevert => SpecInv /\ TruthfulStatus

ReconcilerInv ==
  /\ TypeOK
  /\ ~DryRun => AclInv
  /\ CopyInv /\ PlaceInv /\ ProgressInv /\ DeletionInv

=============================================================================
