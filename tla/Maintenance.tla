----------------------------- MODULE Maintenance -----------------------------
(***************************************************************************)
(* The Topic reconciler and the others who change the same Kafka service:  *)
(* the ACL cleaner (scripts/acl_cleaner.py), which an operator runs at any *)
(* time, and another writer (external): the kafkarator process that a      *)
(* rolling update replaces but has not stopped yet, as nothing elects a    *)
(* leader, or a person at Aiven's console.  The reconciler does not notice *)
(* them; sync_all_topics.sh (ResetHash) is how operators have it look.     *)
(*                                                                         *)
(* A declaration names its pool, and an edit may name another.  The module *)
(* looks at one pool at a time, the one the worker works in (here); what   *)
(* the worker finds when it turns to another is anything that versions of  *)
(* the declaration and the others may have left there.                     *)
(***************************************************************************)
EXTENDS TopicReconciler

CONSTANTS
  SparedTopics,   \* topics the cleaner leaves alone: named "__..." or "..._stream_..."
  OldUsers,       \* usernames of the old convention: with a dot
  Pools,          \* the pools that declarations name
  PoolOf          \* Spec.Pool of a declaration

ASSUME MaintenanceAssumption ==
  /\ SparedTopics \subseteq Topics
  /\ OldUsers \subseteq Users
  /\ PoolOf \in [Declarations -> Pools]

VARIABLES
  here,       \* the pool that aivenAcls, aivenTopic and doomed are of
  doomed,     \* acls_to_delete: what the cleaner's one look at the service found
  unseen      \* history: Aiven was changed after the processing that the status
              \* tells of, or the worker is at, had begun

maintVars == <<vars, here, doomed, unseen>>

MaintInit == Init /\ here \in Pools /\ doomed = {} /\ unseen = FALSE

-----------------------------------------------------------------------------
(* The ACL cleaner.                                                        *)

\* The only topic that comes and goes here is the one being reconciled.
Existing == Topics \ (IF aivenTopic = NoTopic THEN {Own} ELSE {})

find_unused_acls(topics, acls) == {a \in acls : a.topic \notin topics \cup SparedTopics}

find_old_acls(acls) == {a \in acls : a.user \in OldUsers}

\* One request (get_service) shows topics and ACLs of the same moment.
CleanerScan ==
  /\ doomed = {}
  /\ doomed' = find_unused_acls(Existing, aivenAcls) \cup find_old_acls(aivenAcls)
  /\ UNCHANGED aivenAcls

CleanerDelete ==
  \E a \in doomed :
    /\ \E b \in aivenAcls : b.id = a.id
    /\ AivenDelete(a.id)
    /\ doomed' = doomed \ {a}

\* raise_for_status ends the script, also for an ACL that is gone already.
CleanerFails ==
  /\ \E a \in doomed : AivenDelete(a.id) \/ UNCHANGED aivenAcls
  /\ doomed' = {}

Cleaner ==
  /\ CleanerScan \/ CleanerDelete \/ CleanerFails
  /\ UNCHANGED <<aivenTopic, aclCall, topicCall, controllerVars, allowed, here>>

-----------------------------------------------------------------------------
(* The other writer.                                                       *)

\* What any version of the declaration says.
OthersGrant ==
  /\ \E d \in Declarations : \E i \in DOMAIN d.acl : AivenCreate(d.acl[i])
  /\ UNCHANGED aivenTopic

OthersRevoke == \E a \in aivenAcls : AivenDelete(a.id) /\ UNCHANGED aivenTopic

\* Away with it, or its settings changed: to Aiven's own, for one.
OthersSetTopic == aivenTopic' \in {NoTopic, AivenDefault} /\ UNCHANGED aivenAcls

OthersAtAiven ==
  /\ OthersGrant \/ OthersRevoke \/ OthersSetTopic
  /\ UNCHANGED <<aclCall, topicCall, controllerVars, allowed, here, doomed>>

\* The other process reports a synchronization or a deletion of its own.
OthersReport ==
  /\ obj # NoObj
  /\ Written(IF obj.deleting THEN NoObj ELSE [obj EXCEPT !.fin = TRUE, !.hash = obj.spec])
  /\ UNCHANGED <<aivenVars, aclCall, topicCall, allowed, here, doomed>>

Others == OthersAtAiven \/ OthersReport

-----------------------------------------------------------------------------
(* Pools.                                                                  *)

\* Mutant: the service that was resolved for one version serves for all.
SamePool(d) == CHOOSE p \in Pools : TRUE

\* Everything Process does, it does in the pool of the copy it was given.
projectName(d) == PoolOf[d]

\* What may be in a pool that was not looked at.
Leftovers ==
  {{}} \cup { {[id |-> i, topic |-> Own, user |-> u, perm |-> p]} :
             i \in Ids, u \in Users, p \in Perms }

\* Nothing happens to either pool. The cleaner may have been there before.
Turn ==
  /\ pc = "idle" /\ queued /\ cache # NoObj
  /\ projectName(cache.spec) # here
  /\ here' = projectName(cache.spec)
  /\ aivenAcls' \in Leftovers
  /\ aivenTopic' \in {NoTopic, AivenDefault}
  /\ doomed' \in SUBSET aivenAcls'
  /\ UNCHANGED <<aclCall, topicCall, controllerVars, allowed>>

\* Steps of the reconciler; it takes up a resource in the resource's pool.
Reconciler ==
  /\ Next
  /\ pc = "idle" /\ pc' # "idle" => projectName(work'.spec) = here
  /\ UNCHANGED <<here, doomed>>

-----------------------------------------------------------------------------

\* Whoever processes the resource next reads it, and Aiven, anew.
AllAhead ==
  \/ obj = NoObj
  \/ (obj.deleting \/ NeedsSynchronization(obj)) /\ (~workCurrent \/ pc = "resolve")

\* A user returns to the declaration that was synchronized before.
Reverted ==
  /\ obj # NoObj /\ obj' # NoObj
  /\ obj.spec # obj'.spec
  /\ ~NeedsSynchronization(obj')

ChangedByOthers == (Cleaner /\ aivenAcls' # aivenAcls) \/ Others

Note == unseen' = (~AllAhead' /\ (unseen \/ ChangedByOthers \/ Reverted))

\* Aiven does not give the ID of a deleted ACL to another one.
FreshForCleaner == \A a \in doomed, b \in aivenAcls' \ aivenAcls : b.id # a.id

MaintNext ==
  /\ \/ Turn
     \/ (Reconciler \/ Cleaner \/ Others) /\ FreshForCleaner
  /\ Note

MaintSpec == MaintInit /\ [][MaintNext]_maintVars

-----------------------------------------------------------------------------
(* Correctness.                                                            *)

\* A status that says "synchronized" is true unless something changed at Aiven
\* behind the reconciler's back after the synchronization had begun: whatever
\* changed before, while a user's edit or a reset hash waited, while the
\* worker was busy with an older version, or before it failed and began again,
\* is repaired by the synchronization that the status tells of. It is true of
\* the pool that the declaration names now, whatever pools it named before.
RepairedOrUnseen ==
  obj # NoObj /\ ~obj.deleting /\ ~NeedsSynchronization(obj) /\ ~unseen =>
    here = PoolOf[obj.spec] /\ InAiven(obj.spec)

\* The same for a deletion: when the worker lets the resource go, no access is
\* left, and no data that was to go, unless someone put it there after the
\* worker had begun to clean up; that someone else deletes the same ACLs or
\* the topic at the same time, and fails calls by it, leaves nothing behind.
\* That holds of the pool named last; a pool named before keeps what it has.
CleanedOrUnseen ==
  [][obj # NoObj /\ obj.fin /\ obj' = NoObj /\ pc = "finalize" /\ pc' = "idle" /\ ~unseen =>
       here = PoolOf[obj.spec] /\ Granted = {} /\ (obj.purge => aivenTopic = NoTopic)]_maintVars

-----------------------------------------------------------------------------
(* The inductive invariant, in parts that rest on those before.            *)

\* What holds whatever the others do.
MaintInv ==
  /\ TypeOK /\ UniqueIds(aivenAcls)
  /\ toAdd # {} => aclPc = "add"
  /\ CopyInv /\ PlaceInv
  /\ pc # "idle" => here = projectName(work.spec)
  /\ unseen \in BOOLEAN

\* While a processing counts and no one has disturbed it, the managers' plans
\* and what was achieved so far are right.
UndisturbedInv ==
  ~unseen /\ ~AllAhead => AclInv /\ TopicInv /\ ProgressInv

\* Copies from before a synchronization declare what was synchronized: whoever
\* works on one goes on in that pool, and for that declaration.
RepairInv ==
  Synced(obj) /\ ~unseen =>
    /\ here = projectName(obj.spec) /\ InAiven(obj.spec)
    /\ cache # NoObj => ~cache.deleting /\ cache.spec = obj.spec
    /\ pc # "idle" => ~work.deleting /\ work.spec = obj.spec

=============================================================================
