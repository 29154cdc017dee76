------------------------------ MODULE AclManager ------------------------------
(***************************************************************************)
(* acl.Manager (pkg/aiven/acl): one call of Synchronize lists the ACLs of  *)
(* a Kafka service, creates the ones its Source declares and the service   *)
(* lacks, then deletes the ones the Source no longer declares.  Every call *)
(* to Aiven is a step of its own, so other writers act between them, and   *)
(* may fail, before or after it had its effect.                            *)
(*                                                                         *)
(* Aiven's side (external): ACLs are records with an ID that Aiven picks;  *)
(* an ID may be missing from a listing (NoId; valueOrEmpty in              *)
(* goclientcodegen/adapter.go).  Nothing keeps Aiven from holding two ACLs *)
(* for the same user, topic and permission.                                *)
(***************************************************************************)
EXTENDS Naturals, Sequences, FiniteSets

CONSTANTS
  Users,        \* usernames, as generated for an application
  Unnameable,   \* the users whose name cannot be generated
  Perms,        \* read, write, readwrite, admin
  Topics,       \* the values of an ACL's topic field
  Own,          \* TopicName() of the Source being synchronized
  Ids, NoId,    \* the IDs Aiven gives, and the empty ID
  AclLists,     \* the ACL lists a Source may declare
  Tables,       \* the ACLs Aiven may hold at first
  DryRun,       \* the DryRun flag
  MaxOther      \* bound: the ACLs of other topics the service holds at a time

Entries == [user : Users, perm : Perms]
Acls == [id : Ids \cup {NoId}, topic : Topics, user : Users, perm : Perms]

\* No two ACLs of a listing share an ID.
UniqueIds(table) ==
  \A a, b \in table : a.id = b.id /\ a.id # NoId => a = b

ASSUME AclAssumption ==
  /\ Unnameable \subseteq Users
  /\ Own \in Topics
  /\ NoId \notin Ids
  /\ AclLists \subseteq Seq(Entries)
  /\ \A t \in Tables : t \subseteq Acls /\ UniqueIds(t)
  /\ DryRun \in BOOLEAN
  /\ MaxOther \in Nat

VARIABLES
  aivenAcls,    \* the ACLs of the Kafka service, at Aiven
  aclPc,        \* where the call of Synchronize is
  lines,        \* Source.ACLs() of that call
  toAdd,        \* the positions in lines still to create
  toDelete      \* the listed ACLs still to delete

aclVars == <<aivenAcls, aclPc, lines, toAdd, toDelete>>

-----------------------------------------------------------------------------
(* The comparison of listed and declared ACLs.                             *)

Entry(a) == [user |-> a.user, perm |-> a.perm]

\* Mutant: permissions are not compared.
ContainsUser(acls, other) ==
  \E mine \in acls : mine.user = other.user /\ mine.topic = other.topic

\* An ACL matches one that has its username, topic and permission; IDs are not compared.
Contains(acls, other) ==
  \E mine \in acls : /\ mine.user = other.user
                     /\ mine.topic = other.topic
                     /\ mine.perm = other.perm

\* Mutant: the ACLs of all topics count as existing.
AllACLs(acls, topic) == acls

topicACLs(acls, topic) == {a \in acls : a.topic = topic}

\* The ACL a declared line stands for; it has no ID yet.
FromTopicACL(topic, line) ==
  [id |-> NoId, topic |-> topic, user |-> line.user, perm |-> line.perm]

Wanted(topic, ls) == {FromTopicACL(topic, ls[i]) : i \in DOMAIN ls}

\* Mutant: a user who has any ACL gets no other.
NewUsers(existing, topic, ls) ==
  {i \in DOMAIN ls : \A mine \in existing : mine.user # ls[i].user}

\* Mutant: what exists is created again.
NewAlways(existing, topic, ls) == DOMAIN ls

\* Positions, not entries: a line that is declared twice is created twice.
NewACLs(existing, topic, ls) ==
  {i \in DOMAIN ls : ~Contains(existing, FromTopicACL(topic, ls[i]))}

\* Mutant: IDs are compared, too.
DeleteUnequal(existing, wanted) == existing \ wanted

DeleteACLs(existing, wanted) == {a \in existing : ~Contains(wanted, a)}

Nameable(ls) == \A i \in DOMAIN ls : ls[i].user \notin Unnameable

-----------------------------------------------------------------------------
(* Aiven.                                                                  *)

FreshIds == {id \in Ids : \A a \in aivenAcls \cup toDelete : a.id # id}

AivenCreate(line) ==
  \E id \in FreshIds :
    aivenAcls' = aivenAcls \cup
      {[id |-> id, topic |-> Own, user |-> line.user, perm |-> line.perm]}

AivenDelete(id) == aivenAcls' = {a \in aivenAcls : a.id # id}

\* A dry run reports the success of a call that it leaves out.
UnlessDryRun(call) == IF DryRun THEN UNCHANGED aivenAcls ELSE call

-----------------------------------------------------------------------------
(* One call of Synchronize.                                                *)

AclInit ==
  /\ aivenAcls \in Tables
  /\ aclPc = "idle"
  /\ lines = <<>>
  /\ toAdd = {}
  /\ toDelete = {}

Returned == aclPc \in {"idle", "ok", "failed"}

\* A caller starts Synchronize for a Source that declares ls.
Begin(ls) ==
  /\ Returned
  /\ aclPc' = "list"
  /\ lines' = ls
  /\ UNCHANGED <<aivenAcls, toAdd, toDelete>>

\* Every error ends the call; what it has not done yet is left undone.
Fail ==
  /\ aclPc' = "failed"
  /\ toAdd' = {}
  /\ toDelete' = {}
  /\ UNCHANGED lines

ListFails == aclPc = "list" /\ Fail /\ UNCHANGED aivenAcls

WantedFails ==
  /\ aclPc = "list"
  /\ ~Nameable(lines)
  /\ Fail
  /\ UNCHANGED aivenAcls

\* Mutant: what is obsolete is deleted first.
ListThenDelete ==
  /\ aclPc = "list"
  /\ Nameable(lines)
  /\ LET existing == topicACLs(aivenAcls, Own)
     IN  /\ toAdd' = NewACLs(existing, Own, lines)
         /\ toDelete' = DeleteACLs(existing, Wanted(Own, lines))
  /\ aclPc' = "delete"
  /\ UNCHANGED <<aivenAcls, lines>>

List ==
  /\ aclPc = "list"
  /\ Nameable(lines)
  /\ LET existing == topicACLs(aivenAcls, Own)
     IN  /\ toAdd' = NewACLs(existing, Own, lines)
         /\ toDelete' = DeleteACLs(existing, Wanted(Own, lines))
  /\ aclPc' = "add"
  /\ UNCHANGED <<aivenAcls, lines>>

\* Lines are created in the order in which they are declared.
NextToAdd(i) == aclPc = "add" /\ i \in toAdd /\ \A j \in toAdd : i <= j

Added(i) ==
  /\ toAdd' = toAdd \ {i}
  /\ UNCHANGED <<aclPc, lines, toDelete>>

Create == \E i \in toAdd : NextToAdd(i) /\ UnlessDryRun(AivenCreate(lines[i])) /\ Added(i)

\* Mutant: an error does not end the call.
CreateFailsUnseen ==
  /\ ~DryRun
  /\ \E i \in toAdd : /\ NextToAdd(i)
                      /\ AivenCreate(lines[i]) \/ UNCHANGED aivenAcls
                      /\ Added(i)

\* The request is lost, or its answer is (or does not show the new ACL).
CreateFails ==
  /\ ~DryRun
  /\ \E i \in toAdd : NextToAdd(i) /\ (AivenCreate(lines[i]) \/ UNCHANGED aivenAcls)
  /\ Fail

AddDone ==
  /\ aclPc = "add"
  /\ toAdd = {}
  /\ aclPc' = "delete"
  /\ UNCHANGED <<aivenAcls, lines, toAdd, toDelete>>

NextToDelete(a) == aclPc = "delete" /\ a \in toDelete

Deleted(a) ==
  /\ toDelete' = toDelete \ {a}
  /\ UNCHANGED <<aclPc, lines, toAdd>>

DeleteWithoutId ==
  /\ \E a \in toDelete : NextToDelete(a) /\ a.id = NoId
  /\ Fail
  /\ UNCHANGED aivenAcls

\* Aiven answers 404 for an ACL it no longer has: an error like any other.
Delete ==
  \E a \in toDelete :
    /\ NextToDelete(a) /\ a.id # NoId
    /\ UnlessDryRun((\E b \in aivenAcls : b.id = a.id) /\ AivenDelete(a.id))
    /\ Deleted(a)

DeleteFails ==
  /\ ~DryRun
  /\ \E a \in toDelete : /\ NextToDelete(a) /\ a.id # NoId
                         /\ AivenDelete(a.id) \/ UNCHANGED aivenAcls
  /\ Fail

DeleteDone ==
  /\ aclPc = "delete"
  /\ toDelete = {}
  /\ aclPc' = "ok"
  /\ UNCHANGED <<aivenAcls, lines, toAdd, toDelete>>

\* What Synchronize does by itself once it is called.
AclStep ==
  \/ ListFails \/ WantedFails \/ List
  \/ Create \/ CreateFails \/ AddDone
  \/ DeleteWithoutId \/ Delete \/ DeleteFails \/ DeleteDone

-----------------------------------------------------------------------------
(* The manager and its surroundings: a caller that retries or submits a    *)
(* new declaration, and the managers of other topics of the same service.  *)

Submit == \E ls \in AclLists : Begin(ls)
Retry == aclPc = "failed" /\ Begin(lines)

Foreign == {a \in aivenAcls : a.topic # Own}

OtherTopics ==
  /\ \/ Cardinality(Foreign) < MaxOther /\ \E id \in FreshIds, t \in Topics \ {Own}, e \in Entries :
          aivenAcls' = aivenAcls \cup
            {[id |-> id, topic |-> t, user |-> e.user, perm |-> e.perm]}
     \/ \E a \in Foreign : aivenAcls' = aivenAcls \ {a}
  /\ UNCHANGED <<aclPc, lines, toAdd, toDelete>>

AclNext == Submit \/ Retry \/ AclStep \/ OtherTopics

AclSpec == AclInit /\ [][AclNext]_aclVars

\* The reconciler runs a call to its end and retries one that failed; Aiven
\* does not fail the same kind of request forever.
AclFairness ==
  /\ WF_aclVars(AclStep) /\ WF_aclVars(Retry)
  /\ SF_aclVars(List) /\ SF_aclVars(Create) /\ SF_aclVars(Delete)

AclLiveSpec == AclSpec /\ AclFairness

-----------------------------------------------------------------------------
(* Correctness.                                                            *)

Granted == {Entry(a) : a \in topicACLs(aivenAcls, Own)}
Goal == {Entry(lines[i]) : i \in DOMAIN lines}
StillToAdd == {Entry(lines[i]) : i \in toAdd}

\* Type invariant: the positions to create are positions of the declaration.
AclTypeOK ==
  /\ aivenAcls \subseteq Acls
  /\ aclPc \in {"idle", "list", "add", "delete", "ok", "failed"}
  /\ lines \in Seq(Entries)
  /\ toAdd \subseteq DOMAIN lines
  /\ toDelete \subseteq Acls

\* Synchronize returns nil only when the ACLs of the topic are the declared
\* ones, whatever was there before and however often earlier calls failed
\* half-way (acl.go:33-35).
SyncedOnSuccess == aclPc = "ok" /\ ~DryRun => Granted = Goal

\* While a call runs, what it still has to do is exactly what is missing at
\* Aiven: the ACLs to delete are the ones of the topic that are not declared,
\* a declared pair without an ACL is still to be created, and nothing is
\* deleted before that.
Obsolete == {a \in topicACLs(aivenAcls, Own) : Entry(a) \notin Goal}
PlanIsExact ==
  ~DryRun =>
    /\ aclPc \in {"add", "delete"} => toDelete = Obsolete
    /\ aclPc = "add" => Goal \subseteq Granted \cup StillToAdd
    /\ aclPc \in {"delete", "ok"} => toAdd = {} /\ Goal \subseteq Granted

\* Calls for one topic never add, change or remove an ACL of another topic.
ForeignUntouched ==
  [][AclStep => Foreign' = Foreign]_aclVars

\* A pair loses access only if it is not declared, and only once every
\* declared pair has access: a change never passes through less access than
\* both the old and the new declaration give.
RevokeAfterGrant ==
  [][\A e \in Granted \ Granted' : e \notin Goal /\ Goal \subseteq Granted]_aclVars

DeclaredOnce(e) ==
  \A i, j \in DOMAIN lines : Entry(lines[i]) = e /\ Entry(lines[j]) = e => i = j

\* A retry after a lost answer does not create a second ACL for a pair that
\* has one; only a pair that is declared twice gets two.
NoDuplicates ==
  [][\A a \in aivenAcls' \ aivenAcls :
       a.topic = Own /\ DeclaredOnce(Entry(a)) => Entry(a) \notin Granted]_aclVars

\* Once the declaration stays the same, its access is eventually in place
\* for good; unless a name cannot be generated or an obsolete ACL has no ID.
Converges ==
  \A ls \in AclLists :
    /\ <>[](lines = ls /\ aclPc # "idle" /\ \A a \in Obsolete : a.id # NoId)
    /\ Nameable(ls)
    => <>[](Granted = Goal)

\* The inductive invariant: the parts above, with what the calls rest on.
AclInv ==
  /\ AclTypeOK
  /\ UniqueIds(aivenAcls)
  /\ SyncedOnSuccess
  /\ PlanIsExact
  /\ toAdd # {} => aclPc = "add"
  /\ \A i \in toAdd : DeclaredOnce(Entry(lines[i])) => Entry(lines[i]) \notin Granted

\* The abstract specification, and the phases of Synchronize as its phases.
Phase ==
  CASE aclPc \in {"idle", "failed"} -> "rest"
    [] aclPc \in {"list", "add"} -> "granting"
    [] aclPc = "delete" -> "revoking"
    [] aclPc = "ok" -> "done"

Promise == INSTANCE AccessPromise WITH granted <- Granted, goal <- Goal, phase <- Phase
PromiseSpec == Promise!PromiseSpec

=============================================================================
