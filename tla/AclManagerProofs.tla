--------------------------- MODULE AclManagerProofs ---------------------------
(***************************************************************************)
(* Proofs about AclManager, for every set of users, topics, IDs, declared  *)
(* lists and initial ACLs: the inductive invariant AclInv, what it says of *)
(* a call that returns, what one step never does, and that the manager     *)
(* implements AccessPromise.                                               *)
(***************************************************************************)
EXTENDS AclManager, TLAPS

\* An entry has access exactly if some ACL of the topic carries it.
LEMMA GrantedByRecord ==
  /\ \A a \in aivenAcls : a.topic = Own => Entry(a) \in Granted
  /\ \A e \in Granted : \E a \in aivenAcls : a.topic = Own /\ Entry(a) = e
BY DEF Granted, topicACLs

\* A declared line is its own entry.
LEMMA LineIsEntry ==
  ASSUME AclTypeOK
  PROVE  \A i \in DOMAIN lines : lines[i] \in Entries /\ Entry(lines[i]) = lines[i]
<1>1. \A i \in DOMAIN lines : lines[i] \in Entries
  BY DEF AclTypeOK
<1>2. \A e \in Entries : Entry(e) = e
  BY DEF Entries, Entry
<1> QED
  BY <1>1, <1>2

\* What creating one ACL for a line does: the line's pair gains access, no
\* other pair and no other topic changes, and IDs stay unique.
LEMMA CreateEffect ==
  ASSUME AclTypeOK, UniqueIds(aivenAcls), NEW line \in Entries, AivenCreate(line)
  PROVE  /\ aivenAcls' \subseteq Acls
         /\ UniqueIds(aivenAcls')
         /\ topicACLs(aivenAcls, Own) \subseteq topicACLs(aivenAcls', Own)
         /\ \A a \in aivenAcls' \ aivenAcls : a.topic = Own /\ Entry(a) = line
         /\ Foreign' = Foreign
         /\ Granted' = Granted \cup {line}
<1>1. PICK id \in FreshIds :
        aivenAcls' = aivenAcls \cup
          {[id |-> id, topic |-> Own, user |-> line.user, perm |-> line.perm]}
  BY DEF AivenCreate
<1> DEFINE new == [id |-> id, topic |-> Own, user |-> line.user, perm |-> line.perm]
<1>2. new \in Acls /\ Entry(new) = line /\ \A a \in aivenAcls : a.id # new.id
  BY AclAssumption DEF FreshIds, Acls, Entries, Entry
<1>3. aivenAcls' = aivenAcls \cup {new} /\ new.topic = Own
  BY <1>1
<1> HIDE DEF new
<1>4. UniqueIds(aivenAcls')
  BY <1>2, <1>3 DEF UniqueIds
<1>5. Foreign' = Foreign
  BY <1>3 DEF Foreign
<1>6. topicACLs(aivenAcls', Own) = topicACLs(aivenAcls, Own) \cup {new}
  BY <1>3 DEF topicACLs
<1>7. Granted' = Granted \cup {line}
  BY <1>6, <1>2 DEF Granted
<1> QED
  BY <1>2, <1>3, <1>4, <1>5, <1>6, <1>7 DEF AclTypeOK

\* What deleting one obsolete ACL by its ID does: that ACL goes and no other.
LEMMA DeleteEffect ==
  ASSUME AclTypeOK, UniqueIds(aivenAcls), NEW a \in Obsolete, a.id # NoId,
         AivenDelete(a.id)
  PROVE  /\ aivenAcls' = aivenAcls \ {a}
         /\ UniqueIds(aivenAcls')
         /\ Foreign' = Foreign
         /\ Granted' \subseteq Granted
         /\ Granted \ Granted' \subseteq {Entry(a)}
         /\ Entry(a) \notin Goal
<1>1. a \in aivenAcls /\ a.topic = Own /\ Entry(a) \notin Goal
  BY DEF Obsolete, topicACLs
<1>2. aivenAcls' = aivenAcls \ {a}
  BY <1>1 DEF AivenDelete, UniqueIds
<1>3. topicACLs(aivenAcls', Own) = topicACLs(aivenAcls, Own) \ {a}
  BY <1>2 DEF topicACLs
<1>4. Granted' \subseteq Granted /\ Granted \ Granted' \subseteq {Entry(a)}
  BY <1>3 DEF Granted
<1> QED
  BY <1>1, <1>2, <1>4 DEF UniqueIds, Foreign

\* The plan that List makes is exact for any table and any declaration.
LEMMA PlanMade ==
  ASSUME AclTypeOK
  PROVE  /\ DeleteACLs(topicACLs(aivenAcls, Own), Wanted(Own, lines)) = Obsolete
         /\ \A i \in DOMAIN lines :
              i \in NewACLs(topicACLs(aivenAcls, Own), Own, lines)
                <=> Entry(lines[i]) \notin Granted
<1>1. \A i \in DOMAIN lines : lines[i] \in Entries /\ Entry(lines[i]) = lines[i]
  BY LineIsEntry
<1>2. ASSUME NEW a \in topicACLs(aivenAcls, Own)
      PROVE  Contains(Wanted(Own, lines), a) <=> Entry(a) \in Goal
  <2>1. a \in Acls /\ a.topic = Own
    BY DEF topicACLs, AclTypeOK
  <2>2. Contains(Wanted(Own, lines), a)
          <=> \E i \in DOMAIN lines : lines[i].user = a.user /\ lines[i].perm = a.perm
    <3>1. \A i \in DOMAIN lines : FromTopicACL(Own, lines[i]).user = lines[i].user
                                 /\ FromTopicACL(Own, lines[i]).perm = lines[i].perm
                                 /\ FromTopicACL(Own, lines[i]).topic = a.topic
      BY <2>1 DEF FromTopicACL
    <3> QED
      BY <3>1 DEF Contains, Wanted
  <2>3. \A i \in DOMAIN lines :
          Entry(a) = Entry(lines[i]) <=> lines[i].user = a.user /\ lines[i].perm = a.perm
    BY DEF Entry
  <2> QED
    BY <2>2, <2>3 DEF Goal
<1>3. ASSUME NEW i \in DOMAIN lines
      PROVE  Contains(topicACLs(aivenAcls, Own), FromTopicACL(Own, lines[i]))
               <=> Entry(lines[i]) \in Granted
  BY <1>1 DEF Contains, FromTopicACL, Granted, Entry, Entries, topicACLs
<1> QED
  BY <1>2, <1>3 DEF DeleteACLs, NewACLs, Obsolete

-----------------------------------------------------------------------------
(* The inductive invariant.                                                *)

LEMMA AclInitInv == AclInit => AclInv
<1> SUFFICES ASSUME AclInit PROVE AclInv
  OBVIOUS
<1>1. lines \in Seq(Entries) /\ toAdd \subseteq DOMAIN lines
  BY DEF AclInit
<1>2. aivenAcls \subseteq Acls /\ UniqueIds(aivenAcls)
  BY AclAssumption DEF AclInit
<1> QED
  BY <1>1, <1>2 DEF AclInit, AclInv, AclTypeOK, SyncedOnSuccess, PlanIsExact

\* A call that ends in an error, or has not begun to create, has no plan left
\* to be exact about.
LEMMA NoPlanInv ==
  ASSUME AclInv, lines' \in Seq(Entries), aivenAcls' \subseteq Acls,
         UniqueIds(aivenAcls'), aclPc' \in {"idle", "list", "failed"},
         toAdd' = {}, toDelete' \subseteq Acls
  PROVE  AclInv'
BY DEF AclInv, AclTypeOK, SyncedOnSuccess, PlanIsExact

LEMMA AclNextInv == AclInv /\ [AclNext]_aclVars => AclInv'
<1> SUFFICES ASSUME AclInv, [AclNext]_aclVars PROVE AclInv'
  OBVIOUS
<1> USE DEF AclInv
<1>a. AclTypeOK /\ UniqueIds(aivenAcls)
  OBVIOUS
<1>1. ASSUME NEW ls \in Seq(Entries), Begin(ls) PROVE AclInv'
  <2>1. toAdd = {}
    BY <1>1 DEF Begin, Returned
  <2> QED
    BY <1>1, <2>1, NoPlanInv DEF Begin, AclTypeOK
<1>2. CASE Submit
  BY <1>1, <1>2, AclAssumption DEF Submit
<1>3. CASE Retry
  BY <1>1, <1>3 DEF Retry, AclTypeOK
<1>4. CASE ListFails
  BY <1>4, NoPlanInv DEF ListFails, Fail, AclTypeOK
<1>5. CASE WantedFails
  BY <1>5, NoPlanInv DEF WantedFails, Fail, AclTypeOK
<1>6. CASE List
  <2>1. toDelete' = Obsolete
    BY <1>6, <1>a, PlanMade DEF List
  <2>2. /\ toAdd' \subseteq DOMAIN lines
        /\ \A i \in DOMAIN lines : i \in toAdd' <=> Entry(lines[i]) \notin Granted
    BY <1>6, <1>a, PlanMade DEF List, NewACLs
  <2>3. Goal \subseteq Granted \cup {Entry(lines[i]) : i \in toAdd'}
    BY <2>2 DEF Goal
  <2>4. Obsolete \subseteq Acls
    BY DEF Obsolete, topicACLs, AclTypeOK
  <2>5. UNCHANGED <<aivenAcls, lines, Granted, Goal, Obsolete>> /\ aclPc' = "add"
    BY <1>6 DEF List, Granted, Goal, Obsolete
  <2>6. AclTypeOK' /\ UniqueIds(aivenAcls')
    BY <2>1, <2>2, <2>4, <2>5 DEF AclTypeOK
  <2>7. PlanIsExact' /\ SyncedOnSuccess'
    BY <2>1, <2>3, <2>5 DEF PlanIsExact, SyncedOnSuccess, StillToAdd
  <2> QED
    BY <2>2, <2>5, <2>6, <2>7 DEF DeclaredOnce
<1>7. CASE Create /\ ~DryRun
  <2>1. PICK i \in toAdd : NextToAdd(i) /\ AivenCreate(lines[i]) /\ Added(i)
    BY <1>7 DEF Create, UnlessDryRun
  <2>2. i \in DOMAIN lines /\ lines[i] \in Entries /\ Entry(lines[i]) = lines[i]
    BY LineIsEntry DEF AclTypeOK
  <2>3. /\ aivenAcls' \subseteq Acls /\ UniqueIds(aivenAcls')
        /\ topicACLs(aivenAcls, Own) \subseteq topicACLs(aivenAcls', Own)
        /\ \A a \in aivenAcls' \ aivenAcls : a.topic = Own /\ Entry(a) = lines[i]
        /\ Granted' = Granted \cup {lines[i]}
    BY <2>1, <2>2, <1>a, CreateEffect
  <2>4. aclPc = "add" /\ aclPc' = "add" /\ UNCHANGED <<lines, toDelete, Goal>>
    BY <2>1 DEF NextToAdd, Added, Goal
  <2>5. AclTypeOK'
    BY <2>1, <2>3, <2>4 DEF AclTypeOK, Added
  <2>6. Obsolete' = Obsolete
    BY <2>2, <2>3, <2>4 DEF Obsolete, topicACLs, Goal
  <2>7. StillToAdd \subseteq StillToAdd' \cup {lines[i]}
    BY <2>1, <2>2, <2>4 DEF StillToAdd, Added
  <2>8. PlanIsExact' /\ SyncedOnSuccess'
    BY <2>3, <2>4, <2>6, <2>7 DEF PlanIsExact, SyncedOnSuccess
  <2>9. ASSUME NEW j \in toAdd', DeclaredOnce(Entry(lines[j]))'
        PROVE  Entry(lines'[j]) \notin Granted'
    <3>1. j \in toAdd /\ j # i
      BY <2>1 DEF Added
    <3>2. Entry(lines[j]) # lines[i]
      BY <2>2, <2>4, <2>9, <3>1 DEF DeclaredOnce, AclTypeOK
    <3> QED
      BY <2>3, <2>4, <2>9, <3>1, <3>2 DEF DeclaredOnce
  <2> QED
    BY <2>3, <2>4, <2>5, <2>8, <2>9
<1>8. CASE Create /\ DryRun
  BY <1>8 DEF Create, UnlessDryRun, NextToAdd, Added, AclTypeOK, PlanIsExact, SyncedOnSuccess,
              DeclaredOnce, Granted, topicACLs
<1>9. CASE CreateFails
  <2>1. PICK i \in toAdd : NextToAdd(i) /\ (AivenCreate(lines[i]) \/ UNCHANGED aivenAcls)
    BY <1>9 DEF CreateFails
  <2>2. lines[i] \in Entries
    BY LineIsEntry DEF AclTypeOK
  <2>3. aivenAcls' \subseteq Acls /\ UniqueIds(aivenAcls')
    BY <2>1, <2>2, <1>a, CreateEffect DEF AclTypeOK
  <2> QED
    BY <1>9, <2>3, NoPlanInv DEF CreateFails, Fail, AclTypeOK
<1>10. CASE AddDone
  <2>1. StillToAdd = {}
    BY <1>10 DEF AddDone, StillToAdd
  <2>2. UNCHANGED <<aivenAcls, lines, toAdd, toDelete, Granted, Goal, Obsolete>>
    BY <1>10 DEF AddDone, Granted, Goal, Obsolete
  <2> QED
    BY <1>10, <2>1, <2>2 DEF AddDone, AclTypeOK, PlanIsExact, SyncedOnSuccess
<1>11. CASE DeleteWithoutId
  BY <1>11, NoPlanInv DEF DeleteWithoutId, Fail, AclTypeOK
<1>12. CASE Delete /\ ~DryRun
  <2>1. PICK a \in toDelete : /\ NextToDelete(a) /\ a.id # NoId /\ ~DryRun
                              /\ AivenDelete(a.id) /\ Deleted(a)
    BY <1>12 DEF Delete, UnlessDryRun
  <2>2. aclPc = "delete" /\ aclPc' = "delete" /\ UNCHANGED <<lines, toAdd, Goal>>
    BY <2>1 DEF NextToDelete, Deleted, Goal
  <2>3. toDelete = Obsolete
    BY <2>1, <2>2 DEF PlanIsExact
  <2>4. /\ aivenAcls' = aivenAcls \ {a} /\ UniqueIds(aivenAcls')
        /\ Granted \ Granted' \subseteq {Entry(a)} /\ Entry(a) \notin Goal
    BY <2>1, <2>3, <1>a, DeleteEffect
  <2>5. toDelete' = Obsolete'
    BY <2>1, <2>2, <2>3, <2>4 DEF Obsolete, topicACLs, Deleted
  <2>6. Goal \subseteq Granted' /\ toAdd = {}
    BY <2>1, <2>2, <2>4 DEF PlanIsExact
  <2> QED
    BY <2>1, <2>2, <2>4, <2>5, <2>6 DEF AclTypeOK, PlanIsExact, SyncedOnSuccess, Deleted
<1>13. CASE Delete /\ DryRun
  BY <1>13 DEF Delete, UnlessDryRun, NextToDelete, Deleted, AclTypeOK, PlanIsExact, SyncedOnSuccess
<1>14. CASE DeleteFails
  <2>1. PICK a \in toDelete : AivenDelete(a.id) \/ UNCHANGED aivenAcls
    BY <1>14 DEF DeleteFails
  <2>2. aivenAcls' \subseteq aivenAcls
    BY <2>1 DEF AivenDelete
  <2> QED
    BY <1>14, <2>2, NoPlanInv DEF DeleteFails, Fail, AclTypeOK, UniqueIds
<1>15. CASE DeleteDone
  <2>1. UNCHANGED <<aivenAcls, lines, toAdd, toDelete, Granted, Goal, Obsolete>>
    BY <1>15 DEF DeleteDone, Granted, Goal, Obsolete
  <2>2. ~DryRun => Granted = Goal
    <3>1. ASSUME ~DryRun, NEW e \in Granted PROVE e \in Goal
      <4>1. Obsolete = {}
        BY <1>15, <3>1 DEF DeleteDone, PlanIsExact
      <4> QED
        BY <3>1, <4>1, GrantedByRecord DEF Obsolete, topicACLs
    <3> QED
      BY <1>15, <3>1 DEF DeleteDone, PlanIsExact
  <2> QED
    BY <1>15, <2>1, <2>2 DEF DeleteDone, AclTypeOK, PlanIsExact, SyncedOnSuccess
<1>16. CASE OtherTopics
  <2>1. aivenAcls' \subseteq Acls /\ UniqueIds(aivenAcls')
    BY <1>16, AclAssumption DEF OtherTopics, FreshIds, Foreign, AclTypeOK, UniqueIds, Acls, Entries
  <2>2. topicACLs(aivenAcls', Own) = topicACLs(aivenAcls, Own)
    BY <1>16 DEF OtherTopics, Foreign, topicACLs
  <2>3. UNCHANGED <<aclPc, lines, toAdd, toDelete, Granted, Goal, Obsolete, StillToAdd>>
    BY <1>16, <2>2 DEF OtherTopics, Granted, Goal, Obsolete, StillToAdd
  <2> QED
    BY <2>1, <2>3 DEF AclTypeOK, PlanIsExact, SyncedOnSuccess, DeclaredOnce
<1>17. CASE UNCHANGED aclVars
  <2>1. UNCHANGED <<aivenAcls, aclPc, lines, toAdd, toDelete>>
    BY <1>17 DEF aclVars
  <2>2. UNCHANGED <<Granted, Goal, Obsolete, StillToAdd>>
    BY <2>1 DEF Granted, Goal, Obsolete, StillToAdd, topicACLs
  <2> QED
    BY <2>1, <2>2 DEF AclTypeOK, PlanIsExact, SyncedOnSuccess, DeclaredOnce
<1> QED
  BY <1>2, <1>3, <1>4, <1>5, <1>6, <1>7, <1>8, <1>9, <1>10, <1>11, <1>12, <1>13, <1>14,
     <1>15, <1>16, <1>17 DEF AclNext, AclStep

\* Whatever others do to the ACLs in the middle of a call, and however wrong
\* its plan is then: types and IDs stay right.
LEMMA AclStepTypes ==
  ASSUME AclTypeOK, UniqueIds(aivenAcls), toAdd # {} => aclPc = "add", AclStep
  PROVE  AclTypeOK' /\ UniqueIds(aivenAcls') /\ (toAdd' # {} => aclPc' = "add")
<1>1. aivenAcls' \subseteq Acls /\ UniqueIds(aivenAcls')
  <2>1. CASE UNCHANGED aivenAcls
    BY <2>1 DEF AclTypeOK
  <2>2. CASE \E i \in toAdd : AivenCreate(lines[i])
    BY <2>2, LineIsEntry, CreateEffect DEF AclTypeOK
  <2>3. CASE \E a \in toDelete : AivenDelete(a.id)
    BY <2>3 DEF AivenDelete, AclTypeOK, UniqueIds
  <2> QED
    BY <2>1, <2>2, <2>3 DEF AclStep, ListFails, WantedFails, List, Create, CreateFails, AddDone,
       DeleteWithoutId, Delete, DeleteFails, DeleteDone, UnlessDryRun
<1>2. CASE List
  BY <1>1, <1>2 DEF List, NewACLs, DeleteACLs, topicACLs, AclTypeOK
<1>3. CASE ~List
  BY <1>1, <1>3 DEF AclStep, ListFails, WantedFails, Fail, Create, NextToAdd, Added, CreateFails,
     AddDone, DeleteWithoutId, NextToDelete, Delete, Deleted, DeleteFails, DeleteDone, AclTypeOK
<1> QED
  BY <1>2, <1>3

\* The invariant holds in every reachable state.
THEOREM AclInvariant == AclSpec => []AclInv
BY AclInitInv, AclNextInv, PTL DEF AclSpec

\* A call that returns without an error leaves exactly the declared access
\* (acl.go:33-35), whatever earlier calls left behind.
THEOREM SuccessMeansSynced == AclSpec => []SyncedOnSuccess
<1>1. AclInv => SyncedOnSuccess
  BY DEF AclInv
<1> QED
  BY <1>1, AclInvariant, PTL

-----------------------------------------------------------------------------
(* What one step never does.                                               *)

\* Every step but Begin keeps the declaration; every step but these four keeps
\* the ACLs.
LEMMA AclStepKinds ==
  ASSUME AclInv, AclStep
  PROVE  \/ UNCHANGED aivenAcls
         \/ \E i \in toAdd : aclPc = "add" /\ ~DryRun /\ AivenCreate(lines[i])
         \/ \E a \in Obsolete : /\ aclPc = "delete" /\ ~DryRun /\ a.id # NoId
                                /\ AivenDelete(a.id)
<1>1. aclPc = "delete" /\ ~DryRun => toDelete = Obsolete
  BY DEF AclInv, PlanIsExact
<1>2. CASE Create \/ CreateFails
  BY <1>2 DEF Create, UnlessDryRun, CreateFails, NextToAdd
<1>3. CASE Delete \/ DeleteFails
  BY <1>1, <1>3 DEF Delete, UnlessDryRun, DeleteFails, NextToDelete
<1> QED
  BY <1>2, <1>3 DEF AclStep, ListFails, WantedFails, List, AddDone,
     DeleteWithoutId, DeleteDone

\* What each call to Aiven does to the access of this topic and to the others'.
LEMMA AclStepEffect ==
  ASSUME AclInv, AclStep
  PROVE  /\ Foreign' = Foreign
         /\ \A e \in Granted \ Granted' : e \notin Goal /\ Goal \subseteq Granted
         /\ \A a \in aivenAcls' \ aivenAcls : DeclaredOnce(Entry(a)) => Entry(a) \notin Granted
<1>1. CASE UNCHANGED aivenAcls
  BY <1>1 DEF Foreign, Granted
<1>2. CASE \E i \in toAdd : aclPc = "add" /\ ~DryRun /\ AivenCreate(lines[i])
  BY <1>2, LineIsEntry, CreateEffect DEF AclInv, AclTypeOK
<1>3. CASE \E a \in Obsolete : /\ aclPc = "delete" /\ ~DryRun /\ a.id # NoId
                               /\ AivenDelete(a.id)
  BY <1>3, DeleteEffect DEF AclInv, PlanIsExact
<1> QED
  BY <1>1, <1>2, <1>3, AclStepKinds

\* Synchronizing one topic never touches an ACL of another one: topicACLs
\* selects what is deleted (acl.go:168-177) and deletion is by ID.
THEOREM ForeignUntouchedTheorem == AclSpec => ForeignUntouched
<1>1. AclInv /\ [AclNext]_aclVars => [AclStep => Foreign' = Foreign]_aclVars
  BY AclStepEffect
<1> QED
  BY <1>1, AclInvariant, PTL DEF AclSpec, ForeignUntouched

\* Access is granted before any is revoked, and nothing declared is revoked:
\* Synchronize adds before it deletes (acl.go:50-58).
THEOREM RevokeAfterGrantTheorem == AclSpec => RevokeAfterGrant
<1> DEFINE Step == \A e \in Granted \ Granted' : e \notin Goal /\ Goal \subseteq Granted
<1>1. AclInv /\ [AclNext]_aclVars => Step
  <2> SUFFICES ASSUME AclInv, [AclNext]_aclVars PROVE Step
    OBVIOUS
  <2>1. CASE AclStep
    BY <2>1, AclStepEffect
  <2>2. CASE UNCHANGED aivenAcls
    BY <2>2 DEF Granted
  <2>3. CASE OtherTopics
    <3>1. topicACLs(aivenAcls', Own) = topicACLs(aivenAcls, Own)
      BY <2>3 DEF OtherTopics, Foreign, topicACLs
    <3> QED
      BY <3>1 DEF Granted
  <2> QED
    BY <2>1, <2>2, <2>3 DEF AclNext, Submit, Retry, Begin, aclVars
<1>2. Step => [Step]_aclVars
  OBVIOUS
<1> QED
  BY <1>1, <1>2, AclInvariant, PTL DEF AclSpec, RevokeAfterGrant

\* A retry never makes a second ACL for a pair that has one and is declared
\* once: the new call lists before it creates (acl.go:37-47).
THEOREM NoDuplicatesTheorem == AclSpec => NoDuplicates
<1> DEFINE Step == \A a \in aivenAcls' \ aivenAcls :
                     a.topic = Own /\ DeclaredOnce(Entry(a)) => Entry(a) \notin Granted
<1>1. AclInv /\ [AclNext]_aclVars => Step
  <2> SUFFICES ASSUME AclInv, [AclNext]_aclVars PROVE Step
    OBVIOUS
  <2>1. CASE AclStep
    BY <2>1, AclStepEffect
  <2>2. CASE UNCHANGED aivenAcls
    BY <2>2
  <2>3. CASE OtherTopics
    BY <2>3 DEF OtherTopics, Foreign
  <2> QED
    BY <2>1, <2>2, <2>3 DEF AclNext, Submit, Retry, Begin, aclVars
<1>2. Step => [Step]_aclVars
  OBVIOUS
<1> QED
  BY <1>1, <1>2, AclInvariant, PTL DEF AclSpec, NoDuplicates

-----------------------------------------------------------------------------
(* Refinement: the calls to Aiven implement AccessPromise.                 *)

\* A step that leaves Aiven, the declaration and the phase alone is a stutter.
LEMMA StutterStep ==
  ASSUME UNCHANGED <<Granted, Goal>>, UNCHANGED Phase
  PROVE  [Promise!PromiseNext]_(Promise!pvars)
BY DEF Promise!pvars

LEMMA PromiseStep ==
  ASSUME ~DryRun, AclInv, [AclNext]_aclVars
  PROVE  [Promise!PromiseNext]_(Promise!pvars)
<1> USE DEF Promise!PromiseNext
<1>a. AclTypeOK /\ UniqueIds(aivenAcls)
  BY DEF AclInv
<1>b. ASSUME UNCHANGED lines PROVE UNCHANGED Goal
  BY <1>b DEF Goal
<1>c. ASSUME UNCHANGED aivenAcls PROVE UNCHANGED Granted
  BY <1>c DEF Granted
<1>1. ASSUME NEW ls \in Seq(Entries), Begin(ls) PROVE Promise!Ask
  <2>1. Phase \in {"rest", "done"} /\ Phase' = "granting"
    BY <1>1 DEF Begin, Returned, Phase
  <2>2. Goal' \in SUBSET Entries
    <3>1. \A i \in DOMAIN ls : ls[i] \in Entries
      BY <1>1
    <3>2. \A e \in Entries : Entry(e) = e
      BY DEF Entries, Entry
    <3> QED
      BY <1>1, <3>1, <3>2 DEF Begin, Goal
  <2> QED
    BY <1>1, <1>c, <2>1, <2>2 DEF Begin, Promise!Ask
<1>2. CASE Submit \/ Retry
  BY <1>1, <1>2, AclAssumption DEF Submit, Retry, AclInv, AclTypeOK
<1>3. ASSUME NEW i \in toAdd, AivenCreate(lines[i]), UNCHANGED lines
      PROVE  Promise!GrantOne
  <2>1. lines[i] \in Goal
    BY LineIsEntry DEF AclInv, AclTypeOK, Goal
  <2>2. Granted' = Granted \cup {lines[i]}
    BY <1>3, LineIsEntry, CreateEffect DEF AclInv, AclTypeOK
  <2> QED
    BY <2>1, <2>2 DEF Promise!GrantOne
<1>4. ASSUME NEW a \in Obsolete, a.id # NoId, AivenDelete(a.id)
      PROVE  Promise!RevokeOne \/ UNCHANGED Granted
  <2>1. Granted' \subseteq Granted /\ Granted \ Granted' \subseteq {Entry(a)}
        /\ Entry(a) \notin Goal
    BY <1>4, <1>a, DeleteEffect
  <2>2. CASE Entry(a) \in Granted /\ Entry(a) \notin Granted'
    <3>1. Granted' = Granted \ {Entry(a)}
      BY <2>1, <2>2
    <3> QED
      BY <2>1, <2>2, <3>1 DEF Promise!RevokeOne
  <2>3. CASE ~(Entry(a) \in Granted /\ Entry(a) \notin Granted')
    BY <2>1, <2>3
  <2> QED
    BY <2>2, <2>3
<1>5. CASE ListFails \/ WantedFails
  BY <1>5, <1>b, <1>c DEF ListFails, WantedFails, Fail, Phase, Promise!GiveUp
<1>6. CASE List
  BY <1>6, <1>b, <1>c, StutterStep DEF List, Phase
<1>7. CASE Create
  <2>1. Promise!GrantOne /\ UNCHANGED lines /\ aclPc = "add" /\ aclPc' = "add"
    BY <1>3, <1>7 DEF Create, UnlessDryRun, NextToAdd, Added
  <2> QED
    BY <1>b, <2>1 DEF Phase, Promise!Grant
<1>8. CASE CreateFails
  <2>1. Promise!GrantOne \/ UNCHANGED Granted
    BY <1>3, <1>8, <1>c DEF CreateFails, Fail
  <2>2. UNCHANGED Goal /\ Phase = "granting" /\ Phase' = "rest"
    BY <1>8, <1>b DEF CreateFails, NextToAdd, Fail, Phase
  <2> QED
    BY <2>1, <2>2 DEF Promise!GiveUp
<1>9. CASE AddDone
  <2>1. Goal \subseteq Granted
    BY <1>9 DEF AddDone, AclInv, PlanIsExact, StillToAdd
  <2> QED
    BY <1>9, <1>b, <1>c, <2>1 DEF AddDone, Phase, Promise!AllGranted
<1>10. CASE DeleteWithoutId
  BY <1>10, <1>b, <1>c DEF DeleteWithoutId, NextToDelete, Fail, Phase, Promise!GiveUp
<1>11. ASSUME NEW a \in toDelete, NextToDelete(a) PROVE a \in Obsolete
  BY <1>11 DEF NextToDelete, AclInv, PlanIsExact
<1>12. CASE Delete
  <2>1. (Promise!RevokeOne \/ UNCHANGED Granted) /\ UNCHANGED Goal
        /\ aclPc = "delete" /\ aclPc' = "delete"
    BY <1>4, <1>11, <1>12, <1>b DEF Delete, UnlessDryRun, NextToDelete, Deleted
  <2> QED
    BY <2>1, StutterStep DEF Phase, Promise!Revoke
<1>13. CASE DeleteFails
  <2>1. Promise!RevokeOne \/ UNCHANGED Granted
    BY <1>4, <1>11, <1>13, <1>c DEF DeleteFails
  <2>2. UNCHANGED Goal /\ Phase = "revoking" /\ Phase' = "rest"
    BY <1>13, <1>b DEF DeleteFails, NextToDelete, Fail, Phase
  <2> QED
    BY <2>1, <2>2 DEF Promise!GiveUp
<1>14. CASE DeleteDone
  <2>1. AclInv'
    BY AclNextInv
  <2>2. Granted' = Goal'
    BY <1>14, <2>1 DEF DeleteDone, AclInv, SyncedOnSuccess
  <2> QED
    BY <1>14, <1>b, <1>c, <2>2 DEF DeleteDone, Phase, Promise!Done
<1>15. CASE OtherTopics
  <2>1. topicACLs(aivenAcls', Own) = topicACLs(aivenAcls, Own)
    BY <1>15 DEF OtherTopics, Foreign, topicACLs
  <2>2. UNCHANGED <<Granted, Goal, Phase>>
    BY <1>15, <1>b, <2>1 DEF OtherTopics, Granted, Phase
  <2> QED
    BY <2>2, StutterStep
<1>16. CASE UNCHANGED aclVars
  BY <1>16, <1>b, <1>c, StutterStep DEF aclVars, Phase
<1> QED
  BY <1>2, <1>5, <1>6, <1>7, <1>8, <1>9, <1>10, <1>12, <1>13, <1>14, <1>15, <1>16
     DEF AclNext, AclStep

\* Outside dry-run, Synchronize keeps the promise of AccessPromise: grants
\* first, revokes next, and reports success only for the declared access.
THEOREM ImplementsPromise ==
  ASSUME ~DryRun
  PROVE  AclSpec => PromiseSpec
<1>1. AclInit => Promise!PromiseInit
  <2> SUFFICES ASSUME AclInit PROVE Promise!PromiseInit
    OBVIOUS
  <2>1. Goal = {} /\ Phase = "rest"
    BY DEF AclInit, Goal, Phase
  <2>2. Granted \in SUBSET Entries
    <3>1. AclTypeOK
      BY AclInitInv DEF AclInv
    <3>2. \A a \in Acls : Entry(a) \in Entries
      BY DEF Acls, Entry, Entries
    <3> QED
      BY <3>1, <3>2 DEF Granted, topicACLs, AclTypeOK
  <2> QED
    BY <2>1, <2>2 DEF Promise!PromiseInit, Entries
<1>2. AclInv /\ [AclNext]_aclVars => [Promise!PromiseNext]_(Promise!pvars)
  BY PromiseStep
<1> QED
  BY <1>1, <1>2, AclInvariant, PTL DEF AclSpec, PromiseSpec, Promise!PromiseSpec

=============================================================================
