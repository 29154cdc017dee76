-------------------------- MODULE MCTopicReconciler --------------------------
(***************************************************************************)
(* Small instances of TopicReconciler: one topic, an application on either *)
(* side of an edit, one configuration that is refused.                     *)
(***************************************************************************)
EXTENDS TopicReconciler, TLC

CONSTANTS app1, app2, own, noId

MCUsers == {app1, app2}
MCLine(u) == [user |-> u, perm |-> "read"]
MCAclLists == {<<>>, <<MCLine(app1)>>, <<MCLine(app2)>>}
MCSymmetry == Permutations(Ids)

Base == [NilConfig EXCEPT !["Replication"] = 3, !["MinimumInSyncReplicas"] = 2, !["RetentionHours"] = 168]
Longer == [Base EXCEPT !["RetentionHours"] = 336]
TooFew == [Base EXCEPT !["MinimumInSyncReplicas"] = 4]
MCConfigs == {Base, Longer, TooFew}
MCAivenDefault ==
  ("Replication" :> 3 @@ "MinimumInSyncReplicas" :> 1 @@ "RetentionHours" :> -1)
    @@ [f \in CreateFields |-> 0]

First == [acl |-> <<MCLine(app1)>>, config |-> Base]
Second == [acl |-> <<MCLine(app2)>>, config |-> Longer]
Refused == [acl |-> <<MCLine(app2)>>, config |-> TooFew]
MCTables == {{}}
MCExistingTopics == {NoTopic}
\* Aiven as an earlier process left it for the second declaration.
MCHeldTables == {{[id |-> i, topic |-> own, user |-> app2, perm |-> "read"]} : i \in Ids}
MCDeclarations == {First, Second, Refused}
\* No access, another configuration.
Bare == [acl |-> <<>>, config |-> Longer]
MCFirstAndBare == {First, Bare}
MCHeldObjs ==
  {NoObj, [spec |-> Second, hash |-> Second, fin |-> TRUE, deleting |-> FALSE, purge |-> TRUE]}
MCHeldTopics == {NoTopic, Merge(MCAivenDefault, Longer, CreateFields)}

=============================================================================
