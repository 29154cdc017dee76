---------------------------- MODULE MCMaintenance ----------------------------
(***************************************************************************)
(* A small instance of Maintenance: one application, an ACL of the old     *)
(* convention, and a second pool.                                          *)
(***************************************************************************)
EXTENDS Maintenance, TLC

CONSTANTS app1, old, own, noId, pool1, pool2

MCUsers == {app1, old}
MCLine(u) == [user |-> u, perm |-> "read"]
MCAclLists == {<<>>, <<MCLine(app1)>>}
Base == [NilConfig EXCEPT !["RetentionHours"] = 168]
MCConfigs == {Base}
MCAivenDefault == [f \in CreateFields |-> 0]
First == [acl |-> <<MCLine(app1)>>, config |-> Base]
\* Without access, and in the other pool.
Bare == [acl |-> <<>>, config |-> Base]
MCDeclarations == {First, Bare}
MCPoolOf == First :> pool1 @@ Bare :> pool2
MCTables == {{}} \cup {{[id |-> i, topic |-> own, user |-> old, perm |-> "read"]} : i \in Ids}
MCExistingTopics == {NoTopic}

=============================================================================
