-------------------------- MODULE MCStreamReconciler --------------------------
(***************************************************************************)
(* Small instances of StreamReconciler: an owner, an additional user who   *)
(* comes and goes, two internal topics.                                    *)
(***************************************************************************)
EXTENDS StreamReconciler

CONSTANTS app, helper, prefix, noId

MCUsers == {app, helper}
MCDeclarations == {<<>>, <<helper>>}
MCAclLists == {StreamACLs(d) : d \in MCDeclarations} \cup {<<>>}
MCTables == {{}}
\* The ACLs of a Stream that an earlier process synchronized.
MCHeldTables == {{[id |-> i, topic |-> prefix, user |-> app, perm |-> "admin"]} : i \in Ids}
MCHeldObjs == {NoObj, [spec |-> <<>>, hash |-> <<>>, fin |-> TRUE, deleting |-> FALSE]}

=============================================================================
