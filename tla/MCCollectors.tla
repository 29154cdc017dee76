----------------------------- MODULE MCCollectors -----------------------------
(***************************************************************************)
(* Small collectors: two projects, two topics of one team or one name, two *)
(* versions.                                                               *)
(***************************************************************************)
EXTENDS Collectors

CONSTANTS t1, t2, g

MCProjects == <<"p1", "p2">>
MCGroup == [i \in Items |-> g]
Look(a, b) == [i \in Items |-> IF i = t1 THEN a ELSE b]
MCTopicLooks == {Look(Absent, 1), Look(1, 1)}
MCAclLooks == {Look(Absent, 0), Look(1, 2)}
MCMetadataLooks == {Look(1, Absent), Look(Absent, 1)}

=============================================================================
