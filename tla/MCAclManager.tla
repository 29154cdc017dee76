----------------------------- MODULE MCAclManager -----------------------------
(***************************************************************************)
(* Small instances of AclManager for TLC: two users and one whose name     *)
(* cannot be generated, two permissions, the own topic and another one.    *)
(***************************************************************************)
EXTENDS AclManager

CONSTANTS u1, u2, bad, own, other, noId, i1, i2, i3, i4, i5

MCUsers == {u1, u2, bad}
MCUnnameable == {bad}
MCPerms == {"read", "write"}
MCTopics == {own, other}
MCIds == {i1, i2, i3, i4, i5}

Line(u, p) == [user |-> u, perm |-> p]
Record(i, t, u, p) == [id |-> i, topic |-> t, user |-> u, perm |-> p]

\* No access, one line, two lines, a line given twice, one that has no name.
MCAclLists ==
  { <<>>,
    <<Line(u1, "read")>>,
    <<Line(u1, "write"), Line(u2, "read")>>,
    <<Line(u1, "write"), Line(u1, "write")>>,
    <<Line(bad, "read")>> }

\* A service that holds nothing, an obsolete ACL beside another topic's, or
\* an ACL without an ID, declared or not.
MCTables ==
  { {},
    {Record(i1, own, u2, "read"), Record(i2, other, u1, "read")},
    {Record(noId, own, u2, "write")},
    {Record(noId, own, u1, "read")} }

=============================================================================
