---------------------------- MODULE AccessPromise ----------------------------
(***************************************************************************)
(* What a team that declares access to one topic relies on, without the   *)
(* calls that bring it about: access is first granted, then revoked; what *)
(* is asked for is never taken away; a change that is reported as done is  *)
(* the declared access, no more and no less.  A synchronization may give   *)
(* up between any two changes, and its last change may happen or not.      *)
(***************************************************************************)
CONSTANT Entries        \* the (user, permission) pairs there are

VARIABLES
  granted,              \* the pairs that have access
  goal,                 \* the pairs the last request asked for
  phase                 \* "rest", "granting", "revoking" or "done"

pvars == <<granted, goal, phase>>

PromiseTypeOK ==
  /\ granted \subseteq Entries
  /\ goal \subseteq Entries
  /\ phase \in {"rest", "granting", "revoking", "done"}

PromiseInit ==
  /\ granted \in SUBSET Entries
  /\ goal = {}
  /\ phase = "rest"

Ask ==
  /\ phase \in {"rest", "done"}
  /\ goal' \in SUBSET Entries
  /\ phase' = "granting"
  /\ UNCHANGED granted

GrantOne == \E e \in goal : granted' = granted \cup {e}
RevokeOne == \E e \in granted \ goal : granted' = granted \ {e}

Grant == phase = "granting" /\ GrantOne /\ UNCHANGED <<goal, phase>>

AllGranted ==
  /\ phase = "granting"
  /\ goal \subseteq granted
  /\ phase' = "revoking"
  /\ UNCHANGED <<granted, goal>>

Revoke == phase = "revoking" /\ RevokeOne /\ UNCHANGED <<goal, phase>>

Done ==
  /\ phase = "revoking"
  /\ granted = goal
  /\ phase' = "done"
  /\ UNCHANGED <<granted, goal>>

GiveUp ==
  /\ \/ phase = "granting" /\ (GrantOne \/ UNCHANGED granted)
     \/ phase = "revoking" /\ (RevokeOne \/ UNCHANGED granted)
  /\ phase' = "rest"
  /\ UNCHANGED goal

PromiseNext == Ask \/ Grant \/ AllGranted \/ Revoke \/ Done \/ GiveUp

PromiseSpec == PromiseInit /\ [][PromiseNext]_pvars

=============================================================================
