----------------------------- MODULE MCConsole -----------------------------
(***************************************************************************)
(* The constants of Console for TLC: a code for one user, one access key   *)
(* per user, and registration without invite codes, or by invite code and  *)
(* closed in between.                                                      *)
(***************************************************************************)
EXTENDS Console, TLC

MCMaxUses == [c \in Codes |-> 1]
Free    == [open |-> TRUE, invite |-> FALSE, keyLimit |-> 1]
Invited == [open |-> TRUE, invite |-> TRUE, keyLimit |-> 1]
Closed  == [open |-> FALSE, invite |-> TRUE, keyLimit |-> 1]
MCSettings == {Invited, Closed}
OnlyFree == {Free}

Interchangeable == Permutations(Users) \cup Permutations(Keys)
=============================================================================
