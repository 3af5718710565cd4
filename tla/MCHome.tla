------------------------------- MODULE MCHome -------------------------------
(***************************************************************************)
(* A small room for TLC: the owner's control messages on itself and on     *)
(* member a, and one task that a and b claim and release.                  *)
(***************************************************************************)
EXTENDS Home, TLC

OwnerSays(op, who) == [from |-> "owner", op |-> op, who |-> who]
Says(x, op) == [from |-> x, op |-> op, who |-> x]

MCSays ==
    [pause |-> OwnerSays("pause", "owner"), resume |-> OwnerSays("resume", "owner"),
     hold |-> OwnerSays("hold", "owner"),
     revoke |-> OwnerSays("revoke", "a"),
     claimA |-> Says("a", "claim"), claimB |-> Says("b", "claim"),
     releaseA |-> Says("a", "release")]

Symmetric == Permutations(Calls)

MCSaid == [m \in Messages |-> MCSays[m]]
=============================================================================
