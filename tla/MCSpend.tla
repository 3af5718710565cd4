------------------------------- MODULE MCSpend -------------------------------
(***************************************************************************)
(* Spend with runs of a remote member and one on the helper that is the    *)
(* room's home.  Of the remote member's, two name no operation, so that    *)
(* the second may find the first one's on disk; a third, named, can be put *)
(* among Runs to have one that names its operation.                        *)
(***************************************************************************)
EXTENDS Spend, TLC

CONSTANTS first, second, named, athome, worker, owner, op1

MCBy == [r \in Runs |-> IF r = athome THEN owner ELSE worker]
MCNamed == [r \in Runs |-> IF r = named THEN op1 ELSE Unnamed]

Symmetric == Permutations({first, second})
=============================================================================
