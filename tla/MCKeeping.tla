------------------------------ MODULE MCKeeping ------------------------------
(***************************************************************************)
(* A small instance of Keeping for TLC: the sender away from home sends    *)
(* one file to everyone, the one at home the same file to the sender.      *)
(***************************************************************************)
EXTENDS Keeping

CONSTANTS owner, worker, away, here

MCFrom == [m \in Messages |-> IF m = away THEN worker ELSE owner]
MCTo == [m \in Messages |-> IF m = away THEN Everyone ELSE worker]
MCBlobOf == [m \in Messages |-> CHOOSE f \in Blobs : TRUE]
=============================================================================
