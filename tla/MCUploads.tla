------------------------------ MODULE MCUploads ------------------------------
(***************************************************************************)
(* A small instance of Uploads for TLC: one and two carry the same file,   *)
(* three another; both files have two pieces and the room keeps two.       *)
(***************************************************************************)
EXTENDS Uploads

CONSTANTS one, two, three, same, other, c1, c2

MCFileOf == [u \in Uploads |-> IF u = three THEN other ELSE same]
MCSize == [f \in Files |-> 2]
=============================================================================
