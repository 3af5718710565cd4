-------------------------------- MODULE MCEntry --------------------------------
(***************************************************************************)
(* Into a room and out of it, for TLC: three machines side by side.  They  *)
(* share no variable, so a behaviour moves one of them and says all there  *)
(* is to say of it.                                                        *)
(*   Admit - who is let in: two keys, the second of them on the home's     *)
(*           machine; an invite that both have come by, one to the same    *)
(*           name and one to another;                                      *)
(*   Doors - by which way in, and under whose key;                         *)
(*   Audit - what goes out as a bundle.                                    *)
(***************************************************************************)
EXTENDS Admit, Doors, Audit, TLC

MCHolders == [i1 |-> {"k1", "k2"}, i2 |-> {"k2"}, i3 |-> {"k1"}]
MCNameOn == [i \in Invites |-> IF i = "i3" THEN "b" ELSE "a"]

VARIABLES side  \* the one that moves

EntryInit ==
    /\ side \in {"admit", "doors", "audit"}
    /\ Init /\ AuditInit
    /\ DoorInit /\ (side = "doors" \/ owner = Default)

EntryNext ==
    /\ UNCHANGED side
    /\ \/ side = "admit" /\ Next      /\ UNCHANGED <<doorVars, auditVars>>
       \/ side = "doors" /\ DoorNext  /\ UNCHANGED <<vars, auditVars>>
       \/ side = "audit" /\ AuditNext /\ UNCHANGED <<vars, doorVars>>

EntrySpec == EntryInit /\ [][EntryNext]_<<side, vars, doorVars, auditVars>>

Symmetric == Permutations(Calls) \cup Permutations(Agents)
=============================================================================
