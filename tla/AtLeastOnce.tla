---------------------------- MODULE AtLeastOnce ----------------------------
(***************************************************************************)
(* What a room's helper promises each reader, with nothing of how: a       *)
(* message that arrives for a reader is owed to it; it stays owed until    *)
(* the reader takes it on, or until it was handed out MaxAttempts times    *)
(* for nothing and is set aside; and what was set aside can be recalled.   *)
(***************************************************************************)
EXTENDS Naturals

CONSTANTS Readers, Items, MaxAttempts

VARIABLES
    arrived,  \* the messages of the room
    owed,     \* per reader: still to be taken on
    taken,    \* per reader: taken on, once and for good
    aside,    \* per reader: given up for now, and kept
    tries,    \* per reader and owed message: hand-outs since new or recalled
    handed    \* per reader and message: hand-outs ever

vars == <<arrived, owed, taken, aside, tries, handed>>

Init ==
    /\ arrived = {}
    /\ owed = [r \in Readers |-> {}]
    /\ taken = [r \in Readers |-> {}]
    /\ aside = [r \in Readers |-> {}]
    /\ tries = [r \in Readers |-> [i \in Items |-> 0]]
    /\ handed = [r \in Readers |-> [i \in Items |-> 0]]

\* A message arrives; it is owed to those who want it.
Arrive(i, wanting) ==
    /\ i \notin arrived
    /\ arrived' = arrived \cup {i}
    /\ owed' = [r \in Readers |-> IF r \in wanting THEN owed[r] \cup {i} ELSE owed[r]]
    /\ UNCHANGED <<taken, aside, tries, handed>>

\* Messages whose tries are used up are set aside.
SetAside(r, gone) ==
    /\ \A i \in gone : i \in owed[r] /\ tries[r][i] = MaxAttempts
    /\ owed' = [owed EXCEPT ![r] = @ \ gone]
    /\ aside' = [aside EXCEPT ![r] = @ \cup gone]
    /\ UNCHANGED <<arrived, taken>>

GiveUp(r, gone) ==
    /\ SetAside(r, gone)
    /\ tries' = [tries EXCEPT ![r] = [i \in Items |-> IF i \in gone THEN 0 ELSE @[i]]]
    /\ UNCHANGED handed

\* One owed message is handed out, while some may be set aside in the same step.
HandOut(r, i, gone) ==
    /\ SetAside(r, gone)
    /\ i \in owed[r] \ gone
    /\ tries[r][i] < MaxAttempts
    /\ tries' = [tries EXCEPT ![r] = [j \in Items |->
                    IF j \in gone THEN 0 ELSE IF j = i THEN @[j] + 1 ELSE @[j]]]
    /\ handed' = [handed EXCEPT ![r][i] = @ + 1]

\* The reader takes messages on; what was set aside stays there as a record.
Take(r, on) ==
    /\ on \subseteq arrived \ aside[r]
    /\ owed' = [owed EXCEPT ![r] = @ \ on]
    /\ taken' = [taken EXCEPT ![r] = @ \cup on]
    /\ tries' = [tries EXCEPT ![r] = [i \in Items |-> IF i \in on THEN 0 ELSE @[i]]]
    /\ UNCHANGED <<arrived, aside, handed>>

Recall(r, i) ==
    /\ i \in aside[r]
    /\ aside' = [aside EXCEPT ![r] = @ \ {i}]
    /\ owed' = [owed EXCEPT ![r] = @ \cup {i}]
    /\ UNCHANGED <<arrived, taken, tries, handed>>

Next ==
    \/ \E i \in Items, wanting \in SUBSET Readers : Arrive(i, wanting)
    \/ \E r \in Readers :
          \/ \E gone \in SUBSET Items :
                GiveUp(r, gone) \/ \E i \in Items : HandOut(r, i, gone)
          \/ \E on \in SUBSET Items : Take(r, on)
          \/ \E i \in Items : Recall(r, i)

Spec == Init /\ [][Next]_vars
=============================================================================
