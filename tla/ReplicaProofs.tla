----------------------------- MODULE ReplicaProofs -----------------------------
(***************************************************************************)
(* A member's copy of a room is a prefix of the home's chain, for any      *)
(* length of the chain, any batch of a sync and any number of cuts.        *)
(***************************************************************************)
EXTENDS Replica, TLAPS, SequenceTheorems

\* What the room task can be doing.
Works ==
    [at : {"idle", "sync"}]
    \cup [at : {"read"}, from : Nat \ {0}, upto : Nat]
    \cup [at : {"apply", "verified"}, next : Nat \ {0}, upto : Nat, again : BOOLEAN]

\* What the task is about to apply, and what is under way, the home has placed.
WorkIsPlaced ==
    /\ work.at \in {"read", "apply", "verified"} => work.upto <= Len(chain)
    /\ work.at = "verified" => work.next <= work.upto

\* The copy, message by message.
CopyAgrees ==
    /\ Len(mine) <= Len(chain)
    /\ \A i \in 1..Len(mine) : mine[i] = chain[i]

IInv ==
    /\ chain \in Seq(Ops) /\ mine \in Seq(Ops)
    /\ pushes \subseteq 1..Len(chain)
    /\ work \in Works
    /\ WorkIsPlaced
    /\ CopyAgrees

-----------------------------------------------------------------------------

LEMMA InitIInv == Init => IInv
<1>1. SUFFICES ASSUME Init PROVE IInv
  OBVIOUS
<1>2. chain = <<>> /\ mine = <<>> /\ pushes = {} /\ work = [at |-> "idle"]
  BY <1>1 DEF Init, Idle
<1>3. work \in Works
  BY <1>2 DEF Works
<1>4. WorkIsPlaced /\ CopyAgrees
  BY <1>2 DEF WorkIsPlaced, CopyAgrees
<1> QED
  BY <1>2, <1>3, <1>4 DEF IInv

\* The home only ever adds to its chain, so what was placed stays where it is.
LEMMA PlaceKeeps ==
    ASSUME IInv, NEW op \in Ops, Place(op)
    PROVE  IInv'
<1>1. /\ chain' \in Seq(Ops) /\ Len(chain') = Len(chain) + 1
      /\ \A i \in 1..Len(chain) : chain'[i] = chain[i]
  BY DEF IInv, Place
<1>2. mine' = mine /\ work' = work
  BY DEF Place, member
<1>3. pushes' \subseteq 1..Len(chain')
  <2>1. pushes' \subseteq pushes \cup {Len(chain) + 1}
    BY DEF Place, Newest
  <2> QED
    BY <1>1, <2>1, LenProperties DEF IInv
<1>4. WorkIsPlaced'
  BY <1>1, <1>2, LenProperties DEF IInv, WorkIsPlaced, Works
<1>5. CopyAgrees'
  BY <1>1, <1>2, LenProperties DEF IInv, CopyAgrees
<1> QED
  BY <1>1, <1>2, <1>3, <1>4, <1>5 DEF IInv

\* A step that changes neither chain nor copy keeps IInv when its work is well placed.
LEMMA WorkKeeps ==
    ASSUME IInv, chain' = chain, mine' = mine, pushes' \subseteq pushes,
           work' \in Works, WorkIsPlaced'
    PROVE  IInv'
BY DEF IInv, CopyAgrees

\* A sync asks for no more than the home has.
LEMMA SyncReadKeeps ==
    ASSUME IInv, SyncRead
    PROVE  IInv'
<1> DEFINE upto == IF Newest < Len(mine) + Batch THEN Newest ELSE Len(mine) + Batch
<1>1. Len(chain) \in Nat /\ Len(mine) \in Nat /\ Batch \in Nat
  BY ReplicaAssumption, LenProperties DEF IInv
<1>2. upto \in Nat /\ upto <= Len(chain)
  BY <1>1 DEF Newest
<1>3. work' = [at |-> "read", from |-> Len(mine) + 1, upto |-> upto]
  BY DEF SyncRead
<1>4. work' \in Works
  <2>1. Len(mine) + 1 \in Nat \ {0}
    BY <1>1
  <2> QED
    BY <1>2, <1>3, <2>1 DEF Works
<1>5. chain' = chain /\ mine' = mine /\ pushes' = pushes
  BY DEF SyncRead, member
<1>6. WorkIsPlaced'
  BY <1>2, <1>3, <1>5 DEF WorkIsPlaced
<1> QED
  BY <1>4, <1>5, <1>6, WorkKeeps

LEMMA SyncRowsKeeps ==
    ASSUME IInv, SyncRows
    PROVE  IInv'
<1>1. work.from \in Nat \ {0} /\ work.upto \in Nat /\ work.upto <= Len(chain)
  BY DEF SyncRows, IInv, Works, WorkIsPlaced
<1>2. More \in BOOLEAN
  BY DEF More
<1>3. work' = [at |-> "apply", next |-> work.from, upto |-> work.upto, again |-> More]
  BY DEF SyncRows
<1>4. work' \in Works
  BY <1>1, <1>2, <1>3 DEF Works
<1>5. chain' = chain /\ mine' = mine /\ pushes' = pushes
  BY DEF SyncRows
<1>6. WorkIsPlaced'
  BY <1>1, <1>3, <1>5 DEF WorkIsPlaced
<1> QED
  BY <1>4, <1>5, <1>6, WorkKeeps

\* What was pushed, the home has placed.
LEMMA TakePushKeeps ==
    ASSUME IInv, NEW s \in Seqs, TakePush(s)
    PROVE  IInv'
<1>1. s \in 1..Len(chain) /\ Len(chain) \in Nat
  BY LenProperties DEF TakePush, IInv
<1>2. work' = [at |-> "apply", next |-> s, upto |-> s, again |-> FALSE]
  BY DEF TakePush
<1>3. work' \in Works
  <2>1. s \in Nat \ {0}
    BY <1>1
  <2> QED
    BY <1>2, <2>1 DEF Works
<1>4. chain' = chain /\ mine' = mine /\ pushes' \subseteq pushes
  BY DEF TakePush, member
<1>5. WorkIsPlaced'
  BY <1>1, <1>2, <1>4 DEF WorkIsPlaced
<1> QED
  BY <1>3, <1>4, <1>5, WorkKeeps

LEMMA VerifyKeeps ==
    ASSUME IInv, Verify
    PROVE  IInv'
<1>1. work \in [at : {"apply", "verified"}, next : Nat \ {0}, upto : Nat, again : BOOLEAN]
  BY DEF Verify, IInv, Works
<1>2. work' = [work EXCEPT !.at = "verified"]
  BY DEF Verify
<1>3. work' \in Works
  BY <1>1, <1>2 DEF Works
<1>4. work'.at = "verified" /\ work'.next = work.next /\ work'.upto = work.upto
  BY <1>1, <1>2
<1>5. chain' = chain /\ mine' = mine /\ pushes' = pushes
  BY DEF Verify
<1>6. WorkIsPlaced'
  BY <1>4, <1>5 DEF Verify, IInv, WorkIsPlaced
<1> QED
  BY <1>3, <1>5, <1>6, WorkKeeps

\* Only what follows is stored, and it is what the home has there.
LEMMA StoreKeeps ==
    ASSUME IInv, Store
    PROVE  IInv'
<1>1. /\ work \in [at : {"apply", "verified"}, next : Nat \ {0}, upto : Nat, again : BOOLEAN]
      /\ work.next <= work.upto /\ work.upto <= Len(chain)
  BY DEF Store, IInv, Works, WorkIsPlaced
<1>2. /\ work' \in [at : {"apply"}, next : Nat \ {0}, upto : Nat, again : BOOLEAN]
      /\ work'.upto = work.upto
  <2>1. work' = [work EXCEPT !.at = "apply", !.next = @ + 1]
    BY DEF Store
  <2>2. work.next + 1 \in Nat \ {0}
    BY <1>1
  <2>3. /\ work'.at = "apply" /\ work'.next = work.next + 1
        /\ work'.upto = work.upto /\ work'.again = work.again
        /\ work' = [at |-> "apply", next |-> work.next + 1, upto |-> work.upto, again |-> work.again]
    BY <1>1, <2>1
  <2> QED
    BY <1>1, <2>2, <2>3
<1>3. chain' = chain /\ pushes' = pushes
  BY DEF Store
<1>4. Len(mine) \in Nat /\ Len(chain) \in Nat
  BY LenProperties DEF IInv
<1>5. mine' \in Seq(Ops) /\ CopyAgrees'
  <2>1. CASE work.next <= Len(mine)
    <3>1. mine' = mine
      BY <2>1 DEF Store
    <3> QED
      BY <1>3, <3>1 DEF IInv, CopyAgrees
  <2>2. CASE ~(work.next <= Len(mine))
    <3>1. work.next = Len(mine) + 1
      BY <1>1, <1>4, <2>2 DEF Store
    <3>2. mine' = Append(mine, chain[Len(mine) + 1])
      BY <2>2, <3>1 DEF Store
    <3>3. Len(mine) + 1 \in 1..Len(chain)
      BY <1>1, <1>4, <3>1
    <3>4. chain[Len(mine) + 1] \in Ops
      BY <3>3 DEF IInv
    <3>5. /\ mine' \in Seq(Ops) /\ Len(mine') = Len(mine) + 1
          /\ \A i \in 1..Len(mine) : mine'[i] = mine[i]
          /\ mine'[Len(mine) + 1] = chain[Len(mine) + 1]
      BY <3>2, <3>4 DEF IInv
    <3> QED
      BY <1>3, <1>4, <3>3, <3>5 DEF IInv, CopyAgrees
  <2> QED
    BY <2>1, <2>2
<1>6. work' \in Works
  BY <1>2 DEF Works
<1>7. WorkIsPlaced'
  BY <1>1, <1>2, <1>3 DEF WorkIsPlaced
<1> QED
  BY <1>3, <1>5, <1>6, <1>7 DEF IInv

-----------------------------------------------------------------------------

\* Links that come up, break or end, lost pushes and ticks leave the copy alone.
LEMMA RestingKeeps ==
    ASSUME IInv, chain' = chain, mine' = mine, pushes' \subseteq pushes,
           work' \in {work, Idle, [at |-> "sync"]}
    PROVE  IInv'
<1>1. work' \in Works
  BY DEF IInv, Works, Idle
<1>2. WorkIsPlaced'
  BY DEF IInv, WorkIsPlaced, Idle
<1> QED
  BY <1>1, <1>2, WorkKeeps

LEMMA NextIInv == IInv /\ [Next]_vars => IInv'
<1>1. SUFFICES ASSUME IInv, [Next]_vars PROVE IInv'
  OBVIOUS
<1>2. ASSUME NEW op \in Ops, Place(op) PROVE IInv'
  BY <1>1, <1>2, PlaceKeeps
<1>3. ASSUME NEW s \in Seqs, LosePush(s) PROVE IInv'
  BY <1>1, <1>3, RestingKeeps DEF LosePush, member
<1>4. ASSUME NEW s \in Seqs, TakePush(s) PROVE IInv'
  BY <1>1, <1>4, TakePushKeeps
<1>5. CASE LinkUp
  BY <1>1, <1>5, RestingKeeps DEF LinkUp, member
<1>6. CASE Cut
  BY <1>1, <1>6, RestingKeeps DEF Cut, DropLink, member
<1>7. CASE Tick
  BY <1>1, <1>7, RestingKeeps DEF Tick, member
<1>8. CASE SyncRead
  BY <1>1, <1>8, SyncReadKeeps
<1>9. CASE SyncRows
  BY <1>1, <1>9, SyncRowsKeeps
<1>10. CASE Verify
  BY <1>1, <1>10, VerifyKeeps
<1>11. CASE UnknownSender
  BY <1>1, <1>11, RestingKeeps DEF UnknownSender, member
<1>12. CASE Store
  BY <1>1, <1>12, StoreKeeps
<1>13. CASE ChainBreak
  BY <1>1, <1>13, RestingKeeps DEF ChainBreak, member
<1>14. CASE Applied
  BY <1>1, <1>14, RestingKeeps DEF Applied, member
<1>15. CASE UNCHANGED vars
  BY <1>1, <1>15, RestingKeeps DEF vars, member
<1> QED
  BY <1>1, <1>2, <1>3, <1>4, <1>5, <1>6, <1>7, <1>8, <1>9, <1>10, <1>11, <1>12, <1>13, <1>14,
     <1>15 DEF Next, Busy

\* Two sequences that agree place by place are the same.
LEMMA AgreeingIsPrefix == IInv => CopyIsPrefix
<1>1. SUFFICES ASSUME IInv PROVE mine = SubSeq(chain, 1, Len(mine))
  BY DEF CopyIsPrefix
<1>2. Len(mine) \in Nat /\ Len(chain) \in Nat /\ Len(mine) <= Len(chain)
  BY <1>1, LenProperties DEF IInv, CopyAgrees
<1> DEFINE prefix == SubSeq(chain, 1, Len(mine))
<1>3. /\ prefix \in Seq(Ops) /\ Len(prefix) = Len(mine)
      /\ \A i \in 1..Len(mine) : prefix[i] = chain[i]
  BY <1>1, <1>2 DEF IInv
<1>4. \A i \in 1..Len(mine) : mine[i] = prefix[i]
  BY <1>1, <1>3 DEF IInv, CopyAgrees
<1> QED
  BY <1>1, <1>2, <1>3, <1>4, SeqEqual DEF IInv

-----------------------------------------------------------------------------

\* In every reachable state what the task works on was placed by the home, and copy and chain
\* agree (sync_from_home, apply_from_home, append).
THEOREM Inductive == Spec => []IInv
BY InitIInv, NextIInv, PTL DEF Spec

\* A member's copy is the home's chain up to some message, with pushes lost, late and repeated
\* and links cut at any point of a sync (NeedSync of append_in).
THEOREM PrefixAlways == Spec => []CopyIsPrefix
BY Inductive, AgreeingIsPrefix, PTL
=============================================================================
