------------------------------ MODULE HomeProofs ------------------------------
(***************************************************************************)
(* What holds at the home for any number of calls, members and messages:   *)
(* every message has one place, and a key that is cut stays cut, whatever  *)
(* the calls read and when.                                                *)
(*                                                                         *)
(* The invariant adds to the two properties why they survive a race: the   *)
(* members table holds every revoke the chain holds, because both are      *)
(* written in one transaction; so a call that looked its sender up and     *)
(* went on knows that no revoke of that sender was in the chain by then;   *)
(* and what a call, or a placed message, has seen of the chain lies in the *)
(* past.                                                                   *)
(*                                                                         *)
(* A second invariant, ReadInv, is about what the chain says: the rows say *)
(* the same, a call that may yet write its room a second time knows what   *)
(* was said since, and a message was placed on a state of the chain that   *)
(* its call did read.                                                      *)
(***************************************************************************)
EXTENDS Home, TLAPS

Revokes(m, x) == Op(m) = "revoke" /\ Who(m) = x

\* A revoke in the chain is in the members table.
RevokesAreInRows ==
    \A i \in 1..Len(chain) : \A x \in Members : Revokes(chain[i], x) => members[x].revoked

\* A call past its look at the member saw no revoke of its sender.
VettedIsNotRevoked ==
    \A c \in Calls :
        call[c].at \in {"vetted", "cleared"} =>
            \A i \in 1..Len(chain) :
                Revokes(chain[i], From(call[c].m)) => call[c].saw.member < i

\* What was read was read of a chain no longer than now.
CallsSawPast == \A c \in Calls : call[c] # Idle => call[c].saw.member <= Len(chain)
PlacedSawPast == \A m \in Messages : saw[m].member <= Len(chain)

IInv ==
    /\ TypeOK
    /\ OnePlace
    /\ RevokedIsCut
    /\ RevokesAreInRows
    /\ VettedIsNotRevoked
    /\ CallsSawPast
    /\ PlacedSawPast

-----------------------------------------------------------------------------
(* What control messages do to the rows.                                   *)

\* A control message leaves the room a room.
LEMMA RoomsStayRooms ==
    ASSUME NEW m \in Messages, NEW r \in Rooms
    PROVE  OnRoom(m, r) \in Rooms
BY DEF OnRoom, Rooms

\* A control message leaves the members' rows rows, takes back no revoke, and a revoke
\* marks the member it names.
LEMMA RowsStayRows ==
    ASSUME NEW m \in Messages, NEW rows \in [Members -> Rows]
    PROVE  /\ OnMembers(m, rows) \in [Members -> Rows]
           /\ \A x \in Members : rows[x].revoked => OnMembers(m, rows)[x].revoked
           /\ \A x \in Members : Revokes(m, x) => OnMembers(m, rows)[x].revoked
<1>1. Who(m) \in Members
  BY HomeAssumption DEF Who
<1>2. ASSUME NEW row \in Rows
      PROVE  /\ OnMember(m, row) \in Rows
             /\ row.revoked => OnMember(m, row).revoked
             /\ Op(m) = "revoke" => OnMember(m, row).revoked
  BY DEF OnMember, Rows
<1>3. OnMembers(m, rows) = [rows EXCEPT ![Who(m)] = OnMember(m, rows[Who(m)])]
  BY DEF OnMembers
<1> QED
  BY <1>1, <1>2, <1>3 DEF Revokes

-----------------------------------------------------------------------------
(* Each step preserves the invariant.                                      *)

\* A new room at the home satisfies the invariant.
LEMMA InitIInv == Init => IInv
<1>1. SUFFICES ASSUME Init
               PROVE  IInv
  OBVIOUS
<1>2. Len(chain) = 0 /\ chain \in Seq(Messages)
  BY <1>1 DEF Init
<1>3. NewRoom \in Rooms /\ NewRow \in Rows /\ NoReads \in Reads /\ NoReads.member = 0
  BY DEF NewRoom, Rooms, NewRow, Rows, NoReads, Reads
<1>4. TypeOK
  BY <1>1, <1>2, <1>3 DEF Init, TypeOK
<1>5. OnePlace /\ RevokedIsCut /\ RevokesAreInRows
  BY <1>2 DEF OnePlace, RevokedIsCut, RevokesAreInRows
<1>6. VettedIsNotRevoked /\ CallsSawPast /\ PlacedSawPast
  BY <1>1, <1>2, <1>3 DEF Init, VettedIsNotRevoked, CallsSawPast, PlacedSawPast
<1> QED
  BY <1>4, <1>5, <1>6 DEF IInv

\* A call that reads the room, and has not looked the member up yet, keeps the invariant.
LEMMA ReadKeeps ==
    ASSUME IInv, NEW c \in Calls, NEW m \in Messages, Read(c, m)
    PROVE  IInv'
<1> DEFINE req == [at |-> "read", m |-> m, room |-> room,
                   saw |-> [NoReads EXCEPT !.room = Len(chain)]]
<1>1. /\ call' = [call EXCEPT ![c] = req]
      /\ UNCHANGED <<chain, room, members, saw, raced>>
  BY DEF Read
<1>2. Len(chain) \in Nat
  BY DEF IInv, TypeOK
<1>3. req \in Requests /\ req.at = "read" /\ req.saw.member = 0
  BY <1>2 DEF Requests, NoReads, Reads, IInv, TypeOK
<1>4. TypeOK'
  BY <1>1, <1>3 DEF IInv, TypeOK
<1> HIDE DEF req
<1>5. VettedIsNotRevoked' /\ CallsSawPast'
  BY <1>1, <1>2, <1>3 DEF IInv, TypeOK, VettedIsNotRevoked, CallsSawPast
<1> QED
  BY <1>1, <1>4, <1>5 DEF IInv, OnePlace, RevokedIsCut, RevokesAreInRows, PlacedSawPast

\* A call that finds its sender not revoked keeps the invariant: no revoke of that
\* sender is in the chain at that moment.
LEMMA VetKeeps ==
    ASSUME IInv, NEW c \in Calls, Vet(c)
    PROVE  IInv'
<1> DEFINE req == [call[c] EXCEPT !.at = "vetted", !.saw.member = Len(chain)]
<1>1. call[c] \in Requests /\ Len(chain) \in Nat
  BY DEF IInv, TypeOK, Vet, Idle
<1>2. /\ call' = [call EXCEPT ![c] = req]
      /\ UNCHANGED <<chain, room, members, saw, raced>>
  BY DEF Vet, IInv, TypeOK
<1>3. /\ req \in Requests /\ req.at = "vetted" /\ req.saw.member = Len(chain)
      /\ req.m = call[c].m
  BY <1>1 DEF Requests, Reads
<1> HIDE DEF req
<1>4. TypeOK'
  BY <1>2, <1>3 DEF IInv, TypeOK
<1>5. \A i \in 1..Len(chain) : ~Revokes(chain[i], From(call[c].m))
  <2>1. From(call[c].m) \in Members /\ ~members[From(call[c].m)].revoked
    BY <1>1, HomeAssumption DEF Vet, MaySend, From, Requests
  <2> QED
    BY <2>1 DEF IInv, RevokesAreInRows
<1>6. VettedIsNotRevoked' /\ CallsSawPast'
  BY <1>1, <1>2, <1>3, <1>5 DEF IInv, TypeOK, VettedIsNotRevoked, CallsSawPast
<1> QED
  BY <1>2, <1>4, <1>6 DEF IInv, OnePlace, RevokedIsCut, RevokesAreInRows, PlacedSawPast

\* A call that passes the rules of its type keeps the invariant.
LEMMA CheckTypedKeeps ==
    ASSUME IInv, NEW c \in Calls, CheckTyped(c)
    PROVE  IInv'
<1> DEFINE req == [call[c] EXCEPT !.at = "cleared", !.saw.holder = Len(chain)]
<1>1. call[c] \in Requests /\ Len(chain) \in Nat
  BY DEF IInv, TypeOK, CheckTyped, Idle
<1>2. /\ call' = [call EXCEPT ![c] = req]
      /\ UNCHANGED <<chain, room, members, saw, raced>>
  BY DEF CheckTyped, IInv, TypeOK
<1>3. /\ req \in Requests /\ req.at = "cleared" /\ req.saw.member = call[c].saw.member
      /\ req.m = call[c].m /\ call[c].at = "vetted"
  BY <1>1 DEF Requests, Reads, CheckTyped
<1> HIDE DEF req
<1>4. TypeOK'
  BY <1>2, <1>3 DEF IInv, TypeOK
<1>5. call[c] # Idle
  BY <1>3 DEF Idle
<1>6. VettedIsNotRevoked' /\ CallsSawPast'
  BY <1>1, <1>2, <1>3, <1>5 DEF IInv, TypeOK, VettedIsNotRevoked, CallsSawPast
<1> QED
  BY <1>2, <1>4, <1>6 DEF IInv, OnePlace, RevokedIsCut, RevokesAreInRows, PlacedSawPast

\* A call that ends without writing anything keeps the invariant, and so does a crash.
LEMMA EndsKeep ==
    ASSUME IInv, UNCHANGED <<chain, room, members, saw, raced>>,
           call' \in [Calls -> {Idle} \union Requests],
           \A c \in Calls : call'[c] \in {call[c], Idle}
    PROVE  IInv'
<1>1. TypeOK'
  BY DEF IInv, TypeOK
<1>2. VettedIsNotRevoked' /\ CallsSawPast'
  BY DEF IInv, VettedIsNotRevoked, CallsSawPast, Idle
<1> QED
  BY <1>1, <1>2 DEF IInv, OnePlace, RevokedIsCut, RevokesAreInRows, PlacedSawPast

\* The transaction that gives a message its place keeps the invariant: a revoke enters
\* the chain together with its effect, and any other message only with a look at its
\* sender that no revoke in the chain is older than.
LEMMA PlaceKeeps ==
    ASSUME IInv, NEW c \in Calls, Place(c)
    PROVE  IInv'
<1> DEFINE m == call[c].m
           n == Len(chain)
           req == IF IsControl(m) THEN [call[c] EXCEPT !.at = "placed"] ELSE Idle
<1>1. call[c] \in Requests /\ m \in Messages /\ n \in Nat /\ call[c].at = "cleared"
  BY DEF IInv, TypeOK, Place, Idle, Requests
<1>2. /\ chain' = Append(chain, m)
      /\ room' = OnRoom(m, room)
      /\ members' = OnMembers(m, members)
      /\ saw' = [saw EXCEPT ![m] = call[c].saw]
      /\ call' = [call EXCEPT ![c] = req]
      /\ raced' = raced
      /\ ~Placed(m)
  BY DEF Place
<1>3. req \in {Idle} \union Requests /\ req.at \in {"placed", "idle"}
  BY <1>1 DEF Requests, Idle
<1>4. req # Idle => req.saw.member = call[c].saw.member
  BY <1>1 DEF Requests
<1>5. call[c].saw.member <= n /\ call[c].saw \in Reads
  BY <1>1 DEF IInv, CallsSawPast, Idle, Requests
<1>6. /\ Len(chain') = n + 1 /\ chain'[n + 1] = m /\ chain' \in Seq(Messages)
      /\ \A i \in 1..n : chain'[i] = chain[i] /\ chain[i] \in Messages /\ chain[i] # m
  BY <1>1, <1>2 DEF IInv, TypeOK, Placed
<1>7. \A i \in 1..(n + 1) : i \in 1..n \/ i = n + 1
  BY <1>1
<1>8. /\ saw' \in [Messages -> Reads] /\ saw'[m] = call[c].saw
      /\ \A k \in Messages : k # m => saw'[k] = saw[k]
  BY <1>1, <1>2, <1>5 DEF IInv, TypeOK
<1>9. /\ members' \in [Members -> Rows]
      /\ \A x \in Members : members[x].revoked => members'[x].revoked
      /\ \A x \in Members : Revokes(m, x) => members'[x].revoked
  BY <1>1, <1>2, RowsStayRows DEF IInv, TypeOK
<1>10. room' \in Rooms
  BY <1>1, <1>2, RoomsStayRooms DEF IInv, TypeOK
<1> HIDE DEF m, n, req
<1>11. TypeOK'
  BY <1>2, <1>3, <1>6, <1>8, <1>9, <1>10 DEF IInv, TypeOK
<1>12. OnePlace'
  <2>1. SUFFICES ASSUME NEW i \in 1..(n + 1), NEW j \in 1..(n + 1), chain'[i] = chain'[j]
                 PROVE  i = j
    BY <1>6 DEF OnePlace
  <2>2. CASE i \in 1..n /\ j \in 1..n
    BY <2>1, <2>2, <1>6 DEF IInv, OnePlace, n
  <2>3. CASE i = n + 1 \/ j = n + 1
    BY <2>1, <2>3, <1>6, <1>7
  <2> QED
    BY <2>2, <2>3, <1>7
<1>13. RevokedIsCut'
  <2>1. SUFFICES ASSUME NEW i \in 1..(n + 1), NEW j \in 1..(n + 1),
                        Op(chain'[i]) = "revoke", Who(chain'[i]) = From(chain'[j])
                 PROVE  saw'[chain'[j]].member < i
    BY <1>6 DEF RevokedIsCut, Op, Who, From
  <2>2. CASE i \in 1..n /\ j \in 1..n
    BY <2>1, <2>2, <1>6, <1>8 DEF IInv, RevokedIsCut, n
  <2>3. CASE i \in 1..n /\ j = n + 1
    BY <2>1, <2>3, <1>1, <1>6, <1>8 DEF IInv, VettedIsNotRevoked, Revokes, m, n
  <2>4. CASE i = n + 1
    <3>1. saw'[chain'[j]].member <= n
      BY <1>5, <1>6, <1>7, <1>8 DEF IInv, PlacedSawPast, n
    <3>2. saw'[chain'[j]].member \in Nat
      BY <1>6, <1>7, <1>8 DEF Reads, m
    <3> QED
      BY <3>1, <3>2, <2>4, <1>1 DEF n
  <2> QED
    BY <2>2, <2>3, <2>4, <1>7
<1>14. RevokesAreInRows'
  BY <1>6, <1>7, <1>9 DEF IInv, RevokesAreInRows, Revokes, Op, Who, n
<1>15. VettedIsNotRevoked'
  <2>1. SUFFICES ASSUME NEW d \in Calls, call'[d].at \in {"vetted", "cleared"},
                        NEW i \in 1..(n + 1), Revokes(chain'[i], From(call'[d].m))
                 PROVE  call'[d].saw.member < i
    BY <1>6 DEF VettedIsNotRevoked, Revokes, Op, Who, From
  <2>2. d # c /\ call'[d] = call[d] /\ call[d] # Idle
    BY <2>1, <1>2, <1>3 DEF IInv, TypeOK, Idle
  <2>3. call[d].saw.member <= n /\ call[d].saw.member \in Nat
    BY <2>2 DEF IInv, TypeOK, CallsSawPast, Requests, Reads, n
  <2>4. CASE i \in 1..n
    BY <2>1, <2>2, <2>4, <1>6 DEF IInv, VettedIsNotRevoked, n
  <2>5. CASE i = n + 1
    BY <2>2, <2>3, <2>5, <1>1 DEF n
  <2> QED
    BY <2>4, <2>5, <1>7
<1>16. CallsSawPast'
  <2>1. SUFFICES ASSUME NEW d \in Calls, call'[d] # Idle
                 PROVE  call'[d].saw.member <= n + 1
    BY <1>6 DEF CallsSawPast, Idle
  <2>2. call'[d].saw.member = call[d].saw.member /\ call[d] # Idle
    BY <2>1, <1>1, <1>2, <1>4 DEF IInv, TypeOK, Idle, m
  <2>3. call[d].saw.member <= n /\ call[d].saw.member \in Nat
    BY <2>2 DEF IInv, TypeOK, CallsSawPast, Requests, Reads, n
  <2> QED
    BY <2>2, <2>3, <1>1 DEF n
<1>17. PlacedSawPast'
  <2>1. SUFFICES ASSUME NEW k \in Messages
                 PROVE  saw'[k].member <= n + 1
    BY <1>6 DEF PlacedSawPast
  <2>2. saw'[k].member <= n /\ saw'[k].member \in Nat
    BY <1>5, <1>8 DEF IInv, PlacedSawPast, Reads, n
  <2> QED
    BY <2>2, <1>1 DEF n
<1> QED
  BY <1>11, <1>12, <1>13, <1>14, <1>15, <1>16, <1>17 DEF IInv

\* Writing the effect of a control message a second time, whatever the room was when the
\* call read it, keeps the invariant: no revoke is taken back.
LEMMA ReapplyKeeps ==
    ASSUME IInv, NEW c \in Calls, Reapply(c)
    PROVE  IInv'
<1> DEFINE m == call[c].m
<1>1. call[c] \in Requests /\ m \in Messages /\ call[c].room \in Rooms
  BY DEF IInv, TypeOK, Reapply, Idle, Requests
<1>2. /\ call' = [call EXCEPT ![c] = Idle]
      /\ members' = OnMembers(m, members)
      /\ room' \in {OnRoom(m, call[c].room), room}
      /\ raced' \in BOOLEAN
      /\ UNCHANGED <<chain, saw>>
  BY DEF Reapply
<1>3. /\ members' \in [Members -> Rows]
      /\ \A x \in Members : members[x].revoked => members'[x].revoked
  BY <1>1, <1>2, RowsStayRows DEF IInv, TypeOK
<1>4. room' \in Rooms
  BY <1>1, <1>2, RoomsStayRooms DEF IInv, TypeOK
<1> HIDE DEF m
<1>5. TypeOK'
  BY <1>2, <1>3, <1>4 DEF IInv, TypeOK
<1>6. RevokesAreInRows'
  BY <1>2, <1>3 DEF IInv, RevokesAreInRows
<1>7. VettedIsNotRevoked' /\ CallsSawPast'
  BY <1>2 DEF IInv, TypeOK, VettedIsNotRevoked, CallsSawPast, Idle
<1> QED
  BY <1>2, <1>5, <1>6, <1>7 DEF IInv, OnePlace, RevokedIsCut, PlacedSawPast

\* Every step of the home, and every stutter, preserves the invariant.
LEMMA NextIInv == IInv /\ [Next]_vars => IInv'
<1>1. SUFFICES ASSUME IInv, [Next]_vars
               PROVE  IInv'
  OBVIOUS
<1>2. ASSUME NEW c \in Calls, NEW m \in Messages, Read(c, m)
      PROVE  IInv'
  BY <1>1, <1>2, ReadKeeps
<1>3. ASSUME NEW c \in Calls, Vet(c)
      PROVE  IInv'
  BY <1>1, <1>3, VetKeeps
<1>4. ASSUME NEW c \in Calls, CheckTyped(c)
      PROVE  IInv'
  BY <1>1, <1>4, CheckTypedKeeps
<1>5. ASSUME NEW c \in Calls, Return(c) \/ RacedIn(c)
      PROVE  IInv'
  <2>1. /\ call' = [call EXCEPT ![c] = Idle]
        /\ UNCHANGED <<chain, room, members, saw, raced>>
    BY <1>5 DEF Return, RacedIn
  <2>2. /\ call' \in [Calls -> {Idle} \union Requests]
        /\ \A d \in Calls : call'[d] \in {call[d], Idle}
    BY <1>1, <2>1 DEF IInv, TypeOK
  <2> QED
    BY <1>1, <2>1, <2>2, EndsKeep
<1>6. ASSUME NEW c \in Calls, Place(c)
      PROVE  IInv'
  BY <1>1, <1>6, PlaceKeeps
<1>7. ASSUME NEW c \in Calls, Reapply(c)
      PROVE  IInv'
  BY <1>1, <1>7, ReapplyKeeps
<1>8. CASE Crash
  <2>1. /\ call' = [c \in Calls |-> Idle]
        /\ UNCHANGED <<chain, room, members, saw, raced>>
    BY <1>8 DEF Crash
  <2> QED
    BY <1>1, <2>1, EndsKeep
<1>9. CASE UNCHANGED vars
  BY <1>1, <1>9, EndsKeep DEF vars, IInv, TypeOK
<1> QED
  BY <1>1, <1>2, <1>3, <1>4, <1>5, <1>6, <1>7, <1>8, <1>9 DEF Next

-----------------------------------------------------------------------------
(* The theorems.                                                           *)

\* In every reachable state of the home the inductive invariant holds, for any number of
\* calls, members and messages.
THEOREM Inductive == Spec => []IInv
BY InitIInv, NextIInv, PTL DEF Spec

\* A message has one place in the chain, however many copies of it pass the checks of
\* sequence_here at the same time.
THEOREM PlacedOnce == Spec => []OnePlace
BY Inductive, PTL DEF IInv

\* No message is placed by a call that looked its sender up after the sender's revoke was
\* in the chain, whatever other calls and crashes came between.
THEOREM RevokedForGood == Spec => []RevokedIsCut
BY Inductive, PTL DEF IInv

-----------------------------------------------------------------------------
(* What calls read: the second invariant.                                  *)

\* The rules of its type let m in after the first n messages.
Allowed(m, n) ==
    /\ Op(m) = "claim" => Holder(n) = NoOne
    /\ Op(m) = "release" => Holder(n) = From(m)

\* What call r goes by is the chain up to where it read it: the room it carries is the one the
\* chain spelled there, its checks held of that, and a control message whose effect it has still
\* to write again lies after it.
GoesByChain(r) ==
    /\ r.saw.room <= Len(chain) /\ r.saw.holder <= Len(chain)
    /\ ~raced => r.room = RoomAt(r.saw.room)
    /\ r.at \in {"vetted", "cleared"} => RoomTakes(r.m, r.room)
    /\ r.at = "cleared" => Allowed(r.m, r.saw.holder)
    /\ r.at = "placed" => \E k \in (r.saw.room + 1)..Len(chain) : chain[k] = r.m

CallsGoByChain == \A c \in Calls : \A r \in Requests : call[c] = r => GoesByChain(r)
PlacedReadPast == \A m \in Messages : saw[m].room <= Len(chain) /\ saw[m].holder <= Len(chain)

ReadInv ==
    /\ CallsGoByChain
    /\ PlacedReadPast
    /\ RowsFollowChain
    /\ PausedTakesControlOnly
    /\ ClaimedWhenFree

-----------------------------------------------------------------------------
(* The last word.                                                          *)

\* After the first a of the messages s only m speaks of the matter.
OnlyOne(s, a, m, these, those) ==
    /\ \A x \in these : x \notin those
    /\ \A i \in (a + 1)..Len(s) : s[i] = m \/ (s[i] \notin these /\ s[i] \notin those)
    /\ \E k \in (a + 1)..Len(s) : s[k] = m

\* Then what m said is the last word.
LEMMA LastWordIs ==
    ASSUME NEW s \in Seq(Messages), NEW a \in 0..Len(s), NEW m, NEW these, NEW those,
           OnlyOne(s, a, m, these, those)
    PROVE  /\ m \in these => LastWord(s, these, those)
           /\ m \in those => ~LastWord(s, these, those)
           /\ m \notin these /\ m \notin those =>
                LastWord(s, these, those) = LastWord(SubSeq(s, 1, a), these, those)
           /\ LastWord(s, these, those) \in BOOLEAN
<1> USE DEF OnlyOne
<1>1. PICK k \in (a + 1)..Len(s) : s[k] = m
  OBVIOUS
<1>2. Len(s) \in Nat /\ a \in Nat /\ a <= Len(s)
  OBVIOUS
<1>3. /\ Len(SubSeq(s, 1, a)) = a
      /\ \A i \in 1..a : SubSeq(s, 1, a)[i] = s[i]
  BY <1>2
<1>4. LastWord(SubSeq(s, 1, a), these, those) <=>
        \E i \in 1..a : s[i] \in these /\ \A j \in (i + 1)..a : s[j] \notin those
  BY <1>2, <1>3 DEF LastWord
<1>5. CASE m \in these
  <2>1. LastWord(s, these, those)
    BY <1>1, <1>2, <1>5 DEF LastWord
  <2> QED
    BY <1>5, <2>1 DEF LastWord
<1>6. CASE m \notin these /\ m \in those
  <2>1. ~LastWord(s, these, those)
    BY <1>1, <1>2, <1>6 DEF LastWord
  <2> QED
    BY <1>6, <2>1 DEF LastWord
<1>7. CASE m \notin these /\ m \notin those
  <2>1. \A i \in (a + 1)..Len(s) : s[i] \notin these /\ s[i] \notin those
    BY <1>7
  <2>2. LastWord(s, these, those) <=> LastWord(SubSeq(s, 1, a), these, those)
    BY <1>2, <1>4, <2>1 DEF LastWord
  <2> QED
    BY <1>7, <2>2 DEF LastWord
<1> QED
  BY <1>5, <1>6, <1>7

\* The rows the messages spell are those the first a spell, with what the only control message
\* after them does.
LEMMA EffectIs ==
    ASSUME NEW s \in Seq(Messages), NEW a \in 0..Len(s), NEW m \in Messages,
           \A i \in (a + 1)..Len(s) : s[i] = m \/ ~IsControl(s[i]),
           \E k \in (a + 1)..Len(s) : s[k] = m
    PROVE  /\ RoomAfter(s) = OnRoom(m, RoomAfter(SubSeq(s, 1, a)))
           /\ MembersAfter(s) = OnMembers(m, MembersAfter(SubSeq(s, 1, a)))
<1> DEFINE t == SubSeq(s, 1, a)
<1>1. ASSUME NEW on \in ControlOps, NEW off \in ControlOps, on # off
      PROVE  /\ Op(m) = on => LastWord(s, Saying(on), Saying(off))
             /\ Op(m) = off => ~LastWord(s, Saying(on), Saying(off))
             /\ ~(Op(m) = on) /\ ~(Op(m) = off) =>
                  LastWord(s, Saying(on), Saying(off)) = LastWord(t, Saying(on), Saying(off))
             /\ LastWord(s, Saying(on), Saying(off)) \in BOOLEAN
  <2>1. /\ m \in Saying(on) <=> Op(m) = on
        /\ m \in Saying(off) <=> Op(m) = off
        /\ OnlyOne(s, a, m, Saying(on), Saying(off))
    BY <1>1 DEF Saying, IsControl, OnlyOne
  <2> QED
    BY <2>1, LastWordIs
<1>2. ASSUME NEW x \in Members, NEW on \in ControlOps, NEW off \in ControlOps, on # off
      PROVE  /\ Op(m) = on /\ Who(m) = x => LastWord(s, SayingOf(x, on), SayingOf(x, off))
             /\ Op(m) = off /\ Who(m) = x => ~LastWord(s, SayingOf(x, on), SayingOf(x, off))
             /\ ~(Op(m) = on /\ Who(m) = x) /\ ~(Op(m) = off /\ Who(m) = x) =>
                  LastWord(s, SayingOf(x, on), SayingOf(x, off)) = LastWord(t, SayingOf(x, on), SayingOf(x, off))
             /\ LastWord(s, SayingOf(x, on), SayingOf(x, off)) \in BOOLEAN
  <2>1. /\ m \in SayingOf(x, on) <=> Op(m) = on /\ Who(m) = x
        /\ m \in SayingOf(x, off) <=> Op(m) = off /\ Who(m) = x
        /\ OnlyOne(s, a, m, SayingOf(x, on), SayingOf(x, off))
    BY <1>2 DEF SayingOf, IsControl, OnlyOne
  <2> QED
    BY <2>1, LastWordIs
<1>3. ASSUME NEW x \in Members
      PROVE  /\ Op(m) = "revoke" /\ Who(m) = x => LastWord(s, SayingOf(x, "revoke"), {})
             /\ ~(Op(m) = "revoke" /\ Who(m) = x) =>
                  LastWord(s, SayingOf(x, "revoke"), {}) = LastWord(t, SayingOf(x, "revoke"), {})
             /\ LastWord(s, SayingOf(x, "revoke"), {}) \in BOOLEAN
  <2>1. /\ m \in SayingOf(x, "revoke") <=> Op(m) = "revoke" /\ Who(m) = x
        /\ OnlyOne(s, a, m, SayingOf(x, "revoke"), {})
    BY DEF SayingOf, IsControl, ControlOps, MemberOps, OnlyOne
  <2> QED
    BY <2>1, LastWordIs
<1>4. {"pause", "resume", "hold", "unhold", "mute", "unmute", "demote", "grant"} \subseteq ControlOps
  BY DEF ControlOps, RoomOps, MemberOps
<1> HIDE DEF t
<1>5. RoomAfter(s) = OnRoom(m, RoomAfter(t))
  <2>1. /\ LastWord(s, Saying("pause"), Saying("resume")) =
             IF Op(m) = "pause" THEN TRUE ELSE IF Op(m) = "resume" THEN FALSE
             ELSE LastWord(t, Saying("pause"), Saying("resume"))
        /\ LastWord(s, Saying("hold"), Saying("unhold")) =
             IF Op(m) = "hold" THEN TRUE ELSE IF Op(m) = "unhold" THEN FALSE
             ELSE LastWord(t, Saying("hold"), Saying("unhold"))
    BY <1>1, <1>4
  <2> QED
    BY <2>1 DEF RoomAfter, OnRoom
<1>6. MembersAfter(s) = OnMembers(m, MembersAfter(t))
  <2>1. ASSUME NEW x \in Members
        PROVE  MembersAfter(s)[x] = IF x = Who(m) THEN OnMember(m, MembersAfter(t)[x])
                                    ELSE MembersAfter(t)[x]
    <3> DEFINE demoted(r) == LastWord(r, SayingOf(x, "demote"), SayingOf(x, "grant"))
               muted(r) == LastWord(r, SayingOf(x, "mute"), SayingOf(x, "unmute"))
               revoked(r) == LastWord(r, SayingOf(x, "revoke"), {})
               after(r) == [role |-> IF demoted(r) THEN "observer" ELSE "chat",
                            muted |-> muted(r), revoked |-> revoked(r)]
    <3>1. MembersAfter(s)[x] = after(s) /\ MembersAfter(t)[x] = after(t)
      BY DEF MembersAfter
    <3>2. /\ muted(s) \in BOOLEAN /\ revoked(s) \in BOOLEAN
          /\ Op(m) = "mute" /\ Who(m) = x => muted(s)
          /\ Op(m) = "unmute" /\ Who(m) = x => ~muted(s)
          /\ ~(Op(m) \in {"mute", "unmute"} /\ Who(m) = x) => muted(s) = muted(t)
          /\ Op(m) = "demote" /\ Who(m) = x => demoted(s)
          /\ Op(m) = "grant" /\ Who(m) = x => ~demoted(s)
          /\ ~(Op(m) \in {"demote", "grant"} /\ Who(m) = x) => demoted(s) = demoted(t)
          /\ Op(m) = "revoke" /\ Who(m) = x => revoked(s)
          /\ ~(Op(m) = "revoke" /\ Who(m) = x) => revoked(s) = revoked(t)
      BY <1>2, <1>3, <1>4
    <3> HIDE DEF demoted, muted, revoked
    <3>3. CASE x # Who(m)
      BY <3>1, <3>2, <3>3
    <3>4. CASE x = Who(m)
      <4>1. OnMember(m, after(t)) = after(s)
        BY <3>2, <3>4 DEF OnMember
      <4> QED
        BY <3>1, <3>4, <4>1
    <3> QED
      BY <3>3, <3>4
  <2> QED
    BY <2>1 DEF MembersAfter, OnMembers
<1> QED
  BY <1>5, <1>6 DEF t

\* The whole chain is its first Len(chain) messages.
LEMMA AllOfIt ==
    ASSUME NEW s \in Seq(Messages)
    PROVE  SubSeq(s, 1, Len(s)) = s
OBVIOUS

\* A call that is not under way carries nothing.
LEMMA IdleIsNoRequest == Idle \notin Requests
BY DEF Idle, Requests

\* Writing a member's column a second time changes nothing.
LEMMA WrittenTwice ==
    ASSUME NEW m \in Messages, NEW rows
    PROVE  OnMembers(m, OnMembers(m, rows)) = OnMembers(m, rows)
BY DEF OnMembers, OnMember

-----------------------------------------------------------------------------
(* Each step preserves it.                                                 *)

\* A call goes on by the chain, or ends, and nothing is written.
LEMMA QuietReads ==
    ASSUME ReadInv, UNCHANGED <<chain, room, members, saw, raced>>,
           \A c \in Calls : \A r \in Requests :
              call'[c] = r => call[c] = r \/ GoesByChain(r)
    PROVE  ReadInv'
<1>1. CallsGoByChain'
  <2>1. SUFFICES ASSUME NEW c \in Calls, NEW r \in Requests, call'[c] = r
                 PROVE  GoesByChain(r)'
    BY DEF CallsGoByChain, Requests
  <2>2. GoesByChain(r)
    BY <2>1 DEF ReadInv, CallsGoByChain
  <2> QED
    BY <2>2 DEF GoesByChain, RoomAt, Allowed, Holder
<1>2. RowsFollowChain' /\ PausedTakesControlOnly' /\ ClaimedWhenFree'
  BY DEF ReadInv, RowsFollowChain, PausedTakesControlOnly, ClaimedWhenFree, RoomAt, MembersAt, Holder
<1> QED
  BY <1>1, <1>2 DEF ReadInv, PlacedReadPast

\* A call reads the room as the chain spells it, or goes by what it read and is checked against.
LEMMA ReadingReads ==
    ASSUME IInv, ReadInv, NEW c \in Calls,
           (\E m \in Messages : Read(c, m)) \/ Vet(c) \/ CheckTyped(c)
    PROVE  ReadInv'
<1>1. UNCHANGED <<chain, room, members, saw, raced>> /\ Len(chain) \in Nat
  BY DEF Read, Vet, CheckTyped, IInv, TypeOK
<1>2. SUFFICES \E r \in Requests : call' = [call EXCEPT ![c] = r] /\ GoesByChain(r)
  <2>1. ASSUME NEW r \in Requests, call' = [call EXCEPT ![c] = r], GoesByChain(r)
        PROVE  \A d \in Calls : \A q \in Requests : call'[d] = q => call[d] = q \/ GoesByChain(q)
    BY <2>1 DEF IInv, TypeOK
  <2> QED
    BY <1>1, <2>1, QuietReads
<1>3. ASSUME NEW m \in Messages, Read(c, m)
      PROVE  \E r \in Requests : call' = [call EXCEPT ![c] = r] /\ GoesByChain(r)
  <2> DEFINE r == [at |-> "read", m |-> m, room |-> room, saw |-> [NoReads EXCEPT !.room = Len(chain)]]
  <2>1. r \in Requests
    BY <1>1 DEF Requests, NoReads, Reads, IInv, TypeOK
  <2>2. GoesByChain(r)
    BY <1>1 DEF GoesByChain, NoReads, ReadInv, RowsFollowChain
  <2> QED
    BY <1>3, <2>1, <2>2 DEF Read
<1>4. CASE Vet(c)
  <2> DEFINE r == [call[c] EXCEPT !.at = "vetted", !.saw.member = Len(chain)]
  <2>1. call[c] \in Requests /\ call[c] # Idle
    BY <1>4 DEF Vet, IInv, TypeOK, Idle
  <2>2. /\ r \in Requests /\ r.at = "vetted" /\ r.m = call[c].m /\ r.room = call[c].room
        /\ r.saw.room = call[c].saw.room /\ r.saw.holder = call[c].saw.holder
    BY <1>1, <2>1 DEF Requests, Reads
  <2>3. RoomTakes(call[c].m, call[c].room) /\ GoesByChain(call[c])
    BY <1>4, <2>1 DEF Vet, ReadInv, CallsGoByChain
  <2>4. call' = [call EXCEPT ![c] = r]
    BY <1>4 DEF Vet, IInv, TypeOK
  <2> HIDE DEF r
  <2>5. GoesByChain(r)
    BY <2>2, <2>3 DEF GoesByChain
  <2> QED
    BY <2>2, <2>4, <2>5
<1>5. CASE CheckTyped(c)
  <2> DEFINE r == [call[c] EXCEPT !.at = "cleared", !.saw.holder = Len(chain)]
  <2>1. call[c] \in Requests /\ call[c] # Idle
    BY <1>5 DEF CheckTyped, IInv, TypeOK, Idle
  <2>2. /\ r \in Requests /\ r.at = "cleared" /\ r.m = call[c].m /\ r.room = call[c].room
        /\ r.saw.room = call[c].saw.room /\ r.saw.holder = Len(chain)
    BY <1>1, <2>1 DEF Requests, Reads
  <2>3. Allowed(call[c].m, Len(chain)) /\ call[c].at = "vetted" /\ GoesByChain(call[c])
    BY <1>5, <2>1 DEF CheckTyped, TypeAllows, Allowed, ReadInv, CallsGoByChain
  <2>4. call' = [call EXCEPT ![c] = r]
    BY <1>5 DEF CheckTyped, IInv, TypeOK
  <2> HIDE DEF r
  <2>5. GoesByChain(r)
    BY <1>1, <2>2, <2>3 DEF GoesByChain
  <2> QED
    BY <2>2, <2>4, <2>5
<1> QED
  BY <1>3, <1>4, <1>5

\* A message enters the chain with its effect, past the checks of a room and a holder that the
\* chain spelled when its call looked.
LEMMA PlaceReads ==
    ASSUME IInv, ReadInv, NEW c \in Calls, Place(c)
    PROVE  ReadInv'
<1> DEFINE m == call[c].m
           n == Len(chain)
<1>1. /\ call[c] \in Requests /\ m \in Messages /\ n \in Nat
      /\ call[c].saw.room \in 0..n /\ call[c].saw.holder \in 0..n /\ call[c].room \in Rooms
      /\ call[c].saw \in Reads
  <2>1. call[c] \in Requests /\ chain \in Seq(Messages)
    BY DEF IInv, TypeOK, Place, Idle
  <2>2. call[c].saw.room <= n /\ call[c].saw.holder <= n
    BY <2>1 DEF ReadInv, CallsGoByChain, GoesByChain
  <2> QED
    BY <2>1, <2>2 DEF Requests, Reads
<1>2. /\ RoomTakes(m, call[c].room) /\ Allowed(m, call[c].saw.holder)
      /\ ~raced => call[c].room = RoomAt(call[c].saw.room)
  BY <1>1 DEF ReadInv, CallsGoByChain, GoesByChain, Place
<1>3. /\ chain' = Append(chain, m) /\ room' = OnRoom(m, room) /\ members' = OnMembers(m, members)
      /\ saw' = [saw EXCEPT ![m] = call[c].saw] /\ raced' = raced /\ ~Placed(m)
      /\ call' = [call EXCEPT ![c] = IF IsControl(m) THEN [call[c] EXCEPT !.at = "placed"] ELSE Idle]
  BY DEF Place, IInv, TypeOK
<1>4. /\ chain' \in Seq(Messages) /\ Len(chain') = n + 1 /\ chain'[n + 1] = m
      /\ \A i \in 1..n : chain'[i] = chain[i] /\ chain[i] \in Messages /\ chain[i] # m
      /\ \A i \in 1..(n + 1) : i \in 1..n \/ i = n + 1
  BY <1>1, <1>3 DEF IInv, TypeOK, Placed
<1>5. \A k \in 0..n : SubSeq(chain', 1, k) = SubSeq(chain, 1, k)
  BY <1>1, <1>4 DEF IInv, TypeOK
<1>6. /\ saw'[m] = call[c].saw
      /\ \A k \in Messages : k # m => saw'[k] = saw[k]
      /\ \A k \in Messages : saw[k].room \in 0..n /\ saw[k].holder \in 0..n
  BY <1>1, <1>3 DEF IInv, TypeOK, Reads, ReadInv, PlacedReadPast
<1>7. \A d \in Calls : \A r \in Requests : call[d] = r =>
         r.m \in Messages /\ r.saw.room \in 0..n /\ r.saw.holder \in 0..n /\ GoesByChain(r)
  BY <1>1 DEF Requests, Reads, ReadInv, CallsGoByChain, GoesByChain
<1>8. CallsGoByChain'
  <2>1. SUFFICES ASSUME NEW d \in Calls, NEW r \in Requests, call'[d] = r
                 PROVE  GoesByChain(r)'
    BY DEF CallsGoByChain, Requests
  <2>2. CASE d # c
    <3>1. call[d] = r
      BY <1>3, <2>1, <2>2 DEF IInv, TypeOK
    <3>2. r.saw.room \in 0..n /\ r.saw.holder \in 0..n /\ GoesByChain(r)
      BY <1>7, <3>1
    <3>3. /\ SubSeq(chain', 1, r.saw.room) = SubSeq(chain, 1, r.saw.room)
          /\ SubSeq(chain', 1, r.saw.holder) = SubSeq(chain, 1, r.saw.holder)
      BY <1>5, <3>2
    <3>4. r.at = "placed" => \E k \in (r.saw.room + 1)..Len(chain') : chain'[k] = r.m
      BY <1>1, <1>4, <3>2 DEF GoesByChain
    <3>5. r.saw.room <= Len(chain') /\ r.saw.holder <= Len(chain')
      BY <1>1, <1>4, <3>2
    <3> QED
      BY <1>3, <3>2, <3>3, <3>4, <3>5 DEF GoesByChain, RoomAt, Holder, Allowed
  <2>3. CASE d = c
    <3>1. r = [call[c] EXCEPT !.at = "placed"]
      BY <1>3, <2>1, <2>3 DEF IInv, TypeOK, Requests, Idle
    <3>2. /\ r.at = "placed" /\ r.m = m /\ r.room = call[c].room /\ r.saw = call[c].saw
      BY <1>1, <3>1 DEF Requests
    <3> HIDE DEF m
    <3>3. r.saw.room \in 0..n /\ r.saw.holder \in 0..n
      BY <1>1, <3>2
    <3>4. SubSeq(chain', 1, r.saw.room) = SubSeq(chain, 1, r.saw.room)
      BY <1>5, <3>3
    <3>5. \E k \in (r.saw.room + 1)..Len(chain') : chain'[k] = r.m
      BY <1>1, <1>4, <3>2, <3>3
    <3>6. r.saw.room <= Len(chain') /\ r.saw.holder <= Len(chain')
      BY <1>1, <1>4, <3>3
    <3> QED
      BY <1>2, <1>3, <3>2, <3>4, <3>5, <3>6 DEF GoesByChain, RoomAt
  <2> QED
    BY <2>2, <2>3
<1>9. PlacedReadPast'
  BY <1>1, <1>4, <1>6 DEF PlacedReadPast
<1>10. RowsFollowChain'
  <2>1. /\ RoomAfter(chain') = OnRoom(m, RoomAfter(SubSeq(chain', 1, n)))
        /\ MembersAfter(chain') = OnMembers(m, MembersAfter(SubSeq(chain', 1, n)))
    BY <1>1, <1>4, EffectIs
  <2>2. SubSeq(chain', 1, n) = SubSeq(chain, 1, n) /\ SubSeq(chain', 1, n + 1) = chain'
    BY <1>1, <1>4, <1>5, AllOfIt
  <2> QED
    BY <1>3, <1>4, <2>1, <2>2 DEF ReadInv, RowsFollowChain, RoomAt, MembersAt
<1>11. PausedTakesControlOnly'
  <2>1. SUFFICES ASSUME ~raced, NEW j \in 1..(n + 1),
                        RoomAfter(SubSeq(chain', 1, saw'[chain'[j]].room)).paused
                 PROVE  From(chain'[j]) = Owner /\ IsControl(chain'[j])
    BY <1>3, <1>4 DEF PausedTakesControlOnly, From, IsControl, Op, RoomAt
  <2>2. CASE j \in 1..n
    <3>1. chain'[j] = chain[j] /\ saw'[chain'[j]] = saw[chain[j]] /\ saw[chain[j]].room \in 0..n
      BY <1>4, <1>6, <2>2
    <3>2. RoomAfter(SubSeq(chain, 1, saw[chain[j]].room)).paused
      BY <1>5, <2>1, <3>1
    <3> QED
      BY <2>1, <2>2, <3>1, <3>2 DEF ReadInv, PausedTakesControlOnly, RoomAt
  <2>3. CASE j = n + 1
    <3>1. chain'[j] = m /\ RoomAfter(SubSeq(chain, 1, call[c].saw.room)).paused
      BY <1>1, <1>4, <1>5, <1>6, <2>1, <2>3
    <3> QED
      BY <1>2, <2>1, <3>1 DEF RoomAt, RoomTakes
  <2> QED
    BY <1>4, <2>2, <2>3
<1>12. ClaimedWhenFree'
  <2>1. SUFFICES ASSUME NEW j \in 1..(n + 1)
                 PROVE  LET holder == HolderAfter(SubSeq(chain', 1, saw'[chain'[j]].holder))
                        IN  /\ Op(chain'[j]) = "claim" => holder = NoOne
                            /\ Op(chain'[j]) = "release" => holder = From(chain'[j])
    BY <1>4 DEF ClaimedWhenFree, From, Op, Holder
  <2>2. CASE j \in 1..n
    <3>1. chain'[j] = chain[j] /\ saw'[chain'[j]] = saw[chain[j]] /\ saw[chain[j]].holder \in 0..n
      BY <1>4, <1>6, <2>2
    <3>2. SubSeq(chain', 1, saw'[chain'[j]].holder) = SubSeq(chain, 1, saw[chain[j]].holder)
      BY <1>5, <3>1
    <3> QED
      BY <2>2, <3>1, <3>2 DEF ReadInv, ClaimedWhenFree, Holder
  <2>3. CASE j = n + 1
    <3>1. chain'[j] = m
          /\ SubSeq(chain', 1, saw'[chain'[j]].holder) = SubSeq(chain, 1, call[c].saw.holder)
      BY <1>1, <1>4, <1>5, <1>6, <2>3
    <3> QED
      BY <1>2, <3>1 DEF Allowed, Holder
  <2> QED
    BY <1>4, <2>2, <2>3
<1> QED
  BY <1>8, <1>9, <1>10, <1>11, <1>12 DEF ReadInv

\* When nothing overtook the call, writing the effect again from the room it read changes nothing.
LEMMA ReapplyReads ==
    ASSUME IInv, ReadInv, NEW c \in Calls, Reapply(c)
    PROVE  ReadInv'
<1> DEFINE m == call[c].m
           a == call[c].saw.room
<1>1. /\ call' = [call EXCEPT ![c] = Idle] /\ UNCHANGED <<chain, saw>>
      /\ raced' = (raced \/ Overtaken(c))
      /\ room' = IF Op(m) \in RoomOps THEN OnRoom(m, call[c].room) ELSE room
      /\ members' = OnMembers(m, members)
  BY DEF Reapply
<1>2. /\ m \in Messages /\ a \in 0..Len(chain) /\ chain \in Seq(Messages) /\ Len(chain) \in Nat
      /\ ~raced => call[c].room = RoomAt(a)
      /\ \E k \in (a + 1)..Len(chain) : chain[k] = m
  <2>1. call[c] \in Requests /\ call[c].at = "placed" /\ chain \in Seq(Messages)
    BY DEF IInv, TypeOK, Reapply, Idle
  <2>2. GoesByChain(call[c])
    BY <2>1 DEF ReadInv, CallsGoByChain
  <2> QED
    BY <2>1, <2>2 DEF Requests, Reads, GoesByChain
<1>3. CallsGoByChain'
  <2>1. SUFFICES ASSUME NEW d \in Calls, NEW r \in Requests, call'[d] = r
                 PROVE  GoesByChain(r)'
    BY DEF CallsGoByChain, Requests
  <2>2. call[d] = r
    BY <1>1, <2>1, IdleIsNoRequest DEF IInv, TypeOK
  <2>3. GoesByChain(r)
    BY <2>2 DEF ReadInv, CallsGoByChain
  <2> QED
    BY <1>1, <2>3 DEF GoesByChain, RoomAt, Allowed, Holder
<1>5. PlacedReadPast' /\ PausedTakesControlOnly' /\ ClaimedWhenFree'
  BY <1>1 DEF ReadInv, RoomAt, Holder, PlacedReadPast, PausedTakesControlOnly, ClaimedWhenFree
<1> HIDE DEF m, a
<1>4. RowsFollowChain'
  <2>1. SUFFICES ASSUME ~raced, ~Overtaken(c)
                 PROVE  room' = RoomAt(Len(chain)) /\ members' = MembersAt(Len(chain))
    BY <1>1 DEF RowsFollowChain, RoomAt, MembersAt
  <2>2. \A i \in (a + 1)..Len(chain) : chain[i] = m \/ ~IsControl(chain[i])
    BY <2>1 DEF Overtaken, m, a
  <2>3. /\ RoomAt(Len(chain)) = OnRoom(m, RoomAt(a))
        /\ MembersAt(Len(chain)) = OnMembers(m, MembersAt(a))
    <3>1. /\ RoomAfter(chain) = OnRoom(m, RoomAfter(SubSeq(chain, 1, a)))
          /\ MembersAfter(chain) = OnMembers(m, MembersAfter(SubSeq(chain, 1, a)))
      BY <1>2, <2>2, EffectIs
    <3> QED
      BY <1>2, <3>1, AllOfIt DEF RoomAt, MembersAt
  <2>4. room = RoomAt(Len(chain)) /\ members = MembersAt(Len(chain))
    BY <2>1 DEF ReadInv, RowsFollowChain
  <2>5. OnMembers(m, members) = members
    <3>1. members = OnMembers(m, MembersAt(a))
      BY <2>3, <2>4
    <3> QED
      BY <1>2, <3>1, WrittenTwice
  <2> QED
    BY <1>1, <1>2, <2>1, <2>3, <2>4, <2>5
<1> QED
  BY <1>3, <1>4, <1>5 DEF ReadInv

LEMMA NextReadInv == IInv /\ ReadInv /\ [Next]_vars => ReadInv'
<1>1. SUFFICES ASSUME IInv, ReadInv, [Next]_vars
               PROVE  ReadInv'
  OBVIOUS
<1>2. ASSUME NEW c \in Calls,
             (\E m \in Messages : Read(c, m)) \/ Vet(c) \/ CheckTyped(c)
      PROVE  ReadInv'
  BY <1>1, <1>2, ReadingReads
<1>3. ASSUME NEW c \in Calls, Return(c) \/ RacedIn(c)
      PROVE  ReadInv'
  <2>1. /\ UNCHANGED <<chain, room, members, saw, raced>>
        /\ \A d \in Calls : call'[d] \in {call[d], Idle}
    BY <1>1, <1>3 DEF Return, RacedIn, IInv, TypeOK
  <2> QED
    BY <1>1, <2>1, IdleIsNoRequest, QuietReads
<1>4. ASSUME NEW c \in Calls, Place(c)
      PROVE  ReadInv'
  BY <1>1, <1>4, PlaceReads
<1>5. ASSUME NEW c \in Calls, Reapply(c)
      PROVE  ReadInv'
  BY <1>1, <1>5, ReapplyReads
<1>6. CASE Crash \/ UNCHANGED vars
  <2>1. /\ UNCHANGED <<chain, room, members, saw, raced>>
        /\ \A d \in Calls : call'[d] \in {call[d], Idle}
    BY <1>6 DEF Crash, vars
  <2> QED
    BY <1>1, <2>1, IdleIsNoRequest, QuietReads
<1> QED
  BY <1>1, <1>2, <1>3, <1>4, <1>5, <1>6 DEF Next

LEMMA InitReadInv == Init => ReadInv
<1>1. SUFFICES ASSUME Init
               PROVE  ReadInv
  OBVIOUS
<1>2. chain = <<>> /\ Len(chain) = 0 /\ \A m \in Messages : saw[m] = NoReads
  BY <1>1 DEF Init
<1>3. CallsGoByChain /\ PlacedReadPast /\ PausedTakesControlOnly /\ ClaimedWhenFree
  BY <1>1, <1>2, IdleIsNoRequest DEF Init, CallsGoByChain, PlacedReadPast, PausedTakesControlOnly, ClaimedWhenFree,
     NoReads
<1>4. RowsFollowChain
  <2>1. \A these, those : LastWord(<<>>, these, those) = FALSE
    BY DEF LastWord
  <2>2. SubSeq(chain, 1, 0) = <<>>
    BY <1>2
  <2> QED
    BY <1>1, <1>2, <2>1, <2>2 DEF Init, RowsFollowChain, RoomAt, MembersAt, RoomAfter, MembersAfter,
       NewRoom, NewRow
<1> QED
  BY <1>3, <1>4 DEF ReadInv

-----------------------------------------------------------------------------
(* The theorems about what calls read.                                     *)

THEOREM ReadInductive == Spec => []ReadInv
BY Inductive, InitReadInv, NextReadInv, PTL DEF Spec

\* As long as no control call was overtaken by another, the rows say what the chain says, in every
\* state and after every crash (sequence_and_append_control, apply_control).
THEOREM RowsAreTrue == Spec => []RowsFollowChain
<1>1. ReadInv => RowsFollowChain
  BY DEF ReadInv
<1> QED
  BY <1>1, ReadInductive, PTL

\* A call that read a paused room places nothing but the owner's control messages
\* (sequence_here, Room::check_open).
THEOREM PauseHolds == Spec => []PausedTakesControlOnly
<1>1. ReadInv => PausedTakesControlOnly
  BY DEF ReadInv
<1> QED
  BY <1>1, ReadInductive, PTL

\* Every claim was placed by a call that found the task free, every release by one that found its
\* sender holding it (check_typed, claim_holder).
THEOREM ClaimsFoundItFree == Spec => []ClaimedWhenFree
<1>1. ReadInv => ClaimedWhenFree
  BY DEF ReadInv
<1> QED
  BY <1>1, ReadInductive, PTL
=============================================================================
