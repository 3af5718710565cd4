----------------------------- MODULE EntryProofs -----------------------------
(***************************************************************************)
(* Who is let in and what he may say there, proved for any keys, names,    *)
(* labels, invites, joins and lengths of the chain at once: Admit, Doors   *)
(* and Audit.                                                              *)
(*                                                                         *)
(* Admit: members come by an invite of their own, a join is announced once *)
(* for an invite, and a rotation tells the room before it closes it.       *)
(* Three inductive invariants, each over the steps of admit with nothing   *)
(* held in between: what a join has read and what it has used up (IInv),   *)
(* how many of the used invites are still to be announced (CountInv), and  *)
(* how far the rotation is (TurnInv).                                      *)
(*                                                                         *)
(* Doors: no agent decides, by any door, and a key that could decide       *)
(* unasked is shown (DoorInv: what runs as the server is an agent, and     *)
(* what waits was asked by the one who asked last).                        *)
(*                                                                         *)
(* Audit: an honest bundle verifies, and a changed one does not.  What     *)
(* holds of the chain whatever is erased of it (RoomOK) gives what holds   *)
(* of a file (AuditInv); what verify knows before a line is followed from  *)
(* line to line (HonestKnown).                                             *)
(***************************************************************************)
EXTENDS Admit, Doors, Audit, FiniteSetTheorems, WellFoundedInduction, TLAPS

\* A set of naturals has a smallest.
LEMMA SmallestOf ==
    ASSUME NEW S \in SUBSET Nat, S # {}
    PROVE  \E q \in S : \A r \in S : q <= r
<1>1. PICK m \in S : \A r \in S : <<r, m>> \notin OpToRel(<, Nat)
  BY NatLessThanWellFounded, WFMin, Zenon
<1>2. \A r \in S : ~(r < m)
  BY <1>1, Zenon DEF OpToRel
<1> QED
  BY <1>2

-----------------------------------------------------------------------------
(* Admit.                                                                  *)

MemberRows == {NoRow} \cup [key : Keys, revoked : BOOLEAN]

\* The part of the types that the arguments need.
Typed ==
    /\ invites \in [Invites -> [made : BOOLEAN, used : Keys \cup {NoKey}, gone : BOOLEAN]]
    /\ rows \in [Names -> MemberRows]
    /\ call \in [Calls -> Requests \cup {Idle}]
    /\ raced \subseteq Names

\* Only an invite that was used goes with the name that is revoked.
GoneWasUsed == \A i \in Invites : invites[i].gone => invites[i].used # NoKey

\* The key has used up an invite to the name.
HasUsed(n, k) == \E i \in Invites : NameOn[i] = n /\ invites[i].used = k

\* And may be a member by it: the name was not revoked since, or a join was overtaken.
Entitled(n, k) ==
    \E i \in Invites : NameOn[i] = n /\ invites[i].used = k /\ (~invites[i].gone \/ n \in raced)

\* What a join may go by at each of its steps.
CallOK(r) ==
    /\ r.at \in {"use", "announce"} => ~r.rejoin
    /\ r.at \in {"write", "announce"} /\ ~r.rejoin => invites[r.invite].used = r.key
    /\ r.at = "write" =>
         /\ HasUsed(NameOn[r.invite], r.key)
         /\ ~r.stale => Entitled(NameOn[r.invite], r.key)
    /\ r.at = "store" =>
         /\ r.row.key = r.key /\ HasUsed(NameOn[r.invite], r.key)
         /\ ~r.stale /\ ~r.row.revoked => Entitled(NameOn[r.invite], r.key)

CallsOK == \A r \in Requests : \A c \in Calls : call[c] = r => CallOK(r)

IInv == Typed /\ GoneWasUsed /\ CallsOK /\ MembersAreInvited

-----------------------------------------------------------------------------

\* MembersAreInvited, in the words of this argument.
LEMMA InvitedIs ==
    MembersAreInvited <=> \A n \in Names : rows[n].key # NoKey =>
                              /\ HasUsed(n, rows[n].key)
                              /\ Member(n) => Entitled(n, rows[n].key)
BY DEF MembersAreInvited, HasUsed, Entitled

\* What is under way at a call is a request, or nothing is.
LEMMA RequestsAreBusy ==
    ASSUME Typed, NEW c \in Calls
    PROVE  /\ Idle \notin Requests
           /\ Busy(c) => call[c] \in Requests /\ NameOn[call[c].invite] \in Names
           /\ ~Busy(c) => call[c] = Idle
<1>1. Idle \notin Requests
  BY DEF Idle, Requests
<1>2. Busy(c) => call[c] \in Requests
  BY DEF Typed, Busy
<1>3. \A r \in Requests : NameOn[r.invite] \in Names
  BY AdmitAssumption DEF Requests
<1> QED
  BY <1>1, <1>2, <1>3 DEF Busy

\* Nothing a member or a join goes by is taken away.
Kept ==
    /\ \A i \in Invites : invites[i].used # NoKey =>
           invites'[i].used = invites[i].used /\ invites'[i].gone = invites[i].gone
    /\ raced \subseteq raced'

LEMMA KeptKeeps ==
    ASSUME Typed, Kept
    PROVE  /\ \A n \in Names : \A k \in Keys :
                (HasUsed(n, k) => HasUsed(n, k)') /\ (Entitled(n, k) => Entitled(n, k)')
           /\ \A r \in Requests : CallOK(r) => CallOK(r)'
<1>1. NoKey \notin Keys /\ NameOn \in [Invites -> Names]
  BY AdmitAssumption
<1>2. ASSUME NEW n \in Names, NEW k \in Keys
      PROVE  (HasUsed(n, k) => HasUsed(n, k)') /\ (Entitled(n, k) => Entitled(n, k)')
  BY <1>1 DEF HasUsed, Entitled, Kept
<1>3. ASSUME NEW r \in Requests, CallOK(r)
      PROVE  CallOK(r)'
  <2>1. NameOn[r.invite] \in Names /\ r.key \in Keys /\ r.invite \in Invites
    BY <1>1 DEF Requests
  <2>2. /\ HasUsed(NameOn[r.invite], r.key) => HasUsed(NameOn[r.invite], r.key)'
        /\ Entitled(NameOn[r.invite], r.key) => Entitled(NameOn[r.invite], r.key)'
    BY <1>2, <2>1
  <2>3. invites[r.invite].used = r.key => invites'[r.invite].used = r.key
    BY <1>1, <2>1 DEF Kept
  <2> QED
    BY <1>3, <2>2, <2>3 DEF CallOK
<1> QED
  BY <1>2, <1>3

\* A step of one join that keeps what others go by.
LEMMA CallStep ==
    ASSUME IInv, Kept, NEW c \in Calls, NEW t \in Requests \cup {Idle},
           call' = [call EXCEPT ![c] = t],
           t \in Requests => CallOK(t)',
           invites' \in [Invites -> [made : BOOLEAN, used : Keys \cup {NoKey}, gone : BOOLEAN]],
           rows' \in [Names -> MemberRows], raced' \subseteq Names,
           GoneWasUsed', MembersAreInvited'
    PROVE  IInv'
<1>1. Typed'
  BY DEF IInv, Typed
<1>2. CallsOK'
  <2>1. SUFFICES ASSUME NEW r \in Requests, NEW d \in Calls, call'[d] = r
                 PROVE  CallOK(r)'
    BY DEF CallsOK
  <2>2. CASE d = c
    BY <2>1, <2>2 DEF IInv, Typed
  <2>3. CASE d # c
    <3>1. CallOK(r)
      BY <2>1, <2>3 DEF IInv, Typed, CallsOK
    <3> QED
      BY <3>1, KeptKeeps DEF IInv
  <2> QED
    BY <2>2, <2>3
<1> QED
  BY <1>1, <1>2 DEF IInv

\* And one that leaves invites and members alone.
LEMMA QuietCallStep ==
    ASSUME IInv, UNCHANGED <<invites, rows, raced>>, NEW c \in Calls,
           NEW t \in Requests \cup {Idle}, call' = [call EXCEPT ![c] = t],
           t \in Requests => CallOK(t)
    PROVE  IInv'
<1>1. Kept
  BY DEF Kept
<1>2. MembersAreInvited' /\ GoneWasUsed'
  BY DEF IInv, MembersAreInvited, Member, GoneWasUsed
<1>3. t \in Requests => CallOK(t)'
  BY <1>1, KeptKeeps DEF IInv
<1> QED
  BY <1>1, <1>2, <1>3, CallStep DEF IInv, Typed

LEMMA EndKeeps ==
    ASSUME IInv, UNCHANGED <<invites, rows, raced>>, NEW c \in Calls, End(c)
    PROVE  IInv'
<1>1. call' = [call EXCEPT ![c] = Idle] /\ Idle \notin Requests
  BY RequestsAreBusy DEF End, IInv
<1> DEFINE t == Idle
<1>2. t \in Requests \cup {Idle} /\ call' = [call EXCEPT ![c] = t] /\ t \notin Requests
  BY <1>1
<1> HIDE DEF t
<1> QED
  BY <1>2, QuietCallStep

-----------------------------------------------------------------------------
(* The steps.                                                              *)

\* What a join finds before its first write: a rejoin is a member's.
LEMMA LookKeeps ==
    ASSUME IInv, NEW c \in Calls, NEW k \in Keys, NEW i \in Invites, Look(c, k, i)
    PROVE  IInv'
<1> DEFINE n == NameOn[i]
           mine == Member(n) /\ rows[n].key = k
           t == [at |-> IF mine THEN "write" ELSE "use", key |-> k, invite |-> i,
                 rejoin |-> mine, taken |-> Member(n) /\ ~mine,
                 row |-> NoRow, stale |-> FALSE]
<1>1. call' = [call EXCEPT ![c] = t] /\ UNCHANGED <<invites, rows, raced>>
  BY DEF Look, home, IInv, Typed
<1>2. mine \in BOOLEAN /\ Member(n) \in BOOLEAN /\ n \in Names /\ k # NoKey
  BY AdmitAssumption DEF Member
<1>3. t \in Requests
  BY <1>2 DEF Requests
<1>4. mine => HasUsed(n, k) /\ Entitled(n, k)
  BY <1>2, InvitedIs DEF IInv
<1>5. /\ t.invite = i /\ t.key = k /\ t.stale = FALSE
      /\ mine => t.at = "write" /\ t.rejoin
      /\ ~mine => t.at = "use" /\ ~t.rejoin
  OBVIOUS
<1> HIDE DEF t
<1>6. CallOK(t)
  BY <1>4, <1>5 DEF CallOK
<1> QED
  BY <1>1, <1>3, <1>6, QuietCallStep

\* Once used, an invite speaks for its key; it is not gone, having been unused until now.
LEMMA UseKeeps ==
    ASSUME IInv, NEW c \in Calls, Use(c)
    PROVE  IInv'
<1>r. PICK r \in Requests : call[c] = r
  BY RequestsAreBusy DEF Use, IInv
<1> DEFINE i == r.invite
<1>1. r.at = "use" /\ invites[i].used = NoKey
  BY <1>r DEF Use
<1>2. i \in Invites /\ r.key \in Keys /\ r.key # NoKey
  BY <1>1, AdmitAssumption DEF Requests
<1>3. /\ invites' = [invites EXCEPT ![i].used = r.key] /\ rows' = rows /\ raced' = raced
      /\ call' = [call EXCEPT ![c] = Idle] \/ call' = [call EXCEPT ![c].at = "write"]
  BY <1>r DEF Use, End, Go
<1>4. /\ invites' \in [Invites -> [made : BOOLEAN, used : Keys \cup {NoKey}, gone : BOOLEAN]]
      /\ invites'[i].used = r.key /\ ~invites'[i].gone
      /\ \A j \in Invites : j # i => invites'[j] = invites[j]
  BY <1>1, <1>2, <1>3 DEF IInv, Typed, GoneWasUsed
<1>5. Kept
  BY <1>1, <1>3, <1>4 DEF Kept
<1>6. GoneWasUsed'
  BY <1>2, <1>4 DEF IInv, GoneWasUsed
<1>7. \A n \in Names : rows[n].key # NoKey => rows[n].key \in Keys
  BY DEF IInv, Typed, MemberRows, NoRow
<1>8. MembersAreInvited'
  <2>1. \A n \in Names : rows[n].key # NoKey =>
           /\ HasUsed(n, rows[n].key)'
           /\ Member(n) => Entitled(n, rows[n].key)'
    <3>1. \A n \in Names : \A k \in Keys :
            (HasUsed(n, k) => HasUsed(n, k)') /\ (Entitled(n, k) => Entitled(n, k)')
      BY <1>5, KeptKeeps DEF IInv
    <3>2. \A n \in Names : \A k \in Keys : rows[n].key = k =>
            HasUsed(n, k) /\ (Member(n) => Entitled(n, k))
      BY <1>7, InvitedIs, AdmitAssumption DEF IInv
    <3>3. \A n \in Names : \A k \in Keys : rows[n].key = k =>
            HasUsed(n, k)' /\ (Member(n) => Entitled(n, k)')
      BY <3>1, <3>2
    <3> QED
      BY <1>3, <1>7, <3>3 DEF HasUsed, Entitled
  <2> QED
    BY <1>3, <2>1, InvitedIs DEF MembersAreInvited, Member, HasUsed, Entitled
<1>9. CASE call' = [call EXCEPT ![c] = Idle]
  <2> DEFINE t == Idle
  <2>1. t \in Requests \cup {Idle} /\ call' = [call EXCEPT ![c] = t] /\ t \notin Requests
    BY <1>9, RequestsAreBusy DEF IInv
  <2> HIDE DEF t
  <2> QED
    BY <1>3, <1>4, <1>5, <1>6, <1>8, <2>1, CallStep DEF IInv, Typed
<1>10. CASE call' = [call EXCEPT ![c].at = "write"]
  <2> DEFINE t == [r EXCEPT !.at = "write"]
  <2>1. /\ t \in Requests /\ t.at = "write" /\ t.invite = i /\ t.key = r.key
        /\ t.rejoin = r.rejoin
    BY <1>1 DEF Requests
  <2>2. call' = [call EXCEPT ![c] = t]
    BY <1>10, <1>r DEF IInv, Typed
  <2>3. ~r.rejoin
    BY <1>1, <1>r DEF IInv, CallsOK, CallOK
  <2> HIDE DEF t
  <2>4. HasUsed(NameOn[i], r.key)' /\ Entitled(NameOn[i], r.key)'
    BY <1>2, <1>4 DEF HasUsed, Entitled
  <2>5. CallOK(t)'
    BY <1>4, <2>1, <2>3, <2>4 DEF CallOK, HasUsed, Entitled
  <2> QED
    BY <1>3, <1>4, <1>5, <1>6, <1>8, <2>1, <2>2, <2>5, CallStep DEF IInv, Typed
<1> QED
  BY <1>3, <1>9, <1>10

\* A member's row, written by what its join may go by; a join that a revoke overtook is marked.
LEMMA UpsertKeeps ==
    ASSUME IInv, NEW c \in Calls, NEW r \in Requests, call[c] = r,
           NEW row \in [key : Keys, revoked : BOOLEAN], row.key = r.key,
           HasUsed(NameOn[r.invite], r.key),
           ~r.stale /\ ~row.revoked => Entitled(NameOn[r.invite], r.key),
           Upsert(c, row), invites' = invites
    PROVE  /\ Kept /\ MembersAreInvited' /\ GoneWasUsed'
           /\ rows' \in [Names -> MemberRows] /\ raced' \subseteq Names
<1> DEFINE n == NameOn[r.invite]
<1>1. n \in Names /\ r.key \in Keys /\ r.key # NoKey
  BY AdmitAssumption DEF Requests
<1>2. /\ rows' = [rows EXCEPT ![n] = row]
      /\ raced' = IF r.stale THEN raced \cup {n} ELSE raced
  BY DEF Upsert, Name
<1> HIDE DEF n
<1>3. rows' \in [Names -> MemberRows] /\ raced' \subseteq Names /\ raced \subseteq raced'
  BY <1>1, <1>2 DEF IInv, Typed, MemberRows
<1>4. Kept /\ GoneWasUsed'
  BY <1>3 DEF Kept, IInv, GoneWasUsed
<1>5. \A m \in Names : rows[m].key # NoKey => rows[m].key \in Keys
  BY DEF IInv, Typed, MemberRows, NoRow
<1>6. \A m \in Names : \A k \in Keys :
        (HasUsed(m, k) => HasUsed(m, k)') /\ (Entitled(m, k) => Entitled(m, k)')
  BY <1>4, KeptKeeps DEF IInv
<1>7. rows'[n] = row /\ \A m \in Names : m # n => rows'[m] = rows[m]
  BY <1>1, <1>2 DEF IInv, Typed
<1>8. HasUsed(n, r.key)'
  BY <1>1, <1>6 DEF n
<1>9. ~row.revoked => Entitled(n, r.key)'
  <2>1. CASE r.stale
    <3>1. n \in raced'
      BY <1>2, <2>1
    <3> QED
      BY <1>8, <3>1 DEF HasUsed, Entitled
  <2>2. CASE ~r.stale
    BY <1>1, <1>6, <2>2 DEF n
  <2> QED
    BY <2>1, <2>2
<1>10. \A m \in Names : \A k \in Keys : rows'[m].key = k =>
         HasUsed(m, k)' /\ (Member(m)' => Entitled(m, k)')
  <2>1. SUFFICES ASSUME NEW m \in Names, NEW k \in Keys, rows'[m].key = k
                 PROVE  HasUsed(m, k)' /\ (Member(m)' => Entitled(m, k)')
    OBVIOUS
  <2>2. CASE m = n
    <3>1. k = r.key /\ (Member(m)' => ~row.revoked)
      BY <1>7, <2>1, <2>2 DEF Member
    <3> QED
      BY <1>8, <1>9, <2>2, <3>1
  <2>3. CASE m # n
    <3>1. rows[m].key = k /\ (Member(m)' <=> Member(m)) /\ k # NoKey
      BY <1>7, <2>1, <2>3, AdmitAssumption DEF Member
    <3>2. HasUsed(m, k) /\ (Member(m) => Entitled(m, k))
      BY <3>1, InvitedIs DEF IInv
    <3> QED
      BY <1>6, <3>1, <3>2
  <2> QED
    BY <2>2, <2>3
<1>11. \A m \in Names : rows'[m].key # NoKey => rows'[m].key \in Keys
  BY <1>3 DEF MemberRows, NoRow
<1>12. MembersAreInvited'
  BY <1>10, <1>11 DEF MembersAreInvited, Member, HasUsed, Entitled
<1> QED
  BY <1>3, <1>4, <1>12

LEMMA WriteKeeps ==
    ASSUME IInv, NEW c \in Calls, Write(c)
    PROVE  IInv'
<1>1. PICK r \in Requests : call[c] = r
  BY RequestsAreBusy DEF Write, IInv
<1> DEFINE row == Row(r.key)
           stage == IF r.rejoin THEN "list" ELSE "announce"
           t == [r EXCEPT !.at = stage]
<1>2. /\ r.at = "write" /\ Upsert(c, row) /\ invites' = invites
      /\ call' = [call EXCEPT ![c] = t]
  BY <1>1 DEF Write, Go, IInv, Typed
<1>3. row \in [key : Keys, revoked : BOOLEAN] /\ row.key = r.key
  BY DEF Row, Requests
<1>4. CallOK(r)
  BY <1>1 DEF IInv, CallsOK
<1>5. /\ HasUsed(NameOn[r.invite], r.key)
      /\ ~r.stale /\ ~row.revoked => Entitled(NameOn[r.invite], r.key)
  BY <1>2, <1>4 DEF CallOK
<1> HIDE DEF row
<1>6. /\ Kept /\ MembersAreInvited' /\ GoneWasUsed'
      /\ rows' \in [Names -> MemberRows] /\ raced' \subseteq Names
  BY <1>1, <1>2, <1>3, <1>5, UpsertKeeps
<1>7. /\ t \in Requests /\ t.invite = r.invite /\ t.key = r.key /\ t.rejoin = r.rejoin
      /\ t.at = stage /\ stage \in {"list", "announce"} /\ (stage = "announce" => ~r.rejoin)
  BY DEF Requests
<1>8. invites[r.invite].used = r.key \/ r.rejoin
  BY <1>2, <1>4 DEF CallOK
<1> HIDE DEF t, stage
<1>9. CallOK(t)'
  BY <1>2, <1>7, <1>8 DEF CallOK
<1> QED
  BY <1>2, <1>6, <1>7, <1>9, CallStep DEF IInv, Typed

LEMMA StoreMineKeeps ==
    ASSUME IInv, NEW c \in Calls, StoreMine(c)
    PROVE  IInv'
<1>1. PICK r \in Requests : call[c] = r
  BY RequestsAreBusy DEF StoreMine, IInv
<1> DEFINE t == Idle
<1>2. /\ r.at = "store" /\ Upsert(c, r.row) /\ invites' = invites
      /\ call' = [call EXCEPT ![c] = t]
  BY <1>1 DEF StoreMine, End
<1>3. CallOK(r)
  BY <1>1 DEF IInv, CallsOK
<1>4. r.row.key = r.key /\ r.key \in Keys /\ r.row \in MemberRows
  BY <1>2, <1>3 DEF CallOK, Requests, MemberRows
<1>5. r.row \in [key : Keys, revoked : BOOLEAN]
  BY <1>4, AdmitAssumption DEF MemberRows, NoRow
<1>6. /\ HasUsed(NameOn[r.invite], r.key)
      /\ ~r.stale /\ ~r.row.revoked => Entitled(NameOn[r.invite], r.key)
  BY <1>2, <1>3 DEF CallOK
<1>7. /\ Kept /\ MembersAreInvited' /\ GoneWasUsed'
      /\ rows' \in [Names -> MemberRows] /\ raced' \subseteq Names
  BY <1>1, <1>2, <1>4, <1>5, <1>6, UpsertKeeps
<1>8. t \notin Requests /\ t \in Requests \cup {Idle}
  BY RequestsAreBusy DEF IInv
<1> HIDE DEF t
<1> QED
  BY <1>2, <1>7, <1>8, CallStep DEF IInv, Typed

LEMMA AnnounceKeeps ==
    ASSUME IInv, NEW c \in Calls, Announce(c)
    PROVE  IInv'
<1>1. PICK r \in Requests : call[c] = r
  BY RequestsAreBusy DEF Announce, IInv
<1> DEFINE t == [r EXCEPT !.at = "list"]
<1>2. UNCHANGED <<invites, rows, raced>> /\ call' = [call EXCEPT ![c] = t]
  BY <1>1 DEF Announce, Go, IInv, Typed
<1>3. t \in Requests /\ t.at = "list"
  BY DEF Requests
<1> HIDE DEF t
<1>4. CallOK(t)
  BY <1>3 DEF CallOK
<1> QED
  BY <1>2, <1>3, <1>4, QuietCallStep

\* The row as listed is one that its key was invited to.
LEMMA ListKeeps ==
    ASSUME IInv, NEW c \in Calls, List(c)
    PROVE  IInv'
<1>1. PICK r \in Requests : call[c] = r
  BY RequestsAreBusy DEF List, Listed, IInv
<1> DEFINE n == NameOn[r.invite]
           t == [r EXCEPT !.at = "store", !.row = rows[n], !.stale = FALSE]
<1>2. /\ UNCHANGED <<invites, rows, raced>> /\ rows[n].key = r.key
      /\ call' = [call EXCEPT ![c] = t]
  BY <1>1 DEF List, Listed, Name, home, IInv, Typed
<1>3. n \in Names /\ r.key \in Keys /\ r.key # NoKey /\ rows[n] \in MemberRows
  BY AdmitAssumption DEF Requests, IInv, Typed
<1>4. /\ t \in Requests /\ t.at = "store" /\ t.row = rows[n] /\ t.key = r.key
      /\ t.invite = r.invite
  BY <1>3 DEF Requests, MemberRows
<1>5. HasUsed(n, r.key) /\ (~rows[n].revoked => Entitled(n, r.key))
  BY <1>2, <1>3, InvitedIs DEF IInv, Member
<1> HIDE DEF t
<1>6. CallOK(t)
  BY <1>2, <1>4, <1>5 DEF CallOK
<1> QED
  BY <1>2, <1>4, <1>6, QuietCallStep

\* Whoever is revoked is no member by any invite; joins under way are marked as overtaken.
LEMMA RevokeKeeps ==
    ASSUME IInv, NEW n \in Names, Revoke(n)
    PROVE  IInv'
<1>1. /\ rows' = [rows EXCEPT ![n].revoked = TRUE] /\ raced' = raced \ {n} /\ Member(n)
      /\ invites' = [i \in Invites |->
                       IF NameOn[i] = n /\ invites[i].used # NoKey
                       THEN [invites[i] EXCEPT !.gone = TRUE] ELSE invites[i]]
      /\ call' = [c \in Calls |->
                    IF Busy(c) /\ Name(c) = n THEN [call[c] EXCEPT !.stale = TRUE] ELSE call[c]]
  BY DEF Revoke
<1>2. rows[n] \in [key : Keys, revoked : BOOLEAN]
  BY <1>1 DEF IInv, Typed, MemberRows, Member, NoRow
<1>3. /\ rows' \in [Names -> MemberRows] /\ raced' \subseteq Names
      /\ rows'[n].key = rows[n].key /\ rows'[n].revoked
      /\ \A m \in Names : m # n => rows'[m] = rows[m]
  BY <1>1, <1>2 DEF IInv, Typed, MemberRows
<1>4. /\ invites' \in [Invites -> [made : BOOLEAN, used : Keys \cup {NoKey}, gone : BOOLEAN]]
      /\ \A i \in Invites : /\ invites'[i].used = invites[i].used
                            /\ NameOn[i] # n => invites'[i] = invites[i]
                            /\ invites'[i].gone => invites[i].gone \/ invites[i].used # NoKey
  BY <1>1 DEF IInv, Typed
<1>5. GoneWasUsed'
  BY <1>4 DEF IInv, GoneWasUsed
<1>6. \A m \in Names : \A k \in Keys : /\ HasUsed(m, k) => HasUsed(m, k)'
                                       /\ m # n /\ Entitled(m, k) => Entitled(m, k)'
  BY <1>1, <1>4 DEF HasUsed, Entitled
<1>7. \A m \in Names : \A k \in Keys : rows'[m].key = k =>
        HasUsed(m, k)' /\ (Member(m)' => Entitled(m, k)')
  <2>1. SUFFICES ASSUME NEW m \in Names, NEW k \in Keys, rows'[m].key = k
                 PROVE  HasUsed(m, k)' /\ (Member(m)' => Entitled(m, k)')
    OBVIOUS
  <2>2. rows[m].key = k /\ k # NoKey
    BY <1>3, <2>1, AdmitAssumption
  <2>3. HasUsed(m, k) /\ (Member(m) => Entitled(m, k))
    BY <2>2, InvitedIs DEF IInv
  <2>4. Member(m)' => m # n /\ Member(m)
    BY <1>3 DEF Member
  <2> QED
    BY <1>6, <2>3, <2>4
<1>8. MembersAreInvited'
  <2>1. \A m \in Names : rows'[m].key # NoKey => rows'[m].key \in Keys
    BY <1>3 DEF MemberRows, NoRow
  <2> QED
    BY <1>7, <2>1 DEF MembersAreInvited, Member, HasUsed, Entitled
<1>9. \A c \in Calls : \/ call'[c] = call[c] /\ (Busy(c) => Name(c) # n)
                       \/ call[c] \in Requests /\ call'[c] = [call[c] EXCEPT !.stale = TRUE]
  BY <1>1, RequestsAreBusy DEF IInv
<1>10. call' \in [Calls -> Requests \cup {Idle}]
  <2>1. \A r \in Requests : [r EXCEPT !.stale = TRUE] \in Requests
    BY DEF Requests
  <2>2. \A c \in Calls : call'[c] \in Requests \cup {Idle}
    BY <1>9, <2>1 DEF IInv, Typed
  <2> QED
    BY <1>1, <2>2
<1>11. CallsOK'
  <2>1. SUFFICES ASSUME NEW t \in Requests, NEW c \in Calls, call'[c] = t
                 PROVE  CallOK(t)'
    BY DEF CallsOK
  <2>2. t.invite \in Invites /\ NameOn[t.invite] \in Names /\ t.key \in Keys
    BY AdmitAssumption DEF Requests
  <2>3. CASE call[c] = t /\ Name(c) # n
    <3>1. CallOK(t) /\ NameOn[t.invite] # n
      BY <2>3 DEF IInv, CallsOK, Name
    <3>2. /\ HasUsed(NameOn[t.invite], t.key) => HasUsed(NameOn[t.invite], t.key)'
          /\ Entitled(NameOn[t.invite], t.key) => Entitled(NameOn[t.invite], t.key)'
      BY <1>6, <2>2, <3>1
    <3>3. invites'[t.invite].used = invites[t.invite].used
      BY <1>4, <2>2
    <3> QED
      BY <3>1, <3>2, <3>3 DEF CallOK
  <2>4. CASE call[c] \in Requests /\ t = [call[c] EXCEPT !.stale = TRUE]
    <3>1. PICK r \in Requests : call[c] = r
      BY <2>4
    <3>2. /\ t.at = r.at /\ t.key = r.key /\ t.invite = r.invite /\ t.rejoin = r.rejoin
          /\ t.row = r.row /\ t.stale
      BY <2>4, <3>1 DEF Requests
    <3>3. CallOK(r)
      BY <3>1 DEF IInv, CallsOK
    <3>4. HasUsed(NameOn[t.invite], t.key) => HasUsed(NameOn[t.invite], t.key)'
      BY <1>6, <2>2
    <3>5. invites'[t.invite].used = invites[t.invite].used
      BY <1>4, <2>2
    <3> QED
      BY <3>2, <3>3, <3>4, <3>5 DEF CallOK
  <2>5. t # Idle
    BY RequestsAreBusy DEF IInv
  <2> QED
    BY <1>9, <2>1, <2>3, <2>4, <2>5 DEF Busy
<1> QED
  BY <1>3, <1>4, <1>5, <1>8, <1>10, <1>11 DEF IInv, Typed

LEMMA InitIInv == Init => IInv
<1>1. SUFFICES ASSUME Init PROVE IInv
  OBVIOUS
<1>2. Typed
  BY <1>1, AdmitAssumption DEF Init, Typed, Fresh, MemberRows
<1>3. Idle \notin Requests
  BY DEF Idle, Requests
<1> QED
  BY <1>1, <1>2, <1>3 DEF Init, IInv, GoneWasUsed, Fresh, CallsOK, MembersAreInvited, NoRow

LEMMA NextIInv == IInv /\ [Next]_vars => IInv'
<1>1. SUFFICES ASSUME IInv, [Next]_vars PROVE IInv'
  OBVIOUS
<1>2. ASSUME NEW i \in Invites, Invite(i) PROVE IInv'
  <2>1. /\ UNCHANGED <<rows, call, raced>>
        /\ invites' = [invites EXCEPT ![i].made = TRUE]
    BY <1>2 DEF Invite
  <2>2. /\ invites' \in [Invites -> [made : BOOLEAN, used : Keys \cup {NoKey}, gone : BOOLEAN]]
        /\ \A j \in Invites : invites'[j].used = invites[j].used
                              /\ invites'[j].gone = invites[j].gone
    BY <1>1, <2>1 DEF IInv, Typed
  <2>3. Kept /\ GoneWasUsed' /\ Typed'
    BY <1>1, <2>1, <2>2 DEF Kept, IInv, GoneWasUsed, Typed
  <2>4. CallsOK'
    BY <1>1, <2>1, <2>3, KeptKeeps DEF IInv, CallsOK
  <2>5. MembersAreInvited'
    BY <1>1, <2>1, <2>2 DEF IInv, MembersAreInvited, Member
  <2> QED
    BY <2>3, <2>4, <2>5 DEF IInv
<1>3. ASSUME NEW c \in Calls, NEW k \in Keys, NEW i \in Invites, Look(c, k, i) PROVE IInv'
  BY <1>1, <1>3, LookKeeps
<1>4. ASSUME NEW n \in Names, Revoke(n) PROVE IInv'
  BY <1>1, <1>4, RevokeKeeps
<1>5. ASSUME NEW c \in Calls, Admitting(c) \/ Answer(c) \/ LoseAnswer(c) PROVE IInv'
  <2>1. CASE UsedUp(c) \/ WriteFails(c) \/ Unlisted(c) \/ Answer(c) \/ LoseAnswer(c)
    BY <1>1, <2>1, EndKeeps DEF UsedUp, WriteFails, Unlisted, Answer, LoseAnswer, home
  <2> QED
    BY <1>1, <1>5, <2>1, UseKeeps, WriteKeeps, AnnounceKeeps, ListKeeps, StoreMineKeeps
    DEF Admitting
<1>6. ASSUME UNCHANGED <<invites, rows, call, raced>> PROVE IInv'
  BY <1>1, <1>6 DEF IInv, Typed, GoneWasUsed, CallsOK, CallOK, HasUsed, Entitled,
     MembersAreInvited, Member
<1>7. CASE Rotate \/ Close \/ Rename \/ NewRoom
  BY <1>6, <1>7 DEF Rotate, Close, Rename, NewRoom, home
<1>8. CASE Crash
  <2>1. call' = [c \in Calls |-> Idle] /\ UNCHANGED <<invites, rows, raced>> /\ Idle \notin Requests
    BY <1>1, <1>8 DEF Crash, home, Idle, Requests
  <2>2. Typed' /\ CallsOK'
    BY <1>1, <2>1 DEF IInv, Typed, CallsOK
  <2> QED
    BY <1>1, <2>1, <2>2 DEF IInv, GoneWasUsed, MembersAreInvited, Member
<1>9. CASE UNCHANGED vars
  BY <1>6, <1>9 DEF vars, home
<1> QED
  BY <1>1, <1>2, <1>3, <1>4, <1>5, <1>7, <1>8, <1>9 DEF Next

\* In every reachable state members and joins under way go by invites that were used.
THEOREM Inductive == Spec => []IInv
BY InitIInv, NextIInv, PTL DEF Spec

\* A member has used up an invite to its name, none from before the name was last revoked,
\* unless the revoke came between the reads of a join and its write (admit in peers.rs).
THEOREM MembersByInvite == Spec => []MembersAreInvited
BY Inductive, PTL DEF IInv

-----------------------------------------------------------------------------
(* Announcing.  A used invite is either being announced, by one join and   *)
(* no other, or it stands for what the chain says of its name and key.     *)

ToAnnounce(r) == r.at \in {"write", "announce"} /\ ~r.rejoin

Announcing(c, i) == call[c] \in Requests /\ ToAnnounce(call[c]) /\ call[c].invite = i

OneAnnounces ==
    \A i \in Invites : \A c, d \in Calls : Announcing(c, i) /\ Announcing(d, i) => c = d

\* Used by the key for the name, and nobody is still to announce it.
Settled(n, k) ==
    {i \in Invites : /\ NameOn[i] = n /\ invites[i].used = k
                     /\ \A c \in Calls : ~Announcing(c, i)}

AnnouncedAll ==
    /\ joined \in [Names -> [Keys -> Nat]]
    /\ \A n \in Names : \A k \in Keys : joined[n][k] <= Cardinality(Settled(n, k))

CountInv == OneAnnounces /\ AnnouncedAll

\* The used invites of a name and key are finitely many, and settle one by one.
LEMMA SettledGrows ==
    ASSUME NEW n \in Names, NEW k \in Keys, Settled(n, k) \subseteq Settled(n, k)'
    PROVE  Cardinality(Settled(n, k)) <= Cardinality(Settled(n, k)')
           /\ Cardinality(Settled(n, k)) \in Nat /\ Cardinality(Settled(n, k)') \in Nat
<1>1. IsFiniteSet(Settled(n, k)) /\ IsFiniteSet(Settled(n, k)')
  BY FS_Subset, AdmitAssumption DEF Settled
<1> QED
  BY <1>1, FS_Subset, FS_CardinalityType

LEMMA CountKeeps ==
    ASSUME CountInv, joined' = joined, OneAnnounces',
           \A n \in Names : \A k \in Keys : Settled(n, k) \subseteq Settled(n, k)'
    PROVE  CountInv'
<1>1. ASSUME NEW n \in Names, NEW k \in Keys
      PROVE  joined[n][k] <= Cardinality(Settled(n, k)')
  BY <1>1, SettledGrows DEF CountInv, AnnouncedAll
<1> QED
  BY <1>1 DEF CountInv, AnnouncedAll

\* As long as no invite that is used changes hands, and no join is to announce one that was
\* used before.
LEMMA NoneMoreKeeps ==
    ASSUME IInv, CountInv, joined' = joined,
           \A i \in Invites : invites[i].used # NoKey => invites'[i].used = invites[i].used,
           \A c \in Calls : \A i \in Invites : Announcing(c, i)' => Announcing(c, i)
    PROVE  CountInv'
<1>1. OneAnnounces'
  BY DEF CountInv, OneAnnounces
<1>2. \A n \in Names : \A k \in Keys : Settled(n, k) \subseteq Settled(n, k)'
  BY AdmitAssumption DEF Settled
<1> QED
  BY <1>1, <1>2, CountKeeps

\* A step of one join after which it has nothing more to announce than before.
LEMMA CallAnnouncesNoMore ==
    ASSUME IInv, CountInv, joined' = joined, NEW c \in Calls, NEW t \in Requests \cup {Idle},
           \A i \in Invites : invites[i].used # NoKey => invites'[i].used = invites[i].used,
           call' = [call EXCEPT ![c] = t],
           t \in Requests /\ ToAnnounce(t) =>
               call[c] \in Requests /\ ToAnnounce(call[c]) /\ call[c].invite = t.invite
    PROVE  CountInv'
<1>1. \A d \in Calls : \A i \in Invites : Announcing(d, i)' => Announcing(d, i)
  <2>1. SUFFICES ASSUME NEW d \in Calls, NEW i \in Invites,
                        call'[d] \in Requests, ToAnnounce(call'[d]), call'[d].invite = i
                 PROVE  Announcing(d, i)
    BY DEF Announcing, ToAnnounce
  <2>2. CASE d = c
    <3>1. call'[d] = t
      BY <2>2 DEF IInv, Typed
    <3> QED
      BY <2>1, <2>2, <3>1 DEF Announcing
  <2>3. CASE d # c
    <3>1. call'[d] = call[d]
      BY <2>3 DEF IInv, Typed
    <3> QED
      BY <2>1, <3>1 DEF Announcing
  <2> QED
    BY <2>2, <2>3
<1> QED
  BY <1>1, NoneMoreKeeps

LEMMA EndAnnouncesNoMore ==
    ASSUME IInv, CountInv, UNCHANGED <<joined, invites>>, NEW c \in Calls, End(c)
    PROVE  CountInv'
<1> DEFINE t == Idle
<1>1. t \in Requests \cup {Idle} /\ call' = [call EXCEPT ![c] = t] /\ t \notin Requests
  BY RequestsAreBusy DEF End, IInv
<1> HIDE DEF t
<1> QED
  BY <1>1, CallAnnouncesNoMore

\* An invite is used by one join, which then is the only one to announce it.
LEMMA UseCounts ==
    ASSUME IInv, CountInv, NEW c \in Calls, Use(c)
    PROVE  CountInv'
<1>1. PICK r \in Requests : call[c] = r
  BY RequestsAreBusy DEF Use, IInv
<1> DEFINE i == r.invite
           t == [r EXCEPT !.at = "write"]
<1>2. /\ r.at = "use" /\ invites[i].used = NoKey /\ joined' = joined
      /\ invites' = [invites EXCEPT ![i].used = r.key]
      /\ call' = [call EXCEPT ![c] = Idle] \/ call' = [call EXCEPT ![c] = t]
  BY <1>1 DEF Use, End, Go, IInv, Typed
<1>3. /\ t \in Requests /\ t.at = "write" /\ t.invite = i /\ t.key = r.key
      /\ t.rejoin = r.rejoin /\ Idle \notin Requests /\ i \in Invites
  BY RequestsAreBusy DEF Requests, IInv
<1> HIDE DEF i, t
<1>4. \A j \in Invites : j # i => invites'[j] = invites[j]
  BY <1>2 DEF IInv, Typed
<1>5. \A d \in Calls : d # c => call'[d] = call[d]
  BY <1>2 DEF IInv, Typed
<1>6. call'[c] = Idle \/ call'[c] = t
  BY <1>2 DEF IInv, Typed
<1>7. \A d \in Calls : \A j \in Invites : Announcing(d, j)' => Announcing(d, j) \/ (d = c /\ j = i)
  <2>1. SUFFICES ASSUME NEW d \in Calls, NEW j \in Invites,
                        call'[d] \in Requests, ToAnnounce(call'[d]), call'[d].invite = j
                 PROVE  Announcing(d, j) \/ (d = c /\ j = i)
    BY DEF Announcing, ToAnnounce
  <2> QED
    BY <1>3, <1>5, <1>6, <2>1 DEF Announcing
\* What was announced by anyone before was used before.
<1>8. \A d \in Calls : ~Announcing(d, i)
  <2>1. SUFFICES ASSUME NEW d \in Calls, Announcing(d, i) PROVE FALSE
    OBVIOUS
  <2>2. PICK q \in Requests : call[d] = q
    BY <2>1 DEF Announcing
  <2>3. ToAnnounce(q) /\ q.invite = i
    BY <2>1, <2>2 DEF Announcing
  <2>4. invites[i].used = q.key
    BY <2>2, <2>3 DEF IInv, CallsOK, CallOK, ToAnnounce
  <2>5. q.key # NoKey
    BY AdmitAssumption DEF Requests
  <2> QED
    BY <1>2, <2>4, <2>5 DEF i
<1>9. OneAnnounces'
  <2>1. SUFFICES ASSUME NEW j \in Invites, NEW d \in Calls, NEW e \in Calls,
                        Announcing(d, j)', Announcing(e, j)'
                 PROVE  d = e
    BY DEF OneAnnounces
  <2>2. CASE j = i
    BY <1>7, <1>8, <2>1, <2>2
  <2>3. CASE j # i
    BY <1>7, <2>1, <2>3 DEF CountInv, OneAnnounces
  <2> QED
    BY <2>2, <2>3
<1>10. ASSUME NEW n \in Names, NEW k \in Keys
       PROVE  Settled(n, k) \subseteq Settled(n, k)'
  <2>1. SUFFICES ASSUME NEW j \in Settled(n, k)
                 PROVE  j \in Settled(n, k)'
    OBVIOUS
  <2>2. /\ j \in Invites /\ NameOn[j] = n /\ invites[j].used = k
        /\ \A d \in Calls : ~Announcing(d, j)
    BY <2>1 DEF Settled
  <2>3. j # i
    BY <1>2, <2>2, AdmitAssumption DEF i
  <2>4. invites'[j].used = k /\ \A d \in Calls : ~Announcing(d, j)'
    BY <1>4, <1>7, <2>2, <2>3
  <2> QED
    BY <2>2, <2>4 DEF Settled
<1> QED
  BY <1>2, <1>9, <1>10, CountKeeps

\* The chain says "joined" once more, and one more used invite stands for it.
LEMMA AnnounceCounts ==
    ASSUME IInv, CountInv, NEW c \in Calls, Announce(c)
    PROVE  CountInv'
<1>1. PICK r \in Requests : call[c] = r
  BY RequestsAreBusy DEF Announce, IInv
<1> DEFINE i == r.invite
           n == NameOn[i]
           k == r.key
           t == [r EXCEPT !.at = "list"]
<1>2. /\ r.at = "announce" /\ invites' = invites
      /\ joined' = [joined EXCEPT ![n][k] = @ + 1]
      /\ call' = [call EXCEPT ![c] = t]
  BY <1>1 DEF Announce, Name, Go, IInv, Typed
<1>3. CallOK(r)
  BY <1>1 DEF IInv, CallsOK
<1>4. i \in Invites /\ n \in Names /\ k \in Keys /\ invites[i].used = k /\ ~r.rejoin
  BY <1>2, <1>3, AdmitAssumption DEF CallOK, Requests
<1>5. Announcing(c, i)
  BY <1>1, <1>2, <1>4 DEF Announcing, ToAnnounce
<1>6. t \in Requests /\ t.at = "list"
  BY DEF Requests
<1> HIDE DEF t
<1>7. call'[c] = t /\ \A d \in Calls : d # c => call'[d] = call[d]
  BY <1>2 DEF IInv, Typed
<1>8. \A d \in Calls : \A j \in Invites : Announcing(d, j)' <=> d # c /\ Announcing(d, j)
  <2>1. \A d \in Calls : \A j \in Invites : Announcing(d, j)' <=>
           call'[d] \in Requests /\ ToAnnounce(call'[d]) /\ call'[d].invite = j
    BY DEF Announcing, ToAnnounce
  <2>2. ~ToAnnounce(t)
    BY <1>6 DEF ToAnnounce
  <2> QED
    BY <1>7, <2>1, <2>2 DEF Announcing
<1>9. OneAnnounces'
  BY <1>8 DEF CountInv, OneAnnounces
<1>10. \A d \in Calls : Announcing(d, i) => d = c
  BY <1>4, <1>5 DEF CountInv, OneAnnounces
<1> HIDE DEF i
<1>11. \A m \in Names : \A q \in Keys : Settled(m, q) \subseteq Settled(m, q)'
  BY <1>2, <1>8 DEF Settled
<1>12. i \notin Settled(n, k) /\ i \in Settled(n, k)'
  BY <1>2, <1>4, <1>5, <1>8, <1>10 DEF Settled
<1>13. Cardinality(Settled(n, k)) + 1 <= Cardinality(Settled(n, k)')
  <2>1. IsFiniteSet(Settled(n, k)) /\ IsFiniteSet(Settled(n, k)')
    BY FS_Subset, AdmitAssumption DEF Settled
  <2>2. Cardinality(Settled(n, k) \cup {i}) = Cardinality(Settled(n, k)) + 1
    BY <1>12, <2>1, FS_AddElement
  <2>3. Settled(n, k) \cup {i} \subseteq Settled(n, k)'
    BY <1>4, <1>11, <1>12
  <2>4. Cardinality(Settled(n, k) \cup {i}) <= Cardinality(Settled(n, k)')
    BY <2>1, <2>3, FS_Subset
  <2> QED
    BY <2>2, <2>4
<1>14. joined \in [Names -> [Keys -> Nat]]
  BY DEF CountInv, AnnouncedAll
<1> HIDE DEF n, k
<1>15. /\ joined' \in [Names -> [Keys -> Nat]] /\ joined'[n][k] = joined[n][k] + 1
       /\ \A m \in Names : \A q \in Keys : m # n \/ q # k => joined'[m][q] = joined[m][q]
  BY <1>2, <1>4, <1>14
<1>16. ASSUME NEW m \in Names, NEW q \in Keys
       PROVE  joined'[m][q] <= Cardinality(Settled(m, q)')
  <2>1. joined[m][q] <= Cardinality(Settled(m, q)) /\ joined[m][q] \in Nat
    BY <1>14 DEF CountInv, AnnouncedAll
  <2>2. /\ Cardinality(Settled(m, q)) <= Cardinality(Settled(m, q)')
        /\ Cardinality(Settled(m, q)) \in Nat /\ Cardinality(Settled(m, q)') \in Nat
    BY <1>11, SettledGrows
  <2>3. CASE m = n /\ q = k
    BY <1>13, <1>15, <2>1, <2>2, <2>3
  <2>4. CASE ~(m = n /\ q = k)
    BY <1>15, <2>1, <2>2, <2>4
  <2> QED
    BY <2>3, <2>4
<1>17. AnnouncedAll'
  BY <1>15, <1>16 DEF AnnouncedAll
<1> QED
  BY <1>9, <1>17 DEF CountInv

LEMMA NextCountInv == IInv /\ CountInv /\ [Next]_vars => CountInv'
<1>1. SUFFICES ASSUME IInv, CountInv, [Next]_vars PROVE CountInv'
  OBVIOUS
<1>2. ASSUME UNCHANGED <<joined, call>>,
             \A i \in Invites : invites'[i].used = invites[i].used
      PROVE  CountInv'
  <2>1. \A c \in Calls : \A i \in Invites : Announcing(c, i)' => Announcing(c, i)
    BY <1>2 DEF Announcing, ToAnnounce
  <2> QED
    BY <1>1, <1>2, <2>1, NoneMoreKeeps
<1>3. ASSUME NEW i \in Invites, Invite(i) PROVE CountInv'
  <2>1. \A j \in Invites : invites'[j].used = invites[j].used
    BY <1>1, <1>3 DEF Invite, IInv, Typed
  <2> QED
    BY <1>2, <1>3, <2>1 DEF Invite
<1>4. ASSUME NEW c \in Calls, NEW k \in Keys, NEW i \in Invites, Look(c, k, i) PROVE CountInv'
  <2>1. PICK t \in Requests : /\ call' = [call EXCEPT ![c] = t] /\ ~ToAnnounce(t)
                              /\ UNCHANGED <<joined, invites>>
    <3> DEFINE n == NameOn[i]
               mine == Member(n) /\ rows[n].key = k
               t == [at |-> IF mine THEN "write" ELSE "use", key |-> k, invite |-> i,
                     rejoin |-> mine, taken |-> Member(n) /\ ~mine,
                     row |-> NoRow, stale |-> FALSE]
    <3>1. call' = [call EXCEPT ![c] = t] /\ UNCHANGED <<joined, invites>>
      BY <1>1, <1>4 DEF Look, home, IInv, Typed
    <3>2. mine \in BOOLEAN /\ Member(n) \in BOOLEAN
      BY DEF Member
    <3>3. t \in Requests
      BY <3>2 DEF Requests
    <3>4. (mine => t.rejoin) /\ (~mine => t.at = "use")
      OBVIOUS
    <3> HIDE DEF t
    <3>5. ~ToAnnounce(t)
      BY <3>4 DEF ToAnnounce
    <3> QED
      BY <3>1, <3>3, <3>5
  <2> QED
    BY <1>1, <2>1, CallAnnouncesNoMore
<1>5. ASSUME NEW n \in Names, Revoke(n) PROVE CountInv'
  <2>1. /\ joined' = joined
        /\ \A i \in Invites : invites'[i].used = invites[i].used
        /\ \A c \in Calls : \/ call'[c] = call[c]
                            \/ /\ call[c] \in Requests
                               /\ call'[c] = [call[c] EXCEPT !.stale = TRUE]
    <3>1. /\ joined' = joined
          /\ invites' = [i \in Invites |->
                           IF NameOn[i] = n /\ invites[i].used # NoKey
                           THEN [invites[i] EXCEPT !.gone = TRUE] ELSE invites[i]]
          /\ call' = [c \in Calls |-> IF Busy(c) /\ Name(c) = n
                                       THEN [call[c] EXCEPT !.stale = TRUE] ELSE call[c]]
      BY <1>5 DEF Revoke
    <3>2. \A i \in Invites : invites'[i].used = invites[i].used
      BY <1>1, <3>1 DEF IInv, Typed
    <3>3. ASSUME NEW c \in Calls
          PROVE  \/ call'[c] = call[c]
                 \/ /\ call[c] \in Requests
                    /\ call'[c] = [call[c] EXCEPT !.stale = TRUE]
      BY <1>1, <3>1, RequestsAreBusy DEF IInv
    <3> QED
      BY <3>1, <3>2, <3>3
  <2>2. \A c \in Calls : \A i \in Invites : Announcing(c, i)' => Announcing(c, i)
    <3>1. SUFFICES ASSUME NEW c \in Calls, NEW i \in Invites,
                          call'[c] \in Requests, ToAnnounce(call'[c]), call'[c].invite = i
                   PROVE  Announcing(c, i)
      BY DEF Announcing, ToAnnounce
    <3>2. CASE call'[c] = call[c]
      BY <3>1, <3>2 DEF Announcing
    <3>3. CASE /\ call[c] \in Requests
               /\ call'[c] = [call[c] EXCEPT !.stale = TRUE]
      <4>1. /\ call'[c].at = call[c].at /\ call'[c].rejoin = call[c].rejoin
            /\ call'[c].invite = call[c].invite
        BY <3>3 DEF Requests
      <4> QED
        BY <3>1, <3>3, <4>1 DEF Announcing, ToAnnounce
    <3> QED
      BY <2>1, <3>2, <3>3
  <2> QED
    BY <1>1, <2>1, <2>2, NoneMoreKeeps
<1>6. ASSUME NEW c \in Calls, Write(c) \/ List(c) PROVE CountInv'
  <2>1. PICK r \in Requests : call[c] = r
    BY <1>1, <1>6, RequestsAreBusy DEF Write, List, Listed, IInv
  <2>2. CASE Write(c)
    <3> DEFINE stage == IF r.rejoin THEN "list" ELSE "announce"
               t == [r EXCEPT !.at = stage]
    <3>1. /\ r.at = "write" /\ call' = [call EXCEPT ![c] = t] /\ UNCHANGED <<joined, invites>>
      BY <1>1, <2>1, <2>2 DEF Write, Go, IInv, Typed
    <3>2. t \in Requests /\ t.invite = r.invite /\ t.rejoin = r.rejoin
      BY DEF Requests
    <3> HIDE DEF t
    <3>3. ToAnnounce(t) => ToAnnounce(r)
      BY <3>1, <3>2 DEF ToAnnounce
    <3> QED
      BY <1>1, <2>1, <3>1, <3>2, <3>3, CallAnnouncesNoMore
  <2>3. CASE List(c)
    <3> DEFINE t == [r EXCEPT !.at = "store", !.row = rows[NameOn[r.invite]], !.stale = FALSE]
    <3>1. call' = [call EXCEPT ![c] = t] /\ UNCHANGED <<joined, invites>>
      BY <1>1, <2>1, <2>3 DEF List, Listed, Name, home, IInv, Typed
    <3>2. rows[NameOn[r.invite]] \in MemberRows
      BY <1>1, AdmitAssumption DEF IInv, Typed, Requests
    <3>3. t \in Requests /\ t.at = "store"
      BY <3>2 DEF Requests, MemberRows
    <3> HIDE DEF t
    <3>4. ~ToAnnounce(t)
      BY <3>3 DEF ToAnnounce
    <3> QED
      BY <1>1, <3>1, <3>3, <3>4, CallAnnouncesNoMore
  <2> QED
    BY <1>6, <2>2, <2>3
<1>7. ASSUME NEW c \in Calls, Admitting(c) \/ Answer(c) \/ LoseAnswer(c) PROVE CountInv'
  <2>1. CASE UsedUp(c) \/ WriteFails(c) \/ Unlisted(c) \/ Answer(c) \/ LoseAnswer(c)
             \/ StoreMine(c)
    BY <1>1, <2>1, EndAnnouncesNoMore
    DEF UsedUp, WriteFails, Unlisted, Answer, LoseAnswer, StoreMine, home
  <2> QED
    BY <1>1, <1>6, <1>7, <2>1, UseCounts, AnnounceCounts DEF Admitting
<1>8. CASE Rotate \/ Close \/ Rename \/ NewRoom
  BY <1>2, <1>8 DEF Rotate, Close, Rename, NewRoom, home
<1>9. CASE Crash
  <2>1. /\ call' = [c \in Calls |-> Idle] /\ UNCHANGED <<joined, invites>>
        /\ Idle \notin Requests
    BY <1>9 DEF Crash, home, Idle, Requests
  <2>2. \A c \in Calls : \A i \in Invites : ~Announcing(c, i)'
    BY <2>1 DEF Announcing
  <2> QED
    BY <1>1, <2>1, <2>2, NoneMoreKeeps
<1>10. CASE UNCHANGED vars
  BY <1>2, <1>10 DEF vars, home
<1> QED
  BY <1>1, <1>3, <1>4, <1>5, <1>7, <1>8, <1>9, <1>10 DEF Next

LEMMA InitCountInv == Init => CountInv
<1>1. SUFFICES ASSUME Init PROVE CountInv
  OBVIOUS
<1>2. Idle \notin Requests
  BY DEF Idle, Requests
<1>3. OneAnnounces
  BY <1>1, <1>2 DEF Init, OneAnnounces, Announcing
<1>4. ASSUME NEW n \in Names, NEW k \in Keys
      PROVE  0 <= Cardinality(Settled(n, k))
  BY FS_Subset, FS_CardinalityType, AdmitAssumption DEF Settled
<1> QED
  BY <1>1, <1>3, <1>4 DEF Init, CountInv, AnnouncedAll

\* In every reachable state what the chain says of joins is what the used invites stand for.
THEOREM CountInductive == Spec => [](IInv /\ CountInv)
BY Inductive, InitCountInv, NextCountInv, PTL DEF Spec

LEMMA CountedIsAnnounced == CountInv => AnnouncedOnce
<1>1. SUFFICES ASSUME CountInv, NEW n \in Names, NEW k \in Keys
               PROVE  joined[n][k] <=
                        Cardinality({i \in Invites : NameOn[i] = n /\ invites[i].used = k})
  BY DEF AnnouncedOnce
<1> DEFINE all == {i \in Invites : NameOn[i] = n /\ invites[i].used = k}
<1>2. IsFiniteSet(all) /\ Settled(n, k) \subseteq all
  BY FS_Subset, AdmitAssumption DEF Settled
<1>3. /\ Cardinality(Settled(n, k)) <= Cardinality(all)
      /\ Cardinality(Settled(n, k)) \in Nat /\ Cardinality(all) \in Nat
  BY <1>2, FS_Subset, FS_CardinalityType
<1>4. joined[n][k] <= Cardinality(Settled(n, k)) /\ joined[n][k] \in Nat
  BY <1>1 DEF CountInv, AnnouncedAll
<1> QED
  BY <1>3, <1>4

\* The chain says "joined" at most once for each used invite, however often its joiner comes
\* again and wherever a join stops (admit in peers.rs).
THEOREM JoinsAnnouncedOnce == Spec => []AnnouncedOnce
BY CountInductive, CountedIsAnnounced, PTL

-----------------------------------------------------------------------------
(* Rotation.                                                               *)

\* How far the rotation is says what it has done, whoever makes the new room.
TurnInv ==
    /\ rotate \in {"sequenced", "closed", "renamed"} => room.told
    /\ rotate \in {"closed", "renamed"} => room.closed
    /\ RotatedInOrder
    /\ room \in [told : BOOLEAN, closed : BOOLEAN, named : {"old", "none", "new"}]

LEMMA NextTurnInv == TurnInv /\ [Next]_vars => TurnInv'
<1>1. SUFFICES ASSUME TurnInv, [Next]_vars PROVE TurnInv'
  OBVIOUS
<1>2. ASSUME UNCHANGED rotation PROVE TurnInv'
  BY <1>1, <1>2 DEF TurnInv, RotatedInOrder, rotation
<1>3. ASSUME (\E i \in Invites : Invite(i) \/ \E c \in Calls, k \in Keys : Look(c, k, i))
             \/ (\E n \in Names : Revoke(n))
             \/ (\E c \in Calls : Admitting(c) \/ Answer(c) \/ LoseAnswer(c))
      PROVE  TurnInv'
  BY <1>2, <1>3 DEF Invite, Look, Revoke, Admitting, Answer, LoseAnswer, Use, UsedUp, Write,
     WriteFails, Announce, List, Unlisted, StoreMine
<1>4. CASE Rotate
  BY <1>1, <1>4 DEF Rotate, TurnInv, RotatedInOrder
<1>5. CASE Close
  BY <1>1, <1>5 DEF Close, TurnInv, RotatedInOrder
<1>6. CASE Rename
  BY <1>1, <1>6 DEF Rename, TurnInv, RotatedInOrder
<1>7. CASE NewRoom
  BY <1>1, <1>7 DEF NewRoom, TurnInv, RotatedInOrder
<1>8. CASE Crash
  BY <1>1, <1>8 DEF Crash, TurnInv, RotatedInOrder
<1>9. CASE UNCHANGED vars
  BY <1>2, <1>9 DEF vars
<1> QED
  BY <1>1, <1>3, <1>4, <1>5, <1>6, <1>7, <1>8, <1>9 DEF Next

LEMMA InitTurnInv == Init => TurnInv
BY DEF Init, TurnInv, RotatedInOrder

\* A rotation that stops anywhere has told the room before it closed it, and closed it before
\* the name is another room's (rotate in local.rs).
THEOREM RotatesInOrder == Spec => []RotatedInOrder
<1>1. TurnInv => RotatedInOrder
  BY DEF TurnInv
<1> QED
  BY <1>1, InitTurnInv, NextTurnInv, PTL DEF Spec

-----------------------------------------------------------------------------
(* Doors: who decides, and who was warned of.                              *)

\* The server runs under no person's key.
ServerIsAgent == mcp # Nothing => KindOf(mcp) = "agent"

\* A question knows whether it is for an action; nothing but a person's decision is the answer
\* to one that is.
QuestionInv ==
    \/ ask = NoAsk
    \/ \E l, a, w, re :
         /\ ask = [by |-> l, action |-> a, waits |-> w, reply |-> re]
         /\ a /\ re # Nothing => re.type \in Decisions /\ re.kind = "human"

DoorInv == ServerIsAgent /\ QuestionInv /\ McpSpeaksForAgents

\* By which door, from whom and under which label something comes in.
LEMMA DoorFields ==
    ASSUME NEW type, NEW d \in Doors(type)
    PROVE  \/ d \in CliDoor /\ d.door = "cli" /\ d.by \in Callers
           \/ d.door = "web" /\ d.by = Person
           \/ d.door = "mcp" /\ type \in AgentMaySend /\ mcp # Nothing /\ d.by = mcp /\ d.as = mcp
<1>1. CASE d \in CliDoor
  <2>1. PICK c \in Callers, l \in Labels : d = [door |-> "cli", by |-> c, as |-> l]
    BY <1>1 DEF CliDoor
  <2> QED
    BY <1>1, <2>1
<1>2. CASE d \in WebDoor
  <2>1. PICK b \in page.session : d = [door |-> "web", by |-> Person, as |-> page.as]
    BY <1>2, Zenon DEF WebDoor
  <2> QED
    BY <2>1
<1>3. CASE d \in McpDoor(type)
  <2>1. mcp # Nothing /\ type \in AgentMaySend /\ d = [door |-> "mcp", by |-> mcp, as |-> mcp]
    BY <1>3 DEF McpDoor
  <2> QED
    BY <2>1
<1> QED
  BY <1>1, <1>2, <1>3 DEF Doors

\* What is kept of it.
LEMMA SaidFields ==
    ASSUME NEW d, NEW ty, Said(d, ty) # Nothing
    PROVE  /\ Said(d, ty).mcp <=> d.door = "mcp"
           /\ Said(d, ty).by = d.by /\ Said(d, ty).as = d.as /\ Said(d, ty).type = ty
           /\ Said(d, ty).warned <=> d.by \in Risk
           /\ d.door # "mcp" => d.by # Person /\ d.by # d.as
<1> DEFINE m == d.door = "mcp"
           w == d.by \in Risk
<1>1. Said(d, ty) = [mcp |-> m, by |-> d.by, as |-> d.as, type |-> ty, warned |-> w]
  BY Zenon DEF Said
<1>2. d.door # "mcp" => d.by # Person /\ d.by # d.as
  BY DEF Said
<1> HIDE DEF m, w
<1>3. /\ Said(d, ty).mcp = m /\ Said(d, ty).warned = w
      /\ Said(d, ty).by = d.by /\ Said(d, ty).as = d.as /\ Said(d, ty).type = ty
  BY <1>1
<1>4. (m <=> d.door = "mcp") /\ (w <=> d.by \in Risk)
  BY DEF m, w
<1> QED
  BY <1>2, <1>3, <1>4, Zenon

\* What is kept of a message: what the server sent was its agent's, and nothing only a person says.
LEMMA SaidByAgent ==
    ASSUME ServerIsAgent, NEW type, NEW d \in Doors(type), NEW ty,
           d.door = "mcp" => ty \notin Decisions \cup {"control", "system", "invite", "invite a person"},
           Said(d, ty) # Nothing, Said(d, ty).mcp
    PROVE  /\ KindOf(Said(d, ty).as) = "agent"
           /\ Said(d, ty).type \notin Decisions \cup {"control", "system", "invite", "invite a person"}
<1>1. d.door = "mcp" /\ Said(d, ty).as = d.as /\ Said(d, ty).type = ty
  BY SaidFields, Zenon
<1>2. mcp # Nothing /\ d.as = mcp
  BY <1>1, DoorFields
<1> QED
  BY <1>1, <1>2 DEF ServerIsAgent

\* What an agent may send by the server is no decision, no control and no notice.
LEMMA ByServerOnlyTalk ==
    ASSUME NEW type, NEW d \in Doors(type), d.door = "mcp"
    PROVE  type \notin Decisions \cup {"control", "system", "invite", "invite a person"}
<1>1. type \in AgentMaySend
  BY DoorFields
<1> QED
  BY <1>1 DEF AgentMaySend, Types, Decisions

LEMMA SignedKeeps ==
    ASSUME DoorInv, NEW type, NEW d \in Doors(type), Signed(d, type)
    PROVE  ServerIsAgent' /\ McpSpeaksForAgents'
<1>1. mcp' = mcp /\ last' = Said(d, type)
  BY DEF Signed
<1>2. ServerIsAgent'
  BY <1>1 DEF DoorInv, ServerIsAgent, KindOf
<1>3. McpSpeaksForAgents'
  <2> SUFFICES ASSUME last' # Nothing, last'.mcp
               PROVE  /\ KindOf(last'.as) = "agent"
                      /\ last'.type \notin Decisions \cup {"control", "system", "invite", "invite a person"}
    BY DEF McpSpeaksForAgents, KindOf, Decisions
  <2> QED
    BY <1>1, ByServerOnlyTalk, SaidByAgent DEF DoorInv
<1> QED
  BY <1>2, <1>3

\* The first answer a question for an action takes is a person's decision.
LEMMA AboutKeeps ==
    ASSUME DoorInv, NEW d, NEW type, About(d, type)
    PROVE  QuestionInv'
<1>1. PICK l, a, w, re :
         /\ ask = [by |-> l, action |-> a, waits |-> w, reply |-> re]
         /\ a /\ re # Nothing => re.type \in Decisions /\ re.kind = "human"
  BY DEF About, DoorInv, QuestionInv
<1>2. CASE ~Answers(d.as, type, ask)
  <2>1. ask' = ask
    BY <1>2 DEF About
  <2> QED
    BY <2>1 DEF DoorInv, QuestionInv, NoAsk
<1>3. CASE Answers(d.as, type, ask)
  <2> DEFINE answer == IF a THEN [type |-> type, kind |-> members[d.as].kind] ELSE Nothing
  <2>1. ask' = [by |-> l, action |-> a, waits |-> FALSE, reply |-> answer]
    BY <1>1, <1>3 DEF About
  <2>2. a => type \in Decisions /\ members[d.as].kind = "human"
    BY <1>1, <1>3 DEF About, Answers, Signed, MaySend
  <2>3. a /\ answer # Nothing => answer.type \in Decisions /\ answer.kind = "human"
    BY <2>2
  <2> HIDE DEF answer
  <2>4. \E l2, a2, w2, re2 :
         /\ ask' = [by |-> l2, action |-> a2, waits |-> w2, reply |-> re2]
         /\ a2 /\ re2 # Nothing => re2.type \in Decisions /\ re2.kind = "human"
    BY <2>1, <2>3
  <2> QED
    BY <2>4 DEF QuestionInv, Decisions
<1> QED
  BY <1>2, <1>3

LEMMA DoorStart == DoorInit => DoorInv
BY DEF DoorInit, DoorInv, ServerIsAgent, QuestionInv, McpSpeaksForAgents

LEMMA DoorKeeps == DoorInv /\ [DoorNext]_doorVars => DoorInv'
<1> SUFFICES ASSUME DoorInv, [DoorNext]_doorVars
             PROVE  DoorInv'
  OBVIOUS
<1>a. ServerIsAgent /\ QuestionInv /\ McpSpeaksForAgents
  BY DEF DoorInv
\* Steps that leave some of it alone.
<1>b. mcp' = mcp => ServerIsAgent'
  BY <1>a DEF ServerIsAgent, KindOf
<1>c. ask' = ask => QuestionInv'
  BY <1>a DEF QuestionInv, NoAsk, Decisions
<1>d. last' = last => McpSpeaksForAgents'
  BY <1>a DEF McpSpeaksForAgents, KindOf, Decisions
<1>1. ASSUME NEW l \in Labels, McpStart(l)
      PROVE  DoorInv'
  <2>1. ServerIsAgent'
    BY <1>1 DEF McpStart, ServerIsAgent, McpKeyAllowed, KindOf
  <2>2. ask' = ask /\ last' = last
    BY <1>1 DEF McpStart
  <2> QED
    BY <2>1, <2>2, <1>c, <1>d DEF DoorInv
<1>2. CASE McpEnd
  <2>1. mcp' = Nothing /\ ask' = ask /\ last' = last
    BY <1>2 DEF McpEnd
  <2> QED
    BY <2>1, <1>c, <1>d DEF DoorInv, ServerIsAgent
<1>3. ASSUME (\E l \in Labels : WebStart(l)) \/ WebEnd \/ \E b \in Browsers : WebOpen(b)
      PROVE  DoorInv'
  <2>1. mcp' = mcp /\ ask' = ask /\ last' = last
    BY <1>3 DEF WebStart, WebEnd, WebOpen
  <2> QED
    BY <2>1, <1>b, <1>c, <1>d DEF DoorInv
<1>4. CASE AskEnds
  <2>1. mcp' = mcp /\ last' = last /\ ask.waits /\ ask' = [ask EXCEPT !.waits = FALSE]
    BY <1>4 DEF AskEnds
  <2>2. ask # NoAsk
    BY <2>1 DEF NoAsk
  <2>3. PICK l, a, w, re :
          /\ ask = [by |-> l, action |-> a, waits |-> w, reply |-> re]
          /\ a /\ re # Nothing => re.type \in Decisions /\ re.kind = "human"
    BY <2>2, <1>a DEF QuestionInv
  <2>4. ask' = [by |-> l, action |-> a, waits |-> FALSE, reply |-> re]
    BY <2>1, <2>3
  <2>5. QuestionInv'
    BY <2>3, <2>4 DEF QuestionInv, Decisions
  <2> QED
    BY <2>1, <2>5, <1>b, <1>d DEF DoorInv
<1>5. ASSUME NEW type \in Sent, NEW d \in Doors(type), Send(d, type) \/ Reply(d, type) \/ Decide(d, type)
      PROVE  DoorInv'
  <2>1. Signed(d, type)
    BY <1>5 DEF Send, Reply, Decide, About
  <2>2. ask' = ask \/ About(d, type)
    BY <1>5 DEF Send, Reply, Decide
  <2>3. QuestionInv'
    BY <2>2, <1>c, AboutKeeps
  <2> QED
    BY <2>1, <2>3, SignedKeeps DEF DoorInv
<1>6. ASSUME NEW d \in Doors("question"), NEW action \in BOOLEAN, Ask(d, action)
      PROVE  DoorInv'
  <2>1. Signed(d, "question") /\ ask' = [by |-> d.as, action |-> action, waits |-> TRUE, reply |-> Nothing]
    BY <1>6 DEF Ask
  <2>2. QuestionInv'
    BY <2>1 DEF QuestionInv, Decisions
  <2> QED
    BY <2>1, <2>2, SignedKeeps DEF DoorInv
<1>7. ASSUME NEW d \in CliDoor,
             JoinBy(d) \/ (\E i \in Invited : InviteBy(d, i.kind, i.role)) \/ \E l \in Labels : RevokeBy(d, l)
      PROVE  DoorInv'
  <2>1. mcp' = mcp /\ ask' = ask /\ (last' = last \/ \E ty : last' = Said(d, ty))
    BY <1>7 DEF JoinBy, InviteBy, RevokeBy
  <2>2. ASSUME NEW ty, last' = Said(d, ty)
        PROVE  McpSpeaksForAgents'
    <3>1. d.door = "cli"
      BY DEF CliDoor
    <3>2. Said(d, ty) = Nothing \/ ~Said(d, ty).mcp
      BY <3>1 DEF Said
    <3> QED
      BY <2>2, <3>2 DEF McpSpeaksForAgents
  <2> QED
    BY <2>1, <2>2, <1>b, <1>c, <1>d DEF DoorInv
<1>8. CASE UNCHANGED doorVars
  BY <1>8, <1>b, <1>c, <1>d DEF doorVars, DoorInv
<1> QED
  BY <1>1, <1>2, <1>3, <1>4, <1>5, <1>6, <1>7, <1>8 DEF DoorNext

\* Whatever rooms, kinds and roles an agent has been given, the server signs nothing with a
\* person's key and nothing only a person says; and a question for an action is answered by a
\* person's decision alone (mcp.rs: refuse_human_key, agent_may_send; local.rs: ask).
THEOREM AgentsNeverDecide == DoorSpec => []AgentsDecideNothing
<1>1. DoorInv => AgentsDecideNothing
  <2> SUFFICES ASSUME DoorInv
               PROVE  McpSpeaksForAgents /\ OnlyPersonsDecide
    BY DEF AgentsDecideNothing
  <2> QED
    BY DEF DoorInv, QuestionInv, OnlyPersonsDecide
<1> QED
  BY <1>1, DoorStart, DoorKeeps, PTL DEF DoorSpec

-----------------------------------------------------------------------------

\* When an agent decides with another's key, it is warned of, or may say yes itself.
LEMMA SaidWithWarning ==
    ASSUME NEW type, NEW d \in Doors(type), NEW ty, Said(d, ty) # Nothing, Said(d, ty).by \in Agents,
           Said(d, ty).as # Said(d, ty).by, Said(d, ty).type \in Decisions \cup {"invite a person"}
    PROVE  Said(d, ty).warned \/ Said(d, ty).by = owner \/ Said(d, ty).by \in Approvers
<1>1. /\ Said(d, ty).by = d.by /\ Said(d, ty).as = d.as
      /\ Said(d, ty).warned <=> d.by \in Risk
      /\ d.door # "mcp" => d.by # Person /\ d.by # d.as
  BY SaidFields, Zenon
<1>2. d.by # d.as /\ d.by \in Agents
  BY <1>1, Zenon
<1>3. d.door = "cli" /\ d.by \in Callers /\ d.by # Person
  BY <1>1, <1>2, DoorFields
<1>4. d.by \in keys /\ d.by # Default
  BY <1>3 DEF Callers, Person
<1>5. d.by \in AgentKeys
  BY <1>4 DEF AgentKeys, KeptAgentKeys, KindOf
<1>6. d.by \in Risk \/ d.by = owner \/ d.by \in Approvers
  BY <1>5 DEF Risk
<1> QED
  BY <1>1, <1>6, Zenon

\* Who may say yes can still say it after a message.
LEMMA SameApprovers == ASSUME UNCHANGED <<members, owner>> PROVE Approvers' = Approvers
BY DEF Approvers, Standing, IsMember, MaySend, Labels

\* An agent that, by a shell, decides with a key that is not its own, or lets a person in with the
\* owner's, is one `status` warned of, unless its own key may say yes as well (approval_risks).
THEOREM RiskyKeysAreShown == DoorSpec => []RiskIsShown
<1>1. DoorInit => RiskIsShown
  BY DEF DoorInit, RiskIsShown
<1>2. RiskIsShown /\ [DoorNext]_doorVars => RiskIsShown'
  <2> SUFFICES ASSUME RiskIsShown, [DoorNext]_doorVars
               PROVE  RiskIsShown'
    OBVIOUS
  <2>1. ASSUME last' = last, owner' = owner, Approvers \subseteq Approvers'
        PROVE  RiskIsShown'
    BY <2>1 DEF RiskIsShown, Decisions
  <2>2. ASSUME NEW type, NEW d \in Doors(type), NEW ty, last' = Said(d, ty), UNCHANGED <<members, owner>>
        PROVE  RiskIsShown'
    BY <2>2, SaidWithWarning, SameApprovers DEF RiskIsShown, Decisions
  <2>3. CASE \/ \E l \in Labels : McpStart(l) \/ WebStart(l)
             \/ McpEnd \/ WebEnd \/ AskEnds
             \/ \E b \in Browsers : WebOpen(b)
             \/ UNCHANGED doorVars
    <3>1. last' = last /\ UNCHANGED <<members, owner>>
      BY <2>3 DEF McpStart, WebStart, McpEnd, WebEnd, AskEnds, WebOpen, doorVars
    <3> QED
      BY <3>1, <2>1, SameApprovers
  <2>4. ASSUME NEW type, NEW d \in Doors(type),
               Send(d, type) \/ Reply(d, type) \/ Decide(d, type) \/ \E action \in BOOLEAN : Ask(d, action) /\ type = "question"
        PROVE  RiskIsShown'
    <3>1. Signed(d, type)
      BY <2>4 DEF Send, Reply, Decide, About, Ask
    <3> QED
      BY <3>1, <2>2 DEF Signed
  <2>5. ASSUME NEW d \in CliDoor, NEW i \in Invited, InviteBy(d, i.kind, i.role)
        PROVE  RiskIsShown'
    <3>1. d \in Doors("chat")
      BY DEF Doors
    <3>2. PICK ty : last' = Said(d, ty) /\ UNCHANGED <<members, owner>>
      BY <2>5 DEF InviteBy
    <3> QED
      BY <3>1, <3>2, <2>2
  <2>6. ASSUME NEW d \in CliDoor, NEW l \in Labels, RevokeBy(d, l)
        PROVE  RiskIsShown'
    <3>1. d.door = "cli" /\ last' = Said(d, "control")
      BY <2>6 DEF CliDoor, RevokeBy
    <3>2. last' = Nothing
      BY <3>1 DEF Said, Decisions
    <3> QED
      BY <3>2 DEF RiskIsShown
  <2>7. ASSUME NEW d \in CliDoor, JoinBy(d)
        PROVE  RiskIsShown'
    <3>1. last' = last /\ owner' = owner /\ ~Standing(d.as)
      BY <2>7 DEF JoinBy
    <3>2. PICK row : members' = [members EXCEPT ![d.as] = row]
      BY <2>7 DEF JoinBy
    <3>3. ASSUME NEW l \in Approvers
          PROVE  l \in Approvers'
      <4>1. l # d.as
        BY <3>1, <3>3 DEF Approvers
      <4>2. members'[l] = members[l]
        BY <3>2, <4>1
      <4> QED
        BY <3>1, <3>3, <4>2 DEF Approvers, Standing, IsMember, MaySend, Labels, NoMember, RoleSends, Decisions
    <3> QED
      BY <3>1, <3>3, <2>1
  <2> QED
    BY <2>3, <2>4, <2>5, <2>6, <2>7 DEF DoorNext
<1> QED
  BY <1>1, <1>2, PTL DEF DoorSpec

-----------------------------------------------------------------------------
(* Audit: what the chain keeps to, whatever is erased of it.               *)

IsSeq(s) == \E S : s \in Seq(S)

IsLine(m) ==
    m = [seq |-> m.seq, prev |-> m.prev, from |-> m.from, kind |-> m.kind, body |-> m.body,
         ts |-> m.ts, hash |-> m.hash, gone |-> m.gone, sig |-> m.sig]

\* A body is there, or the hash of one that was.
BodyOK(m) ==
    IF m.gone THEN m.body = Empty /\ \E x : x # Empty /\ m.hash = Hash(x)
    ELSE m.body # Empty /\ m.hash = NoHash

\* As long as the notice is not erased, it names whom it is about.
Announces(m, n) == m.kind = "system" /\ (~m.gone => m.body.name = n)

\* Line i of chain c: in its place, signed by a key, notices and controls by the owner's; its
\* sender was announced before it.
LineOK(c, i) ==
    /\ IsLine(c[i]) /\ BodyOK(c[i])
    /\ c[i].gone \in BOOLEAN /\ c[i].ts \in {0, 1} /\ c[i].from \in People
    /\ c[i].seq = i
    /\ c[i].prev = IF i = 1 THEN Genesis ELSE ChainHash(c[i - 1])
    /\ c[i].sig = Sig(c[i].sig[1], SigningBytes(c[i])) /\ c[i].sig[1] \in SigningKeys
    /\ c[i].kind \in {"system", "control"} => c[i].from = Owner /\ c[i].sig[1] = OwnerKey
    /\ c[i].body.name # Nobody => c[i].body.name \in People /\ c[i].body.key \in SigningKeys
    /\ c[i].from = Owner \/ \E j \in 1..(i - 1) : Announces(c[j], c[i].from)

ChainOK == IsSeq(chain) /\ Len(chain) \in Nat /\ \A i \in 1..Len(chain) : LineOK(chain, i)

\* The owner is always a member, and who else is or was one has been announced.
NamesOK ==
    /\ names \in [People -> [key : SigningKeys \cup {Nobody}, revoked : BOOLEAN]]
    /\ names[Owner] = [key |-> OwnerKey, revoked |-> FALSE]
    /\ \A n \in People : names[n].key = Nobody \/ n = Owner
                         \/ \E j \in 1..Len(chain) : Announces(chain[j], n)
    /\ later \in BOOLEAN

-----------------------------------------------------------------------------
(* Sequences.                                                              *)

LEMMA SeqOfItsValues ==
    ASSUME NEW n \in Nat, NEW f, f = [i \in 1..n |-> f[i]]
    PROVE  IsSeq(f) /\ Len(f) = n
<1> DEFINE S == {f[i] : i \in 1..n}
<1>1. \A i \in 1..n : f[i] \in S
  BY Zenon
<1> HIDE DEF S
<1>2. f \in [1..n -> S]
  BY <1>1
<1>3. f \in Seq(S) /\ Len(f) = n
  BY <1>2
<1> QED
  BY <1>3 DEF IsSeq

LEMMA SeqLonger ==
    ASSUME NEW s, IsSeq(s), NEW x
    PROVE  /\ Len(s) \in Nat /\ DOMAIN s = 1..Len(s)
           /\ IsSeq(Append(s, x)) /\ Len(Append(s, x)) = Len(s) + 1
           /\ Append(s, x)[Len(s) + 1] = x
           /\ \A i \in 1..Len(s) : Append(s, x)[i] = s[i]
<1>1. PICK S : s \in Seq(S)
  BY DEF IsSeq
<1>2. s \in Seq(S \cup {x}) /\ x \in S \cup {x}
  BY <1>1
<1>3. Append(s, x) \in Seq(S \cup {x})
  BY <1>2
<1> QED
  BY <1>2, <1>3 DEF IsSeq

-----------------------------------------------------------------------------
(* Lines.                                                                  *)

\* A new line in its place.
LEMMA NewLine ==
    ASSUME NEW c, IsSeq(c), NEW n \in People, NEW k \in SigningKeys, NEW kind, NEW body, NEW ts \in {0, 1},
           body # Empty,
           body.name # Nobody => body.name \in People /\ body.key \in SigningKeys,
           kind \in {"system", "control"} => n = Owner /\ k = OwnerKey,
           n = Owner \/ \E j \in 1..Len(c) : Announces(c[j], n)
    PROVE  /\ LineOK(Append(c, Next1(c, n, k, kind, body, ts)), Len(c) + 1)
           /\ kind = "system" => Announces(Next1(c, n, k, kind, body, ts), body.name)
<1> DEFINE m == Next1(c, n, k, kind, body, ts)
           d == Append(c, m)
           prev == IF c = <<>> THEN Genesis ELSE ChainHash(Last(c))
           bare == [seq |-> Len(c) + 1, prev |-> prev, from |-> n, kind |-> kind, body |-> body,
                    ts |-> ts, hash |-> NoHash, gone |-> FALSE, sig |-> Nobody]
<1>1. /\ Len(c) \in Nat /\ d[Len(c) + 1] = m /\ \A i \in 1..Len(c) : d[i] = c[i]
  BY SeqLonger, Zenon
<1>2. m = [bare EXCEPT !.sig = Sig(k, SigningBytes(bare))]
  BY DEF Next1
<1>3. m = [seq |-> Len(c) + 1, prev |-> prev, from |-> n, kind |-> kind, body |-> body,
           ts |-> ts, hash |-> NoHash, gone |-> FALSE, sig |-> Sig(k, SigningBytes(bare))]
  <2> HIDE DEF m, prev
  <2> QED
    BY <1>2
<1>4. SigningBytes(bare) = SigningBytes(m)
  <2> HIDE DEF m, prev
  <2> QED
    BY <1>3 DEF SigningBytes, ContentHash
<1>5. prev = IF Len(c) + 1 = 1 THEN Genesis ELSE ChainHash(d[Len(c)])
  <2>1. PICK S : c \in Seq(S)
    BY DEF IsSeq
  <2>2. c = <<>> <=> Len(c) = 0
    BY <2>1
  <2>3. Len(c) # 0 => Len(c) \in 1..Len(c)
    BY <1>1
  <2>4. c # <<>> => d[Len(c)] = Last(c)
    BY <1>1, <2>2, <2>3 DEF Last
  <2>5. Len(c) + 1 = 1 <=> Len(c) = 0
    BY <1>1
  <2> HIDE DEF d
  <2> QED
    BY <2>2, <2>4, <2>5
<1>6. (Len(c) + 1) - 1 = Len(c)
  BY <1>1
<1> HIDE DEF m, d, bare, prev
<1>7. /\ m.seq = Len(c) + 1 /\ m.prev = prev /\ m.from = n /\ m.kind = kind /\ m.body = body
      /\ m.ts = ts /\ m.hash = NoHash /\ m.gone = FALSE /\ m.sig = Sig(k, SigningBytes(m))
  BY <1>3, <1>4
<1>8. IsLine(m)
  BY <1>3, <1>7 DEF IsLine
<1>9. BodyOK(m)
  BY <1>7 DEF BodyOK
<1>10. m.sig[1] = k
  BY <1>7 DEF Sig
<1>11. n = Owner \/ \E j \in 1..((Len(c) + 1) - 1) : Announces(d[j], n)
  BY <1>1, <1>6
<1>12. LineOK(d, Len(c) + 1)
  <2>1. d[Len(c) + 1].prev = IF Len(c) + 1 = 1 THEN Genesis ELSE ChainHash(d[(Len(c) + 1) - 1])
    BY <1>1, <1>5, <1>6, <1>7
  <2> QED
    BY <1>1, <1>7, <1>8, <1>9, <1>10, <1>11, <2>1 DEF LineOK
<1>13. kind = "system" => Announces(m, body.name)
  BY <1>7 DEF Announces
<1> QED
  BY <1>12, <1>13 DEF d, m

\* Lines that stay where they are stay in order.
LEMMA SameLine ==
    ASSUME NEW c, NEW d, NEW i \in Nat \ {0}, LineOK(c, i), \A j \in 1..i : d[j] = c[j]
    PROVE  LineOK(d, i)
<1>1. d[i] = c[i] /\ (i # 1 => d[i - 1] = c[i - 1]) /\ \A j \in 1..(i - 1) : d[j] = c[j]
  OBVIOUS
<1> QED
  BY <1>1 DEF LineOK

\* Erasing a content changes nothing that is hashed or signed.
LEMMA TombstoneIs ==
    ASSUME NEW m, IsLine(m)
    PROVE  /\ Tombstone(m) = [seq |-> m.seq, prev |-> m.prev, from |-> m.from, kind |-> m.kind,
                              body |-> Empty, ts |-> m.ts, hash |-> ContentHash(m), gone |-> TRUE,
                              sig |-> m.sig]
           /\ IsLine(Tombstone(m)) /\ SigningBytes(Tombstone(m)) = SigningBytes(m)
           /\ ChainHash(Tombstone(m)) = ChainHash(m)
<1>1. Tombstone(m) = [seq |-> m.seq, prev |-> m.prev, from |-> m.from, kind |-> m.kind,
                      body |-> Empty, ts |-> m.ts, hash |-> ContentHash(m), gone |-> TRUE,
                      sig |-> m.sig]
  <2>1. PICK q, p, f, k, b, t, h, g, s :
          m = [seq |-> q, prev |-> p, from |-> f, kind |-> k, body |-> b, ts |-> t, hash |-> h,
               gone |-> g, sig |-> s]
    BY DEF IsLine
  <2>2. PICK a1 : a1 = [m EXCEPT !.body = Empty]
    OBVIOUS
  <2>3. PICK a2 : a2 = [a1 EXCEPT !.gone = TRUE]
    OBVIOUS
  <2>4. Tombstone(m) = [a2 EXCEPT !.hash = ContentHash(m)]
    BY <2>2, <2>3, Zenon DEF Tombstone
  <2>5. m.seq = q /\ m.prev = p /\ m.from = f /\ m.kind = k /\ m.ts = t /\ m.sig = s
    BY <2>1
  <2>6. a1 = [seq |-> q, prev |-> p, from |-> f, kind |-> k, body |-> Empty, ts |-> t, hash |-> h,
              gone |-> g, sig |-> s]
    BY <2>1, <2>2
  <2>7. a2 = [seq |-> q, prev |-> p, from |-> f, kind |-> k, body |-> Empty, ts |-> t, hash |-> h,
              gone |-> TRUE, sig |-> s]
    BY <2>3, <2>6
  <2> QED
    BY <2>4, <2>5, <2>7
<1>2. ContentHash(m) # NoHash
  BY DEF ContentHash, Hash, NoHash
<1>3. ContentHash(Tombstone(m)) = ContentHash(m)
  <2> HIDE DEF Tombstone
  <2>1. Tombstone(m).hash = ContentHash(m)
    BY <1>1
  <2> QED
    BY <1>2, <2>1, Zenon DEF ContentHash
<1>4. SigningBytes(Tombstone(m)) = SigningBytes(m)
  BY <1>1, <1>3 DEF SigningBytes
<1>5. ChainHash(Tombstone(m)) = ChainHash(m)
  BY <1>1, <1>4 DEF ChainHash, Envelope
<1>6. IsLine(Tombstone(m))
  BY <1>1 DEF IsLine
<1> QED
  BY <1>1, <1>4, <1>5, <1>6

LEMMA ExplicitIs ==
    ASSUME NEW m, IsLine(m)
    PROVE  /\ Explicit(m) = [seq |-> m.seq, prev |-> m.prev, from |-> m.from, kind |-> m.kind,
                             body |-> m.body, ts |-> m.ts, hash |-> ContentHash(m), gone |-> m.gone,
                             sig |-> m.sig]
           /\ IsLine(Explicit(m)) /\ SigningBytes(Explicit(m)) = SigningBytes(m)
           /\ ChainHash(Explicit(m)) = ChainHash(m)
<1>1. Explicit(m) = [seq |-> m.seq, prev |-> m.prev, from |-> m.from, kind |-> m.kind,
                     body |-> m.body, ts |-> m.ts, hash |-> ContentHash(m), gone |-> m.gone,
                     sig |-> m.sig]
  BY DEF Explicit, IsLine
<1>2. ContentHash(m) # NoHash
  BY DEF ContentHash, Hash, NoHash
<1>3. ContentHash(Explicit(m)) = ContentHash(m)
  <2>1. Explicit(m).hash = ContentHash(m)
    BY <1>1
  <2> QED
    BY <1>2, <2>1, Zenon DEF ContentHash
<1>4. SigningBytes(Explicit(m)) = SigningBytes(m)
  BY <1>1, <1>3 DEF SigningBytes
<1>5. ChainHash(Explicit(m)) = ChainHash(m)
  BY <1>1, <1>4 DEF ChainHash, Envelope
<1>6. IsLine(Explicit(m))
  BY <1>1 DEF IsLine
<1> QED
  BY <1>1, <1>4, <1>5, <1>6

-----------------------------------------------------------------------------
(* The room's steps.                                                       *)

RoomOK == ChainOK /\ NamesOK

\* One more line, which says who joined if anybody did.
LEMMA OneMoreLine ==
    ASSUME RoomOK, NEW n \in People, NEW k \in SigningKeys, NEW kind, NEW body, NEW ts \in {0, 1},
           body # Empty,
           body.name # Nobody => body.name \in People /\ body.key \in SigningKeys,
           kind \in {"system", "control"} => n = Owner /\ k = OwnerKey,
           n = Owner \/ \E j \in 1..Len(chain) : Announces(chain[j], n),
           chain' = Append(chain, Next1(chain, n, k, kind, body, ts))
    PROVE  /\ ChainOK'
           /\ \A p \in People : (\E j \in 1..Len(chain) : Announces(chain[j], p))
                                => \E j \in 1..Len(chain') : Announces(chain'[j], p)
           /\ kind = "system" => \E j \in 1..Len(chain') : Announces(chain'[j], body.name)
<1>1. IsSeq(chain) /\ Len(chain) \in Nat /\ \A i \in 1..Len(chain) : LineOK(chain, i)
  BY DEF RoomOK, ChainOK
<1> DEFINE m == Next1(chain, n, k, kind, body, ts)
<1>2. LineOK(Append(chain, m), Len(chain) + 1) /\ (kind = "system" => Announces(m, body.name))
  BY <1>1, NewLine, Zenon
<1> HIDE DEF m
<1>3. chain' = Append(chain, m)
  BY DEF m
<1>4. /\ IsSeq(chain') /\ Len(chain') = Len(chain) + 1 /\ chain'[Len(chain) + 1] = m
      /\ \A i \in 1..Len(chain) : chain'[i] = chain[i]
  <2>1. /\ Len(Append(chain, m)) = Len(chain) + 1 /\ Append(chain, m)[Len(chain) + 1] = m
        /\ IsSeq(Append(chain, m)) /\ \A i \in 1..Len(chain) : Append(chain, m)[i] = chain[i]
    BY <1>1, SeqLonger, Zenon
  <2> QED
    BY <1>3, <2>1, Zenon
<1>5. ASSUME NEW i \in 1..Len(chain')
      PROVE  LineOK(chain', i)
  <2>1. CASE i = Len(chain) + 1
    BY <1>2, <1>3, <2>1
  <2>2. CASE i # Len(chain) + 1
    <3>1. i \in 1..Len(chain) /\ i \in Nat \ {0} /\ \A j \in 1..i : j \in 1..Len(chain)
      BY <1>1, <1>4, <2>2
    <3>2. LineOK(chain, i) /\ \A j \in 1..i : chain'[j] = chain[j]
      BY <1>1, <1>4, <3>1
    <3> QED
      BY <3>1, <3>2, SameLine
  <2> QED
    BY <2>1, <2>2
<1>6. ChainOK'
  BY <1>1, <1>4, <1>5 DEF ChainOK, IsSeq
<1>7. \A j \in 1..Len(chain) : j \in 1..Len(chain')
  BY <1>1, <1>4
<1>8. Len(chain) + 1 \in 1..Len(chain')
  BY <1>1, <1>4
<1> QED
  BY <1>2, <1>4, <1>6, <1>7, <1>8

LEMMA BodiesThere ==
    /\ \A n, k : AboutMember(n, k) # Empty /\ AboutMember(n, k).name = n /\ AboutMember(n, k).key = k
    /\ \A t \in {"hello", "revoke", "hold"} : Text(t) # Empty /\ Text(t).name = Nobody
BY AuditAssumption DEF AboutMember, Text, Empty

LEMMA RoomStart == AuditInit => RoomOK
<1> SUFFICES ASSUME AuditInit
             PROVE  RoomOK
  OBVIOUS
<1> DEFINE m == Next1(<<>>, Owner, OwnerKey, "system", AboutMember(Owner, OwnerKey), 0)
<1>1. chain = <<m>>
  BY DEF AuditInit, Notice
<1> HIDE DEF m
<1>2. Append(<<>>, m) = <<m>>
  OBVIOUS
<1>3. IsSeq(<<>>) /\ Len(<<>>) = 0
  <2>1. <<>> \in Seq({}) /\ Len(<<>>) = 0
    OBVIOUS
  <2> QED
    BY <2>1, Zenon DEF IsSeq
<1>4. LineOK(Append(<<>>, m), Len(<<>>) + 1)
  <2>1. /\ AboutMember(Owner, OwnerKey) # Empty /\ AboutMember(Owner, OwnerKey).name = Owner
        /\ AboutMember(Owner, OwnerKey).key = OwnerKey
        /\ Owner \in People /\ OwnerKey \in SigningKeys /\ 0 \in {0, 1}
    BY BodiesThere, AuditAssumption
  <2> QED
    BY <1>3, <2>1, NewLine, Zenon DEF m
<1>5. LineOK(chain, 1)
  BY <1>1, <1>2, <1>3, <1>4
<1>6. IsSeq(chain) /\ Len(chain) = 1
  <2>1. chain \in Seq({m}) /\ Len(chain) = 1
    BY <1>1
  <2> QED
    BY <2>1 DEF IsSeq
<1>7. ChainOK
  BY <1>5, <1>6 DEF ChainOK
<1>8. NamesOK
  <2>1. /\ names = [n \in People |-> [key |-> IF n = Owner THEN OwnerKey ELSE Nobody, revoked |-> FALSE]]
        /\ later = FALSE
    BY DEF AuditInit
  <2>2. \A n \in People : names[n] = [key |-> IF n = Owner THEN OwnerKey ELSE Nobody, revoked |-> FALSE]
    BY <2>1
  <2>3. ASSUME NEW n \in People
        PROVE  names[n].key = Nobody \/ n = Owner
    <3>1. names[n] = [key |-> IF n = Owner THEN OwnerKey ELSE Nobody, revoked |-> FALSE]
      BY <2>2
    <3>2. names[n].key = IF n = Owner THEN OwnerKey ELSE Nobody
      BY <3>1
    <3> QED
      BY <3>2, Zenon
  <2>4. names[Owner] = [key |-> OwnerKey, revoked |-> FALSE]
    BY <2>2, AuditAssumption
  <2>5. names \in [People -> [key : SigningKeys \cup {Nobody}, revoked : BOOLEAN]]
    BY <2>1, AuditAssumption
  <2> QED
    BY <2>1, <2>3, <2>4, <2>5 DEF NamesOK
<1> QED
  BY <1>7, <1>8 DEF RoomOK

LEMMA GrowingKeeps ==
    ASSUME RoomOK, Growing
    PROVE  RoomOK'
<1>0. ChainOK /\ NamesOK /\ Now \in {0, 1}
  BY DEF RoomOK, NamesOK, Now
<1>1. /\ names \in [People -> [key : SigningKeys \cup {Nobody}, revoked : BOOLEAN]]
      /\ names[Owner] = [key |-> OwnerKey, revoked |-> FALSE] /\ later \in BOOLEAN
      /\ OwnerKey \in SigningKeys /\ Owner \in People /\ Nobody \notin SigningKeys /\ Nobody \notin People
      /\ \A n \in People : names[n].key = Nobody \/ n = Owner
                           \/ \E j \in 1..Len(chain) : Announces(chain[j], n)
  BY <1>0, AuditAssumption DEF NamesOK
<1>2. ASSUME NEW n \in People, NEW k \in SigningKeys, NameJoins(n, k)
      PROVE  RoomOK'
  <2>1. /\ chain' = Append(chain, Next1(chain, Owner, OwnerKey, "system", AboutMember(n, k), Now))
        /\ names' = [names EXCEPT ![n] = [key |-> k, revoked |-> FALSE]]
        /\ later' = later /\ ~Named(n)
    BY <1>2 DEF NameJoins, Place, Notice
  <2>2. AboutMember(n, k) # Empty /\ AboutMember(n, k).name = n /\ AboutMember(n, k).key = k
    BY BodiesThere
  <2>3. /\ ChainOK'
        /\ \A p \in People : (\E j \in 1..Len(chain) : Announces(chain[j], p))
                             => \E j \in 1..Len(chain') : Announces(chain'[j], p)
        /\ \E j \in 1..Len(chain') : Announces(chain'[j], n)
    <3>1. /\ ChainOK'
          /\ \A p \in People : (\E j \in 1..Len(chain) : Announces(chain[j], p))
                               => \E j \in 1..Len(chain') : Announces(chain'[j], p)
          /\ \E j \in 1..Len(chain') : Announces(chain'[j], AboutMember(n, k).name)
      <4>1. /\ AboutMember(n, k).name # Nobody => AboutMember(n, k).name \in People /\ AboutMember(n, k).key \in SigningKeys
            /\ "system" \in {"system", "control"} => Owner = Owner /\ OwnerKey = OwnerKey
        BY <2>2
      <4> QED
        BY <1>0, <1>1, <2>1, <2>2, <4>1, OneMoreLine, Zenon
    <3> QED
      BY <2>2, <3>1
  <2>4. n # Owner
    BY <1>1, <2>1 DEF Named
  <2>5. NamesOK'
    <3>1. names' \in [People -> [key : SigningKeys \cup {Nobody}, revoked : BOOLEAN]]
      BY <1>1, <2>1
    <3>2. names'[Owner] = [key |-> OwnerKey, revoked |-> FALSE]
      BY <1>1, <2>1, <2>4
    <3>3. \A p \in People : p # n => names'[p] = names[p]
      BY <1>1, <2>1
    <3>4. later' \in BOOLEAN
      BY <1>1, <2>1
    <3>5. \A p \in People : names'[p].key = Nobody \/ p = Owner
                            \/ \E j \in 1..Len(chain') : Announces(chain'[j], p)
      BY <1>1, <2>3, <3>3, Zenon
    <3> QED
      BY <3>1, <3>2, <3>4, <3>5 DEF NamesOK, Announces
  <2> QED
    BY <2>3, <2>5 DEF RoomOK
<1>3. ASSUME NEW n \in People, NEW ts \in 0..1, Say(n, ts)
      PROVE  RoomOK'
  <2>1. /\ chain' = Append(chain, Next1(chain, n, names[n].key, "chat", Text("hello"), ts))
        /\ names' = names /\ later' = later /\ Named(n)
    BY <1>3 DEF Say, Place
  <2>2. /\ Text("hello") # Empty /\ Text("hello").name = Nobody /\ ts \in {0, 1}
        /\ names[n].key \in SigningKeys /\ "chat" \notin {"system", "control"}
        /\ n = Owner \/ \E j \in 1..Len(chain) : Announces(chain[j], n)
    BY <1>1, <2>1, BodiesThere DEF Named
  <2>3. /\ ChainOK'
        /\ \A p \in People : (\E j \in 1..Len(chain) : Announces(chain[j], p))
                             => \E j \in 1..Len(chain') : Announces(chain'[j], p)
    BY <2>1, <2>2, OneMoreLine, Zenon
  <2>4. NamesOK'
    BY <1>1, <2>1, <2>3 DEF NamesOK, Announces
  <2> QED
    BY <2>3, <2>4 DEF RoomOK
<1>4. ASSUME NEW t \in {"revoke", "hold"}, Control(t),
             names' \in [People -> [key : SigningKeys \cup {Nobody}, revoked : BOOLEAN]],
             names'[Owner] = names[Owner], \A n \in People : names'[n].key = names[n].key,
             later' = later
      PROVE  RoomOK'
  <2>1. chain' = Append(chain, Next1(chain, Owner, OwnerKey, "control", Text(t), Now))
    BY <1>4 DEF Control, Place
  <2>2. Text(t) # Empty /\ Text(t).name = Nobody
    BY BodiesThere
  <2>3. /\ ChainOK'
        /\ \A p \in People : (\E j \in 1..Len(chain) : Announces(chain[j], p))
                             => \E j \in 1..Len(chain') : Announces(chain'[j], p)
    BY <1>0, <1>1, <2>1, <2>2, OneMoreLine, Zenon
  <2>4. \A p \in People : names'[p].key = Nobody \/ p = Owner
                          \/ \E j \in 1..Len(chain') : Announces(chain'[j], p)
    BY <1>1, <1>4, <2>3
  <2>5. NamesOK'
    BY <1>1, <1>4, <2>4 DEF NamesOK, Announces
  <2> QED
    BY <2>3, <2>5 DEF RoomOK
<1>5. ASSUME NEW n \in People, NameRevoked(n)
      PROVE  RoomOK'
  <2>1. Control("revoke") /\ names' = [names EXCEPT ![n].revoked = TRUE] /\ n # Owner /\ later' = later
    BY <1>5 DEF NameRevoked
  <2>2. \A p \in People : names'[p] = IF p = n THEN [names[n] EXCEPT !.revoked = TRUE] ELSE names[p]
    BY <1>1, <2>1
  <2>3. [names[n] EXCEPT !.revoked = TRUE].key = names[n].key
    BY <1>1
  <2>4. names' \in [People -> [key : SigningKeys \cup {Nobody}, revoked : BOOLEAN]]
    BY <1>1, <2>1
  <2>5. names'[Owner] = names[Owner]
    BY <1>1, <2>1, <2>2
  <2>6. \A p \in People : names'[p].key = names[p].key
    BY <2>2, <2>3
  <2> QED
    BY <1>4, <2>1, <2>4, <2>5, <2>6
<1>6. CASE Hold
  BY <1>1, <1>4, <1>6 DEF Hold
<1>7. CASE DaysPass
  <2>1. UNCHANGED <<chain, names>> /\ later' = TRUE
    BY <1>7 DEF DaysPass
  <2> QED
    BY <1>0, <2>1 DEF RoomOK, ChainOK, NamesOK, IsSeq, Announces
<1>8. CASE Retain
  <2> DEFINE kept(i) == IF chain[i].ts = 0 /\ ~chain[i].gone THEN Tombstone(chain[i]) ELSE chain[i]
  <2>1. chain' = [i \in DOMAIN chain |-> kept(i)] /\ names' = names /\ later' = later
    BY <1>8 DEF Retain
  <2>2. DOMAIN chain = 1..Len(chain) /\ Len(chain) \in Nat /\ \A i \in 1..Len(chain) : LineOK(chain, i)
    BY <1>0, SeqLonger DEF ChainOK
  <2>3. \A i \in 1..Len(chain) : chain'[i] = kept(i)
    BY <2>1, <2>2
  <2>4. IsSeq(chain') /\ Len(chain') = Len(chain)
    <3>1. chain' = [i \in 1..Len(chain) |-> chain'[i]]
      BY <2>1, <2>2
    <3> QED
      BY <2>2, <3>1, SeqOfItsValues, Zenon
  <2>5. ASSUME NEW i \in 1..Len(chain)
        PROVE  /\ chain'[i].seq = chain[i].seq /\ chain'[i].prev = chain[i].prev
               /\ chain'[i].from = chain[i].from /\ chain'[i].kind = chain[i].kind
               /\ chain'[i].ts = chain[i].ts /\ chain'[i].sig = chain[i].sig
               /\ chain'[i].gone \in BOOLEAN
               /\ SigningBytes(chain'[i]) = SigningBytes(chain[i])
               /\ ChainHash(chain'[i]) = ChainHash(chain[i])
               /\ IsLine(chain'[i]) /\ BodyOK(chain'[i])
               /\ chain'[i].body.name # Nobody => chain'[i].body = chain[i].body
               /\ \A n : Announces(chain[i], n) => Announces(chain'[i], n)
    <3>1. LineOK(chain, i)
      BY <2>2
    <3>2. CASE chain[i].ts = 0 /\ ~chain[i].gone
      <4>1. chain'[i] = Tombstone(chain[i])
        BY <2>3, <3>2
      <4>2. IsLine(chain[i]) /\ BodyOK(chain[i])
        BY <3>1 DEF LineOK
      <4> DEFINE m == chain[i]
                 d == chain'[i]
      <4>3. /\ d = [seq |-> m.seq, prev |-> m.prev, from |-> m.from, kind |-> m.kind,
                    body |-> Empty, ts |-> m.ts, hash |-> ContentHash(m), gone |-> TRUE, sig |-> m.sig]
            /\ IsLine(d) /\ SigningBytes(d) = SigningBytes(m) /\ ChainHash(d) = ChainHash(m)
        BY <4>1, <4>2, TombstoneIs, Zenon
      <4>4. BodyOK(m) /\ ~m.gone
        BY <3>2, <4>2
      <4> HIDE DEF m, d
      <4>5. /\ d.seq = m.seq /\ d.prev = m.prev /\ d.from = m.from /\ d.kind = m.kind /\ d.ts = m.ts
            /\ d.sig = m.sig /\ d.gone = TRUE /\ d.body = Empty /\ d.hash = ContentHash(m)
        BY <4>3
      <4>6. BodyOK(d)
        <5>1. m.body # Empty /\ ContentHash(m) = Hash(m.body)
          BY <4>4 DEF BodyOK, ContentHash
        <5> QED
          BY <4>5, <5>1 DEF BodyOK
      <4>7. d.body.name = Nobody
        BY <4>5 DEF Empty, Text
      <4>8. \A n : Announces(m, n) => Announces(d, n)
        BY <4>5 DEF Announces
      <4> QED
        BY <4>3, <4>5, <4>6, <4>7, <4>8 DEF m, d
    <3>3. CASE ~(chain[i].ts = 0 /\ ~chain[i].gone)
      <4>1. chain'[i] = chain[i]
        BY <2>3, <3>3
      <4> QED
        BY <3>1, <4>1 DEF LineOK
    <3> QED
      BY <3>2, <3>3
  <2>6. ASSUME NEW i \in 1..Len(chain)
        PROVE  LineOK(chain', i)
    <3>1. LineOK(chain, i)
      BY <2>2
    <3>2. i # 1 => i - 1 \in 1..Len(chain) /\ ChainHash(chain'[i - 1]) = ChainHash(chain[i - 1])
      <4>1. i # 1 => i - 1 \in 1..Len(chain)
        BY <2>2
      <4> QED
        BY <2>5, <4>1
    <3>3. \A j \in 1..(i - 1) : j \in 1..Len(chain)
      BY <2>2
    <3>4. chain'[i].from = Owner \/ \E j \in 1..(i - 1) : Announces(chain'[j], chain'[i].from)
      <4>1. chain[i].from = Owner \/ \E j \in 1..(i - 1) : Announces(chain[j], chain[i].from)
        BY <3>1 DEF LineOK
      <4>2. chain'[i].from = chain[i].from
        BY <2>5
      <4> QED
        BY <2>5, <3>3, <4>1, <4>2
    <3>5. chain'[i].prev = IF i = 1 THEN Genesis ELSE ChainHash(chain'[i - 1])
      BY <2>5, <3>1, <3>2 DEF LineOK
    <3>6. chain'[i].body.name # Nobody => chain'[i].body.name \in People /\ chain'[i].body.key \in SigningKeys
      BY <2>5, <3>1 DEF LineOK
    <3> QED
      BY <2>5, <3>1, <3>4, <3>5, <3>6 DEF LineOK
  <2>7. ChainOK'
    BY <2>2, <2>4, <2>6 DEF ChainOK, IsSeq
  <2>8. NamesOK'
    <3>1. \A n : (\E j \in 1..Len(chain) : Announces(chain[j], n))
               => \E j \in 1..Len(chain') : Announces(chain'[j], n)
      BY <2>4, <2>5
    <3>2. \A n \in People : \/ names[n].key = Nobody
                            \/ n = Owner
                            \/ \E j \in 1..Len(chain') : Announces(chain'[j], n)
      BY <1>1, <3>1, Zenon
    <3>3. \A n \in People : \/ names'[n].key = Nobody
                            \/ n = Owner
                            \/ \E j \in 1..Len(chain') : Announces(chain'[j], n)
      BY <2>1, <3>2, Zenon
    <3>4. /\ names' \in [People -> [key : SigningKeys \cup {Nobody}, revoked : BOOLEAN]]
          /\ names'[Owner] = [key |-> OwnerKey, revoked |-> FALSE] /\ later' \in BOOLEAN
      BY <1>1, <2>1
    <3> QED
      BY <3>3, <3>4 DEF NamesOK, Announces
  <2> QED
    BY <2>7, <2>8 DEF RoomOK
<1> QED
  BY <1>2, <1>3, <1>5, <1>6, <1>7, <1>8 DEF Growing

LEMMA RoomSteps == RoomOK /\ [AuditNext]_auditVars => RoomOK'
<1> SUFFICES ASSUME RoomOK, [AuditNext]_auditVars
             PROVE  RoomOK'
  OBVIOUS
<1>1. CASE Growing
  BY <1>1, GrowingKeeps
<1>2. CASE UNCHANGED <<chain, names, hold, later>>
  BY <1>2 DEF RoomOK, ChainOK, NamesOK, IsSeq, LineOK, IsLine, BodyOK, Announces
<1> QED
  BY <1>1, <1>2 DEF AuditNext, auditVars, Export, Damage, Discard

-----------------------------------------------------------------------------
(* What is exported.                                                       *)

\* A line of a file: its hash is that of the content which is there, or of one which was.
FileLine(m) ==
    /\ IsLine(m) /\ m.gone \in BOOLEAN /\ m.ts \in {0, 1} /\ m.seq \in Nat
    /\ m.hash # NoHash
    /\ IF m.gone THEN m.body = Empty /\ m.hash # Hash(Empty)
       ELSE m.body # Empty /\ m.hash = Hash(m.body)

FileOK(b) ==
    /\ b = [head |-> b.head, lines |-> b.lines]
    /\ IsSeq(b.lines) /\ Len(b.lines) \in Nat
    /\ \A i \in 1..Len(b.lines) : FileLine(b.lines[i])
    /\ b.head.count = Len(b.lines) /\ b.head.hash = MessagesHash(b.lines)

LEMMA HashInjective == \A x, y : Hash(x) = Hash(y) => x = y
BY DEF Hash

LEMMA FileLineIs ==
    ASSUME NEW c, NEW i \in Nat, LineOK(c, i)
    PROVE  FileLine(Explicit(c[i]))
<1> DEFINE m == c[i]
           e == Explicit(m)
<1>1. /\ IsLine(m) /\ BodyOK(m) /\ m.gone \in BOOLEAN /\ m.ts \in {0, 1} /\ m.seq = i
  BY DEF LineOK
<1>2. /\ e = [seq |-> m.seq, prev |-> m.prev, from |-> m.from, kind |-> m.kind,
              body |-> m.body, ts |-> m.ts, hash |-> ContentHash(m), gone |-> m.gone, sig |-> m.sig]
      /\ IsLine(e)
  BY <1>1, ExplicitIs, Zenon
<1> HIDE DEF m, e
<1>3. e.gone = m.gone /\ e.ts = m.ts /\ e.seq = m.seq /\ e.body = m.body /\ e.hash = ContentHash(m)
  BY <1>2
<1>4. ContentHash(m) # NoHash
  BY DEF ContentHash, Hash, NoHash
<1>5. CASE m.gone
  <2>1. m.body = Empty /\ \E x : x # Empty /\ m.hash = Hash(x)
    BY <1>1, <1>5, Zenon DEF BodyOK
  <2>2. PICK x : x # Empty /\ m.hash = Hash(x)
    BY <2>1
  <2>3. m.hash # NoHash
    BY <2>2 DEF Hash, NoHash
  <2>4. ContentHash(m) = Hash(x)
    BY <2>2, <2>3 DEF ContentHash
  <2>5. e.hash # Hash(Empty)
    BY <1>3, <2>2, <2>4, HashInjective
  <2> QED
    BY <1>1, <1>2, <1>3, <1>4, <1>5, <2>1, <2>5, Zenon DEF FileLine, e, m
<1>6. CASE ~m.gone
  <2>1. m.body # Empty /\ m.hash = NoHash
    BY <1>1, <1>6, Zenon DEF BodyOK
  <2>2. ContentHash(m) = Hash(m.body)
    BY <2>1 DEF ContentHash
  <2> QED
    BY <1>1, <1>2, <1>3, <1>4, <1>6, <2>1, <2>2, Zenon DEF FileLine, e, m
<1> QED
  BY <1>5, <1>6

LEMMA BundleIs ==
    ASSUME RoomOK, NEW n \in People, NEW k \in Nat, NEW at \in [1..k -> 1..Len(chain)]
    PROVE  /\ FileOK(Bundle(n, at)) /\ Len(Bundle(n, at).lines) = k
           /\ \A i \in 1..k : Bundle(n, at).lines[i] = Explicit(chain[at[i]])
           /\ Bundle(n, at).head.members = [m \in People |-> names[m].key]
           /\ Bundle(n, at).head.by = names[n].key
           /\ Bundle(n, at).head.sig = Sig(Bundle(n, at).head.by, [Bundle(n, at).head EXCEPT !.sig = Nobody])
<1> DEFINE lines == [i \in DOMAIN at |-> Explicit(chain[at[i]])]
           table == [m \in People |-> names[m].key]
           bare  == [members |-> table, by |-> names[n].key, count |-> Len(lines), hash |-> MessagesHash(lines),
                     sig |-> Nobody]
           sig   == Sig(names[n].key, bare)
           b     == Bundle(n, at)
<1>1. b = [head |-> [bare EXCEPT !.sig = sig], lines |-> lines]
  BY Zenon DEF Bundle, Header
<1>2. lines = [i \in 1..k |-> lines[i]] /\ \A i \in 1..k : lines[i] = Explicit(chain[at[i]])
  OBVIOUS
<1> HIDE DEF lines
<1>3. IsSeq(lines) /\ Len(lines) = k
  BY <1>2, SeqOfItsValues, Zenon
<1>4. \A i \in 1..k : FileLine(lines[i])
  <2>1. \A i \in 1..k : at[i] \in 1..Len(chain)
    OBVIOUS
  <2>2. \A p \in 1..Len(chain) : LineOK(chain, p) /\ p \in Nat
    BY DEF RoomOK, ChainOK
  <2> QED
    BY <1>2, <2>1, <2>2, FileLineIs
<1>5. PICK h, c : h = MessagesHash(lines) /\ c = Len(lines)
  OBVIOUS
<1>6. PICK ks, by : ks = table /\ by = names[n].key
  OBVIOUS
<1>7. bare = [members |-> ks, by |-> by, count |-> c, hash |-> h, sig |-> Nobody]
  BY <1>5, <1>6
<1> HIDE DEF bare, sig, b, table
<1>8. b.head = [members |-> ks, by |-> by, count |-> c, hash |-> h, sig |-> sig] /\ b.lines = lines
      /\ b = [head |-> b.head, lines |-> b.lines]
  BY <1>1, <1>7
<1>9. b.head.members = ks /\ b.head.by = by /\ b.head.count = c /\ b.head.hash = h /\ b.head.sig = sig
  BY <1>8
<1>10. [b.head EXCEPT !.sig = Nobody] = bare
  BY <1>7, <1>8
<1>11. FileOK(b)
  BY <1>3, <1>4, <1>5, <1>8, <1>9 DEF FileOK
<1>12. b.head.sig = Sig(b.head.by, [b.head EXCEPT !.sig = Nobody])
  BY <1>6, <1>9, <1>10, Zenon DEF sig
<1> QED
  BY <1>2, <1>3, <1>6, <1>8, <1>9, <1>11, <1>12, Zenon DEF b, table

-----------------------------------------------------------------------------
(* What is changed.                                                        *)

LEMMA TroubleIs ==
    ASSUME NEW b
    PROVE  /\ HeaderTrouble(b) \subseteq Trouble(b)
           /\ \A i \in DOMAIN b.lines : ContentTrouble(b.lines[i]) \subseteq Trouble(b)
BY DEF Trouble

\* A line lost or written twice is missed by the count.
LEMMA CountTells ==
    ASSUME NEW b, Len(b.lines) # b.head.count
    PROVE  Trouble(b) # {}
<1>1. "count" \in HeaderTrouble(b)
  BY DEF HeaderTrouble
<1> QED
  BY <1>1, TroubleIs

LEMMA OtherLengths ==
    ASSUME NEW s, IsSeq(s), NEW i \in 1..Len(s)
    PROVE  Len(RemoveAt(s, i)) # Len(s) /\ Len(InsertAt(s, i, s[i])) # Len(s)
<1>1. PICK S : s \in Seq(S)
  BY DEF IsSeq
<1>2. PICK n \in Nat : n = Len(s) /\ i \in 1..n
  BY <1>1
<1>3. s[i] \in S
  BY <1>1
<1>4. SubSeq(s, 1, i - 1) \in Seq(S) /\ Len(SubSeq(s, 1, i - 1)) = i - 1
  BY <1>1, <1>2
<1>5. SubSeq(s, i + 1, n) \in Seq(S) /\ Len(SubSeq(s, i + 1, n)) = n - i
  BY <1>1, <1>2
<1>6. SubSeq(s, i, n) \in Seq(S) /\ Len(SubSeq(s, i, n)) = n - i + 1
  BY <1>1, <1>2
<1>7. <<s[i]>> \in Seq(S) /\ Len(<<s[i]>>) = 1
  BY <1>3
<1>8. \A a, c \in Seq(S) : a \o c \in Seq(S) /\ Len(a \o c) = Len(a) + Len(c)
  OBVIOUS
<1>9. Len(RemoveAt(s, i)) = (i - 1) + (n - i)
  BY <1>2, <1>4, <1>5, <1>8 DEF RemoveAt
<1>10. Len(InsertAt(s, i, s[i])) = (i - 1) + 1 + (n - i + 1)
  BY <1>2, <1>4, <1>6, <1>7, <1>8 DEF InsertAt
<1> QED
  BY <1>2, <1>9, <1>10

\* Two lines of one chain hash are alike in everything but body and mark.
LEMMA SameChainHash ==
    ASSUME NEW m, NEW l, ChainHash(m) = ChainHash(l)
    PROVE  /\ m.seq = l.seq /\ m.from = l.from /\ m.kind = l.kind /\ m.ts = l.ts
           /\ ContentHash(m) = ContentHash(l)
<1>1. Envelope(m) = Envelope(l)
  BY HashInjective, Zenon DEF ChainHash
<1>2. m.seq = l.seq /\ SigningBytes(m) = SigningBytes(l)
  BY <1>1 DEF Envelope
<1> QED
  BY <1>2 DEF SigningBytes

\* So a line is told by its hash, or by what is left of its content.
LEMMA LineTells ==
    ASSUME NEW b, NEW c, FileOK(b), c.head = b.head,
           NEW i \in 1..Len(b.lines), NEW m,
           c.lines = [b.lines EXCEPT ![i] = m]
    PROVE  \/ Trouble(c) # {}
           \/ ChainHash(m) = ChainHash(b.lines[i]) /\ ContentTrouble(m) = {}
<1>1. PICK l : l = b.lines
  OBVIOUS
<1>2. IsSeq(l) /\ i \in 1..Len(l) /\ c.lines = [l EXCEPT ![i] = m] /\ b.head.hash = MessagesHash(l)
  BY <1>1 DEF FileOK
<1>3. PICK S : l \in Seq(S)
  BY <1>2 DEF IsSeq
<1>4. DOMAIN l = 1..Len(l) /\ DOMAIN c.lines = 1..Len(l) /\ c.lines[i] = m
  BY <1>2, <1>3
<1>5. CASE MessagesHash(c.lines) # c.head.hash
  <2>1. "hash" \in HeaderTrouble(c)
    BY <1>5 DEF HeaderTrouble
  <2> QED
    BY <2>1, TroubleIs
<1>6. CASE MessagesHash(c.lines) = c.head.hash
  <2>1. MessagesHash(c.lines) = MessagesHash(l)
    BY <1>2, <1>6
  <2>2. [j \in DOMAIN c.lines |-> ChainHash(c.lines[j])] = [j \in DOMAIN l |-> ChainHash(l[j])]
    BY <2>1, HashInjective, Zenon DEF MessagesHash
  <2>3. [j \in DOMAIN c.lines |-> ChainHash(c.lines[j])][i] = ChainHash(c.lines[i])
    BY <1>2, <1>4
  <2>4. [j \in DOMAIN l |-> ChainHash(l[j])][i] = ChainHash(l[i])
    BY <1>2, <1>4
  <2>5. ChainHash(m) = ChainHash(l[i])
    BY <1>4, <2>2, <2>3, <2>4
  <2>6. ContentTrouble(c.lines[i]) \subseteq Trouble(c)
    BY <1>2, <1>4, TroubleIs
  <2> QED
    BY <1>1, <1>4, <2>5, <2>6
<1> QED
  BY <1>5, <1>6

\* What one line may be changed to.
Edits(l) ==
    {[l EXCEPT !.body = Text("changed")]}
    \cup {[l EXCEPT !.from = n] : n \in People}
    \cup {[l EXCEPT !.kind = t] : t \in {"chat", "control"}}
    \cup {[l EXCEPT !.ts = 1 - @], [l EXCEPT !.seq = @ + 1], [l EXCEPT !.gone = ~@]}

LEMMA EditTells ==
    ASSUME NEW b, NEW c, FileOK(b), c.head = b.head,
           NEW i \in 1..Len(b.lines), NEW m, m # b.lines[i],
           c.lines = [b.lines EXCEPT ![i] = m],
           m \in Edits(b.lines[i])
    PROVE  Trouble(c) # {}
<1>1. PICK l : l = b.lines[i]
  OBVIOUS
<1>2. FileLine(l) /\ m # l
  BY <1>1 DEF FileOK
<1>3. l = [seq |-> l.seq, prev |-> l.prev, from |-> l.from, kind |-> l.kind, body |-> l.body,
           ts |-> l.ts, hash |-> l.hash, gone |-> l.gone, sig |-> l.sig]
  BY <1>2 DEF FileLine, IsLine
<1>4. PICK q, p, f, k, b2, t, h, g, s :
        /\ l = [seq |-> q, prev |-> p, from |-> f, kind |-> k, body |-> b2, ts |-> t, hash |-> h,
                gone |-> g, sig |-> s]
        /\ q \in Nat /\ t \in {0, 1} /\ g \in BOOLEAN /\ h # NoHash
        /\ IF g THEN b2 = Empty /\ h # Hash(Empty) ELSE b2 # Empty /\ h = Hash(b2)
  BY <1>2, <1>3 DEF FileLine
<1>0. Trouble(c) # {} \/ (ChainHash(m) = ChainHash(b.lines[i]) /\ ContentTrouble(m) = {})
  BY LineTells, Zenon
<1> SUFFICES ASSUME ChainHash(m) = ChainHash(b.lines[i])
             PROVE  ContentTrouble(m) # {}
  BY <1>0, Zenon
<1>5. m.seq = l.seq /\ m.from = l.from /\ m.kind = l.kind /\ m.ts = l.ts
  BY <1>1, SameChainHash
<1>6. CASE m = [l EXCEPT !.body = Text("changed")]
  <2>1. m = [seq |-> q, prev |-> p, from |-> f, kind |-> k, body |-> Text("changed"), ts |-> t, hash |-> h,
             gone |-> g, sig |-> s]
    BY <1>4, <1>6
  <2>2. m.gone = g /\ m.body = Text("changed") /\ m.hash = h /\ Text("changed") # b2
    BY <1>2, <1>4, <2>1
  <2>3. Text("changed") # Empty
    BY AuditAssumption DEF Text, Empty
  <2>4. CASE g
    BY <2>2, <2>3, <2>4 DEF ContentTrouble
  <2>5. CASE ~g
    <3>1. ContentHash(m) = Hash(b2)
      BY <1>4, <2>2, <2>5 DEF ContentHash
    <3>2. Hash(m.body) # ContentHash(m)
      BY <2>2, <3>1, HashInjective
    <3> QED
      BY <2>2, <2>5, <3>2 DEF ContentTrouble
  <2> QED
    BY <1>4, <2>4, <2>5
<1>7. CASE m = [l EXCEPT !.gone = ~@]
  <2>1. m = [seq |-> q, prev |-> p, from |-> f, kind |-> k, body |-> b2, ts |-> t, hash |-> h,
             gone |-> ~g, sig |-> s]
    BY <1>4, <1>7
  <2>2. m.gone = ~g /\ m.body = b2 /\ m.hash = h
    BY <2>1
  <2>3. CASE g
    <3>1. ContentHash(m) # Hash(m.body)
      BY <1>4, <2>2, <2>3 DEF ContentHash
    <3> QED
      BY <2>2, <2>3, <3>1 DEF ContentTrouble
  <2>4. CASE ~g
    BY <1>4, <2>2, <2>4 DEF ContentTrouble
  <2> QED
    BY <1>4, <2>3, <2>4
<1>8. CASE m \in {[l EXCEPT !.from = n] : n \in People} \cup {[l EXCEPT !.kind = k2] : k2 \in {"chat", "control"}}
               \cup {[l EXCEPT !.ts = 1 - @], [l EXCEPT !.seq = @ + 1]}
  <2>1. ASSUME NEW n, m = [l EXCEPT !.from = n]
        PROVE  FALSE
    BY <1>2, <1>4, <1>5, <2>1
  <2>2. ASSUME NEW k2, m = [l EXCEPT !.kind = k2]
        PROVE  FALSE
    BY <1>2, <1>4, <1>5, <2>2
  <2>3. m # [l EXCEPT !.ts = 1 - @]
    BY <1>2, <1>4, <1>5
  <2>4. m # [l EXCEPT !.seq = @ + 1]
    BY <1>2, <1>4, <1>5
  <2> QED
    BY <1>8, <2>1, <2>2, <2>3, <2>4
<1> QED
  BY <1>1, <1>6, <1>7, <1>8 DEF Edits

LEMMA ChangedTells ==
    ASSUME NEW b, FileOK(b), NEW lines \in Changed(b.lines)
    PROVE  Trouble([b EXCEPT !.lines = lines]) # {}
<1>1. PICK hd, ls : b = [head |-> hd, lines |-> ls]
  BY DEF FileOK
<1> DEFINE c == [b EXCEPT !.lines = lines]
<1>2. c.head = b.head /\ c.lines = lines /\ b.head = hd /\ b.lines = ls
  BY <1>1
<1>3. IsSeq(b.lines) /\ DOMAIN b.lines = 1..Len(b.lines) /\ b.head.count = Len(b.lines)
  BY SeqLonger DEF FileOK
<1>4. PICK i \in 1..Len(b.lines) :
        lines \in {RemoveAt(b.lines, i), InsertAt(b.lines, i, b.lines[i])}
                 \cup {[b.lines EXCEPT ![i] = m] : m \in Edits(b.lines[i])}
  BY <1>3, Zenon DEF Changed, Edits
<1>5. lines # b.lines
  BY Zenon DEF Changed
<1>6. CASE lines \in {RemoveAt(b.lines, i), InsertAt(b.lines, i, b.lines[i])}
  <2>1. Len(lines) # Len(b.lines)
    BY <1>3, <1>6, OtherLengths
  <2>2. Len(c.lines) # c.head.count
    BY <1>2, <1>3, <2>1, Zenon
  <2> QED
    BY <2>2, CountTells, Zenon
<1>7. CASE lines \in {[b.lines EXCEPT ![i] = m] : m \in Edits(b.lines[i])}
  <2>1. PICK m \in Edits(b.lines[i]) : lines = [b.lines EXCEPT ![i] = m]
    BY <1>7, Zenon
  <2>2. m # b.lines[i]
    <3>1. PICK S : b.lines \in Seq(S)
      BY <1>3 DEF IsSeq
    <3>2. \A s \in Seq(S) : \A j \in 1..Len(s) : [s EXCEPT ![j] = s[j]] = s
      OBVIOUS
    <3> QED
      BY <1>5, <2>1, <3>1, <3>2, Zenon
  <2>3. c.lines = [b.lines EXCEPT ![i] = m]
    BY <1>2, <2>1, Zenon
  <2> QED
    BY <1>2, <2>1, <2>2, <2>3, EditTells, Zenon
<1> QED
  BY <1>4, <1>6, <1>7

-----------------------------------------------------------------------------
(* What verify makes of an honest file.                                    *)

LEMMA UpTo ==
    ASSUME NEW k \in Nat, NEW T, 1 \in T, \A j \in 1..(k - 1) : j \in T => j + 1 \in T
    PROVE  \A j \in 1..k : j \in T
<1> SUFFICES ASSUME \E j \in 1..k : j \notin T
             PROVE  FALSE
  OBVIOUS
<1> DEFINE S == {j \in 1..k : j \notin T}
<1>1. S \in SUBSET Nat /\ S # {}
  OBVIOUS
<1>2. PICK q \in S : \A r \in S : q <= r
  BY <1>1, SmallestOf, Zenon
<1>3. q \in 1..k /\ q # 1 /\ q \notin T
  BY <1>2
<1>4. q - 1 \in 1..(k - 1) /\ (q - 1) + 1 = q /\ q - 1 \in 1..k /\ ~(q <= q - 1)
  BY <1>3
<1>5. q - 1 \in T
  BY <1>2, <1>4
<1> QED
  BY <1>3, <1>4, <1>5

\* The keys known at a line follow from those known at the line before.
LEMMA KnownIs ==
    ASSUME NEW b, NEW k \in Nat \ {0}, Len(b.lines) = k
    PROVE  /\ KnownAt(b)[1] = KnownAtFirst(b)
           /\ \A j \in 1..(k - 1) : KnownAt(b)[j + 1] = KnownAfter(b.lines[j], KnownAt(b)[j])
<1> DEFINE Rec(f, n) == f = [i \in 1..n |-> IF i = 1 THEN KnownAtFirst(b) ELSE KnownAfter(b.lines[i - 1], f[i - 1])]
           T == {n \in Nat : \E f : Rec(f, n)}
<1>1. 1 \in T
  <2>1. Rec([i \in 1..1 |-> KnownAtFirst(b)], 1)
    OBVIOUS
  <2> QED
    BY <2>1
<1>2. ASSUME NEW n \in 1..(k - 1), n \in T
      PROVE  n + 1 \in T
  <2>1. PICK f : Rec(f, n)
    BY <1>2
  <2> DEFINE g == [i \in 1..(n + 1) |-> IF i = n + 1 THEN KnownAfter(b.lines[n], f[n]) ELSE f[i]]
             h == [i \in 1..(n + 1) |-> IF i = 1 THEN KnownAtFirst(b) ELSE KnownAfter(b.lines[i - 1], g[i - 1])]
  <2>2. ASSUME NEW i \in 1..(n + 1)
        PROVE  g[i] = h[i]
    <3>1. i = 1 \/ i - 1 \in 1..n
      OBVIOUS
    <3>2. \A j \in 1..n : g[j] = f[j]
      OBVIOUS
    <3>3. CASE i = n + 1
      <4>1. i # 1 /\ i - 1 = n /\ n \in 1..n
        BY <3>3
      <4>2. g[i] = KnownAfter(b.lines[n], f[n])
        BY <3>3
      <4> QED
        BY <3>2, <4>1, <4>2
    <3>4. CASE i # n + 1
      <4>1. i \in 1..n
        BY <3>4
      <4>2. f[i] = IF i = 1 THEN KnownAtFirst(b) ELSE KnownAfter(b.lines[i - 1], f[i - 1])
        BY <2>1, <4>1
      <4>3. g[i] = f[i] /\ (i = 1 \/ g[i - 1] = f[i - 1])
        BY <3>1, <3>2, <4>1
      <4>4. h[i] = IF i = 1 THEN KnownAtFirst(b) ELSE KnownAfter(b.lines[i - 1], g[i - 1])
        OBVIOUS
      <4> HIDE DEF g, h
      <4> QED
        BY <4>2, <4>3, <4>4
    <3> QED
      BY <3>3, <3>4
  <2>3. g = h
    BY <2>2
  <2>4. Rec(g, n + 1)
    BY <2>3, Zenon
  <2>5. n + 1 \in Nat
    OBVIOUS
  <2> HIDE DEF Rec, g
  <2> QED
    BY <2>4, <2>5, Zenon
<1>3. k \in T
  <2> HIDE DEF T
  <2>1. k \in 1..k /\ k \in Nat
    OBVIOUS
  <2>2. \A j \in 1..(k - 1) : j \in T => j + 1 \in T
    BY <1>2
  <2>3. \A j \in 1..k : j \in T
    BY <1>1, <2>1, <2>2, UpTo, Zenon
  <2> QED
    BY <2>1, <2>3
<1>4. \E f : Rec(f, Len(b.lines))
  BY <1>3
<1>5. KnownAt(b) = CHOOSE f : Rec(f, Len(b.lines))
  BY Zenon DEF KnownAt
<1>6. Rec(KnownAt(b), Len(b.lines))
  <2> HIDE DEF Rec
  <2> QED
    BY <1>4, <1>5, Zenon
<1>7. PICK f : f = KnownAt(b)
  OBVIOUS
<1>8. f = [i \in 1..k |-> IF i = 1 THEN KnownAtFirst(b) ELSE KnownAfter(b.lines[i - 1], f[i - 1])]
  BY <1>6, <1>7
<1>9. f[1] = KnownAtFirst(b)
  BY <1>8
<1>10. ASSUME NEW j \in 1..(k - 1)
       PROVE  f[j + 1] = KnownAfter(b.lines[j], f[j])
  <2>1. j + 1 \in 1..k /\ j + 1 # 1 /\ (j + 1) - 1 = j
    OBVIOUS
  <2> QED
    BY <1>8, <2>1
<1> QED
  BY <1>7, <1>9, <1>10

\* What verify looks at in a line m, as an export wrote it of place p.
LineSeen(p, m) ==
    /\ m.seq = p /\ m.from \in People /\ m.kind = chain[p].kind /\ m.gone = chain[p].gone
    /\ m.prev = IF p = 1 THEN Genesis ELSE ChainHash(chain[p - 1])
    /\ m.sig = Sig(m.sig[1], SigningBytes(m)) /\ m.sig[1] \in SigningKeys
    /\ m.kind \in {"system", "control"} => m.from = Owner /\ m.sig[1] = OwnerKey
    /\ m.body.name # Nobody => m.body.name \in People /\ m.body.key \in SigningKeys
    /\ m.from = Owner \/ \E j \in 1..(p - 1) : Announces(chain[j], m.from)
    /\ m.body = chain[p].body
    /\ ChainHash(m) = ChainHash(chain[p]) /\ ContentTrouble(m) = {}

LEMMA HonestLine ==
    ASSUME NEW p \in Nat \ {0}, LineOK(chain, p), NEW m, m = Explicit(chain[p])
    PROVE  LineSeen(p, m)
<1>1. PICK c : c = chain[p]
  OBVIOUS
<1>2. /\ IsLine(c) /\ c.seq = p /\ c.from \in People
      /\ c.prev = IF p = 1 THEN Genesis ELSE ChainHash(chain[p - 1])
      /\ c.sig = Sig(c.sig[1], SigningBytes(c)) /\ c.sig[1] \in SigningKeys
      /\ c.kind \in {"system", "control"} => c.from = Owner /\ c.sig[1] = OwnerKey
      /\ c.body.name # Nobody => c.body.name \in People /\ c.body.key \in SigningKeys
      /\ c.from = Owner \/ \E j \in 1..(p - 1) : Announces(chain[j], c.from)
  BY <1>1, Zenon DEF LineOK
<1>3. /\ m = [seq |-> c.seq, prev |-> c.prev, from |-> c.from, kind |-> c.kind,
              body |-> c.body, ts |-> c.ts, hash |-> ContentHash(c), gone |-> c.gone, sig |-> c.sig]
      /\ SigningBytes(m) = SigningBytes(c) /\ ChainHash(m) = ChainHash(c)
  BY <1>1, <1>2, ExplicitIs, Zenon
<1>4. /\ m.seq = c.seq /\ m.prev = c.prev /\ m.from = c.from /\ m.kind = c.kind /\ m.body = c.body
      /\ m.gone = c.gone /\ m.sig = c.sig
  BY <1>3
<1>5. ContentTrouble(m) = {}
  <2>1. FileLine(m)
    BY FileLineIs, Zenon
  <2> QED
    BY <2>1 DEF FileLine, ContentTrouble, ContentHash
<1>6. m.sig = Sig(m.sig[1], SigningBytes(m))
  BY <1>2, <1>3, <1>4, Zenon
<1> QED
  BY <1>1, <1>2, <1>3, <1>4, <1>5, <1>6, Zenon DEF LineSeen

\* Verify knows nobody under another key than he has; it knows all if it is told all, and
\* from the notices those whose notice it can read.
KnownSeen(b, i) ==
    /\ \A n \in People : KnownAt(b)[i][n] \in {Nobody, b.head.members[n]}
    /\ ~FromGenesis(b) => \A n \in People : KnownAt(b)[i][n] = b.head.members[n]
    /\ KnownAt(b)[i][Owner] = OwnerKey
    /\ \A j \in 1..(i - 1), n \in People :
         Announces(b.lines[j], n) /\ ~b.lines[j].gone => KnownAt(b)[i][n] # Nobody

\* A list of members, and lines, as they are in an honest file.
FileSeen(b) ==
    /\ b.head.members \in [People -> SigningKeys \cup {Nobody}] /\ b.head.members[Owner] = OwnerKey
    /\ FromGenesis(b) => b.lines[1].from = Owner
    /\ \A i \in 1..Len(b.lines) :
         /\ b.lines[i].from \in People
         /\ b.lines[i].kind = "system" => b.lines[i].from = Owner
         /\ b.lines[i].body.name # Nobody => b.lines[i].body.name \in People /\ b.lines[i].body.key \in SigningKeys

LEMMA HonestKnown ==
    ASSUME NEW b, NEW k \in Nat \ {0}, Len(b.lines) = k, DOMAIN b.lines = 1..k,
           Steady(b), FileSeen(b)
    PROVE  \A i \in 1..k : KnownSeen(b, i)
<1>1. PICK f, l, ms : f = KnownAt(b) /\ l = b.lines /\ ms = b.head.members
  OBVIOUS
<1>2. /\ ms \in [People -> SigningKeys \cup {Nobody}] /\ ms[Owner] = OwnerKey
      /\ Owner \in People /\ OwnerKey \in SigningKeys /\ Nobody \notin SigningKeys /\ Nobody \notin People
      /\ \A i \in 1..k : /\ l[i].from \in People
                         /\ l[i].kind = "system" => l[i].from = Owner
                         /\ l[i].body.name # Nobody => l[i].body.name \in People /\ l[i].body.key \in SigningKeys
                         /\ l[i].body.name # Nobody => l[i].body.key = ms[l[i].body.name]
  BY <1>1, AuditAssumption DEF Steady, FileSeen
<1>3. f[1] = KnownAtFirst(b) /\ \A j \in 1..(k - 1) : f[j + 1] = KnownAfter(l[j], f[j])
  BY <1>1, KnownIs
<1> DEFINE K(i) ==
             /\ f[i] \in [People -> SigningKeys \cup {Nobody}]
             /\ \A n \in People : f[i][n] \in {Nobody, ms[n]}
             /\ ~FromGenesis(b) => \A n \in People : f[i][n] = ms[n]
             /\ f[i][Owner] = OwnerKey
             /\ \A j \in 1..(i - 1), n \in People :
                  Announces(l[j], n) /\ ~l[j].gone => f[i][n] # Nobody
           T == {i \in 1..k : K(i)}
<1>4. K(1)
  <2>1. CASE FromGenesis(b)
    <3>1. f[1] = [n \in People |-> IF n = Owner THEN OwnerKey ELSE Nobody]
      BY <1>1, <1>3, <2>1 DEF KnownAtFirst, FileSeen
    <3> QED
      BY <1>2, <2>1, <3>1
  <2>2. CASE ~FromGenesis(b)
    <3>1. f[1] = ms
      BY <1>1, <1>3, <2>2 DEF KnownAtFirst
    <3> QED
      BY <1>2, <3>1
  <2> QED
    BY <2>1, <2>2
<1>5. ASSUME NEW i \in 1..(k - 1), K(i)
      PROVE  K(i + 1)
  <2>0. i \in 1..k /\ (i + 1) - 1 = i /\ \A j \in 1..i : j = i \/ j \in 1..(i - 1)
    OBVIOUS
  <2>1. PICK m, old, new : m = l[i] /\ old = f[i] /\ new = f[i + 1]
    OBVIOUS
  <2>2. new = KnownAfter(m, old)
    BY <1>3, <2>1
  <2>3. /\ old \in [People -> SigningKeys \cup {Nobody}]
        /\ \A n \in People : old[n] \in {Nobody, ms[n]}
        /\ ~FromGenesis(b) => \A n \in People : old[n] = ms[n]
        /\ old[Owner] = OwnerKey
        /\ \A j \in 1..(i - 1), n \in People : Announces(l[j], n) /\ ~l[j].gone => old[n] # Nobody
    BY <1>5, <2>1
  <2>4. /\ m.from \in People /\ (m.kind = "system" => m.from = Owner)
        /\ m.body.name # Nobody => /\ m.body.name \in People /\ m.body.key \in SigningKeys
                                   /\ m.body.key = ms[m.body.name]
    BY <1>2, <2>0, <2>1
  <2>5. /\ new \in [People -> SigningKeys \cup {Nobody}]
        /\ \A n \in People : \/ new[n] = old[n]
                             \/ old[n] = Nobody /\ new[n] = ms[n] /\ new[n] \in SigningKeys
        /\ \A n \in People : Announces(m, n) /\ ~m.gone => new[n] # Nobody
    <3>1. CASE m.kind = "system" /\ m.body.name # Nobody /\ old[m.from] = OwnerKey
      <4>1. PICK x, y : x = m.body.name /\ y = m.body.key
        OBVIOUS
      <4>2. new = [old EXCEPT ![x] = IF old[x] = Nobody THEN y ELSE old[x]]
        BY <2>2, <3>1, <4>1 DEF KnownAfter
      <4>3. x \in People /\ y \in SigningKeys /\ y = ms[x]
        BY <2>4, <3>1, <4>1
      <4>4. \A n \in People : Announces(m, n) /\ ~m.gone => n = x
        BY <4>1 DEF Announces
      <4> QED
        BY <1>2, <2>3, <4>2, <4>3, <4>4
    <3>2. CASE ~(m.kind = "system" /\ m.body.name # Nobody /\ old[m.from] = OwnerKey)
      <4>1. new = old
        BY <2>2, <3>2 DEF KnownAfter
      <4>2. \A n \in People : ~(Announces(m, n) /\ ~m.gone)
        <5>1. m.kind = "system" => old[m.from] = OwnerKey
          BY <2>3, <2>4
        <5> QED
          BY <1>2, <3>2, <5>1 DEF Announces
      <4> QED
        BY <2>3, <4>1, <4>2
    <3> QED
      BY <3>1, <3>2
  <2>6. \A n \in People : new[n] \in {Nobody, ms[n]}
    BY <2>3, <2>5
  <2>7. ~FromGenesis(b) => \A n \in People : new[n] = ms[n]
    BY <2>3, <2>5
  <2>8. new[Owner] = OwnerKey
    BY <1>2, <2>3, <2>5
  <2>9. \A j \in 1..((i + 1) - 1), n \in People : Announces(l[j], n) /\ ~l[j].gone => new[n] # Nobody
    <3>1. \A n \in People : Announces(l[i], n) /\ ~l[i].gone => new[n] # Nobody
      BY <2>1, <2>5
    <3>2. \A j \in 1..(i - 1), n \in People : Announces(l[j], n) /\ ~l[j].gone => new[n] # Nobody
      BY <1>2, <2>3, <2>5
    <3> QED
      BY <2>0, <3>1, <3>2
  <2> QED
    BY <2>1, <2>5, <2>6, <2>7, <2>8, <2>9
<1>6. \A i \in 1..k : i \in T
  <2> HIDE DEF K
  <2>1. 1 \in T
    BY <1>4
  <2>2. \A j \in 1..(k - 1) : j \in T => j + 1 \in T
    BY <1>5
  <2>3. k \in Nat
    OBVIOUS
  <2> HIDE DEF T
  <2> QED
    BY <2>1, <2>2, <2>3, UpTo, Zenon
<1>7. \A i \in 1..k : K(i)
  <2> HIDE DEF K
  <2> QED
    BY <1>6
<1> QED
  BY <1>1, <1>7 DEF KnownSeen

HonestOK(b) ==
    Steady(b) /\ Whole(b)
    => Trouble(b) \subseteq IF FromGenesis(b) /\ NoticeErased(b) THEN {"unknown"} ELSE {}

LEMMA HonestHeader ==
    ASSUME RoomOK, NEW n \in People, NEW k \in Nat, NEW at \in [1..k -> 1..Len(chain)]
    PROVE  HeaderTrouble(Bundle(n, at)) = {}
<1>1. PICK b : b = Bundle(n, at)
  OBVIOUS
<1>2. /\ FileOK(b) /\ b.head.members = [m \in People |-> names[m].key] /\ b.head.by = names[n].key
      /\ b.head.sig = Sig(b.head.by, [b.head EXCEPT !.sig = Nobody])
  BY <1>1, BundleIs, Zenon
<1>3. b.head.members[n] = b.head.by
  BY <1>2
<1>4. b.head.count = Len(b.lines) /\ b.head.hash = MessagesHash(b.lines)
  BY <1>2 DEF FileOK
<1> QED
  BY <1>1, <1>2, <1>3, <1>4 DEF HeaderTrouble

\* Whatever places of the chain it holds, an honest file verifies.
LEMMA HonestIs ==
    ASSUME RoomOK, NEW n \in People, NEW k \in Nat, NEW at \in [1..k -> 1..Len(chain)]
    PROVE  HonestOK(Bundle(n, at))
<1>1. PICK b : b = Bundle(n, at)
  OBVIOUS
<1> SUFFICES ASSUME Steady(b), Whole(b)
             PROVE  Trouble(b) \subseteq IF FromGenesis(b) /\ NoticeErased(b) THEN {"unknown"} ELSE {}
  BY <1>1 DEF HonestOK
<1>2. /\ FileOK(b) /\ Len(b.lines) = k /\ b.head.members = [m \in People |-> names[m].key]
      /\ \A i \in 1..k : b.lines[i] = Explicit(chain[at[i]])
  BY <1>1, BundleIs, Zenon
<1>3. HeaderTrouble(b) = {}
  BY <1>1, HonestHeader
<1>4. DOMAIN b.lines = 1..k
  BY <1>2, SeqLonger DEF FileOK
<1>5. PICK l, ms : l = b.lines /\ ms = b.head.members
  OBVIOUS
<1>6. /\ ms \in [People -> SigningKeys \cup {Nobody}] /\ ms[Owner] = OwnerKey
      /\ Owner \in People /\ OwnerKey \in SigningKeys /\ Nobody \notin SigningKeys /\ Nobody \notin People
  BY <1>2, <1>5, AuditAssumption DEF RoomOK, NamesOK
<1>7. ASSUME NEW i \in 1..k
      PROVE  /\ at[i] \in 1..Len(chain) /\ at[i] \in Nat \ {0}
             /\ l[i].seq = at[i] /\ l[i].from \in People /\ l[i].kind = chain[at[i]].kind
             /\ l[i].gone = chain[at[i]].gone
             /\ l[i].prev = IF at[i] = 1 THEN Genesis ELSE ChainHash(chain[at[i] - 1])
             /\ l[i].sig = Sig(l[i].sig[1], SigningBytes(l[i])) /\ l[i].sig[1] \in SigningKeys
             /\ l[i].kind \in {"system", "control"} => l[i].from = Owner /\ l[i].sig[1] = OwnerKey
             /\ l[i].body.name # Nobody => l[i].body.name \in People /\ l[i].body.key \in SigningKeys
             /\ l[i].from = Owner \/ \E j \in 1..(at[i] - 1) : Announces(chain[j], l[i].from)
             /\ l[i].body = chain[at[i]].body
             /\ ChainHash(l[i]) = ChainHash(chain[at[i]]) /\ ContentTrouble(l[i]) = {}
             /\ l[i].sig[1] = ms[l[i].from]
  <2>1. PICK p : p = at[i]
    OBVIOUS
  <2>2. p \in 1..Len(chain) /\ p \in Nat \ {0} /\ LineOK(chain, p) /\ l[i] = Explicit(chain[p])
    BY <1>2, <1>5, <2>1 DEF RoomOK, ChainOK
  <2>3. l[i].sig[1] = ms[l[i].from]
    BY <1>4, <1>5 DEF Steady
  <2>4. PICK m : m = l[i]
    OBVIOUS
  <2>5. m = Explicit(chain[p])
    BY <2>2, <2>4
  <2>6. LineSeen(p, m)
    BY <2>2, <2>5, HonestLine, Zenon
  <2>7. m.sig[1] = ms[m.from]
    BY <2>3, <2>4
  <2> QED
    BY <2>1, <2>2, <2>4, <2>6, <2>7, Zenon DEF LineSeen
<1>8. ASSUME NEW i \in 1..k
      PROVE  LinkTrouble(b, i) = {}
  <2>1. i > 1 => /\ i - 1 \in 1..k /\ i \in DOMAIN b.lines
    BY <1>4
  <2>2. i > 1 => l[i].seq = l[i - 1].seq + 1
    BY <1>5, <2>1 DEF Whole
  <2>3. i > 1 => at[i] = at[i - 1] + 1 /\ at[i - 1] \in Nat \ {0}
    BY <1>7, <2>1, <2>2
  <2>4. i > 1 => at[i] # 1 /\ at[i] - 1 = at[i - 1]
    BY <2>3
  <2>5. i > 1 => l[i].prev = ChainHash(l[i - 1])
    BY <1>7, <2>1, <2>4
  <2>6. i = 1 /\ FromGenesis(b) => l[i].prev = Genesis
    BY <1>5, <1>7 DEF FromGenesis
  <2> QED
    BY <1>5, <2>2, <2>5, <2>6 DEF LinkTrouble
<1>9. FromGenesis(b) => \A i \in 1..k : at[i] = i
  <2> SUFFICES ASSUME FromGenesis(b)
               PROVE  \A i \in 1..k : at[i] = i
    OBVIOUS
  <2> DEFINE T == {i \in 1..k : at[i] = i}
  <2>1. ASSUME NEW i \in 1..k
        PROVE  1 \in 1..k
    OBVIOUS
  <2>2. 1 \in 1..k => 1 \in T
    BY <1>5, <1>7 DEF FromGenesis
  <2>3. ASSUME NEW j \in 1..(k - 1), j \in T
        PROVE  j + 1 \in T
    <3>1. j \in 1..k /\ j + 1 \in 1..k /\ j + 1 > 1 /\ (j + 1) - 1 = j /\ at[j] = j
      BY <2>3
    <3>2. l[j + 1].seq = l[(j + 1) - 1].seq + 1
      BY <1>4, <1>5, <3>1 DEF Whole
    <3> QED
      BY <1>7, <3>1, <3>2
  <2>4. \A j \in 1..(k - 1) : j \in T => j + 1 \in T
    BY <2>3
  <2>5. 1 \in T => \A j \in 1..k : j \in T
    <3> HIDE DEF T
    <3> QED
      BY <2>4, UpTo
  <2> QED
    BY <2>1, <2>2, <2>5
<1>10. ASSUME NEW i \in 1..k
       PROVE  LET key == KnownAt(b)[i][l[i].from]
              IN  /\ key \in {Nobody, l[i].sig[1]}
                  /\ key = Nobody => FromGenesis(b) /\ NoticeErased(b)
  <2>1. 1 \in 1..k /\ k \in Nat \ {0}
    OBVIOUS
  <2>2. FromGenesis(b) => l[1].from = Owner
    <3>1. FromGenesis(b) => at[1] - 1 = 0
      BY <1>9, <2>1
    <3> QED
      BY <1>7, <2>1, <3>1
  <2>3. \A j \in 1..k : /\ l[j].from \in People
                        /\ l[j].kind = "system" => l[j].from = Owner
                        /\ l[j].body.name # Nobody => l[j].body.name \in People /\ l[j].body.key \in SigningKeys
    BY <1>7
  <2>4. /\ \A x \in People : KnownAt(b)[i][x] \in {Nobody, ms[x]}
        /\ ~FromGenesis(b) => \A x \in People : KnownAt(b)[i][x] = ms[x]
        /\ KnownAt(b)[i][Owner] = OwnerKey
        /\ \A j \in 1..(i - 1), x \in People :
             Announces(l[j], x) /\ ~l[j].gone => KnownAt(b)[i][x] # Nobody
    <3>1. FileSeen(b)
      BY <1>2, <1>5, <1>6, <2>2, <2>3 DEF FileSeen
    <3>2. KnownSeen(b, i)
      BY <1>2, <1>4, <2>1, <3>1, HonestKnown, Zenon
    <3> QED
      BY <1>5, <3>2 DEF KnownSeen
  <2>5. PICK f, key : f = l[i].from /\ key = KnownAt(b)[i][f]
    OBVIOUS
  <2>6. f \in People /\ ms[f] = l[i].sig[1] /\ ms[f] # Nobody
    <3>1. l[i].from \in People /\ l[i].sig[1] = ms[l[i].from] /\ l[i].sig[1] \in SigningKeys
      BY <1>7, Zenon
    <3> QED
      BY <1>6, <2>5, <3>1, Zenon
  <2>7. key \in {Nobody, l[i].sig[1]}
    BY <2>4, <2>5, <2>6
  <2>8. ASSUME key = Nobody
        PROVE  FromGenesis(b) /\ NoticeErased(b)
    <3>1. FromGenesis(b)
      BY <2>4, <2>5, <2>6, <2>8
    <3>2. at[i] = i /\ f # Owner
      BY <1>6, <1>9, <2>4, <2>5, <2>8, <3>1
    <3>3. PICK j \in 1..(i - 1) : Announces(chain[j], f)
      BY <1>7, <2>5, <3>2
    <3>4. j \in 1..k /\ at[j] = j
      BY <1>9, <3>1, <3>3
    <3>5. l[j].kind = chain[j].kind /\ l[j].gone = chain[j].gone /\ l[j].body = chain[j].body
      BY <1>7, <3>4
    <3>6. Announces(l[j], f) /\ l[j].kind = "system"
      BY <3>3, <3>5 DEF Announces
    <3>7. l[j].gone
      BY <2>4, <2>5, <2>6, <2>8, <3>3, <3>6
    <3> QED
      BY <1>4, <1>5, <3>1, <3>4, <3>6, <3>7 DEF NoticeErased
  <2> QED
    BY <2>5, <2>7, <2>8
<1>11. ASSUME NEW i \in 1..k
       PROVE  SenderTrouble(l[i], KnownAt(b)[i][l[i].from])
                \subseteq IF FromGenesis(b) /\ NoticeErased(b) THEN {"unknown"} ELSE {}
  <2>1. PICK key : key = KnownAt(b)[i][l[i].from]
    OBVIOUS
  <2>2. CASE key = Nobody
    BY <1>10, <2>1, <2>2 DEF SenderTrouble
  <2>3. CASE key # Nobody
    <3>1. key = l[i].sig[1]
      BY <1>10, <2>1, <2>3
    <3>2. l[i].sig = Sig(key, SigningBytes(l[i])) /\ (l[i].kind \in {"system", "control"} => key = OwnerKey)
      BY <1>7, <3>1
    <3>3. SenderTrouble(l[i], key) = {}
      BY <2>3, <3>2 DEF SenderTrouble
    <3> QED
      BY <2>1, <3>3
  <2> QED
    BY <2>2, <2>3
<1>12. ASSUME NEW t \in Trouble(b)
       PROVE  t \in IF FromGenesis(b) /\ NoticeErased(b) THEN {"unknown"} ELSE {}
  <2>1. PICK i \in 1..k :
          t \in LinkTrouble(b, i) \cup ContentTrouble(b.lines[i])
                \cup SenderTrouble(b.lines[i], KnownAt(b)[i][b.lines[i].from])
    BY <1>3, <1>4 DEF Trouble
  <2> QED
    BY <1>5, <1>7, <1>8, <1>11, <2>1
<1> QED
  BY <1>12

-----------------------------------------------------------------------------
(* What verify promises.                                                   *)

AuditInv ==
    /\ RoomOK
    /\ \/ bundle = NoBundle
       \/ bundle.whose = "honest" /\ FileOK(bundle.file) /\ HonestOK(bundle.file)
       \/ bundle.whose = "changed" /\ Trouble(bundle.file) # {}

LEMMA ExportKeeps ==
    ASSUME RoomOK, NEW n \in People, NEW since \in BOOLEAN, Export(n, since)
    PROVE  bundle'.whose = "honest" /\ FileOK(bundle'.file) /\ HonestOK(bundle'.file)
<1> DEFINE kept == {i \in DOMAIN chain : since => chain[i].ts = 1}
<1>1. PICK k : k = Cardinality(kept)
  OBVIOUS
<1>2. DOMAIN chain = 1..Len(chain) /\ Len(chain) \in Nat
  BY SeqLonger DEF RoomOK, ChainOK
<1>3. k \in Nat
  <2>1. kept \in SUBSET (1..Len(chain))
    BY <1>2
  <2>2. IsFiniteSet(1..Len(chain))
    BY <1>2, FS_Interval
  <2> HIDE DEF kept
  <2> QED
    BY <1>1, <2>1, <2>2, FS_Subset, FS_CardinalityType
<1>4. PICK at \in [1..k -> kept] :
        bundle' = [whose |-> "honest", since |-> since, file |-> Bundle(n, at)]
  BY <1>1, Zenon DEF Export
<1>5. at \in [1..k -> 1..Len(chain)]
  BY <1>2, <1>4
<1>6. FileOK(Bundle(n, at)) /\ HonestOK(Bundle(n, at))
  BY <1>3, <1>5, BundleIs, HonestIs, Zenon
<1>7. bundle'.whose = "honest" /\ bundle'.file = Bundle(n, at)
  BY <1>4
<1> QED
  BY <1>6, <1>7

LEMMA DamageTells ==
    ASSUME AuditInv, Damage
    PROVE  bundle'.whose = "changed" /\ Trouble(bundle'.file) # {}
<1>1. FileOK(bundle.file)
  BY DEF AuditInv, Damage, NoBundle
<1>2. PICK lines \in Changed(bundle.file.lines) :
        bundle' = [whose |-> "changed", since |-> bundle.since, file |-> [bundle.file EXCEPT !.lines = lines]]
  BY DEF Damage
<1>3. bundle'.whose = "changed" /\ bundle'.file = [bundle.file EXCEPT !.lines = lines]
  BY <1>2
<1> QED
  BY <1>1, <1>3, ChangedTells, Zenon

LEMMA AuditKeeps == AuditInv /\ [AuditNext]_auditVars => AuditInv'
<1> SUFFICES ASSUME AuditInv, [AuditNext]_auditVars
             PROVE  AuditInv'
  OBVIOUS
<1>1. RoomOK /\ RoomOK'
  BY RoomSteps DEF AuditInv
<1>2. CASE bundle = NoBundle /\ Growing
  <2>1. bundle' = bundle
    BY <1>2 DEF Growing, NameJoins, Say, NameRevoked, Hold, DaysPass, Retain
  <2> QED
    BY <1>1, <1>2, <2>1 DEF AuditInv, NoBundle
<1>3. ASSUME NEW n \in People, NEW since \in BOOLEAN, Export(n, since)
      PROVE  AuditInv'
  BY <1>1, <1>3, ExportKeeps DEF AuditInv
<1>4. CASE Damage
  BY <1>1, <1>4, DamageTells DEF AuditInv
<1>5. CASE Discard
  BY <1>1, <1>5 DEF AuditInv, Discard, NoBundle
<1>6. CASE UNCHANGED auditVars
  <2>1. bundle' = bundle
    BY <1>6 DEF auditVars
  <2>2. \A b : (FileOK(b) => FileOK(b)) /\ (HonestOK(b) => HonestOK(b))
    OBVIOUS
  <2> QED
    BY <1>1, <2>1 DEF AuditInv, NoBundle
<1> QED
  BY <1>2, <1>3, <1>4, <1>5, <1>6 DEF AuditNext

LEMMA AuditStart == AuditInit => AuditInv
BY RoomStart DEF AuditInit, AuditInv

THEOREM AuditInductive == AuditSpec => []AuditInv
BY AuditStart, AuditKeeps, PTL DEF AuditSpec

\* Whatever is lost, doubled or changed in a bundle, verify says so.  (bundle.rs: verify.)
THEOREM ChangesAreSeen == AuditSpec => []DamageIsSeen
<1>1. AuditInv => DamageIsSeen
  BY DEF AuditInv, DamageIsSeen, NoBundle
<1> QED
  BY <1>1, AuditInductive, PTL

\* What an honest member exports verifies, of a room of any length and with any part of it
\* erased.  (bundle.rs: verify; message.rs: content_hash.)
THEOREM HonestPasses == AuditSpec => []HonestVerifies
<1>1. AuditInv => HonestVerifies
  BY DEF AuditInv, HonestVerifies, HonestOK, NoBundle
<1> QED
  BY <1>1, AuditInductive, PTL
=============================================================================
