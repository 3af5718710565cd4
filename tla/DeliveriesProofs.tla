-------------------------- MODULE DeliveriesProofs --------------------------
(***************************************************************************)
(* Theorems about the delivery table, for any number of readers, messages, *)
(* attempts and replays.  The argument is one inductive invariant, IInv:   *)
(* the safety invariants of Deliveries lean on one another, and on two     *)
(* facts no run needs to state, that the bookmark stays within the log and *)
(* that an acked row is one the reader has taken on.                       *)
(*                                                                         *)
(* A second invariant, LiveInv, bounds the attempts of the rows in each    *)
(* state.  With it, wake_pending is shown to miss nothing that `next`      *)
(* would hand out, and the table to implement AtLeastOnce.                 *)
(***************************************************************************)
EXTENDS Deliveries, TLAPS

\* A bookmark never runs ahead of the log, so a message that arrives is new.
BookmarkInLog == \A r \in Readers : bookmark[r] <= Len(log)

\* Whatever acks a row also records that the reader took the message on.
AckedIsTaken ==
    \A r \in Readers : \A s \in Seqs : rows[r][s].state = "acked" => s \in taken[r]

IInv ==
    /\ TypeOK
    /\ BookmarkInLog
    /\ AckedIsTaken
    /\ OnlyNewestTokenNames
    /\ TakenStaysTaken
    /\ BookmarkSkipsNothing

-----------------------------------------------------------------------------
(* The operators on rows keep them rows.                                   *)

\* Whatever delivery_lease and delivery_settle write into a row is a row.
LEMMA RowOperators ==
    ASSUME NEW row \in Row, NEW token \in Nat, NEW due \in BOOLEAN
    PROVE  /\ Quarantined(row) \in Row
           /\ LeasedRow(row, token) \in Row
           /\ AckedRow(row) \in Row
           /\ NackedRow(row, due) \in Row
           /\ RenewedRow(row) \in Row
           /\ NoRow \in Row
<1>1. Quarantined(row) \in Row
  BY DEF Row, States, Quarantined, NoToken
<1>2. LeasedRow(row, token) \in Row
  BY DEF Row, States, LeasedRow
<1>3. AckedRow(row) \in Row
  BY DEF Row, States, AckedRow
<1>4. NackedRow(row, due) \in Row
  BY <1>1 DEF Row, States, NackedRow, NoToken
<1>5. RenewedRow(row) \in Row
  BY DEF Row, RenewedRow
<1>6. NoRow \in Row
  BY DEF Row, States, NoRow, NoToken
<1>7. QED
  BY <1>1, <1>2, <1>3, <1>4, <1>5, <1>6

\* The sweep of delivery_lease leaves a row as it is, or quarantines a leased one.
LEMMA SweptRows ==
    ASSUME NEW rs \in [Seqs -> Row]
    PROVE  /\ Swept(rs) \in [Seqs -> Row]
           /\ \A s \in Seqs :
                 \/ Swept(rs)[s] = rs[s]
                 \/ rs[s].state = "leased" /\ Swept(rs)[s] = Quarantined(rs[s])
BY RowOperators DEF Swept, Exhausted

\* The prune after a settle leaves a row as it is, or deletes an acked one the bookmark has
\* passed.
LEMMA PrunedRows ==
    ASSUME NEW rs \in [Seqs -> Row], NEW b \in Nat
    PROVE  /\ Pruned(rs, b) \in [Seqs -> Row]
           /\ \A s \in Seqs :
                 \/ Pruned(rs, b)[s] = rs[s]
                 \/ rs[s].state = "acked" /\ s <= b /\ Pruned(rs, b)[s] = NoRow
BY RowOperators DEF Pruned, Prunable

-----------------------------------------------------------------------------
(* One reader's step.                                                      *)

\* What IInv asks of one reader's rows rs, bookmark b, draws iss and history tk.
ReaderInv(r, rs, b, iss, tk) ==
    /\ rs \in [Seqs -> Row] /\ b \in 0..Len(log) /\ iss \in [Seqs -> Nat] /\ tk \in SUBSET Seqs
    /\ \A s \in Seqs : rs[s].state = "acked" => s \in tk
    /\ \A s \in Seqs : rs[s].token \in {NoToken, iss[s]}
    /\ \A s \in tk : rs[s].state = "acked" \/ (rs[s].state = "none" /\ s <= b)
    /\ \A s \in Arrived : s <= b /\ Wanted(r, s) /\ rs[s].state = "none" => s \in tk

LogOK == log \in Seq(Message) /\ Len(log) <= MaxSeq /\ replays \in Nat

\* IInv is what it asks of every reader.
LEMMA IInvByReader ==
    IInv <=> /\ LogOK
             /\ rows \in [Readers -> [Seqs -> Row]]
             /\ bookmark \in [Readers -> 0..MaxSeq]
             /\ issued \in [Readers -> [Seqs -> Nat]]
             /\ taken \in [Readers -> SUBSET Seqs]
             /\ \A r \in Readers : ReaderInv(r, rows[r], bookmark[r], issued[r], taken[r])
BY DeliveriesAssumption DEF IInv, TypeOK, BookmarkInLog, AckedIsTaken, OnlyNewestTokenNames,
   TakenStaysTaken, BookmarkSkipsNothing, ReaderInv, LogOK

\* So a step that changes one reader's part preserves IInv when the new part is in order.
LEMMA ReaderStep ==
    ASSUME IInv, NEW r \in Readers, NEW rs, NEW b, NEW iss, NEW tk,
           ReaderInv(r, rs, b, iss, tk),
           rows' = [rows EXCEPT ![r] = rs],
           bookmark' = [bookmark EXCEPT ![r] = b],
           issued' = [issued EXCEPT ![r] = iss],
           taken' = [taken EXCEPT ![r] = tk],
           replays' \in Nat,
           UNCHANGED log
    PROVE  IInv'
<1>1. LogOK'
  BY IInvByReader DEF LogOK
<1>2. \A q \in Readers : ReaderInv(q, rows'[q], bookmark'[q], issued'[q], taken'[q])
  BY IInvByReader
<1>3. \A q \in Readers : ReaderInv(q, rows[q], bookmark[q], issued[q], taken[q])'
  BY <1>2 DEF ReaderInv, Arrived, Wanted
<1>4. /\ rows' \in [Readers -> [Seqs -> Row]]
      /\ bookmark' \in [Readers -> 0..MaxSeq]
      /\ issued' \in [Readers -> [Seqs -> Nat]]
      /\ taken' \in [Readers -> SUBSET Seqs]
  BY IInvByReader, DeliveriesAssumption DEF ReaderInv, LogOK
<1>5. QED
  BY <1>1, <1>3, <1>4, DeliveriesAssumption DEF IInv, TypeOK, BookmarkInLog, AckedIsTaken,
     OnlyNewestTokenNames, TakenStaysTaken, BookmarkSkipsNothing, ReaderInv, LogOK

-----------------------------------------------------------------------------
(* Each action preserves the invariant.                                    *)

\* A message that arrives (append) breaks nothing: it lies beyond every bookmark.
LEMMA ArriveKeeps ==
    ASSUME IInv, NEW m \in Message, Arrive(m)
    PROVE  IInv'
<1>1. log' \in Seq(Message) /\ Len(log') = Len(log) + 1 /\ \A s \in Arrived : log'[s] = log[s]
  BY DEF IInv, TypeOK, Arrive, Arrived
<1>2. LogOK'
  BY <1>1, DeliveriesAssumption DEF IInv, TypeOK, LogOK, Arrive
<1>3. ASSUME NEW r \in Readers
      PROVE  ReaderInv(r, rows[r], bookmark[r], issued[r], taken[r])'
  BY <1>1, IInvByReader DEF ReaderInv, LogOK, Arrive, Arrived, Wanted
<1>4. QED
  BY <1>2, <1>3, IInvByReader, DeliveriesAssumption DEF Arrive, IInv, TypeOK, BookmarkInLog,
     AckedIsTaken, OnlyNewestTokenNames, TakenStaysTaken, BookmarkSkipsNothing, ReaderInv, LogOK

\* The sweep and the new bookmark, whatever follows them.
LEMMA SweepKeeps ==
    ASSUME IInv, NEW r \in Readers, NEW b, StopsAt(r, Swept(rows[r]), b)
    PROVE  ReaderInv(r, Swept(rows[r]), b, issued[r], taken[r])
<1>1. ReaderInv(r, rows[r], bookmark[r], issued[r], taken[r]) /\ LogOK
  BY IInvByReader
<1>2. /\ Swept(rows[r]) \in [Seqs -> Row]
      /\ \A s \in Seqs :
            \/ Swept(rows[r])[s] = rows[r][s]
            \/ rows[r][s].state = "leased" /\ Swept(rows[r])[s] = Quarantined(rows[r][s])
  BY <1>1, SweptRows DEF ReaderInv
<1>3. \A s \in Seqs : rows[r][s] \in Row
  BY <1>1 DEF ReaderInv
<1>4. \A s \in Seqs : /\ Quarantined(rows[r][s]).state = "quarantined"
                       /\ Quarantined(rows[r][s]).token = NoToken
  BY <1>3 DEF Quarantined, Row
<1>5. b \in 0..Len(log) /\ bookmark[r] <= b /\ b \in Nat
  BY <1>1 DEF StopsAt, ReaderInv, LogOK
<1>6. Arrived \subseteq Seqs
  BY <1>1, DeliveriesAssumption DEF Arrived, Seqs, LogOK
<1>7. \A s \in taken[r] :
         Swept(rows[r])[s].state = "acked" \/ (Swept(rows[r])[s].state = "none" /\ s <= b)
  BY <1>1, <1>2, <1>5 DEF ReaderInv, Seqs
<1>8. \A s \in Arrived :
         s <= b /\ Wanted(r, s) /\ Swept(rows[r])[s].state = "none" => s \in taken[r]
  BY <1>1, <1>2, <1>4, <1>5, <1>6 DEF ReaderInv, StopsAt, Settled, Arrived
<1>9. QED
  BY <1>1, <1>2, <1>4, <1>5, <1>7, <1>8 DEF ReaderInv

\* A `next` that finds nothing keeps the invariant, with the sweep and bookmark it commits.
LEMMA NothingOwedKeeps ==
    ASSUME IInv, NEW r \in Readers, NEW b \in 0..Len(log), NothingOwed(r, b)
    PROVE  IInv'
<1>1. ReaderInv(r, Swept(rows[r]), b, issued[r], taken[r])
  BY SweepKeeps DEF NothingOwed
<1>2. /\ rows' = [rows EXCEPT ![r] = Swept(rows[r])]
      /\ bookmark' = [bookmark EXCEPT ![r] = b]
      /\ issued' = [issued EXCEPT ![r] = issued[r]]
      /\ taken' = [taken EXCEPT ![r] = taken[r]]
      /\ replays' \in Nat /\ log' = log
  BY DEF NothingOwed, IInv, TypeOK
<1>3. QED
  BY <1>1, <1>2, ReaderStep

\* A `next` that hands a message out under a new token keeps the invariant.
LEMMA HandOutKeeps ==
    ASSUME IInv, NEW r \in Readers, NEW b \in 0..Len(log), NEW s \in Arrived, HandOut(r, b, s)
    PROVE  IInv'
<1> DEFINE swept == Swept(rows[r])
           token == issued[r][s] + 1
           rs    == [swept EXCEPT ![s] = LeasedRow(swept[s], token)]
           iss   == [issued[r] EXCEPT ![s] = token]
<1>1. ReaderInv(r, swept, b, issued[r], taken[r])
  BY SweepKeeps DEF HandOut
<1>2. s \in Seqs
  BY IInvByReader, DeliveriesAssumption DEF Arrived, Seqs, LogOK
\* A candidate is in a row that came back, or new after the bookmark: not taken on.
<1>3. s \notin taken[r]
  BY <1>1, <1>2 DEF HandOut, Candidates, FreeBelow, FreeAfter, Back, ReaderInv
<1>4. /\ LeasedRow(swept[s], token) \in Row
      /\ LeasedRow(swept[s], token).state = "leased"
      /\ LeasedRow(swept[s], token).token = token
  <2>1. token \in Nat /\ swept[s] \in Row
    BY <1>1, <1>2 DEF ReaderInv
  <2>2. QED
    BY <2>1, RowOperators DEF LeasedRow
<1>5. ReaderInv(r, rs, b, iss, taken[r])
  BY <1>1, <1>2, <1>3, <1>4 DEF ReaderInv
<1>6. /\ rows' = [rows EXCEPT ![r] = rs]
      /\ issued' = [issued EXCEPT ![r] = iss]
      /\ taken' = [taken EXCEPT ![r] = taken[r]]
      /\ bookmark' = [bookmark EXCEPT ![r] = b]
      /\ replays' \in Nat /\ log' = log
  BY DEF HandOut, IInv, TypeOK
<1>7. QED
  BY <1>5, <1>6, ReaderStep

\* Every accepted settle: one row is written, the bookmark moves, old acked rows go.
LEMMA WriteKeeps ==
    ASSUME IInv, NEW r \in Readers, NEW s \in Seqs, NEW row \in Row, NEW tk,
           Write(r, s, row),
           taken' = [taken EXCEPT ![r] = tk],
           tk \in {taken[r], taken[r] \cup {s}},
           row.state # "none",
           row.state = "acked" <=> s \in tk,
           row.token \in {NoToken, issued[r][s]}
    PROVE  IInv'
<1> DEFINE written == [rows[r] EXCEPT ![s] = row]
<1>1. ReaderInv(r, rows[r], bookmark[r], issued[r], taken[r]) /\ LogOK
  BY IInvByReader
<1>2. PICK b \in 0..Len(log) :
        /\ StopsAt(r, written, b)
        /\ ~Prunable(row, s, b)
        /\ rows' = [rows EXCEPT ![r] = Pruned(written, b)]
        /\ bookmark' = [bookmark EXCEPT ![r] = b]
        /\ UNCHANGED <<log, issued, replays>>
  BY DEF Write
<1>3. written \in [Seqs -> Row] /\ b \in Nat /\ bookmark[r] <= b
  BY <1>1, <1>2 DEF ReaderInv, StopsAt, LogOK
<1> DEFINE after == Pruned(written, b)
<1>4. /\ after \in [Seqs -> Row]
      /\ \A t \in Seqs :
            \/ after[t] = written[t]
            \/ written[t].state = "acked" /\ t <= b /\ after[t] = NoRow
  <2>1. written \in [Seqs -> Row] /\ b \in Nat
    BY <1>3
  <2> HIDE DEF written
  <2>2. QED
    BY <2>1, PrunedRows
<1>5. NoRow.state = "none" /\ NoRow.token = NoToken
  BY DEF NoRow
<1>6. after[s] = row
  BY <1>1, <1>2, <1>3 DEF Pruned, ReaderInv
<1>7. \A t \in Seqs \ {s} : written[t] = rows[r][t]
  BY <1>1 DEF ReaderInv
<1>8. \A t \in Seqs : after[t].state = "acked" => t \in tk
  <2>1. SUFFICES ASSUME NEW t \in Seqs, after[t].state = "acked", t # s
                 PROVE  t \in taken[r]
    BY <1>6
  <2>2. written[t] = rows[r][t]
    BY <2>1, <1>7
  <2>3. after[t] = written[t]
    BY <2>1, <1>4, <1>5
  <2>4. rows[r][t].state = "acked"
    BY <2>1, <2>2, <2>3
  <2>5. QED
    BY <2>4, <1>1 DEF ReaderInv
<1>9. \A t \in Seqs : after[t].token \in {NoToken, issued[r][t]}
  <2>1. SUFFICES ASSUME NEW t \in Seqs, t # s
                 PROVE  after[t].token \in {NoToken, issued[r][t]}
    BY <1>6
  <2>2. rows[r][t].token \in {NoToken, issued[r][t]}
    BY <1>1 DEF ReaderInv
  <2>3. after[t] = rows[r][t] \/ after[t] = NoRow
    BY <2>1, <1>4, <1>7
  <2>4. QED
    BY <2>2, <2>3, <1>5
<1>10. tk \in SUBSET Seqs
  BY <1>1 DEF ReaderInv
<1>11. \A t \in tk : after[t].state = "acked" \/ (after[t].state = "none" /\ t <= b)
  <2>1. ASSUME NEW t \in tk, t # s
        PROVE  after[t].state = "acked" \/ (after[t].state = "none" /\ t <= b)
    <3>1. t \in taken[r] /\ t \in Seqs /\ t \in Nat
      BY <2>1, <1>10 DEF Seqs
    <3>2. rows[r][t].state = "acked" \/ (rows[r][t].state = "none" /\ t <= bookmark[r])
      BY <3>1, <1>1 DEF ReaderInv
    <3>3. bookmark[r] \in Nat
      BY <1>1 DEF ReaderInv
    <3>4. QED
      BY <2>1, <3>1, <3>2, <3>3, <1>3, <1>4, <1>5, <1>7
  <2>2. QED
    BY <2>1, <1>6
<1>12. \A t \in Arrived :
          t <= b /\ Wanted(r, t) /\ after[t].state = "none" => t \in tk
  <2>1. SUFFICES ASSUME NEW t \in Arrived, t <= b, Wanted(r, t), after[t].state = "none"
                 PROVE  t \in tk
    OBVIOUS
  <2>2. t \in Seqs /\ t # s
    BY <1>1, <1>6, <2>1, DeliveriesAssumption DEF Arrived, Seqs, LogOK
  <2>3. CASE rows[r][t].state = "acked"
    BY <2>2, <2>3, <1>1 DEF ReaderInv
  <2>4. CASE rows[r][t].state # "acked"
    <3>1. written[t].state = "none" /\ rows[r][t].state = "none"
      BY <2>1, <2>2, <2>4, <1>4, <1>7
    <3>2. t <= bookmark[r]
      BY <1>1, <1>2, <2>1, <3>1 DEF StopsAt, Settled, ReaderInv, Arrived
    <3>3. QED
      BY <1>1, <2>1, <3>1, <3>2 DEF ReaderInv
  <2>5. QED
    BY <2>3, <2>4
<1>13. ReaderInv(r, after, b, issued[r], tk)
  BY <1>1, <1>2, <1>4, <1>8, <1>9, <1>10, <1>11, <1>12 DEF ReaderInv
<1>14. issued' = [issued EXCEPT ![r] = issued[r]] /\ replays' \in Nat
  BY <1>2 DEF IInv, TypeOK
<1>15. QED
  BY <1>2, <1>13, <1>14, ReaderStep

\* An ack keeps the invariant: the row it writes is acked exactly when it is taken.
LEMMA AckKeeps ==
    ASSUME IInv, NEW r \in Readers, NEW s \in Seqs, NEW n \in 1..issued[r][s], Ack(r, s, n)
    PROVE  IInv'
<1>1. ReaderInv(r, rows[r], bookmark[r], issued[r], taken[r])
  BY IInvByReader
<1> DEFINE row == IF rows[r][s].state = "leased" THEN AckedRow(rows[r][s]) ELSE rows[r][s]
<1>2. rows[r][s] \in Row /\ rows[r][s].token \in {NoToken, issued[r][s]}
  BY <1>1 DEF ReaderInv
<1>3. /\ AckedRow(rows[r][s]) \in Row
      /\ AckedRow(rows[r][s]).state = "acked"
      /\ AckedRow(rows[r][s]).token = rows[r][s].token
  BY <1>2, RowOperators DEF AckedRow, Row
<1>4. row \in Row /\ row.state = "acked" /\ row.token \in {NoToken, issued[r][s]}
  BY <1>2, <1>3 DEF Ack
<1>5. taken' = [taken EXCEPT ![r] = taken[r] \cup {s}] /\ Write(r, s, row)
  BY DEF Ack
<1>6. QED
  BY <1>4, <1>5, WriteKeeps

\* A nack keeps the invariant: only a leased row can be nacked, and that one is not taken.
LEMMA NackKeeps ==
    ASSUME IInv, NEW r \in Readers, NEW s \in Seqs, NEW n \in 1..issued[r][s], Nack(r, s, n)
    PROVE  IInv'
<1>1. ReaderInv(r, rows[r], bookmark[r], issued[r], taken[r])
  BY IInvByReader
<1>2. PICK due \in BOOLEAN : Write(r, s, NackedRow(rows[r][s], due))
  BY DEF Nack
<1>3. rows[r][s] \in Row /\ s \notin taken[r]
  BY <1>1 DEF ReaderInv, Nack
<1>4. /\ NackedRow(rows[r][s], due) \in Row
      /\ NackedRow(rows[r][s], due).state \in {"quarantined", "delayed"}
      /\ NackedRow(rows[r][s], due).token = NoToken
  <2>1. NackedRow(rows[r][s], due) \in Row
    BY <1>3, RowOperators
  <2>2. CASE rows[r][s].attempt >= MaxAttempts
    BY <2>1, <2>2, <1>3 DEF NackedRow, Quarantined, Row
  <2>3. CASE ~(rows[r][s].attempt >= MaxAttempts)
    BY <2>1, <2>3, <1>3 DEF NackedRow, Row
  <2>4. QED
    BY <2>1, <2>2, <2>3
<1>5. taken' = [taken EXCEPT ![r] = taken[r]]
  BY DEF Nack, IInv, TypeOK
<1>6. QED
  BY <1>2, <1>3, <1>4, <1>5, WriteKeeps

\* A renew keeps the invariant: the row stays leased under the token it had.
LEMMA RenewKeeps ==
    ASSUME IInv, NEW r \in Readers, NEW s \in Seqs, NEW n \in 1..issued[r][s], Renew(r, s, n)
    PROVE  IInv'
<1>1. ReaderInv(r, rows[r], bookmark[r], issued[r], taken[r])
  BY IInvByReader
<1>2. /\ rows[r][s] \in Row /\ rows[r][s].state = "leased" /\ s \notin taken[r]
      /\ rows[r][s].token \in {NoToken, issued[r][s]}
  BY <1>1 DEF ReaderInv, Renew
<1>3. /\ RenewedRow(rows[r][s]) \in Row
      /\ RenewedRow(rows[r][s]).state = "leased"
      /\ RenewedRow(rows[r][s]).token = rows[r][s].token
  BY <1>2, RowOperators DEF RenewedRow, Row
<1>4. taken' = [taken EXCEPT ![r] = taken[r]] /\ Write(r, s, RenewedRow(rows[r][s]))
  BY DEF Renew, IInv, TypeOK
<1>5. QED
  BY <1>2, <1>3, <1>4, WriteKeeps

\* `read --ack` (delivery_ack_seqs) keeps the invariant: what it acks, it takes.
LEMMA ReadAckKeeps ==
    ASSUME IInv, NEW r \in Readers, NEW lo \in Arrived, NEW hi \in Arrived, ReadAck(r, lo, hi)
    PROVE  IInv'
<1> DEFINE rs == [s \in Seqs |->
                    IF s \notin lo..hi \/ rows[r][s].state = "quarantined" THEN rows[r][s]
                    ELSE [state |-> "acked", token |-> NoToken, due |-> FALSE, old |-> FALSE,
                          attempt |-> IF rows[r][s].state = "none" THEN 1
                                      ELSE rows[r][s].attempt]]
           tk == taken[r] \cup {s \in lo..hi : rs[s].state = "acked"}
<1>1. ReaderInv(r, rows[r], bookmark[r], issued[r], taken[r]) /\ LogOK
  BY IInvByReader
<1>2. PICK b \in 0..Len(log) :
        /\ StopsAt(r, rs, b)
        /\ rows' = [rows EXCEPT ![r] = rs]
        /\ bookmark' = [bookmark EXCEPT ![r] = b]
        /\ taken' = [taken EXCEPT ![r] = tk]
        /\ UNCHANGED <<log, issued, replays>>
  BY DEF ReadAck
<1>3. /\ lo..hi \subseteq Seqs /\ Arrived \subseteq Seqs /\ b \in Nat
      /\ bookmark[r] \in Nat /\ bookmark[r] <= b
  BY <1>1, <1>2, DeliveriesAssumption DEF Arrived, Seqs, LogOK, StopsAt, ReaderInv
\* The range is acked but for what is quarantined; every other row is as it was.
<1>4. \A s \in Seqs :
         \/ rs[s] = rows[r][s] /\ (s \notin lo..hi \/ rows[r][s].state = "quarantined")
         \/ s \in lo..hi /\ rs[s].state = "acked" /\ rs[s].token = NoToken /\ rs[s] \in Row
  <2>1. SUFFICES ASSUME NEW s \in Seqs, s \in lo..hi, rows[r][s].state # "quarantined"
                 PROVE  rs[s].state = "acked" /\ rs[s].token = NoToken /\ rs[s] \in Row
    OBVIOUS
  <2>2. rows[r][s] \in Row
    BY <1>1 DEF ReaderInv
  <2>3. QED
    BY <2>1, <2>2 DEF Row, States, NoToken
<1>5. rs \in [Seqs -> Row]
  BY <1>1, <1>4 DEF ReaderInv
<1> HIDE DEF rs
<1>6. \A s \in Seqs : rs[s].state = "acked" => s \in tk
  BY <1>1, <1>4 DEF ReaderInv
<1>7. \A s \in Seqs : rs[s].token \in {NoToken, issued[r][s]}
  BY <1>1, <1>4 DEF ReaderInv
<1>8. tk \in SUBSET Seqs
  BY <1>1, <1>3 DEF ReaderInv
<1>9. \A s \in tk : rs[s].state = "acked" \/ (rs[s].state = "none" /\ s <= b)
  <2>1. SUFFICES ASSUME NEW s \in taken[r], rs[s] = rows[r][s]
                 PROVE  rs[s].state = "acked" \/ (rs[s].state = "none" /\ s <= b)
    BY <1>1, <1>4 DEF ReaderInv
  <2>2. s \in Nat
    BY <1>1 DEF ReaderInv, Seqs
  <2>3. QED
    BY <1>1, <1>3, <2>1, <2>2 DEF ReaderInv
<1>10. \A s \in Arrived :
          s <= b /\ Wanted(r, s) /\ rs[s].state = "none" => s \in tk
  <2>1. SUFFICES ASSUME NEW s \in Arrived, s <= b, Wanted(r, s), rs[s].state = "none"
                 PROVE  s \in tk
    OBVIOUS
  <2>2. rows[r][s].state = "none"
    BY <1>3, <1>4, <2>1
  <2>3. s <= bookmark[r]
    BY <1>1, <1>2, <1>3, <2>1 DEF StopsAt, Settled, Arrived
  <2>4. QED
    BY <1>1, <2>1, <2>2, <2>3 DEF ReaderInv
<1>11. ReaderInv(r, rs, b, issued[r], tk)
  BY <1>1, <1>2, <1>5, <1>6, <1>7, <1>8, <1>9, <1>10 DEF ReaderInv
<1>12. issued' = [issued EXCEPT ![r] = issued[r]] /\ replays' \in Nat
  BY <1>2 DEF IInv, TypeOK
<1>13. QED
  BY <1>2, <1>11, <1>12, ReaderStep

\* Replay, TimePasses and DayPasses write one row and leave the bookmark where it is.
LEMMA OneRowKeeps ==
    ASSUME IInv, NEW r \in Readers, NEW s \in Seqs, NEW row \in Row,
           rows' = [rows EXCEPT ![r] = [rows[r] EXCEPT ![s] = row]],
           UNCHANGED <<log, bookmark, issued, taken>>,
           replays' \in Nat,
           row.state # "none" /\ rows[r][s].state # "none",
           row.state = "acked" <=> rows[r][s].state = "acked",
           row.token \in {NoToken, rows[r][s].token}
    PROVE  IInv'
<1>1. ReaderInv(r, rows[r], bookmark[r], issued[r], taken[r])
  BY IInvByReader
<1>2. ReaderInv(r, [rows[r] EXCEPT ![s] = row], bookmark[r], issued[r], taken[r])
  BY <1>1 DEF ReaderInv
<1>3. /\ bookmark' = [bookmark EXCEPT ![r] = bookmark[r]]
      /\ issued' = [issued EXCEPT ![r] = issued[r]]
      /\ taken' = [taken EXCEPT ![r] = taken[r]]
      /\ log' = log
  BY DEF IInv, TypeOK
<1> DEFINE rs == [rows[r] EXCEPT ![s] = row]
<1> HIDE DEF rs
<1>4. ReaderInv(r, rs, bookmark[r], issued[r], taken[r]) /\ rows' = [rows EXCEPT ![r] = rs]
  BY <1>2 DEF rs
<1>5. IInv /\ r \in Readers /\ replays' \in Nat
  OBVIOUS
<1>6. QED
  BY ONLY <1>3, <1>4, <1>5, ReaderStep

\* A replay keeps the invariant: it writes a row without a token, of a message not taken.
LEMMA ReplayKeeps ==
    ASSUME IInv, NEW r \in Readers, NEW s \in Seqs, Replay(r, s)
    PROVE  IInv'
<1> DEFINE row == [state |-> "replay", token |-> NoToken, attempt |-> 0,
                   due |-> FALSE, old |-> FALSE]
<1>1. row \in Row /\ row.state = "replay" /\ row.token = NoToken
  BY DEF Row, States, NoToken
<1>2. rows' = [rows EXCEPT ![r] = [rows[r] EXCEPT ![s] = row]] /\ replays' \in Nat
  BY DEF Replay, IInv, TypeOK
<1>3. rows[r][s].state = "quarantined" /\ UNCHANGED <<log, bookmark, issued, taken>>
  BY DEF Replay
<1> HIDE DEF row
<1>4. QED
  BY <1>1, <1>2, <1>3, OneRowKeeps

\* A lease that runs out, or a delay that passes, keeps the invariant.
LEMMA TimePassesKeeps ==
    ASSUME IInv, NEW r \in Readers, NEW s \in Seqs, TimePasses(r, s)
    PROVE  IInv'
<1> DEFINE row == [rows[r][s] EXCEPT !.due = TRUE]
<1>1. rows[r][s] \in Row
  BY DEF IInv, TypeOK
<1>2. row \in Row /\ row.state = rows[r][s].state /\ row.token = rows[r][s].token
  BY <1>1 DEF Row
<1>3. rows' = [rows EXCEPT ![r] = [rows[r] EXCEPT ![s] = row]] /\ replays' \in Nat
  BY DEF TimePasses, IInv, TypeOK
<1>4. rows[r][s].state # "none" /\ UNCHANGED <<log, bookmark, issued, taken>>
  BY DEF TimePasses
<1> HIDE DEF row
<1>5. QED
  BY <1>2, <1>3, <1>4, OneRowKeeps

\* A day that passes over an acked row keeps the invariant.
LEMMA DayPassesKeeps ==
    ASSUME IInv, NEW r \in Readers, NEW s \in Seqs, DayPasses(r, s)
    PROVE  IInv'
<1> DEFINE row == [rows[r][s] EXCEPT !.old = TRUE]
<1>1. rows[r][s] \in Row
  BY DEF IInv, TypeOK
<1>2. row \in Row /\ row.state = rows[r][s].state /\ row.token = rows[r][s].token
  BY <1>1 DEF Row
<1>3. rows' = [rows EXCEPT ![r] = [rows[r] EXCEPT ![s] = row]] /\ replays' \in Nat
  BY DEF DayPasses, IInv, TypeOK
<1>4. rows[r][s].state # "none" /\ UNCHANGED <<log, bookmark, issued, taken>>
  BY DEF DayPasses
<1> HIDE DEF row
<1>5. QED
  BY <1>2, <1>3, <1>4, OneRowKeeps

\* A peek keeps the invariant: its bookmark stops before the first message still owed.
LEMMA PeekKeeps ==
    ASSUME IInv, NEW r \in Readers, Peek(r)
    PROVE  IInv'
<1>1. ReaderInv(r, rows[r], bookmark[r], issued[r], taken[r]) /\ LogOK
  BY IInvByReader
<1>2. PICK b \in 0..Len(log) :
        /\ StopsAt(r, rows[r], b)
        /\ bookmark' = [bookmark EXCEPT ![r] = b]
        /\ UNCHANGED <<log, rows, issued, replays, taken>>
  BY DEF Peek
<1>3. b \in Nat /\ bookmark[r] \in Nat /\ bookmark[r] <= b /\ taken[r] \subseteq Nat
  BY <1>1, <1>2 DEF StopsAt, ReaderInv, LogOK, Seqs
<1>4. \A s \in Arrived :
         s <= b /\ Wanted(r, s) /\ rows[r][s].state = "none" => s \in taken[r]
  BY <1>1, <1>2, <1>3 DEF StopsAt, Settled, ReaderInv, Arrived
<1>5. ReaderInv(r, rows[r], b, issued[r], taken[r])
  BY <1>1, <1>2, <1>3, <1>4 DEF ReaderInv
<1>6. /\ rows' = [rows EXCEPT ![r] = rows[r]]
      /\ issued' = [issued EXCEPT ![r] = issued[r]]
      /\ taken' = [taken EXCEPT ![r] = taken[r]]
      /\ bookmark' = [bookmark EXCEPT ![r] = b]
      /\ replays' \in Nat /\ log' = log
  BY <1>2 DEF IInv, TypeOK
<1>7. QED
  BY <1>5, <1>6, ReaderStep

-----------------------------------------------------------------------------
(* The theorems.                                                           *)

\* The empty table of a new room satisfies the invariant.
LEMMA InitIInv == Init => IInv
<1>1. SUFFICES ASSUME Init
               PROVE  IInv
  OBVIOUS
<1>2. NoRow \in Row /\ NoRow.state = "none" /\ NoRow.token = NoToken
  BY DEF NoRow, Row, States, NoToken
<1>3. TypeOK
  BY <1>1, <1>2, DeliveriesAssumption DEF Init, TypeOK
<1>4. BookmarkInLog /\ AckedIsTaken /\ OnlyNewestTokenNames /\ TakenStaysTaken
  BY <1>1, <1>2 DEF Init, BookmarkInLog, AckedIsTaken, OnlyNewestTokenNames, TakenStaysTaken
<1>5. BookmarkSkipsNothing
  BY <1>1 DEF Init, BookmarkSkipsNothing, Arrived
<1>6. QED
  BY <1>3, <1>4, <1>5 DEF IInv

\* Every step, and every stutter, preserves the invariant: one lemma per operation.
LEMMA NextIInv == IInv /\ [Next]_vars => IInv'
<1>1. SUFFICES ASSUME IInv, [Next]_vars
               PROVE  IInv'
  OBVIOUS
<1>2. ASSUME NEW m \in Message, Arrive(m)
      PROVE  IInv'
  BY <1>1, <1>2, ArriveKeeps
<1>3. ASSUME NEW r \in Readers, Lease(r)
      PROVE  IInv'
  BY <1>1, <1>3, NothingOwedKeeps, HandOutKeeps DEF Lease
<1>4. ASSUME NEW r \in Readers, Peek(r)
      PROVE  IInv'
  BY <1>1, <1>4, PeekKeeps
<1>5. ASSUME NEW r \in Readers, NEW lo \in Arrived, NEW hi \in Arrived, ReadAck(r, lo, hi)
      PROVE  IInv'
  BY <1>1, <1>5, ReadAckKeeps
<1>6. ASSUME NEW r \in Readers, NEW s \in Seqs, Settle(r, s)
      PROVE  IInv'
  BY <1>1, <1>6, AckKeeps, NackKeeps, RenewKeeps DEF Settle
<1>7. ASSUME NEW r \in Readers, NEW s \in Seqs, Replay(r, s)
      PROVE  IInv'
  BY <1>1, <1>7, ReplayKeeps
<1>8. ASSUME NEW r \in Readers, NEW s \in Seqs, TimePasses(r, s)
      PROVE  IInv'
  BY <1>1, <1>8, TimePassesKeeps
<1>9. ASSUME NEW r \in Readers, NEW s \in Seqs, DayPasses(r, s)
      PROVE  IInv'
  BY <1>1, <1>9, DayPassesKeeps
<1>10. CASE UNCHANGED vars
  BY <1>1, <1>10 DEF vars, IInv, TypeOK, BookmarkInLog, AckedIsTaken, OnlyNewestTokenNames,
     TakenStaysTaken, BookmarkSkipsNothing, Arrived, Wanted
<1>11. QED
  BY <1>1, <1>2, <1>3, <1>4, <1>5, <1>6, <1>7, <1>8, <1>9, <1>10 DEF Next

\* In every reachable state the inductive invariant holds, for any readers, limits and
\* bounds; the four theorems below read it off.
THEOREM Inductive == Spec => []IInv
BY InitIInv, NextIInv, PTL DEF Spec

\* Every row, bookmark and draw has its type, whatever workers do (delivery_* in store.rs).
THEOREM TypeCorrect == Spec => []TypeOK
BY Inductive, PTL DEF IInv

\* The bookmark skips no message a reader wants, though acked rows are pruned behind it.
THEOREM SkipsNothing == Spec => []BookmarkSkipsNothing
BY Inductive, PTL DEF IInv

\* A token that names a delivery is the newest one drawn for it: a late worker cannot
\* settle the delivery of another.
THEOREM NewestTokenOnly == Spec => []OnlyNewestTokenNames
BY Inductive, PTL DEF IInv

\* What a reader has taken on is never handed out again.
THEOREM TakenForGood == Spec => []TakenStaysTaken
BY Inductive, PTL DEF IInv

-----------------------------------------------------------------------------
(* Second argument: what a row says of its message.  A row that is not yet *)
(* acked is of a message that arrived and is wanted, and its attempts are  *)
(* within the limit; so what `next` chooses is what a wake rule counts,    *)
(* and every operation does what AtLeastOnce promises, or nothing.         *)

LiveRow(r, s, row) ==
    /\ row.state # "none" => s \in Arrived
    /\ row.state \in {"leased", "delayed", "quarantined", "replay"} => Wanted(r, s)
    /\ row.state \in {"none", "replay"} => row.attempt = 0
    /\ row.state = "leased" => row.attempt \in 1..MaxAttempts
    /\ row.state = "delayed" => row.attempt < MaxAttempts

LiveInv == \A r \in Readers : \A s \in Seqs : LiveRow(r, s, rows[r][s])

\* What IInv and LiveInv say of one reader's rows.
LEMMA RowsOf ==
    ASSUME IInv, LiveInv, NEW r \in Readers
    PROVE  /\ rows[r] \in [Seqs -> Row] /\ rows \in [Readers -> [Seqs -> Row]]
           /\ \A s \in Seqs : rows[r][s] \in Row /\ LiveRow(r, s, rows[r][s])
           /\ Arrived \subseteq Seqs /\ Len(log) \in Nat /\ bookmark[r] \in 0..Len(log)
           /\ Seqs \subseteq Nat /\ MaxAttempts \in Nat \ {0}
<1>1. rows \in [Readers -> [Seqs -> Row]] /\ log \in Seq(Message) /\ Len(log) <= MaxSeq
  BY DEF IInv, TypeOK
<1>2. Len(log) \in Nat /\ MaxAttempts \in Nat \ {0} /\ MaxSeq \in Nat
  BY <1>1, DeliveriesAssumption
<1>3. Arrived \subseteq Seqs /\ Seqs \subseteq Nat
  BY <1>1, <1>2 DEF Arrived, Seqs
<1>4. bookmark[r] \in 0..Len(log)
  BY IInvByReader DEF ReaderInv
<1>5. \A s \in Seqs : rows[r][s] \in Row /\ LiveRow(r, s, rows[r][s])
  BY <1>1 DEF LiveInv
<1> QED
  BY <1>1, <1>2, <1>3, <1>4, <1>5

\* A step that writes one reader's rows is in order when these rows are.
LEMMA LiveStep ==
    ASSUME IInv, LiveInv, log' = log, NEW r \in Readers, NEW rs,
           rows' = [rows EXCEPT ![r] = rs],
           \A s \in Seqs : LiveRow(r, s, rs[s])
    PROVE  LiveInv'
<1>1. \A q \in Readers : \A s \in Seqs : LiveRow(q, s, rows'[q][s])
  BY RowsOf DEF LiveInv
<1> QED
  BY <1>1 DEF LiveInv, LiveRow, Arrived, Wanted

LEMMA SweptLive ==
    ASSUME IInv, LiveInv, NEW r \in Readers, NEW s \in Seqs
    PROVE  /\ Swept(rows[r])[s] \in Row /\ LiveRow(r, s, Swept(rows[r])[s])
           /\ ~Exhausted(Swept(rows[r])[s])
           /\ Swept(rows[r])[s] = IF Exhausted(rows[r][s]) THEN Quarantined(rows[r][s])
                                  ELSE rows[r][s]
<1>1. rows[r][s] \in Row /\ LiveRow(r, s, rows[r][s])
  BY RowsOf
<1>2. /\ Quarantined(rows[r][s]) \in Row
      /\ Quarantined(rows[r][s]).state = "quarantined"
  BY <1>1, RowOperators DEF Quarantined, Row, NoToken
<1>3. Exhausted(rows[r][s]) => rows[r][s].state = "leased"
  BY DEF Exhausted
<1>4. Swept(rows[r])[s] = IF Exhausted(rows[r][s]) THEN Quarantined(rows[r][s]) ELSE rows[r][s]
  BY DEF Swept
<1>5. LiveRow(r, s, Quarantined(rows[r][s])) \/ ~Exhausted(rows[r][s])
  BY <1>1, <1>2, <1>3 DEF LiveRow
<1>6. ~Exhausted(Quarantined(rows[r][s]))
  BY <1>2 DEF Exhausted
<1> QED
  BY <1>1, <1>2, <1>4, <1>5, <1>6

\* What `next` chooses is wanted, and not yet handed out as often as the limit allows.
LEMMA ChosenHasTriesLeft ==
    ASSUME IInv, LiveInv, NEW r \in Readers, NEW b \in 0..Len(log), NEW s \in Arrived,
           StopsAt(r, Swept(rows[r]), b), s \in Candidates(r, Swept(rows[r]), b)
    PROVE  /\ s \in Seqs /\ Wanted(r, s) /\ Swept(rows[r])[s].attempt < MaxAttempts
           /\ \/ Swept(rows[r])[s].state = "none" /\ s > b
              \/ Back(Swept(rows[r])[s])
<1> DEFINE row == Swept(rows[r])[s]
<1>1. s \in Seqs /\ s \in Nat /\ b \in Nat /\ MaxAttempts \in Nat \ {0}
  BY RowsOf
<1>2. row \in Row /\ LiveRow(r, s, row) /\ ~Exhausted(row)
  BY <1>1, SweptLive
<1>3. \/ Back(row)
      \/ Wanted(r, s) /\ s > b /\ row.state = "none"
  BY <1>1 DEF Candidates, FreeBelow, FreeAfter
<1> HIDE DEF row
<1>4. Back(row) => Wanted(r, s)
  BY <1>2 DEF Back, LiveRow
<1>5. row.attempt \in Nat
  BY <1>2 DEF Row
<1>6. row.attempt < MaxAttempts
  BY <1>1, <1>2, <1>3, <1>5 DEF Back, LiveRow, Exhausted
<1> QED
  BY <1>1, <1>3, <1>4, <1>6 DEF row

\* Rows that a settle prunes stay in order.
LEMMA WriteLive ==
    ASSUME IInv, LiveInv, NEW r \in Readers, NEW s \in Seqs, NEW row \in Row,
           Write(r, s, row), LiveRow(r, s, row)
    PROVE  LiveInv'
<1> DEFINE written == [rows[r] EXCEPT ![s] = row]
<1>1. PICK b \in 0..Len(log) :
        rows' = [rows EXCEPT ![r] = Pruned(written, b)] /\ log' = log
  BY DEF Write
<1>2. written \in [Seqs -> Row] /\ b \in Nat
  BY RowsOf
<1>3. \A t \in Seqs : LiveRow(r, t, written[t])
  BY RowsOf
<1> HIDE DEF written
<1>4. \A t \in Seqs : LiveRow(r, t, NoRow)
  BY DEF LiveRow, NoRow
<1>5. \A t \in Seqs : LiveRow(r, t, Pruned(written, b)[t])
  <2>1. \A t \in Seqs : Pruned(written, b)[t] = written[t] \/ Pruned(written, b)[t] = NoRow
    BY <1>2, PrunedRows
  <2> QED
    BY <1>3, <1>4, <2>1
<1> QED
  BY <1>1, <1>5, LiveStep

LEMMA OneRowLive ==
    ASSUME IInv, LiveInv, NEW r \in Readers, NEW s \in Seqs, NEW row,
           rows' = [rows EXCEPT ![r][s] = row], log' = log, LiveRow(r, s, row)
    PROVE  LiveInv'
<1>1. \A t \in Seqs : LiveRow(r, t, [rows[r] EXCEPT ![s] = row][t])
  BY RowsOf
<1>2. rows' = [rows EXCEPT ![r] = [rows[r] EXCEPT ![s] = row]]
  OBVIOUS
<1> DEFINE rs == [rows[r] EXCEPT ![s] = row]
<1>3. \A t \in Seqs : LiveRow(r, t, rs[t])
  BY <1>1
<1>4. rows' = [rows EXCEPT ![r] = rs]
  BY <1>2
<1> HIDE DEF rs
<1> QED
  BY <1>3, <1>4, LiveStep

\* The rows that acks, nacks and renewals write.
LEMMA SettledRows ==
    ASSUME IInv, LiveInv, NEW r \in Readers, NEW s \in Seqs, NEW due \in BOOLEAN,
           rows[r][s].state = "leased"
    PROVE  /\ LiveRow(r, s, AckedRow(rows[r][s])) /\ AckedRow(rows[r][s]).state = "acked"
           /\ LiveRow(r, s, RenewedRow(rows[r][s])) /\ RenewedRow(rows[r][s]).state = "leased"
           /\ RenewedRow(rows[r][s]).attempt = rows[r][s].attempt
           /\ LiveRow(r, s, NackedRow(rows[r][s], due))
           /\ IF rows[r][s].attempt = MaxAttempts
              THEN NackedRow(rows[r][s], due).state = "quarantined"
              ELSE /\ NackedRow(rows[r][s], due).state = "delayed"
                   /\ NackedRow(rows[r][s], due).attempt = rows[r][s].attempt
<1> DEFINE row == rows[r][s]
<1>1. row \in Row /\ LiveRow(r, s, row) /\ row.state = "leased" /\ MaxAttempts \in Nat
  BY RowsOf
<1> HIDE DEF row
<1>2. row.attempt \in 1..MaxAttempts /\ s \in Arrived /\ Wanted(r, s) /\ row.attempt \in Nat
  BY <1>1 DEF LiveRow, Row
<1>3. AckedRow(row).state = "acked"
  BY <1>1 DEF AckedRow, Row
<1>4. RenewedRow(row).state = "leased" /\ RenewedRow(row).attempt = row.attempt
  BY <1>1 DEF RenewedRow, Row
<1>5. CASE row.attempt >= MaxAttempts
  <2>1. NackedRow(row, due).state = "quarantined" /\ row.attempt = MaxAttempts
    BY <1>1, <1>2, <1>5 DEF NackedRow, Quarantined, Row
  <2> QED
    BY <1>2, <1>3, <1>4, <2>1 DEF LiveRow, row
<1>6. CASE ~(row.attempt >= MaxAttempts)
  <2>1. /\ NackedRow(row, due).state = "delayed" /\ NackedRow(row, due).attempt = row.attempt
        /\ row.attempt # MaxAttempts /\ row.attempt < MaxAttempts
    BY <1>1, <1>2, <1>6 DEF NackedRow, Row
  <2> QED
    BY <1>2, <1>3, <1>4, <2>1 DEF LiveRow, row
<1> QED
  BY <1>5, <1>6

\* Every step keeps rows in order.
LEMMA NextLive == IInv /\ LiveInv /\ [Next]_vars => LiveInv'
<1>1. SUFFICES ASSUME IInv, LiveInv, [Next]_vars
               PROVE  LiveInv'
  OBVIOUS
<1>2. ASSUME NEW m \in Message, Arrive(m)
      PROVE  LiveInv'
  <2>1. /\ Len(log') = Len(log) + 1 /\ \A s \in Arrived : log'[s] = log[s]
        /\ Arrived \subseteq Arrived' /\ rows' = rows
    BY <1>1, <1>2 DEF IInv, TypeOK, Arrive, Arrived
  <2>2. ASSUME NEW r \in Readers, NEW s \in Seqs
        PROVE  LiveRow(r, s, rows[r][s])'
    <3>1. LiveRow(r, s, rows[r][s])
      BY <1>1 DEF LiveInv
    <3>2. s \in Arrived => (Wanted(r, s)' <=> Wanted(r, s))
      BY <2>1 DEF Wanted
    <3>3. rows[r][s].state \in {"leased", "delayed", "quarantined", "replay"} =>
            rows[r][s].state # "none"
      OBVIOUS
    <3> QED
      BY <2>1, <3>1, <3>2, <3>3 DEF LiveRow
  <2> QED
    BY <2>2 DEF LiveInv
<1>3. ASSUME NEW r \in Readers, NEW b \in 0..Len(log), NothingOwed(r, b)
      PROVE  LiveInv'
  <2>1. rows' = [rows EXCEPT ![r] = Swept(rows[r])] /\ log' = log
    BY <1>3 DEF NothingOwed
  <2>2. \A s \in Seqs : LiveRow(r, s, Swept(rows[r])[s])
    BY <1>1, SweptLive
  <2> QED
    BY <1>1, <2>1, <2>2, LiveStep
<1>4. ASSUME NEW r \in Readers, NEW b \in 0..Len(log), NEW s \in Arrived, HandOut(r, b, s)
      PROVE  LiveInv'
  <2> DEFINE swept == Swept(rows[r])
             leased == LeasedRow(swept[s], issued[r][s] + 1)
             rs == [swept EXCEPT ![s] = leased]
  <2>1. /\ s \in Seqs /\ Wanted(r, s) /\ swept[s].attempt < MaxAttempts
        /\ swept[s] \in Row /\ MaxAttempts \in Nat
    BY <1>1, <1>4, ChosenHasTriesLeft, SweptLive, RowsOf DEF HandOut
  <2>2. leased.state = "leased" /\ leased.attempt = swept[s].attempt + 1
    BY DEF LeasedRow
  <2>3. leased.attempt \in 1..MaxAttempts
    BY <2>1, <2>2 DEF Row
  <2>4. LiveRow(r, s, leased)
    BY <2>1, <2>2, <2>3 DEF LiveRow
  <2>5. \A t \in Seqs : LiveRow(r, t, swept[t])
    BY <1>1, SweptLive
  <2>6. \A t \in Seqs : rs[t] = IF t = s THEN leased ELSE swept[t]
    BY DEF Swept
  <2>7. \A t \in Seqs : LiveRow(r, t, rs[t])
    BY <2>4, <2>5, <2>6
  <2>8. rows' = [rows EXCEPT ![r] = rs] /\ log' = log
    BY <1>4 DEF HandOut
  <2> HIDE DEF rs
  <2> QED
    BY <1>1, <2>7, <2>8, LiveStep
<1>5. ASSUME NEW r \in Readers, NEW lo \in Arrived, NEW hi \in Arrived, ReadAck(r, lo, hi)
      PROVE  LiveInv'
  <2> DEFINE acked(s) == [state |-> "acked", token |-> NoToken, due |-> FALSE, old |-> FALSE,
                          attempt |-> IF rows[r][s].state = "none" THEN 1
                                      ELSE rows[r][s].attempt]
             rs == [s \in Seqs |->
                      IF s \notin lo..hi \/ rows[r][s].state = "quarantined" THEN rows[r][s]
                      ELSE acked(s)]
  <2>1. rows' = [rows EXCEPT ![r] = rs] /\ log' = log
    BY <1>5 DEF ReadAck
  <2>2. \A s \in lo..hi : s \in Arrived
    BY <1>1, RowsOf DEF Arrived
  <2>3. \A s \in lo..hi : LiveRow(r, s, acked(s))
    BY <2>2 DEF LiveRow
  <2>4. \A s \in Seqs : LiveRow(r, s, rs[s])
    BY <1>1, <2>3, RowsOf
  <2> HIDE DEF rs
  <2> QED
    BY <1>1, <2>1, <2>4, LiveStep
<1>6. ASSUME NEW r \in Readers, NEW s \in Seqs, NEW n \in 1..issued[r][s],
             Ack(r, s, n) \/ Nack(r, s, n) \/ Renew(r, s, n)
      PROVE  LiveInv'
  <2>1. rows[r][s] \in Row /\ LiveRow(r, s, rows[r][s])
    BY <1>1, RowsOf
  <2>2. CASE Ack(r, s, n)
    <3>1. CASE rows[r][s].state = "leased"
      <4>1. Write(r, s, AckedRow(rows[r][s])) /\ AckedRow(rows[r][s]) \in Row
        BY <2>1, <2>2, <3>1, RowOperators DEF Ack
      <4> QED
        BY <1>1, <3>1, <4>1, SettledRows, WriteLive
    <3>2. CASE rows[r][s].state # "leased"
      BY <1>1, <2>1, <2>2, <3>2, WriteLive DEF Ack
    <3> QED
      BY <3>1, <3>2
  <2>3. CASE Nack(r, s, n)
    <3>1. PICK due \in BOOLEAN : Write(r, s, NackedRow(rows[r][s], due))
      BY <2>3 DEF Nack
    <3>2. rows[r][s].state = "leased" /\ NackedRow(rows[r][s], due) \in Row
      BY <2>1, <2>3, RowOperators DEF Nack
    <3> QED
      BY <1>1, <3>1, <3>2, SettledRows, WriteLive
  <2>4. CASE Renew(r, s, n)
    <3>1. /\ rows[r][s].state = "leased" /\ RenewedRow(rows[r][s]) \in Row
          /\ Write(r, s, RenewedRow(rows[r][s]))
      BY <2>1, <2>4, RowOperators DEF Renew
    <3> QED
      BY <1>1, <3>1, SettledRows, WriteLive
  <2> QED
    BY <1>6, <2>2, <2>3, <2>4
<1>7. ASSUME NEW r \in Readers, NEW s \in Seqs, Replay(r, s)
      PROVE  LiveInv'
  <2> DEFINE row == [state |-> "replay", token |-> NoToken, attempt |-> 0, due |-> FALSE,
                     old |-> FALSE]
  <2>1. LiveRow(r, s, rows[r][s]) /\ rows[r][s].state = "quarantined"
    BY <1>1, <1>7, RowsOf DEF Replay
  <2>2. LiveRow(r, s, row)
    BY <2>1 DEF LiveRow
  <2>3. rows' = [rows EXCEPT ![r][s] = row] /\ log' = log
    BY <1>7 DEF Replay
  <2> HIDE DEF row
  <2> QED
    BY <1>1, <2>2, <2>3, OneRowLive
<1>8. ASSUME NEW r \in Readers, NEW s \in Seqs, TimePasses(r, s)
      PROVE  LiveInv'
  <2> DEFINE row == [rows[r][s] EXCEPT !.due = TRUE]
  <2>1. LiveRow(r, s, rows[r][s]) /\ rows[r][s] \in Row
    BY <1>1, RowsOf
  <2>2. row.state = rows[r][s].state /\ row.attempt = rows[r][s].attempt
    BY <2>1 DEF Row
  <2>3. rows' = [rows EXCEPT ![r][s] = row] /\ log' = log
    BY <1>8 DEF TimePasses
  <2> HIDE DEF row
  <2>4. LiveRow(r, s, row)
    BY <2>1, <2>2 DEF LiveRow
  <2> QED
    BY <1>1, <2>3, <2>4, OneRowLive
<1>9. ASSUME NEW r \in Readers, NEW s \in Seqs, DayPasses(r, s)
      PROVE  LiveInv'
  <2> DEFINE row == [rows[r][s] EXCEPT !.old = TRUE]
  <2>1. LiveRow(r, s, rows[r][s]) /\ rows[r][s] \in Row
    BY <1>1, RowsOf
  <2>2. row.state = rows[r][s].state /\ row.attempt = rows[r][s].attempt
    BY <2>1 DEF Row
  <2>3. rows' = [rows EXCEPT ![r][s] = row] /\ log' = log
    BY <1>9 DEF DayPasses
  <2> HIDE DEF row
  <2>4. LiveRow(r, s, row)
    BY <2>1, <2>2 DEF LiveRow
  <2> QED
    BY <1>1, <2>3, <2>4, OneRowLive
<1>10. ASSUME UNCHANGED <<log, rows>>
       PROVE  LiveInv'
  BY <1>1, <1>10 DEF LiveInv, LiveRow, Arrived, Wanted
<1>11. ASSUME NEW r \in Readers, Peek(r)
       PROVE  LiveInv'
  BY <1>10, <1>11 DEF Peek
<1>12. CASE UNCHANGED vars
  BY <1>10, <1>12 DEF vars
<1> QED
  BY <1>1, <1>2, <1>3, <1>4, <1>5, <1>6, <1>7, <1>8, <1>9, <1>11, <1>12
  DEF Next, Lease, Settle

LEMMA InitLive == Init => LiveInv
BY DEF Init, LiveInv, LiveRow, NoRow

\* In every reachable state the rows say so much of their messages.
THEOREM LiveInductive == Spec => [](IInv /\ LiveInv)
BY Inductive, InitLive, NextLive, PTL DEF Spec

LEMMA ChoicesArePending == IInv /\ LiveInv => WakeSeesAllChoices
<1>1. SUFFICES ASSUME IInv, LiveInv, NEW r \in Readers, NEW s \in Choices(r)
               PROVE  s \in WakePending(r)
  BY DEF WakeSeesAllChoices
<1>2. PICK b \in 0..Len(log) :
        StopsAt(r, Swept(rows[r]), b) /\ s \in Candidates(r, Swept(rows[r]), b)
  BY <1>1 DEF Choices
<1>3. s \in Arrived
  BY <1>1 DEF Choices
<1>4. /\ s \in Seqs /\ Wanted(r, s)
      /\ \/ Swept(rows[r])[s].state = "none" /\ s > b
         \/ Back(Swept(rows[r])[s])
  BY <1>1, <1>2, <1>3, ChosenHasTriesLeft
<1>5. Swept(rows[r])[s] = rows[r][s]
  <2>1. rows[r][s] \in Row
    BY <1>1, <1>4, RowsOf
  <2>2. Quarantined(rows[r][s]).state = "quarantined"
    BY <2>1 DEF Quarantined, Row
  <2>3. ~Back(Quarantined(rows[r][s])) /\ Quarantined(rows[r][s]).state # "none"
    BY <2>2 DEF Back
  <2> QED
    BY <1>1, <1>4, <2>3, SweptLive
<1>6. s \in Nat /\ b \in Nat /\ bookmark[r] \in Nat /\ bookmark[r] <= b
  BY <1>1, <1>2, <1>4, RowsOf DEF StopsAt
<1>7. s > b => s > bookmark[r]
  BY <1>6
<1> QED
  BY <1>3, <1>4, <1>5, <1>7 DEF WakePending

\* A wake rule never misses work: whatever a `next` called now would choose from, the sweep and
\* the bookmark it moves first included, wake_pending counts.
THEOREM WakeMissesNothing == Spec => []WakeSeesAllChoices
BY LiveInductive, ChoicesArePending, PTL

-----------------------------------------------------------------------------
(* The refinement of AtLeastOnce: every step is a step of the promise, as  *)
(* Owed, Aside and Tries map it, or a stutter.                             *)

\* The mapping, of one reader's rows rs and bookmark b.
OwedIn(r, rs, b) ==
    {s \in Arrived : Wanted(r, s) /\ \/ rs[s].state = "none" /\ s > b
                                     \/ rs[s].state \in {"leased", "delayed", "replay"}}
AsideIn(rs) == {s \in Arrived : rs[s].state = "quarantined"}
TriesIn(r, rs, b) == [s \in Seqs |-> IF s \in OwedIn(r, rs, b) THEN rs[s].attempt ELSE 0]

allOwed == [r \in Readers |-> Owed(r)]
allAside == [r \in Readers |-> Aside(r)]
allTries == [r \in Readers |-> Tries(r)]

LEMMA Mapping ==
    ASSUME NEW r \in Readers
    PROVE  /\ allOwed[r] = OwedIn(r, rows[r], bookmark[r])
           /\ allAside[r] = AsideIn(rows[r])
           /\ allTries[r] = TriesIn(r, rows[r], bookmark[r])
<1>1. allOwed[r] = OwedIn(r, rows[r], bookmark[r])
  BY DEF allOwed, Owed, OwedIn
<1>2. allTries[r] = TriesIn(r, rows[r], bookmark[r])
  BY <1>1 DEF allTries, Tries, TriesIn, allOwed
<1> QED
  BY <1>1, <1>2 DEF allAside, Aside, AsideIn

\* One reader's rows and bookmark are written.
Writes(r, rs, b) == rows' = [rows EXCEPT ![r] = rs] /\ bookmark' = [bookmark EXCEPT ![r] = b]

\* To the reader r, the promise has come to this.
Becomes(r, owing, away, tried) ==
    /\ Arrived' = Arrived
    /\ allOwed' = [allOwed EXCEPT ![r] = owing]
    /\ allAside' = [allAside EXCEPT ![r] = away]
    /\ allTries' = [allTries EXCEPT ![r] = tried]

\* What a step of one reader does to the mapped state.
LEMMA MappedStep ==
    ASSUME IInv, log' = log, NEW r \in Readers, NEW rs, NEW b, Writes(r, rs, b)
    PROVE  Becomes(r, OwedIn(r, rs, b), AsideIn(rs), TriesIn(r, rs, b))
<1>1. Arrived' = Arrived
  BY DEF Arrived
<1>2. rows'[r] = rs /\ bookmark'[r] = b
  BY DEF IInv, TypeOK, Writes
<1>3. \A q \in Readers : q # r => rows'[q] = rows[q] /\ bookmark'[q] = bookmark[q]
  BY DEF IInv, TypeOK, Writes
<1>4. Owed(r)' = OwedIn(r, rs, b)
  BY <1>1, <1>2 DEF Owed, OwedIn, Wanted
<1>5. \A q \in Readers : q # r => Owed(q)' = Owed(q)
  BY <1>1, <1>3 DEF Owed, Wanted
<1>6. Aside(r)' = AsideIn(rs) /\ \A q \in Readers : q # r => Aside(q)' = Aside(q)
  BY <1>1, <1>2, <1>3 DEF Aside, AsideIn
<1>7. Tries(r)' = TriesIn(r, rs, b)
  BY <1>2, <1>4 DEF Tries, TriesIn
<1>8. \A q \in Readers : q # r => Tries(q)' = Tries(q)
  BY <1>3, <1>5 DEF Tries
<1>9. allOwed' = [allOwed EXCEPT ![r] = OwedIn(r, rs, b)]
  BY <1>4, <1>5 DEF allOwed
<1>10. allAside' = [allAside EXCEPT ![r] = AsideIn(rs)]
  BY <1>6 DEF allAside
<1>11. allTries' = [allTries EXCEPT ![r] = TriesIn(r, rs, b)]
  BY <1>7, <1>8 DEF allTries
<1> QED
  BY <1>1, <1>9, <1>10, <1>11 DEF Becomes

\* The bookmark moves over what is not owed, so that only rows decide what is owed.
LEMMA OwedBehindBookmark ==
    ASSUME IInv, LiveInv, NEW r \in Readers, NEW rs \in [Seqs -> Row], NEW b,
           StopsAt(r, rs, b)
    PROVE  /\ b \in Nat
           /\ OwedIn(r, rs, b) = OwedIn(r, rs, bookmark[r])
           /\ TriesIn(r, rs, b) = TriesIn(r, rs, bookmark[r])
<1>1. b \in Nat /\ bookmark[r] \in Nat /\ bookmark[r] <= b /\ b <= Len(log)
  BY RowsOf DEF StopsAt
<1>2. Arrived \subseteq Nat
  BY RowsOf
<1>3. \A s \in Arrived :
         Wanted(r, s) /\ rs[s].state = "none" => (s > b <=> s > bookmark[r])
  BY <1>1, <1>2 DEF StopsAt, Settled
<1>4. OwedIn(r, rs, b) = OwedIn(r, rs, bookmark[r])
  BY <1>3 DEF OwedIn
<1> QED
  BY <1>1, <1>4 DEF TriesIn

\* Tries that begin anew.
Zeroed(r, some) == [s \in Seqs |-> IF s \in some THEN 0 ELSE allTries[r][s]]

\* The sweep sets aside what is exhausted, all of it owed and tried as often as the limit allows.
LEMMA SweepSetsAside ==
    ASSUME IInv, LiveInv, NEW r \in Readers, NEW gone,
           gone = {s \in Seqs : Exhausted(rows[r][s])},
           NEW swept, swept = Swept(rows[r])
    PROVE  /\ swept \in [Seqs -> Row]
           /\ \A s \in gone : s \in allOwed[r] /\ allTries[r][s] = MaxAttempts
           /\ OwedIn(r, swept, bookmark[r]) = allOwed[r] \ gone
           /\ AsideIn(swept) = allAside[r] \cup gone
           /\ TriesIn(r, swept, bookmark[r]) = Zeroed(r, gone)
<1> DEFINE b == bookmark[r]
<1>1. /\ rows[r] \in [Seqs -> Row] /\ Arrived \subseteq Seqs
      /\ \A s \in Seqs : rows[r][s] \in Row /\ LiveRow(r, s, rows[r][s])
      /\ MaxAttempts \in Nat
  BY RowsOf
<1>2. swept \in [Seqs -> Row]
  BY <1>1, SweptRows
<1>3. \A s \in Seqs : IF s \in gone THEN swept[s] = Quarantined(rows[r][s])
                      ELSE swept[s] = rows[r][s]
  BY SweptLive
<1>4. \A s \in Seqs : Quarantined(rows[r][s]).state = "quarantined"
  BY <1>1 DEF Quarantined, Row
<1>5. \A s \in gone : /\ s \in Arrived /\ Wanted(r, s) /\ rows[r][s].state = "leased"
                      /\ rows[r][s].attempt = MaxAttempts
  <2>1. SUFFICES ASSUME NEW s \in Seqs, Exhausted(rows[r][s])
                 PROVE  /\ s \in Arrived /\ Wanted(r, s) /\ rows[r][s].state = "leased"
                        /\ rows[r][s].attempt = MaxAttempts
    OBVIOUS
  <2>2. rows[r][s].state = "leased" /\ rows[r][s].attempt >= MaxAttempts
    BY <2>1 DEF Exhausted
  <2>3. LiveRow(r, s, rows[r][s])
    BY <1>1
  <2>4. s \in Arrived /\ Wanted(r, s) /\ rows[r][s].attempt \in 1..MaxAttempts
    BY <2>2, <2>3 DEF LiveRow
  <2> QED
    BY <1>1, <2>2, <2>4
<1>6. /\ allOwed[r] = OwedIn(r, rows[r], b) /\ allAside[r] = AsideIn(rows[r])
      /\ allTries[r] = TriesIn(r, rows[r], b)
  BY Mapping
<1>7. \A s \in gone : s \in OwedIn(r, rows[r], b) /\ s \in Seqs
  BY <1>5 DEF OwedIn
<1>8. \A s \in gone : s \in allOwed[r] /\ allTries[r][s] = MaxAttempts
  BY <1>5, <1>6, <1>7 DEF TriesIn
<1>9. OwedIn(r, swept, b) = OwedIn(r, rows[r], b) \ gone
  <2>1. \A s \in Arrived : s \in gone => swept[s].state = "quarantined"
    BY <1>1, <1>3, <1>4
  <2>2. \A s \in Arrived : s \notin gone => swept[s] = rows[r][s]
    BY <1>1, <1>3
  <2>3. \A s \in Arrived : s \in OwedIn(r, swept, b) <=> s \in OwedIn(r, rows[r], b) /\ s \notin gone
    BY <2>1, <2>2 DEF OwedIn
  <2>4. OwedIn(r, swept, b) \subseteq Arrived /\ OwedIn(r, rows[r], b) \subseteq Arrived
    BY DEF OwedIn
  <2> QED
    BY <2>3, <2>4
<1>10. AsideIn(swept) = AsideIn(rows[r]) \cup gone
  <2>1. \A s \in Arrived : s \in gone => swept[s].state = "quarantined"
    BY <1>1, <1>3, <1>4
  <2>2. \A s \in Arrived : s \notin gone => swept[s] = rows[r][s]
    BY <1>1, <1>3
  <2> QED
    BY <1>5, <2>1, <2>2 DEF AsideIn
<1>11. TriesIn(r, swept, b) = [s \in Seqs |-> IF s \in gone THEN 0 ELSE TriesIn(r, rows[r], b)[s]]
  <2>1. \A s \in Seqs : s \notin gone => swept[s] = rows[r][s]
    BY <1>3
  <2>2. \A s \in Seqs : TriesIn(r, rows[r], b)[s] =
                          IF s \in OwedIn(r, rows[r], b) THEN rows[r][s].attempt ELSE 0
    BY DEF TriesIn
  <2> QED
    BY <1>9, <2>1, <2>2 DEF TriesIn
<1> QED
  BY <1>2, <1>6, <1>8, <1>9, <1>10, <1>11 DEF Zeroed

\* The steps of the promise, under the mapping.
LEMMA PromiseSteps ==
    ASSUME NEW r \in Readers, NEW some \in SUBSET Seqs
    PROVE  /\ /\ Becomes(r, allOwed[r] \ some, allAside[r] \cup some, Zeroed(r, some))
              /\ taken' = taken /\ issued' = issued
              /\ \A s \in some : s \in allOwed[r] /\ allTries[r][s] = MaxAttempts
              => Promise!Next
           /\ /\ Becomes(r, allOwed[r] \ some, allAside[r], Zeroed(r, some))
              /\ taken' = [taken EXCEPT ![r] = taken[r] \cup some] /\ issued' = issued
              /\ some \subseteq Arrived \ allAside[r]
              => Promise!Next
           /\ Becomes(r, allOwed[r], allAside[r], allTries[r]) /\ UNCHANGED <<taken, issued>>
              => UNCHANGED Promise!vars
<1>1. ASSUME /\ Becomes(r, allOwed[r] \ some, allAside[r] \cup some, Zeroed(r, some))
             /\ taken' = taken /\ issued' = issued
             /\ \A s \in some : s \in allOwed[r] /\ allTries[r][s] = MaxAttempts
      PROVE  Promise!Next
  <2>1. Promise!GiveUp(r, some)
    BY <1>1 DEF Promise!GiveUp, Promise!SetAside, allOwed, allAside, allTries, Becomes, Zeroed
  <2> QED
    BY <2>1 DEF Promise!Next
<1>2. ASSUME /\ Becomes(r, allOwed[r] \ some, allAside[r], Zeroed(r, some))
             /\ taken' = [taken EXCEPT ![r] = taken[r] \cup some] /\ issued' = issued
             /\ some \subseteq Arrived \ allAside[r]
      PROVE  Promise!Next
  <2>1. allAside' = allAside
    BY <1>2 DEF Becomes, allAside
  <2>2. Promise!Take(r, some)
    BY <1>2, <2>1 DEF Promise!Take, allOwed, allAside, allTries, Becomes, Zeroed
  <2> QED
    BY <2>2 DEF Promise!Next
<1>3. ASSUME Becomes(r, allOwed[r], allAside[r], allTries[r]), UNCHANGED <<taken, issued>>
      PROVE  UNCHANGED Promise!vars
  <2>1. allOwed' = allOwed /\ allAside' = allAside /\ allTries' = allTries /\ Arrived' = Arrived
    BY <1>3 DEF Becomes, allOwed, allAside, allTries
  <2> QED
    BY <1>3, <2>1 DEF Promise!vars, allOwed, allAside, allTries
<1> QED
  BY <1>1, <1>2, <1>3

\* A message that arrives is owed to those who want it.
LEMMA ArrivePromised ==
    ASSUME IInv, LiveInv, NEW m \in Message, Arrive(m)
    PROVE  Promise!Next
<1> DEFINE i == Len(log) + 1
           wanting == {r \in Readers : m.from # r /\ ~m.housekeeping}
<1>1. /\ Len(log') = i /\ Len(log) \in Nat /\ i \in Seqs /\ i \notin Arrived
      /\ Arrived' = Arrived \cup {i}
      /\ log'[i] = m /\ \A s \in Arrived : log'[s] = log[s]
      /\ UNCHANGED <<rows, bookmark, issued, taken>>
  BY DeliveriesAssumption DEF IInv, TypeOK, Arrive, Arrived, Seqs
<1> HIDE DEF i
<1>2. \A r \in Readers : \A s \in Arrived : Wanted(r, s)' <=> Wanted(r, s)
  BY <1>1 DEF Wanted
<1>3. ASSUME NEW r \in Readers
      PROVE  /\ rows[r][i].state = "none" /\ rows[r][i].attempt = 0 /\ i > bookmark[r]
             /\ Owed(r) \subseteq Arrived
  <2>1. LiveRow(r, i, rows[r][i]) /\ bookmark[r] \in 0..Len(log)
    BY <1>1, RowsOf
  <2> QED
    BY <1>1, <2>1 DEF LiveRow, Owed, i
<1>4. ASSUME NEW r \in Readers
      PROVE  Owed(r)' = IF r \in wanting THEN Owed(r) \cup {i} ELSE Owed(r)
  <2>1. \A s \in Arrived : s \in Owed(r)' <=> s \in Owed(r)
    BY <1>1, <1>2 DEF Owed
  <2>2. i \in Owed(r)' <=> r \in wanting
    BY <1>1, <1>3 DEF Owed, Wanted
  <2>3. Owed(r)' \subseteq Arrived \cup {i}
    BY <1>1 DEF Owed
  <2> QED
    BY <1>3, <2>1, <2>2, <2>3
<1>5. ASSUME NEW r \in Readers
      PROVE  Aside(r)' = Aside(r)
  BY <1>1, <1>3 DEF Aside
<1>6. ASSUME NEW r \in Readers
      PROVE  Tries(r)' = Tries(r)
  <2>1. \A s \in Seqs : s # i => (s \in Owed(r)' <=> s \in Owed(r))
    BY <1>4
  <2>2. \A s \in Seqs : (IF s \in Owed(r)' THEN rows[r][s].attempt ELSE 0)
                        = (IF s \in Owed(r) THEN rows[r][s].attempt ELSE 0)
    BY <1>3, <2>1
  <2>3. rows' = rows
    BY <1>1
  <2> QED
    BY <2>2, <2>3 DEF Tries
<1>7. Promise!Arrive(i, wanting)
  BY <1>1, <1>4, <1>5, <1>6 DEF Promise!Arrive
<1>8. wanting \in SUBSET Readers
  OBVIOUS
<1> HIDE DEF wanting
<1> QED
  BY <1>1, <1>7, <1>8 DEF Promise!Next

\* A `next` that finds nothing gives up what is exhausted.
LEMMA NothingOwedPromised ==
    ASSUME IInv, LiveInv, NEW r \in Readers, NEW b \in 0..Len(log), NothingOwed(r, b)
    PROVE  Promise!Next
<1> DEFINE gone == {s \in Seqs : Exhausted(rows[r][s])}
           swept == Swept(rows[r])
<1>1. /\ StopsAt(r, swept, b) /\ log' = log /\ issued' = issued /\ taken' = taken
      /\ Writes(r, swept, b)
  BY DEF NothingOwed, Writes
<1>2. /\ swept \in [Seqs -> Row]
      /\ \A s \in gone : s \in allOwed[r] /\ allTries[r][s] = MaxAttempts
      /\ OwedIn(r, swept, bookmark[r]) = allOwed[r] \ gone
      /\ AsideIn(swept) = allAside[r] \cup gone
      /\ TriesIn(r, swept, bookmark[r]) = Zeroed(r, gone)
  <2>1. gone = {s \in Seqs : Exhausted(rows[r][s])} /\ swept = Swept(rows[r])
    OBVIOUS
  <2> HIDE DEF gone, swept
  <2> QED
    BY <2>1, SweepSetsAside
<1> HIDE DEF swept
<1>3. /\ OwedIn(r, swept, b) = OwedIn(r, swept, bookmark[r])
      /\ TriesIn(r, swept, b) = TriesIn(r, swept, bookmark[r])
  BY <1>1, <1>2, OwedBehindBookmark
<1>4. Becomes(r, OwedIn(r, swept, b), AsideIn(swept), TriesIn(r, swept, b))
  BY <1>1, MappedStep
<1>5. gone \in SUBSET Seqs
  OBVIOUS
<1> HIDE DEF gone
<1> QED
  BY <1>1, <1>2, <1>3, <1>4, <1>5, PromiseSteps

\* A `next` that hands out gives up what is exhausted, and tries the chosen one once more.
LEMMA HandOutPromised ==
    ASSUME IInv, LiveInv, NEW r \in Readers, NEW b \in 0..Len(log), NEW s \in Arrived,
           HandOut(r, b, s)
    PROVE  Promise!Next
<1> DEFINE gone == {t \in Seqs : Exhausted(rows[r][t])}
           swept == Swept(rows[r])
           leased == LeasedRow(swept[s], issued[r][s] + 1)
           rs == [swept EXCEPT ![s] = leased]
<1>1. /\ StopsAt(r, swept, b) /\ s \in Candidates(r, swept, b)
      /\ log' = log /\ taken' = taken
      /\ issued' = [issued EXCEPT ![r][s] = issued[r][s] + 1]
      /\ Writes(r, rs, b)
  BY DEF HandOut, Writes
<1>2. /\ swept \in [Seqs -> Row]
      /\ \A t \in gone : t \in allOwed[r] /\ allTries[r][t] = MaxAttempts
      /\ OwedIn(r, swept, bookmark[r]) = allOwed[r] \ gone
      /\ AsideIn(swept) = allAside[r] \cup gone
      /\ TriesIn(r, swept, bookmark[r]) = Zeroed(r, gone)
  <2>1. gone = {t \in Seqs : Exhausted(rows[r][t])} /\ swept = Swept(rows[r])
    OBVIOUS
  <2> HIDE DEF gone, swept
  <2> QED
    BY <2>1, SweepSetsAside
<1>3. /\ s \in Seqs /\ Wanted(r, s) /\ swept[s].attempt < MaxAttempts
      /\ (swept[s].state = "none" /\ s > b) \/ swept[s].state \in {"leased", "delayed", "replay"}
  BY <1>1, ChosenHasTriesLeft DEF Back
<1>4. leased.state = "leased" /\ leased.attempt = swept[s].attempt + 1
  BY DEF LeasedRow
<1> HIDE DEF swept, leased
<1>5. rs[s] = leased /\ \A t \in Seqs : t # s => rs[t] = swept[t]
  BY <1>2, <1>3
<1>6. Arrived \subseteq Seqs
  BY RowsOf
<1>7. s \in OwedIn(r, swept, b) /\ s \in OwedIn(r, rs, b)
  BY <1>3, <1>4, <1>5 DEF OwedIn
<1> HIDE DEF rs
<1>8. OwedIn(r, rs, b) = OwedIn(r, swept, b)
  <2>1. \A t \in Arrived : t # s => (t \in OwedIn(r, rs, b) <=> t \in OwedIn(r, swept, b))
    BY <1>5, <1>6 DEF OwedIn
  <2> QED
    BY <1>7, <2>1 DEF OwedIn
<1>9. AsideIn(rs) = AsideIn(swept)
  BY <1>3, <1>4, <1>5, <1>6 DEF AsideIn
<1>10. TriesIn(r, rs, b) = [TriesIn(r, swept, b) EXCEPT ![s] = swept[s].attempt + 1]
  BY <1>3, <1>4, <1>5, <1>7, <1>8 DEF TriesIn
<1>11. /\ OwedIn(r, swept, b) = allOwed[r] \ gone
       /\ TriesIn(r, swept, b) = Zeroed(r, gone)
  BY <1>1, <1>2, OwedBehindBookmark
<1>12. /\ s \in allOwed[r] /\ s \notin gone
       /\ allTries[r][s] = swept[s].attempt
  <2>1. s \in allOwed[r] /\ s \notin gone
    BY <1>7, <1>11
  <2>2. TriesIn(r, swept, b)[s] = swept[s].attempt
    BY <1>3, <1>7 DEF TriesIn
  <2>3. Zeroed(r, gone)[s] = allTries[r][s]
    BY <1>3, <2>1 DEF Zeroed
  <2> QED
    BY <1>11, <2>1, <2>2, <2>3
<1>13. Becomes(r, OwedIn(r, rs, b), AsideIn(rs), TriesIn(r, rs, b))
  BY <1>1, MappedStep
<1>14. /\ allOwed' = [allOwed EXCEPT ![r] = allOwed[r] \ gone]
       /\ allAside' = [allAside EXCEPT ![r] = allAside[r] \cup gone]
       /\ allTries' = [allTries EXCEPT ![r] = TriesIn(r, rs, b)]
       /\ Arrived' = Arrived
  BY <1>2, <1>8, <1>9, <1>11, <1>13 DEF Becomes
<1>15. TriesIn(r, rs, b) = [t \in Seqs |-> IF t \in gone THEN 0
                                           ELSE IF t = s THEN allTries[r][t] + 1
                                           ELSE allTries[r][t]]
  BY <1>3, <1>10, <1>11, <1>12 DEF Zeroed
<1>16. Promise!HandOut(r, s, gone)
  <2>1. Promise!SetAside(r, gone)
    BY <1>1, <1>2, <1>14 DEF Promise!SetAside, allOwed, allAside, allTries
  <2>2. s \in allOwed[r] \ gone /\ allTries[r][s] < MaxAttempts
    BY <1>3, <1>12
  <2>3. allTries' = [allTries EXCEPT ![r] = [t \in Seqs |->
                       IF t \in gone THEN 0 ELSE IF t = s THEN allTries[r][t] + 1
                       ELSE allTries[r][t]]]
    BY <1>14, <1>15
  <2>4. issued' = [issued EXCEPT ![r][s] = @ + 1]
    BY <1>1
  <2> HIDE DEF gone
  <2> QED
    BY <2>1, <2>2, <2>3, <2>4 DEF Promise!HandOut, allOwed, allTries
<1>17. gone \in SUBSET Seqs
  OBVIOUS
<1> HIDE DEF gone
<1> QED
  BY <1>3, <1>16, <1>17 DEF Promise!Next

\* What one row's new state does to the mapped state.
OwedRow(r, s, row) ==
    s \in Arrived /\ Wanted(r, s) /\ \/ row.state = "none" /\ s > bookmark[r]
                                     \/ row.state \in {"leased", "delayed", "replay"}

OneRow(r, s, row, rs) == rs = [rows[r] EXCEPT ![s] = row]

RowMapped(r, s, row, rs) ==
    /\ OwedRow(r, s, row) =>
         /\ OwedIn(r, rs, bookmark[r]) = allOwed[r] \cup {s}
         /\ TriesIn(r, rs, bookmark[r]) = [allTries[r] EXCEPT ![s] = row.attempt]
    /\ ~OwedRow(r, s, row) =>
         /\ OwedIn(r, rs, bookmark[r]) = allOwed[r] \ {s}
         /\ TriesIn(r, rs, bookmark[r]) = [allTries[r] EXCEPT ![s] = 0]
    /\ s \in Arrived /\ row.state = "quarantined" => AsideIn(rs) = allAside[r] \cup {s}
    /\ row.state # "quarantined" => AsideIn(rs) = allAside[r] \ {s}
    /\ OwedRow(r, s, rows[r][s]) => s \in allOwed[r] /\ allTries[r][s] = rows[r][s].attempt
    /\ ~OwedRow(r, s, rows[r][s]) => s \notin allOwed[r] /\ allTries[r][s] = 0
    /\ s \in allAside[r] <=> s \in Arrived /\ rows[r][s].state = "quarantined"
    /\ allTries[r] \in [Seqs -> Nat]

LEMMA OneRowMapped ==
    ASSUME IInv, LiveInv, NEW r \in Readers, NEW s \in Seqs, NEW row \in Row, NEW rs,
           OneRow(r, s, row, rs)
    PROVE  RowMapped(r, s, row, rs)
<1>1. rows[r] \in [Seqs -> Row] /\ Arrived \subseteq Seqs
  BY RowsOf
<1>2. rs \in [Seqs -> Row] /\ rs[s] = row /\ \A t \in Seqs : t # s => rs[t] = rows[r][t]
  BY <1>1 DEF OneRow
<1>3. /\ allOwed[r] = OwedIn(r, rows[r], bookmark[r]) /\ allAside[r] = AsideIn(rows[r])
      /\ allTries[r] = TriesIn(r, rows[r], bookmark[r])
  BY Mapping
<1>4. /\ \A t \in Seqs : t # s => (t \in OwedIn(r, rs, bookmark[r]) <=> t \in allOwed[r])
      /\ s \in OwedIn(r, rs, bookmark[r]) <=> OwedRow(r, s, row)
      /\ s \in allOwed[r] <=> OwedRow(r, s, rows[r][s])
      /\ OwedIn(r, rs, bookmark[r]) \subseteq Seqs /\ allOwed[r] \subseteq Seqs
  BY <1>1, <1>2, <1>3 DEF OwedIn, OwedRow
<1>5. OwedIn(r, rs, bookmark[r]) =
        IF OwedRow(r, s, row) THEN allOwed[r] \cup {s} ELSE allOwed[r] \ {s}
  BY <1>4
<1>6. /\ \A t \in Seqs : t # s => (t \in AsideIn(rs) <=> t \in allAside[r])
      /\ s \in AsideIn(rs) <=> s \in Arrived /\ row.state = "quarantined"
      /\ s \in allAside[r] <=> s \in Arrived /\ rows[r][s].state = "quarantined"
      /\ AsideIn(rs) \subseteq Seqs /\ allAside[r] \subseteq Seqs
  BY <1>1, <1>2, <1>3 DEF AsideIn
<1>7. AsideIn(rs) = IF s \in Arrived /\ row.state = "quarantined"
                    THEN allAside[r] \cup {s} ELSE allAside[r] \ {s}
  BY <1>6
<1>8. /\ allTries[r] = [t \in Seqs |-> IF t \in allOwed[r] THEN rows[r][t].attempt ELSE 0]
      /\ TriesIn(r, rs, bookmark[r]) =
           [t \in Seqs |-> IF t \in OwedIn(r, rs, bookmark[r]) THEN rs[t].attempt ELSE 0]
  BY <1>3 DEF TriesIn
<1>9. allTries[r] \in [Seqs -> Nat]
  BY <1>1, <1>8 DEF Row
<1>10. TriesIn(r, rs, bookmark[r]) =
         [allTries[r] EXCEPT ![s] = IF OwedRow(r, s, row) THEN row.attempt ELSE 0]
  BY <1>2, <1>4, <1>8
<1>11. allTries[r][s] = IF OwedRow(r, s, rows[r][s]) THEN rows[r][s].attempt ELSE 0
  BY <1>4, <1>8
<1> QED
  BY <1>2, <1>4, <1>5, <1>6, <1>7, <1>9, <1>10, <1>11 DEF RowMapped

\* A settle's prune and its bookmark change nothing of what is promised.
LEMMA WriteMapped ==
    ASSUME IInv, LiveInv, NEW r \in Readers, NEW s \in Seqs, NEW row \in Row, NEW rs,
           rs = [rows[r] EXCEPT ![s] = row], Write(r, s, row)
    PROVE  /\ Becomes(r, OwedIn(r, rs, bookmark[r]), AsideIn(rs), TriesIn(r, rs, bookmark[r]))
           /\ issued' = issued
<1>1. PICK b \in 0..Len(log) :
        /\ StopsAt(r, rs, b)
        /\ Writes(r, Pruned(rs, b), b)
        /\ log' = log /\ issued' = issued
  BY DEF Write, Writes
<1>2. rs \in [Seqs -> Row] /\ b \in Nat /\ Arrived \subseteq Seqs /\ Seqs \subseteq Nat
  BY RowsOf
<1>3. \A t \in Seqs : \/ Pruned(rs, b)[t] = rs[t]
                      \/ rs[t].state = "acked" /\ t <= b /\ Pruned(rs, b)[t].state = "none"
  BY <1>2, PrunedRows DEF NoRow
<1> DEFINE after == Pruned(rs, b)
<1> HIDE DEF after
<1>4. OwedIn(r, after, b) = OwedIn(r, rs, b) /\ AsideIn(after) = AsideIn(rs)
  <2>1. \A t \in Arrived : /\ t \in OwedIn(r, after, b) <=> t \in OwedIn(r, rs, b)
                           /\ t \in AsideIn(after) <=> t \in AsideIn(rs)
    <3>1. SUFFICES ASSUME NEW t \in Arrived
                   PROVE  /\ t \in OwedIn(r, after, b) <=> t \in OwedIn(r, rs, b)
                          /\ t \in AsideIn(after) <=> t \in AsideIn(rs)
      OBVIOUS
    <3>2. CASE after[t] = rs[t]
      BY <3>2 DEF OwedIn, AsideIn
    <3>3. CASE rs[t].state = "acked" /\ t <= b /\ after[t].state = "none"
      <4>1. ~(t > b)
        BY <1>2, <3>1, <3>3
      <4> QED
        BY <3>1, <3>3, <4>1 DEF OwedIn, AsideIn
    <3> QED
      BY <1>2, <1>3, <3>1, <3>2, <3>3 DEF after
  <2> QED
    BY <2>1 DEF OwedIn, AsideIn
<1>5. TriesIn(r, after, b) = TriesIn(r, rs, b)
  <2>1. \A t \in Seqs : t \in OwedIn(r, rs, b) => after[t] = rs[t]
    BY <1>3 DEF OwedIn, after
  <2> QED
    BY <1>4, <2>1 DEF TriesIn
<1>6. Becomes(r, OwedIn(r, after, b), AsideIn(after), TriesIn(r, after, b))
  BY <1>1, MappedStep DEF after
<1>7. /\ OwedIn(r, rs, b) = OwedIn(r, rs, bookmark[r])
      /\ TriesIn(r, rs, b) = TriesIn(r, rs, bookmark[r])
  BY <1>1, <1>2, OwedBehindBookmark
<1> QED
  BY <1>1, <1>4, <1>5, <1>6, <1>7

\* A row written with the same standing and the same attempts changes nothing promised.
LEMMA SameRowMapped ==
    ASSUME IInv, LiveInv, NEW r \in Readers, NEW s \in Seqs, NEW row \in Row, NEW rs,
           OneRow(r, s, row, rs),
           \/ row.state = rows[r][s].state
           \/ row.state = "delayed" /\ rows[r][s].state = "leased",
           row.attempt = rows[r][s].attempt
    PROVE  /\ OwedIn(r, rs, bookmark[r]) = allOwed[r] /\ AsideIn(rs) = allAside[r]
           /\ TriesIn(r, rs, bookmark[r]) = allTries[r]
<1>0. RowMapped(r, s, row, rs)
  BY OneRowMapped
<1>1. OwedRow(r, s, row) <=> OwedRow(r, s, rows[r][s])
  BY DEF OwedRow
<1>2. allTries[r] \in [Seqs -> Nat]
  BY <1>0 DEF RowMapped
<1>3. AsideIn(rs) = allAside[r]
  <2>1. CASE s \in Arrived /\ row.state = "quarantined"
    <3>1. AsideIn(rs) = allAside[r] \cup {s}
      BY <2>1, <1>0 DEF RowMapped
    <3>2. s \in allAside[r]
      BY <2>1, <1>0 DEF RowMapped
    <3> QED
      BY <3>1, <3>2
  <2>2. CASE row.state # "quarantined"
    <3>1. AsideIn(rs) = allAside[r] \ {s}
      BY <2>2, <1>0 DEF RowMapped
    <3>2. s \notin allAside[r]
      BY <2>2, <1>0 DEF RowMapped
    <3> QED
      BY <3>1, <3>2
  <2>3. row.state = "quarantined" => s \in Arrived
    BY RowsOf DEF LiveRow
  <2> QED
    BY <2>1, <2>2, <2>3
<1>4. CASE OwedRow(r, s, row)
  <2>1. /\ OwedIn(r, rs, bookmark[r]) = allOwed[r] \cup {s}
        /\ TriesIn(r, rs, bookmark[r]) = [allTries[r] EXCEPT ![s] = row.attempt]
    BY <1>4, <1>0 DEF RowMapped
  <2>2. s \in allOwed[r] /\ allTries[r][s] = rows[r][s].attempt
    BY <1>1, <1>4, <1>0 DEF RowMapped
  <2>3. [allTries[r] EXCEPT ![s] = row.attempt] = allTries[r]
    BY <1>2, <2>2
  <2> QED
    BY <1>3, <2>1, <2>2, <2>3
<1>5. CASE ~OwedRow(r, s, row)
  <2>1. /\ OwedIn(r, rs, bookmark[r]) = allOwed[r] \ {s}
        /\ TriesIn(r, rs, bookmark[r]) = [allTries[r] EXCEPT ![s] = 0]
    BY <1>5, <1>0 DEF RowMapped
  <2>2. s \notin allOwed[r] /\ allTries[r][s] = 0
    BY <1>1, <1>5, <1>0 DEF RowMapped
  <2>3. [allTries[r] EXCEPT ![s] = 0] = allTries[r]
    BY <1>2, <2>2
  <2> QED
    BY <1>3, <2>1, <2>2, <2>3
<1> QED
  BY <1>4, <1>5

\* A row that is no longer owed.
LEMMA OverRowMapped ==
    ASSUME IInv, LiveInv, NEW r \in Readers, NEW s \in Seqs, NEW row \in Row, NEW rs,
           OneRow(r, s, row, rs), row.state \in {"acked", "quarantined"},
           rows[r][s].state \in {"leased", "acked"}, s \in Arrived
    PROVE  /\ OwedIn(r, rs, bookmark[r]) = allOwed[r] \ {s}
           /\ AsideIn(rs) = IF row.state = "quarantined" THEN allAside[r] \cup {s}
                            ELSE allAside[r]
           /\ TriesIn(r, rs, bookmark[r]) = Zeroed(r, {s}) /\ s \notin allAside[r]
<1>0. RowMapped(r, s, row, rs)
  BY OneRowMapped
<1>1. ~OwedRow(r, s, row)
  BY DEF OwedRow
<1>2. OwedIn(r, rs, bookmark[r]) = allOwed[r] \ {s}
  BY <1>1, <1>0 DEF RowMapped
<1>3. s \notin allAside[r]
  BY <1>0 DEF RowMapped
<1>4. row.state = "quarantined" => AsideIn(rs) = allAside[r] \cup {s}
  BY <1>0 DEF RowMapped
<1>7. row.state # "quarantined" => AsideIn(rs) = allAside[r]
  BY <1>3, <1>0 DEF RowMapped
<1>5. TriesIn(r, rs, bookmark[r]) = [allTries[r] EXCEPT ![s] = 0] /\ allTries[r] \in [Seqs -> Nat]
  BY <1>1, <1>0 DEF RowMapped
<1>6. TriesIn(r, rs, bookmark[r]) = Zeroed(r, {s})
  BY <1>5 DEF Zeroed
<1> QED
  BY <1>2, <1>3, <1>4, <1>6, <1>7

\* What a worker does: an ack takes the message on, a nack at the limit gives it up.
LEMMA SettlePromised ==
    ASSUME IInv, LiveInv, NEW r \in Readers, NEW s \in Seqs, NEW n \in 1..issued[r][s],
           Ack(r, s, n) \/ Nack(r, s, n) \/ Renew(r, s, n)
    PROVE  Promise!Next \/ UNCHANGED Promise!vars
<1>1. rows[r][s] \in Row /\ LiveRow(r, s, rows[r][s]) /\ {s} \in SUBSET Seqs
  BY RowsOf
<1>2. CASE Ack(r, s, n)
  <2> DEFINE row == IF rows[r][s].state = "leased" THEN AckedRow(rows[r][s]) ELSE rows[r][s]
             rs == [rows[r] EXCEPT ![s] = row]
  <2>1. /\ Write(r, s, row) /\ rows[r][s].state \in {"leased", "acked"}
        /\ taken' = [taken EXCEPT ![r] = taken[r] \cup {s}]
    BY <1>2 DEF Ack
  <2>2. row \in Row /\ row.state = "acked"
    BY <1>1, <2>1, RowOperators DEF AckedRow, Row
  <2>3. s \in Arrived
    BY <1>1, <2>1 DEF LiveRow
  <2> HIDE DEF row
  <2>4. Becomes(r, OwedIn(r, rs, bookmark[r]), AsideIn(rs), TriesIn(r, rs, bookmark[r]))
        /\ issued' = issued
    BY <2>1, <2>2, WriteMapped
  <2>5. /\ OwedIn(r, rs, bookmark[r]) = allOwed[r] \ {s} /\ AsideIn(rs) = allAside[r]
        /\ TriesIn(r, rs, bookmark[r]) = Zeroed(r, {s}) /\ s \notin allAside[r]
    BY <2>1, <2>2, <2>3, OverRowMapped DEF OneRow
  <2>6. {s} \subseteq Arrived \ allAside[r]
    BY <2>3, <2>5
  <2> QED
    BY <1>1, <2>1, <2>4, <2>5, <2>6, PromiseSteps
<1>3. CASE Nack(r, s, n)
  <2>1. PICK due \in BOOLEAN : Write(r, s, NackedRow(rows[r][s], due))
    BY <1>3 DEF Nack
  <2> DEFINE row == NackedRow(rows[r][s], due)
             rs == [rows[r] EXCEPT ![s] = row]
  <2>2. rows[r][s].state = "leased" /\ taken' = taken /\ row \in Row
    BY <1>1, <1>3, RowOperators DEF Nack
  <2>3. IF rows[r][s].attempt = MaxAttempts THEN row.state = "quarantined"
        ELSE row.state = "delayed" /\ row.attempt = rows[r][s].attempt
    BY <2>2, SettledRows
  <2>4. s \in Arrived /\ Wanted(r, s)
    BY <1>1, <2>2 DEF LiveRow
  <2>5. Write(r, s, row)
    BY <2>1
  <2> HIDE DEF row
  <2>6. Becomes(r, OwedIn(r, rs, bookmark[r]), AsideIn(rs), TriesIn(r, rs, bookmark[r]))
        /\ issued' = issued
    BY <2>2, <2>5, WriteMapped
  <2>9. RowMapped(r, s, row, rs)
    BY <2>2, OneRowMapped DEF OneRow
  <2>7. CASE rows[r][s].attempt = MaxAttempts
    <3>1. /\ OwedIn(r, rs, bookmark[r]) = allOwed[r] \ {s}
          /\ AsideIn(rs) = allAside[r] \cup {s}
          /\ TriesIn(r, rs, bookmark[r]) = Zeroed(r, {s})
      BY <2>2, <2>3, <2>4, <2>7, OverRowMapped DEF OneRow
    <3>2. OwedRow(r, s, rows[r][s])
      BY <2>2, <2>4 DEF OwedRow
    <3>3. s \in allOwed[r] /\ allTries[r][s] = MaxAttempts
      BY <2>2, <2>7, <2>9, <3>2 DEF RowMapped
    <3> QED
      BY <1>1, <2>2, <2>6, <3>1, <3>3, PromiseSteps
  <2>8. CASE rows[r][s].attempt # MaxAttempts
    <3>1. /\ OwedIn(r, rs, bookmark[r]) = allOwed[r] /\ AsideIn(rs) = allAside[r]
          /\ TriesIn(r, rs, bookmark[r]) = allTries[r]
      BY <2>2, <2>3, <2>8, SameRowMapped DEF OneRow
    <3> QED
      BY <1>1, <2>2, <2>6, <3>1, PromiseSteps
  <2> QED
    BY <2>7, <2>8
<1>4. CASE Renew(r, s, n)
  <2> DEFINE row == RenewedRow(rows[r][s])
             rs == [rows[r] EXCEPT ![s] = row]
  <2>1. /\ Write(r, s, row) /\ taken' = taken /\ row \in Row /\ rows[r][s].state = "leased"
    BY <1>1, <1>4, RowOperators DEF Renew
  <2>2. row.state = rows[r][s].state /\ row.attempt = rows[r][s].attempt
    BY <2>1, SettledRows
  <2> HIDE DEF row
  <2>3. Becomes(r, OwedIn(r, rs, bookmark[r]), AsideIn(rs), TriesIn(r, rs, bookmark[r]))
        /\ issued' = issued
    BY <2>1, WriteMapped
  <2>4. /\ OwedIn(r, rs, bookmark[r]) = allOwed[r] /\ AsideIn(rs) = allAside[r]
        /\ TriesIn(r, rs, bookmark[r]) = allTries[r]
    BY <2>1, <2>2, SameRowMapped DEF OneRow
  <2> QED
    BY <1>1, <2>1, <2>3, <2>4, PromiseSteps
<1> QED
  BY <1>2, <1>3, <1>4

\* `read --ack` takes on the range but for what is set aside.
LEMMA ReadAckPromised ==
    ASSUME IInv, LiveInv, NEW r \in Readers, NEW lo \in Arrived, NEW hi \in Arrived,
           ReadAck(r, lo, hi)
    PROVE  Promise!Next
<1> DEFINE acked(s) == [state |-> "acked", token |-> NoToken, due |-> FALSE, old |-> FALSE,
                        attempt |-> IF rows[r][s].state = "none" THEN 1 ELSE rows[r][s].attempt]
           rs == [s \in Seqs |->
                    IF s \notin lo..hi \/ rows[r][s].state = "quarantined" THEN rows[r][s]
                    ELSE acked(s)]
           on == {s \in lo..hi : rs[s].state = "acked"}
<1>1. PICK b \in 0..Len(log) :
        /\ StopsAt(r, rs, b) /\ Writes(r, rs, b) /\ log' = log /\ issued' = issued
        /\ taken' = [taken EXCEPT ![r] = taken[r] \cup on]
  BY DEF ReadAck, Writes
<1>2. /\ lo..hi \subseteq Arrived /\ Arrived \subseteq Seqs
      /\ \A s \in Seqs : rows[r][s] \in Row
  BY RowsOf DEF Arrived
<1>3. \A s \in Seqs : acked(s) \in Row /\ acked(s).state = "acked"
  BY <1>2 DEF Row, States, NoToken
<1>4. \A s \in Seqs : IF s \notin lo..hi \/ rows[r][s].state = "quarantined" THEN rs[s] = rows[r][s]
                      ELSE rs[s].state = "acked"
  BY <1>3
<1>5. rs \in [Seqs -> Row]
  BY <1>2, <1>3
<1>6. on \in SUBSET Seqs /\ on \subseteq Arrived
  BY <1>2
<1> HIDE DEF rs
<1>7. \A s \in on : rs[s].state = "acked" /\ rows[r][s].state # "quarantined"
  BY <1>2, <1>4
<1>8. \A s \in Seqs : s \notin on => rs[s] = rows[r][s]
  BY <1>4
<1> HIDE DEF on
<1>9. /\ allOwed[r] = OwedIn(r, rows[r], bookmark[r]) /\ allAside[r] = AsideIn(rows[r])
      /\ allTries[r] = TriesIn(r, rows[r], bookmark[r])
  BY Mapping
<1>10. OwedIn(r, rs, bookmark[r]) = allOwed[r] \ on
  <2>1. \A s \in Arrived : s \in OwedIn(r, rs, bookmark[r]) <=> s \in allOwed[r] /\ s \notin on
    BY <1>2, <1>7, <1>8, <1>9 DEF OwedIn
  <2> QED
    BY <1>9, <2>1 DEF OwedIn
<1>11. AsideIn(rs) = allAside[r]
  BY <1>2, <1>7, <1>8, <1>9 DEF AsideIn
<1>12. TriesIn(r, rs, bookmark[r]) = Zeroed(r, on)
  <2>1. \A s \in Seqs : (IF s \in OwedIn(r, rs, bookmark[r]) THEN rs[s].attempt ELSE 0)
                        = (IF s \in on THEN 0 ELSE allTries[r][s])
    BY <1>8, <1>9, <1>10 DEF TriesIn
  <2> QED
    BY <2>1 DEF TriesIn, Zeroed
<1>13. on \subseteq Arrived \ allAside[r]
  BY <1>6, <1>7, <1>9 DEF AsideIn
<1>14. Becomes(r, allOwed[r] \ on, allAside[r], Zeroed(r, on))
  <2>1. Becomes(r, OwedIn(r, rs, b), AsideIn(rs), TriesIn(r, rs, b))
    BY <1>1, MappedStep
  <2>2. /\ OwedIn(r, rs, b) = OwedIn(r, rs, bookmark[r])
        /\ TriesIn(r, rs, b) = TriesIn(r, rs, bookmark[r])
    BY <1>1, <1>5, OwedBehindBookmark
  <2> QED
    BY <1>10, <1>11, <1>12, <2>1, <2>2
<1> QED
  BY <1>1, <1>6, <1>13, <1>14, PromiseSteps

\* A replay recalls what was set aside.
LEMMA ReplayPromised ==
    ASSUME IInv, LiveInv, NEW r \in Readers, NEW s \in Seqs, Replay(r, s)
    PROVE  Promise!Next
<1> DEFINE row == [state |-> "replay", token |-> NoToken, attempt |-> 0, due |-> FALSE,
                   old |-> FALSE]
           rs == [rows[r] EXCEPT ![s] = row]
<1>1. /\ rows[r][s].state = "quarantined" /\ log' = log /\ taken' = taken /\ issued' = issued
      /\ Writes(r, rs, bookmark[r])
  BY DEF Replay, Writes, IInv, TypeOK
<1>2. row \in Row /\ row.state = "replay" /\ row.attempt = 0
  BY DEF Row, States, NoToken
<1>3. LiveRow(r, s, rows[r][s])
  BY RowsOf
<1>4. OwedRow(r, s, row) /\ ~OwedRow(r, s, rows[r][s]) /\ s \in Arrived
  BY <1>1, <1>2, <1>3 DEF LiveRow, OwedRow
<1> HIDE DEF row
<1>10. RowMapped(r, s, row, rs)
  BY <1>2, OneRowMapped DEF OneRow
<1> HIDE DEF rs
<1>5. /\ OwedIn(r, rs, bookmark[r]) = allOwed[r] \cup {s}
      /\ AsideIn(rs) = allAside[r] \ {s} /\ s \in allAside[r]
  <2>1. OwedIn(r, rs, bookmark[r]) = allOwed[r] \cup {s}
    BY <1>2, <1>4, <1>10 DEF RowMapped
  <2>2. AsideIn(rs) = allAside[r] \ {s}
    BY <1>2, <1>10 DEF RowMapped
  <2>3. s \in allAside[r]
    BY <1>1, <1>2, <1>4, <1>10 DEF RowMapped
  <2> QED
    BY <2>1, <2>2, <2>3
<1>6. TriesIn(r, rs, bookmark[r]) = allTries[r]
  <2>1. /\ TriesIn(r, rs, bookmark[r]) = [allTries[r] EXCEPT ![s] = 0]
        /\ allTries[r] \in [Seqs -> Nat] /\ allTries[r][s] = 0
    BY <1>2, <1>4, <1>10 DEF RowMapped
  <2> QED
    BY <2>1
<1>7. Becomes(r, allOwed[r] \cup {s}, allAside[r] \ {s}, allTries[r])
  <2>1. Becomes(r, OwedIn(r, rs, bookmark[r]), AsideIn(rs), TriesIn(r, rs, bookmark[r]))
    BY <1>1, MappedStep
  <2> QED
    BY <1>5, <1>6, <2>1
<1>8. allTries' = allTries
  BY <1>7 DEF Becomes, allTries
<1>9. Promise!Recall(r, s)
  BY <1>1, <1>5, <1>7, <1>8 DEF Becomes, Promise!Recall, allOwed, allAside, allTries
<1> QED
  BY <1>9 DEF Promise!Next

\* Time changes a row and nothing promised.
LEMMA TimePromised ==
    ASSUME IInv, LiveInv, NEW r \in Readers, NEW s \in Seqs, TimePasses(r, s) \/ DayPasses(r, s)
    PROVE  UNCHANGED Promise!vars
<1>1. rows[r][s] \in Row /\ {s} \in SUBSET Seqs
  BY RowsOf
<1>2. PICK row \in Row :
        /\ row.state = rows[r][s].state /\ row.attempt = rows[r][s].attempt
        /\ Writes(r, [rows[r] EXCEPT ![s] = row], bookmark[r])
        /\ log' = log /\ taken' = taken /\ issued' = issued
  <2>1. CASE TimePasses(r, s)
    <3> DEFINE row == [rows[r][s] EXCEPT !.due = TRUE]
    <3>1. row \in Row /\ row.state = rows[r][s].state /\ row.attempt = rows[r][s].attempt
      BY <1>1 DEF Row
    <3>2. /\ Writes(r, [rows[r] EXCEPT ![s] = row], bookmark[r])
          /\ log' = log /\ taken' = taken /\ issued' = issued
      BY <2>1 DEF TimePasses, Writes, IInv, TypeOK
    <3> HIDE DEF row
    <3> QED
      BY <3>1, <3>2
  <2>2. CASE DayPasses(r, s)
    <3> DEFINE row == [rows[r][s] EXCEPT !.old = TRUE]
    <3>1. row \in Row /\ row.state = rows[r][s].state /\ row.attempt = rows[r][s].attempt
      BY <1>1 DEF Row
    <3>2. /\ Writes(r, [rows[r] EXCEPT ![s] = row], bookmark[r])
          /\ log' = log /\ taken' = taken /\ issued' = issued
      BY <2>2 DEF DayPasses, Writes, IInv, TypeOK
    <3> HIDE DEF row
    <3> QED
      BY <3>1, <3>2
  <2> QED
    BY <2>1, <2>2
<1> DEFINE rs == [rows[r] EXCEPT ![s] = row]
<1>3. /\ OwedIn(r, rs, bookmark[r]) = allOwed[r] /\ AsideIn(rs) = allAside[r]
      /\ TriesIn(r, rs, bookmark[r]) = allTries[r]
  BY <1>2, SameRowMapped DEF OneRow
<1>4. Writes(r, rs, bookmark[r])
  BY <1>2
<1> HIDE DEF rs
<1>5. Becomes(r, allOwed[r], allAside[r], allTries[r])
  <2>1. Becomes(r, OwedIn(r, rs, bookmark[r]), AsideIn(rs), TriesIn(r, rs, bookmark[r]))
    BY <1>2, <1>4, MappedStep
  <2> QED
    BY <1>3, <2>1
<1> QED
  BY <1>1, <1>2, <1>5, PromiseSteps

\* A peek moves the bookmark over what is not owed.
LEMMA PeekPromised ==
    ASSUME IInv, LiveInv, NEW r \in Readers, Peek(r)
    PROVE  UNCHANGED Promise!vars
<1>1. PICK b \in 0..Len(log) :
        /\ StopsAt(r, rows[r], b) /\ Writes(r, rows[r], b)
        /\ log' = log /\ taken' = taken /\ issued' = issued
  BY DEF Peek, Writes, IInv, TypeOK
<1>2. /\ OwedIn(r, rows[r], b) = allOwed[r] /\ AsideIn(rows[r]) = allAside[r]
      /\ TriesIn(r, rows[r], b) = allTries[r]
  BY <1>1, RowsOf, OwedBehindBookmark, Mapping
<1>3. Becomes(r, OwedIn(r, rows[r], b), AsideIn(rows[r]), TriesIn(r, rows[r], b))
  BY <1>1, MappedStep
<1>4. {} \in SUBSET Seqs
  OBVIOUS
<1> QED
  BY <1>1, <1>2, <1>3, <1>4, PromiseSteps

LEMMA NextPromised == IInv /\ LiveInv /\ [Next]_vars => [Promise!Next]_Promise!vars
<1>1. SUFFICES ASSUME IInv, LiveInv, [Next]_vars
               PROVE  [Promise!Next]_Promise!vars
  OBVIOUS
<1>2. ASSUME NEW m \in Message, Arrive(m)
      PROVE  Promise!Next
  BY <1>1, <1>2, ArrivePromised
<1>3. ASSUME NEW r \in Readers, Lease(r)
      PROVE  Promise!Next
  BY <1>1, <1>3, NothingOwedPromised, HandOutPromised DEF Lease
<1>4. ASSUME NEW r \in Readers, Peek(r)
      PROVE  UNCHANGED Promise!vars
  BY <1>1, <1>4, PeekPromised
<1>5. ASSUME NEW r \in Readers, NEW lo \in Arrived, NEW hi \in Arrived, ReadAck(r, lo, hi)
      PROVE  Promise!Next
  BY <1>1, <1>5, ReadAckPromised
<1>6. ASSUME NEW r \in Readers, NEW s \in Seqs, Settle(r, s)
      PROVE  Promise!Next \/ UNCHANGED Promise!vars
  BY <1>1, <1>6, SettlePromised DEF Settle
<1>7. ASSUME NEW r \in Readers, NEW s \in Seqs, Replay(r, s)
      PROVE  Promise!Next
  BY <1>1, <1>7, ReplayPromised
<1>8. ASSUME NEW r \in Readers, NEW s \in Seqs, TimePasses(r, s) \/ DayPasses(r, s)
      PROVE  UNCHANGED Promise!vars
  BY <1>1, <1>8, TimePromised
<1>9. CASE UNCHANGED vars
  BY <1>9 DEF vars, Promise!vars, Arrived, Owed, Aside, Tries, Wanted
<1> QED
  BY <1>1, <1>2, <1>3, <1>4, <1>5, <1>6, <1>7, <1>8, <1>9 DEF Next

LEMMA InitPromised == Init => Promise!Init
<1>1. SUFFICES ASSUME Init
               PROVE  Promise!Init
  OBVIOUS
<1>2. Arrived = {}
  BY <1>1 DEF Init, Arrived
<1>3. \A r \in Readers : /\ Owed(r) = {} /\ Aside(r) = {}
                          /\ Tries(r) = [s \in Seqs |-> 0]
  BY <1>2 DEF Owed, Aside, Tries
<1> QED
  BY <1>1, <1>2, <1>3 DEF Init, Promise!Init

\* The delivery table keeps the promise to every reader: what arrives stays owed until it is
\* taken on, or until it was handed out as often as the limit allows and is set aside.
THEOREM PromiseKept == Spec => KeepsPromise
BY LiveInductive, InitPromised, NextPromised, PTL DEF Spec, KeepsPromise, Promise!Spec
=============================================================================
