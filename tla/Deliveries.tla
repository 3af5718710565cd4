----------------------------- MODULE Deliveries -----------------------------
(***************************************************************************)
(* The delivery table of one room on one helper: messages are leased to a  *)
(* reader under a token, settled by that token, and passed by the reader's *)
(* bookmark (crates/core/src/store.rs, section "deliveries").              *)
(*                                                                         *)
(* Every operation of the store runs under the store's one connection lock *)
(* and in one transaction, so each is one action here; any number of       *)
(* workers of a reader call them in any order.  Nothing is kept in memory  *)
(* between two calls, so a crash between them is a state of this module.   *)
(*                                                                         *)
(* Time is the Boolean fields of a row: "due" says that its lease_until or *)
(* retry_at has passed, "old" that a day has passed since an acked row was *)
(* written.  TimePasses and DayPasses set them in any order.               *)
(***************************************************************************)
EXTENDS Naturals, Sequences, FiniteSets

CONSTANTS Readers,     \* the members of the room that read on this helper
          Others,      \* members whose messages arrive here but who read elsewhere
          MaxAttempts, \* config.helper.max_attempts, at least 1
          MaxSeq,      \* bound: messages in the room
          MaxReplays   \* bound: calls of `deliveries --replay`

ASSUME DeliveriesAssumption ==
    /\ MaxAttempts \in Nat \ {0}
    /\ MaxSeq \in Nat
    /\ MaxReplays \in Nat

VARIABLES
    log,       \* the room's messages: sender, and housekeeping (system, control) or not
    rows,      \* table deliveries: rows[r][s] is reader r's row of message s
    bookmark,  \* table bookmarks
    issued,    \* how often a token was drawn for message s of reader r
    replays,   \* calls of replay so far
    taken      \* history: the messages whose ack the store accepted, per reader

vars == <<log, rows, bookmark, issued, replays, taken>>

Seqs == 1..MaxSeq

\* "none" stands for no row at all.
States == {"none", "leased", "acked", "delayed", "quarantined", "replay"}

Row == [state : States, token : Nat, attempt : Nat, due : BOOLEAN, old : BOOLEAN]

\* Tokens are random; the n-th drawn for a reader's message is n, 0 is NULL.
NoToken == 0

NoRow == [state |-> "none", token |-> NoToken, attempt |-> 0, due |-> FALSE, old |-> FALSE]

Message == [from : Readers \cup Others, housekeeping : BOOLEAN]

Arrived == 1..Len(log)

-----------------------------------------------------------------------------
(* Reading the table.                                                      *)

\* A reader is not handed its own messages, nor helper or owner housekeeping.
Wanted(r, s) == log[s].from # r /\ ~log[s].housekeeping

\* Mutant: whatever has no live row may be passed, unread messages too.
SettledIfNotLive(r, rs, s) ==
    ~Wanted(r, s) \/ rs[s].state \notin {"leased", "delayed", "replay"}

\* What the bookmark may pass, given r's rows rs.
Settled(r, rs, s) == ~Wanted(r, s) \/ rs[s].state \in {"acked", "quarantined"}

\* b is where the bookmark of r stops: before the first message still owed.
StopsAt(r, rs, b) ==
    /\ b \in bookmark[r]..Len(log)
    /\ \A s \in (bookmark[r] + 1)..b : Settled(r, rs, s)
    /\ b < Len(log) => ~Settled(r, rs, b + 1)

\* Mutant: only a nack makes a message come back, a lease that runs out does not.
BackAfterNackOnly(row) == row.state = "replay" \/ (row.state = "delayed" /\ row.due)

\* A row that time or a replay has made available again.
Back(row) == row.state = "replay" \/ (row.state \in {"leased", "delayed"} /\ row.due)

\* At or below bookmark b rows alone count; after it a message without a row is new.
FreeBelow(rs, b) == {s \in 1..b : Back(rs[s])}
FreeAfter(r, rs, b) ==
    {s \in (b + 1)..Len(log) : Wanted(r, s) /\ (rs[s].state = "none" \/ Back(rs[s]))}

\* The candidates of a lease: those below the bookmark come first.
Candidates(r, rs, b) ==
    IF FreeBelow(rs, b) # {} THEN FreeBelow(rs, b) ELSE FreeAfter(r, rs, b)

\* Mutant: one try more than the limit.
ExhaustedPastLimit(row) == row.state = "leased" /\ row.due /\ row.attempt > MaxAttempts

\* Leases that ran out at the attempt limit go to quarantine.
Exhausted(row) == row.state = "leased" /\ row.due /\ row.attempt >= MaxAttempts

Quarantined(row) == [row EXCEPT !.state = "quarantined", !.token = NoToken, !.due = FALSE]

Swept(rs) == [s \in Seqs |-> IF Exhausted(rs[s]) THEN Quarantined(rs[s]) ELSE rs[s]]

\* Mutant: prune without looking at the bookmark.
PrunableAnywhere(row, s, b) == row.state = "acked" /\ row.old

\* Acked rows the bookmark has passed are deleted once they are a day old.
Prunable(row, s, b) == row.state = "acked" /\ row.old /\ s <= b

Pruned(rs, b) == [s \in Seqs |-> IF Prunable(rs[s], s, b) THEN NoRow ELSE rs[s]]

-----------------------------------------------------------------------------
(* Operations.                                                             *)

Init ==
    /\ log = <<>>
    /\ rows = [r \in Readers |-> [s \in Seqs |-> NoRow]]
    /\ bookmark = [r \in Readers |-> 0]
    /\ issued = [r \in Readers |-> [s \in Seqs |-> 0]]
    /\ replays = 0
    /\ taken = [r \in Readers |-> {}]

\* A message is appended: sequenced here, or received from the room's home.
Arrive(m) ==
    /\ Len(log) < MaxSeq
    /\ log' = Append(log, m)
    /\ UNCHANGED <<rows, bookmark, issued, replays, taken>>

\* The upsert of a hand-out: a new token, one attempt more.
LeasedRow(row, token) ==
    [state |-> "leased", token |-> token, attempt |-> row.attempt + 1, due |-> FALSE, old |-> FALSE]

\* `next` finds something: sweep, move the bookmark, hand out the lowest candidate.
HandOut(r, b, s) ==
    LET swept == Swept(rows[r])
        token == issued[r][s] + 1
    IN  /\ StopsAt(r, swept, b)
        /\ s \in Candidates(r, swept, b)
        /\ \A t \in Candidates(r, swept, b) : s <= t
        /\ rows' = [rows EXCEPT ![r] = [swept EXCEPT ![s] = LeasedRow(swept[s], token)]]
        /\ bookmark' = [bookmark EXCEPT ![r] = b]
        /\ issued' = [issued EXCEPT ![r][s] = token]
        /\ UNCHANGED <<log, replays, taken>>

\* `next` finds nothing owed; the sweep and the bookmark are committed all the same.
NothingOwed(r, b) ==
    LET swept == Swept(rows[r])
    IN  /\ StopsAt(r, swept, b)
        /\ Candidates(r, swept, b) = {}
        /\ rows' = [rows EXCEPT ![r] = swept]
        /\ bookmark' = [bookmark EXCEPT ![r] = b]
        /\ UNCHANGED <<log, issued, replays, taken>>

Lease(r) ==
    \E b \in 0..Len(log) : NothingOwed(r, b) \/ \E s \in Arrived : HandOut(r, b, s)

\* The row a settle writes; a token that names no row is refused before this.
AckedRow(row) == [row EXCEPT !.state = "acked", !.due = FALSE]

NackedRow(row, due) ==
    IF row.attempt >= MaxAttempts
    THEN Quarantined(row)
    ELSE [row EXCEPT !.state = "delayed", !.token = NoToken, !.due = due]

RenewedRow(row) == [row EXCEPT !.due = FALSE]

\* Any token ever drawn may be presented, late or twice; only the current one counts.
Names(r, s, n) == n \in 1..issued[r][s] /\ rows[r][s].token = n

\* The end of every accepted settle: advance, prune, and read the row back.  When the
\* prune took that very row the read fails and the transaction is rolled back.
Write(r, s, row) ==
    LET rs == [rows[r] EXCEPT ![s] = row]
    IN  \E b \in 0..Len(log) :
            /\ StopsAt(r, rs, b)
            /\ ~Prunable(row, s, b)
            /\ rows' = [rows EXCEPT ![r] = Pruned(rs, b)]
            /\ bookmark' = [bookmark EXCEPT ![r] = b]
            /\ UNCHANGED <<log, issued, replays>>

\* An ack counts under the current token even after the lease ran out.
Ack(r, s, n) ==
    /\ Names(r, s, n)
    /\ rows[r][s].state \in {"leased", "acked"}
    /\ Write(r, s, IF rows[r][s].state = "leased" THEN AckedRow(rows[r][s]) ELSE rows[r][s])
    /\ taken' = [taken EXCEPT ![r] = @ \cup {s}]

\* The delay of a nack may be zero seconds, so the row may be due at once.
Nack(r, s, n) ==
    /\ Names(r, s, n)
    /\ rows[r][s].state = "leased"
    /\ \E due \in BOOLEAN : Write(r, s, NackedRow(rows[r][s], due))
    /\ UNCHANGED taken

Renew(r, s, n) ==
    /\ Names(r, s, n)
    /\ rows[r][s].state = "leased"
    /\ Write(r, s, RenewedRow(rows[r][s]))
    /\ UNCHANGED taken

\* `read --ack` of the messages lo..hi: whatever their lease; quarantined ones stay.
ReadAck(r, lo, hi) ==
    LET rs == [s \in Seqs |->
                 IF s \notin lo..hi \/ rows[r][s].state = "quarantined" THEN rows[r][s]
                 ELSE [state |-> "acked", token |-> NoToken, due |-> FALSE, old |-> FALSE,
                       attempt |-> IF rows[r][s].state = "none" THEN 1 ELSE rows[r][s].attempt]]
    IN  \E b \in 0..Len(log) :
            /\ StopsAt(r, rs, b)
            /\ rows' = [rows EXCEPT ![r] = rs]
            /\ bookmark' = [bookmark EXCEPT ![r] = b]
            /\ taken' = [taken EXCEPT ![r] = @ \cup {s \in lo..hi : rs[s].state = "acked"}]
            /\ UNCHANGED <<log, issued, replays>>

\* `deliveries --replay`: back out of quarantine, as if new.
Replay(r, s) ==
    /\ replays < MaxReplays
    /\ rows[r][s].state = "quarantined"
    /\ rows' = [rows EXCEPT ![r][s] =
                  [state |-> "replay", token |-> NoToken, attempt |-> 0, due |-> FALSE, old |-> FALSE]]
    /\ replays' = replays + 1
    /\ UNCHANGED <<log, bookmark, issued, taken>>

\* A peek hands nothing out, but it moves the bookmark.
Peek(r) ==
    \E b \in 0..Len(log) :
        /\ StopsAt(r, rows[r], b)
        /\ bookmark' = [bookmark EXCEPT ![r] = b]
        /\ UNCHANGED <<log, rows, issued, replays, taken>>

\* A lease runs out, or the delay of a nack passes.
TimePasses(r, s) ==
    /\ rows[r][s].state \in {"leased", "delayed"}
    /\ ~rows[r][s].due
    /\ rows' = [rows EXCEPT ![r][s].due = TRUE]
    /\ UNCHANGED <<log, bookmark, issued, replays, taken>>

\* A day has passed since this row was acked.
DayPasses(r, s) ==
    /\ rows[r][s].state = "acked"
    /\ ~rows[r][s].old
    /\ rows' = [rows EXCEPT ![r][s].old = TRUE]
    /\ UNCHANGED <<log, bookmark, issued, replays, taken>>

Settle(r, s) == \E n \in 1..issued[r][s] : Ack(r, s, n) \/ Nack(r, s, n) \/ Renew(r, s, n)

Next ==
    \/ \E m \in Message : Arrive(m)
    \/ \E r \in Readers :
          \/ Lease(r)
          \/ Peek(r)
          \/ \E lo, hi \in Arrived : lo <= hi /\ ReadAck(r, lo, hi)
          \/ \E s \in Seqs : Settle(r, s) \/ Replay(r, s) \/ TimePasses(r, s) \/ DayPasses(r, s)

Spec == Init /\ [][Next]_vars

\* Every reader keeps calling `next`, and time passes.
Fairness ==
    \A r \in Readers : WF_vars(Lease(r)) /\ \A s \in Seqs : WF_vars(TimePasses(r, s))

FairSpec == Spec /\ Fairness

-----------------------------------------------------------------------------
(* What a wake rule sees, and what is owed.                                *)

\* Mutant: count after the bookmark only, as a peek does.
WakePendingAfterBookmark(r) ==
    {s \in Arrived :
        Wanted(r, s) /\ s > bookmark[r] /\ (rows[r][s].state = "none" \/ Back(rows[r][s]))}

\* wake_pending: waiting for r and free to hand out now.
WakePending(r) ==
    {s \in Arrived :
        /\ Wanted(r, s)
        /\ (rows[r][s].state = "none" /\ s > bookmark[r]) \/ Back(rows[r][s])}

\* What a `next` of r would choose from, were it called now.
Choices(r) ==
    {s \in Arrived : \E b \in 0..Len(log) :
        StopsAt(r, Swept(rows[r]), b) /\ s \in Candidates(r, Swept(rows[r]), b)}

\* The message is still on its way to r: new after the bookmark, or in a live row.
Owed(r) ==
    {s \in Arrived :
        /\ Wanted(r, s)
        /\ \/ rows[r][s].state = "none" /\ s > bookmark[r]
           \/ rows[r][s].state \in {"leased", "delayed", "replay"}}

Aside(r) == {s \in Arrived : rows[r][s].state = "quarantined"}

\* Hand-outs of an owed message since it was new, or since it was replayed.
Tries(r) == [s \in Seqs |-> IF s \in Owed(r) THEN rows[r][s].attempt ELSE 0]

-----------------------------------------------------------------------------
(* Properties.                                                             *)

TypeOK ==
    /\ log \in Seq(Message) /\ Len(log) <= MaxSeq
    /\ rows \in [Readers -> [Seqs -> Row]]
    /\ bookmark \in [Readers -> 0..MaxSeq]
    /\ issued \in [Readers -> [Seqs -> Nat]]
    /\ replays \in Nat
    /\ taken \in [Readers -> SUBSET Seqs]

\* The bookmark never passes a message the reader wants and that is neither taken on
\* nor kept in a row: nothing is skipped silently, though acked rows are pruned.
BookmarkSkipsNothing ==
    \A r \in Readers : \A s \in Arrived :
        s <= bookmark[r] /\ Wanted(r, s) /\ rows[r][s].state = "none" => s \in taken[r]

\* A token that still names a row is the last one drawn for that message, so a worker
\* whose lease ran out cannot settle the newer delivery.
OnlyNewestTokenNames ==
    \A r \in Readers : \A s \in Seqs : rows[r][s].token \in {NoToken, issued[r][s]}

\* A message the reader has taken on is never handed out again: its row stays acked,
\* or it is pruned once the bookmark has passed it.
TakenStaysTaken ==
    \A r \in Readers : \A s \in taken[r] :
        \/ rows[r][s].state = "acked"
        \/ rows[r][s].state = "none" /\ s <= bookmark[r]

\* A wake rule never misses work: what `next` would hand out, wake_pending counts.
WakeSeesAllChoices == \A r \in Readers : Choices(r) \subseteq WakePending(r)

\* wake_pending is "free to hand out now": it counts only what `next` would hand out.
WakePendingIsFree == \A r \in Readers : WakePending(r) # {} => Choices(r) # {}

\* The promise to a reader: see AtLeastOnce.
Promise == INSTANCE AtLeastOnce WITH
    Items <- Seqs,
    arrived <- Arrived,
    owed <- [r \in Readers |-> Owed(r)],
    aside <- [r \in Readers |-> Aside(r)],
    tries <- [r \in Readers |-> Tries(r)],
    handed <- issued

KeepsPromise == Promise!Spec

\* Workers that stop renewing do not keep a message from being settled: every message a
\* reader wants is at last taken on or set aside in quarantine.
RenewsAtMostFinitely ==
    <>[][~\E r \in Readers : \E s \in Seqs : \E n \in 1..issued[r][s] : Renew(r, s, n)]_vars

OwedIsSettled ==
    RenewsAtMostFinitely =>
        \A r \in Readers : \A s \in Seqs : s \in Owed(r) ~> s \notin Owed(r)
=============================================================================
