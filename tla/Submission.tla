----------------------------- MODULE Submission -----------------------------
(***************************************************************************)
(* How a member's message gets into the room: `send` puts it in the        *)
(* member's outbox, `send` itself or the room's link task submits it over  *)
(* a link that loses requests and answers, the home checks it and gives it *)
(* its place in the chain, and the copy that comes back takes it out of    *)
(* the outbox (crates/cli/src/helper/local.rs, outbox.rs, peers.rs and     *)
(* mod.rs; crates/core/src/store.rs).                                      *)
(*                                                                         *)
(* One room, one member helper with several senders, and the home.         *)
(* Messages are numbers: a sender queues its own in increasing order, so   *)
(* comparing two of one sender compares their outbox rowids.  The outbox,  *)
(* the chain and the replica are on disk; calls, the submit lock, the      *)
(* flush and requests are in memory or on the wire.                        *)
(***************************************************************************)
EXTENDS Naturals, Sequences, FiniteSets, Functions

CONSTANTS Messages,   \* a set of numbers
          Senders,    \* numbers: lanes are flushed in the order of their sender
          SenderOf,   \* the sender of each message
          UnknownMin, \* UNKNOWN_MIN_COUNT: equal unknown answers before quarantine
          NoOne, Flush, \* who holds the submit lock when no call does
          MaxOrphans, \* bound: requests under way that nobody waits for any more
          MaxRetries  \* bound: calls of `outbox retry`

ASSUME SubmissionAssumption ==
    /\ Messages \subseteq Nat /\ Senders \subseteq Nat
    /\ SenderOf \in [Messages -> Senders]
    /\ UnknownMin \in Nat \ {0}
    /\ NoOne \notin Messages /\ Flush \notin Messages /\ NoOne # Flush
    /\ MaxOrphans \in Nat /\ MaxRetries \in Nat

VARIABLES
    row,     \* table outbox: the state of a message's row, "none" for no row
    due,     \* per row: retry_at is NULL or has passed
    odd,     \* per row: unknown_count
    aged,    \* per row: UNKNOWN_MIN_SECS have passed since unknown_since
    lostKey, \* rows sealed with a key the helper no longer has
    call,    \* per message: where its `send` is
    link,    \* is there a link in home_links
    lock,    \* who holds the room's submit lock
    live,    \* the request the lock holder waits for, and how far it got
    orphans, \* requests at the home nobody waits for any more
    todo,    \* the running flush: what is left of its snapshot of the lanes
    held,    \* the running flush: snapshot entries whose retry_at lies ahead
    replica, \* how many messages of the chain the member has stored
    chain,   \* the home's chain: the messages in sequence
    retries  \* calls of `outbox retry` so far

member == <<row, due, odd, aged, lostKey, call, lock, todo, held, replica>>
vars   == <<member, link, live, orphans, chain, retries>>

RowStates  == {"none", "pending", "waiting", "failed", "quarantined", "dropped"}
CallStates == {"new", "queued", "direct", "refusing", "left", "delivered", "refused"}
\* Answers of the home; "busy" is any other temporary failure, over budget or not stored.
Answers    == {"ok", "paused", "busy", "refused", "unknown"}
Stages     == {"sent", "cleared"} \cup Answers

NoRequest == [msg |-> 0, stage |-> "none"]

Queued(m)    == row[m] \in {"pending", "waiting"}
Sequenced    == Range(chain)
Replicated   == {chain[i] : i \in 1..replica}
Lane(m)      == {k \in Messages : SenderOf[k] = SenderOf[m]}
Earlier(k, m) == SenderOf[k] < SenderOf[m] \/ (SenderOf[k] = SenderOf[m] /\ k < m)

-----------------------------------------------------------------------------
Init ==
    /\ row = [m \in Messages |-> "none"]
    /\ due = [m \in Messages |-> FALSE]
    /\ odd = [m \in Messages |-> 0]
    /\ aged = [m \in Messages |-> FALSE]
    /\ lostKey = {}
    /\ call = [m \in Messages |-> "new"]
    /\ link = FALSE
    /\ lock = NoOne
    /\ live = NoRequest
    /\ orphans = {}
    /\ todo = {} /\ held = {}
    /\ replica = 0
    /\ chain = <<>>
    /\ retries = 0

-----------------------------------------------------------------------------
(* The outbox table.                                                       *)

\* Put row m in state s; whatever concerned its earlier tries is as given.
SetRow(m, s, isDue, count, old) ==
    /\ row' = [row EXCEPT ![m] = s]
    /\ due' = [due EXCEPT ![m] = isDue]
    /\ odd' = [odd EXCEPT ![m] = count]
    /\ aged' = [aged EXCEPT ![m] = old]

RowsUnchanged == UNCHANGED <<row, due, odd, aged>>

\* outbox_wait and outbox_fail touch a pending or waiting row only.
Wait(m) == IF Queued(m) THEN SetRow(m, "waiting", FALSE, odd[m], aged[m]) ELSE RowsUnchanged
Fail(m) == IF Queued(m) THEN SetRow(m, "failed", FALSE, 0, FALSE) ELSE RowsUnchanged

\* Delete the rows of these messages, whatever their state.
Unqueue(gone) ==
    /\ row' = [m \in Messages |-> IF m \in gone THEN "none" ELSE row[m]]
    /\ due' = [m \in Messages |-> IF m \in gone THEN FALSE ELSE due[m]]
    /\ odd' = [m \in Messages |-> IF m \in gone THEN 0 ELSE odd[m]]
    /\ aged' = [m \in Messages |-> IF m \in gone THEN FALSE ELSE aged[m]]
    /\ lostKey' = lostKey \ gone

\* append on the member: the chain up to n is stored, and what it holds leaves the
\* outbox in the same transaction.
Store(n) ==
    /\ replica' = n
    /\ Unqueue({chain[i] : i \in 1..n})

\* Where the replica stands after the stored copy of m came back: it is appended when it
\* is next, ignored when it is there, and fetched by a sync when the replica is behind.
After(m) ==
    LET seq == CHOOSE i \in DOMAIN chain : chain[i] = m
    IN  IF seq <= replica THEN replica ELSE IF seq = replica + 1 THEN seq ELSE Len(chain)

-----------------------------------------------------------------------------
(* send                                                                    *)

\* On disk before `send` returns.
Send(m) ==
    /\ call[m] = "new"
    /\ \A k \in Lane(m) : k < m => call[k] # "new"
    /\ SetRow(m, "pending", TRUE, 0, FALSE)
    /\ call' = [call EXCEPT ![m] = "queued"]
    /\ UNCHANGED <<lostKey, lock, todo, held, replica, link, live, orphans, chain, retries>>

\* Offline, what this helper last heard says the home would refuse it.
RefuseOffline(m) ==
    /\ call[m] = "new" /\ ~link
    /\ \A k \in Lane(m) : k < m => call[k] # "new"
    /\ call' = [call EXCEPT ![m] = "refused"]
    /\ UNCHANGED <<row, due, odd, aged, lostKey, lock, todo, held, replica, link, live, orphans,
                   chain, retries>>

\* The link is there and the lock is free: the call submits its message itself, past
\* whatever its sender has queued, unless a flush has delivered it already.
Direct(m) ==
    /\ call[m] = "queued" /\ link /\ lock = NoOne
    /\ IF m \in Replicated
       THEN /\ call' = [call EXCEPT ![m] = "delivered"]
            /\ UNCHANGED <<lock, live>>
       ELSE /\ call' = [call EXCEPT ![m] = "direct"]
            /\ lock' = m
            /\ live' = [msg |-> m, stage |-> "sent"]
    /\ UNCHANGED <<row, due, odd, aged, lostKey, todo, held, replica, link, orphans, chain, retries>>

\* No link in time, or the lock is taken for too long: it stays queued.
StopWaiting(m) ==
    /\ call[m] = "queued"
    /\ call' = [call EXCEPT ![m] = "left"]
    /\ UNCHANGED <<row, due, odd, aged, lostKey, lock, todo, held, replica, link, live, orphans,
                   chain, retries>>

\* Mutant: the caller is told as soon as the answer is there, before it is stored.
DirectSequencedUnstored(m) ==
    /\ lock = m /\ live.stage = "ok"
    /\ call' = [call EXCEPT ![m] = "delivered"]
    /\ lock' = NoOne /\ live' = NoRequest
    /\ UNCHANGED <<row, due, odd, aged, lostKey, replica, todo, held, link, orphans, chain, retries>>

\* The answer arrived: the stored copy is applied, and the caller told.
DirectSequenced(m) ==
    /\ lock = m /\ live.stage = "ok"
    /\ Store(After(m))
    /\ call' = [call EXCEPT ![m] = "delivered"]
    /\ lock' = NoOne /\ live' = NoRequest
    /\ UNCHANGED <<todo, held, link, orphans, chain, retries>>

\* The home said no, for now or for good: the lock is released first ...
DirectRefused(m) ==
    /\ lock = m /\ live.stage \in Answers \ {"ok"}
    /\ call' = [call EXCEPT ![m] = "refusing"]
    /\ lock' = NoOne /\ live' = NoRequest
    /\ UNCHANGED <<row, due, odd, aged, lostKey, todo, held, replica, link, orphans, chain, retries>>

\* ... then outbox_remove takes the row out, if it is still in its lane, and the caller
\* is told.
Remove(m) ==
    /\ call[m] = "refusing"
    /\ IF Queued(m)
       THEN SetRow(m, "none", FALSE, 0, FALSE) /\ lostKey' = lostKey \ {m}
       ELSE RowsUnchanged /\ UNCHANGED lostKey
    /\ call' = [call EXCEPT ![m] = "refused"]
    /\ UNCHANGED <<lock, todo, held, replica, link, live, orphans, chain, retries>>

\* Nobody waits for the request any more, but it may still reach the home.
Abandon ==
    \/ /\ live.stage \in {"sent", "cleared"} /\ Cardinality(orphans) < MaxOrphans
       /\ orphans' = orphans \cup {live}
    \/ UNCHANGED orphans

\* The request times out or its link breaks, or the copy that came back could not be
\* stored: the message stays queued.
DirectFails(m) ==
    /\ lock = m
    /\ Abandon
    /\ call' = [call EXCEPT ![m] = "left"]
    /\ lock' = NoOne /\ live' = NoRequest
    /\ UNCHANGED <<row, due, odd, aged, lostKey, todo, held, replica, link, chain, retries>>

-----------------------------------------------------------------------------
(* flush_outbox: lane by lane, under the submit lock                       *)

StartFlush ==
    /\ link /\ lock = NoOne
    /\ lock' = Flush
    /\ todo' = {m \in Messages : Queued(m)}
    /\ held' = {m \in Messages : row[m] = "waiting" /\ ~due[m]}
    /\ UNCHANGED <<row, due, odd, aged, lostKey, call, replica, link, live, orphans, chain, retries>>

\* The entry the flush is at: the first of the first lane.
At(m) ==
    /\ lock = Flush
    /\ m \in todo
    /\ \A k \in todo : k = m \/ Earlier(m, k)

BreakLane(m) == todo' = todo \ Lane(m)
NextEntry(m) == todo' = todo \ {m}

EndFlush ==
    /\ lock = Flush /\ todo = {}
    /\ lock' = NoOne /\ held' = {}
    /\ UNCHANGED <<row, due, odd, aged, lostKey, call, todo, replica, link, live, orphans, chain, retries>>

\* The head of the lane was not due when the snapshot was taken: the lane waits.
SkipLane(m) ==
    /\ At(m) /\ live = NoRequest /\ m \in held /\ ~due[m]
    /\ BreakLane(m)
    /\ UNCHANGED <<row, due, odd, aged, lostKey, call, lock, held, replica, link, live, orphans,
                   chain, retries>>

\* The head is due by now; a row deleted meanwhile leaves its snapshot entry behind.
Ready(m) == At(m) /\ live = NoRequest /\ (m \in held => due[m] \/ row[m] = "none")

\* Sealed with a key this helper no longer has: set aside at once.  When the row has
\* left its lane meanwhile the store refuses, and the flush and the link end.
SetAsideUnreadable(m) ==
    /\ Ready(m) /\ m \in lostKey
    /\ IF Queued(m)
       THEN /\ SetRow(m, "quarantined", FALSE, 0, FALSE)
            /\ NextEntry(m)
            /\ UNCHANGED <<lock, held, link>>
       ELSE RowsUnchanged /\ todo' = {} /\ held' = {} /\ lock' = NoOne /\ link' = FALSE
    /\ UNCHANGED <<lostKey, call, replica, live, orphans, chain, retries>>

\* The flush submits the entry, as the snapshot has it.
Submit(m) ==
    /\ Ready(m) /\ m \notin lostKey
    /\ live' = [msg |-> m, stage |-> "sent"]
    /\ UNCHANGED <<row, due, odd, aged, lostKey, call, lock, todo, held, replica, link, orphans,
                   chain, retries>>

Answered(m, stage) == At(m) /\ live = [msg |-> m, stage |-> stage] /\ live' = NoRequest

FlushSequenced(m) ==
    /\ Answered(m, "ok")
    /\ Store(After(m))
    /\ NextEntry(m)
    /\ UNCHANGED <<call, lock, held, link, orphans, chain, retries>>

\* Every lane would hear the same: the flush ends.
FlushPaused(m) ==
    /\ Answered(m, "paused")
    /\ Wait(m)
    /\ todo' = {} /\ held' = {} /\ lock' = NoOne
    /\ UNCHANGED <<lostKey, call, replica, link, orphans, chain, retries>>

FlushBusy(m) ==
    /\ Answered(m, "busy")
    /\ Wait(m) /\ BreakLane(m)
    /\ UNCHANGED <<lostKey, call, lock, held, replica, link, orphans, chain, retries>>

\* Mutant: a definitive refusal forgets the message.
FlushForgetsRefused(m) ==
    /\ Answered(m, "refused")
    /\ IF Queued(m) THEN SetRow(m, "none", FALSE, 0, FALSE) ELSE RowsUnchanged
    /\ NextEntry(m)
    /\ UNCHANGED <<lostKey, call, lock, held, replica, link, orphans, chain, retries>>

\* Refused for good: kept as failed, and the lane goes on.
FlushRefused(m) ==
    /\ Answered(m, "refused")
    /\ Fail(m) /\ NextEntry(m)
    /\ UNCHANGED <<lostKey, call, lock, held, replica, link, orphans, chain, retries>>

\* Mutant: each try starts the count of equal answers again.
FlushUnknownForgets(m) ==
    /\ Answered(m, "unknown")
    /\ IF Queued(m)
       THEN SetRow(m, "waiting", FALSE, 1, aged[m]) /\ BreakLane(m) /\ UNCHANGED <<lock, held, link>>
       ELSE RowsUnchanged /\ todo' = {} /\ held' = {} /\ lock' = NoOne /\ link' = FALSE
    /\ UNCHANGED <<lostKey, call, replica, orphans, chain, retries>>

\* outbox_unknown: quarantined once the same answer has come back often enough for long
\* enough; until then the lane waits.  A row that has left its lane ends flush and link.
FlushUnknown(m) ==
    /\ Answered(m, "unknown")
    /\ LET count == IF odd[m] < UnknownMin THEN odd[m] + 1 ELSE odd[m]
       IN  \/ /\ Queued(m) /\ count >= UnknownMin /\ aged[m]
              /\ SetRow(m, "quarantined", FALSE, 0, FALSE)
              /\ NextEntry(m)
              /\ UNCHANGED <<lock, held, link>>
           \/ /\ Queued(m) /\ ~(count >= UnknownMin /\ aged[m])
              /\ SetRow(m, "waiting", FALSE, count, aged[m])
              /\ BreakLane(m)
              /\ UNCHANGED <<lock, held, link>>
           \/ /\ ~Queued(m)
              /\ RowsUnchanged
              /\ todo' = {} /\ held' = {} /\ lock' = NoOne /\ link' = FALSE
    /\ UNCHANGED <<lostKey, call, replica, orphans, chain, retries>>

\* No answer, or a sync that failed: the entry waits, and the link is given up.
FlushFails(m) ==
    /\ At(m) /\ live.msg = m
    /\ Wait(m)
    /\ Abandon
    /\ live' = NoRequest
    /\ todo' = {} /\ held' = {} /\ lock' = NoOne /\ link' = FALSE
    /\ UNCHANGED <<lostKey, call, replica, chain, retries>>

\* The member's own store failed on the copy that came back: the lane waits.
FlushCannotStore(m) ==
    /\ Answered(m, "ok")
    /\ Wait(m) /\ BreakLane(m)
    /\ UNCHANGED <<lostKey, call, lock, held, replica, link, orphans, chain, retries>>

-----------------------------------------------------------------------------
(* The link and the replica                                                *)

Connect ==
    /\ ~link
    /\ link' = TRUE
    /\ UNCHANGED <<member, live, orphans, chain, retries>>

Disconnect ==
    /\ link /\ lock # Flush
    /\ link' = FALSE
    /\ UNCHANGED <<member, live, orphans, chain, retries>>

\* A push that is next in the chain, or a sync; the link task does nothing else while
\* it flushes.
Receive(n) ==
    /\ link /\ lock # Flush
    /\ n \in (replica + 1)..Len(chain)
    /\ Store(n)
    /\ UNCHANGED <<call, lock, todo, held, link, live, orphans, chain, retries>>

-----------------------------------------------------------------------------
(* The home: sequence_here                                                 *)

\* The checks, in order: a resubmit gets the stored copy whatever has changed since; for
\* any other, the room's state of the moment decides (paused, over budget or not stored,
\* refused for good, a code nobody can place).
Verdicts(m) == IF m \in Sequenced THEN {"ok"} ELSE (Answers \ {"ok"}) \cup {"cleared"}

\* The request r is at this stage now, wherever it is kept.
Advance(r, stage) ==
    \/ /\ r = live
       /\ live' = [live EXCEPT !.stage = stage]
       /\ UNCHANGED orphans
    \/ /\ r \in orphans
       /\ orphans' = (orphans \ {r}) \cup
                        (IF stage = "cleared" THEN {[r EXCEPT !.stage = stage]} ELSE {})
       /\ UNCHANGED live

AtHome == {r \in orphans \cup {live} : r.stage \in {"sent", "cleared"}}

Check(r, v) ==
    /\ r.stage = "sent"
    /\ v \in Verdicts(r.msg)
    /\ Advance(r, v)
    /\ UNCHANGED <<member, link, chain, retries>>

\* Mutant: append without looking whether the message raced in twice.
AppendAlways(r) ==
    /\ r.stage = "cleared"
    /\ chain' = Append(chain, r.msg)
    /\ Advance(r, "ok")
    /\ UNCHANGED <<member, link, retries>>

\* sequence_and_append, a transaction of its own after the checks.
Place(r) ==
    /\ r.stage = "cleared"
    /\ chain' = IF r.msg \in Sequenced THEN chain ELSE Append(chain, r.msg)
    /\ Advance(r, "ok")
    /\ UNCHANGED <<member, link, retries>>

LoseRequest(r) ==
    /\ r \in orphans
    /\ orphans' = orphans \ {r}
    /\ UNCHANGED <<member, link, live, chain, retries>>

-----------------------------------------------------------------------------
(* Time, people and restarts                                               *)

TimePasses(m) ==
    /\ row[m] = "waiting" /\ ~due[m]
    /\ due' = [due EXCEPT ![m] = TRUE]
    /\ UNCHANGED <<row, odd, aged, lostKey, call, lock, todo, held, replica, link, live, orphans,
                   chain, retries>>

HourPasses(m) ==
    /\ odd[m] > 0 /\ ~aged[m]
    /\ aged' = [aged EXCEPT ![m] = TRUE]
    /\ UNCHANGED <<row, due, odd, lostKey, call, lock, todo, held, replica, link, live, orphans,
                   chain, retries>>

\* outbox_retry in the store: back in its lane as it was.
BackInLane(m) ==
    /\ row[m] \in {"failed", "quarantined"}
    /\ SetRow(m, "pending", TRUE, 0, FALSE)

Retry(m) ==
    /\ retries < MaxRetries
    /\ BackInLane(m)
    /\ retries' = retries + 1
    /\ UNCHANGED <<lostKey, call, lock, todo, held, replica, link, live, orphans, chain>>

\* outbox_drop in the store: the row stays as a record.
Wiped(m) ==
    /\ row[m] \in {"failed", "quarantined"}
    /\ SetRow(m, "dropped", FALSE, 0, FALSE)

Drop(m) ==
    /\ Wiped(m)
    /\ UNCHANGED <<lostKey, call, lock, todo, held, replica, link, live, orphans, chain, retries>>

\* The member's helper dies and starts again, perhaps without the key its rows are
\* sealed with: calls get no answer, requests already sent may still arrive.
Crash ==
    /\ call' = [m \in Messages |->
                  IF call[m] \in {"queued", "direct", "refusing"} THEN "left" ELSE call[m]]
    /\ link' = FALSE /\ lock' = NoOne /\ live' = NoRequest
    /\ todo' = {} /\ held' = {}
    /\ Abandon
    /\ \/ UNCHANGED lostKey
       \/ lostKey' = {m \in Messages : row[m] \notin {"none", "dropped"}}
    /\ UNCHANGED <<row, due, odd, aged, replica, chain, retries>>

-----------------------------------------------------------------------------
CallGoes(m) ==
    \/ Send(m) \/ RefuseOffline(m) \/ Direct(m) \/ StopWaiting(m)
    \/ DirectSequenced(m) \/ DirectRefused(m) \/ Remove(m) \/ DirectFails(m)

Flushing(m) ==
    \/ SkipLane(m) \/ SetAsideUnreadable(m) \/ Submit(m) \/ FlushSequenced(m)
    \/ FlushPaused(m) \/ FlushBusy(m) \/ FlushRefused(m) \/ FlushUnknown(m)
    \/ FlushFails(m) \/ FlushCannotStore(m)

Home(r) == (\E v \in Stages : Check(r, v)) \/ Place(r) \/ LoseRequest(r)

Next ==
    \/ \E m \in Messages :
          CallGoes(m) \/ Flushing(m) \/ TimePasses(m) \/ HourPasses(m) \/ Retry(m) \/ Drop(m)
    \/ StartFlush \/ EndFlush \/ Connect \/ Disconnect
    \/ \E n \in 1..Len(chain) : Receive(n)
    \/ \E r \in AtHome : Home(r)
    \/ Crash

Spec == Init /\ [][Next]_vars

\* Calls, the flush (its 30-second tick), the home and the reconnecting link task go on,
\* and time passes.
Fairness ==
    /\ WF_vars(Connect) /\ WF_vars(StartFlush) /\ WF_vars(EndFlush)
    /\ \A m \in Messages :
          /\ WF_vars(Direct(m) \/ StopWaiting(m)) /\ WF_vars(Remove(m))
          /\ WF_vars(DirectSequenced(m) \/ DirectRefused(m))
          /\ WF_vars(Flushing(m))
          /\ WF_vars(TimePasses(m)) /\ WF_vars(HourPasses(m))
    /\ WF_vars((\E v \in Stages : Check(live, v)) \/ Place(live))

FairSpec == Spec /\ Fairness

-----------------------------------------------------------------------------
(* Properties                                                              *)

TypeOK ==
    /\ row \in [Messages -> RowStates] /\ call \in [Messages -> CallStates]
    /\ due \in [Messages -> BOOLEAN] /\ aged \in [Messages -> BOOLEAN]
    /\ odd \in [Messages -> 0..UnknownMin]
    /\ lostKey \subseteq Messages /\ todo \subseteq Messages /\ held \subseteq Messages
    /\ link \in BOOLEAN /\ retries \in 0..MaxRetries
    /\ lock \in {NoOne, Flush} \cup Messages
    /\ live \in [msg : Messages, stage : Stages] \cup {NoRequest}
    /\ orphans \subseteq [msg : Messages, stage : {"sent", "cleared"}]
    /\ chain \in Seq(Messages) /\ replica \in 0..Len(chain)

\* Resubmits, late requests and restarts never put a message in the chain twice.
PlacedOnce == \A i, j \in DOMAIN chain : chain[i] = chain[j] => i = j

\* A message `send` did not refuse is in the outbox or in the member's copy of the
\* chain, and never in both: it leaves the outbox only into the chain.
AccountedForOnce ==
    \A m \in Messages :
        /\ call[m] \in {"queued", "direct", "left", "delivered"} =>
              row[m] # "none" \/ m \in Replicated
        /\ row[m] = "none" \/ m \notin Replicated

\* "sequenced": told delivered, the message is in the chain and in this member's copy.
DeliveredIsReplicated == \A m \in Messages : call[m] = "delivered" => m \in Replicated

\* What can hold a message back for ever: a link, a helper or a store that keeps failing,
\* or a home that keeps saying "not now".
Obstacle ==
    \/ Disconnect \/ Crash
    \/ \E m \in Messages : DirectFails(m) \/ FlushFails(m) \/ FlushCannotStore(m)
    \/ \E v \in {"paused", "busy"} : Check(live, v)

\* Without those a queued message is at last in the chain, or shown to a person as failed,
\* quarantined or dropped, or its sender was told no: nothing waits for ever unseen.
QueuedIsResolved ==
    <>[][~Obstacle]_vars => \A m \in Messages : Queued(m) ~> ~Queued(m)

\* "Each sender's messages go in the order they were queued; one sender's waiting message
\* holds back only that sender's later ones" (docs/SPEC.md).
LanesKeepOrder ==
    [][\A m \in Range(chain') \ Sequenced : \A k \in Lane(m) :
          k < m /\ row[k] = "waiting" => k \in Sequenced]_vars

\* "The sender is right here: tell them now and do not queue" (send): what its sender was
\* told is refused does not turn up in the chain.
RefusedStaysOut == \A m \in Messages : call[m] = "refused" => m \notin Sequenced
=============================================================================
