-------------------------------- MODULE Wake --------------------------------
(***************************************************************************)
(* One wake rule in nudge mode: the loop that tells a command or a web     *)
(* address that messages wait for a reader, and the schedule it keeps      *)
(* (crates/cli/src/helper/wake.rs, struct Burst and run_nudge; what waits  *)
(* is wake_pending of crates/core/src/store.rs).                           *)
(*                                                                         *)
(* Times are kept as ages: how many ticks ago something happened.  An age  *)
(* stops growing once no decision can tell the difference, so there is no  *)
(* last tick and liveness is about runs of any length.  The loop is        *)
(* prompt: no tick passes while it has something to do.                    *)
(*                                                                         *)
(* The schedule is not saved and what waits is: a helper that restarts is  *)
(* an initial state of this module, which begins with any store.           *)
(***************************************************************************)
EXTENDS Integers, Sequences, FiniteSets

CONSTANTS MaxNews,       \* bound: messages of the room
          Quiet,        \* QUIET
          MaxGather,    \* MAX_GATHER
          MinGap,       \* MIN_GAP
          RenudgeSteps, \* RENUDGE_STEPS, or one fixed interval
          HourlyCap,    \* HOURLY_CAP
          Hour,
          Backoff,      \* BACKOFF
          TickWait,     \* TICK
          ExecTimeout   \* EXEC_TIMEOUT

ASSUME WakeAssumption ==
    /\ MaxNews \in Nat
    /\ {Quiet, MaxGather, MinGap, HourlyCap, Hour, TickWait, ExecTimeout} \subseteq Nat \ {0}
    /\ RenudgeSteps \in Seq(Nat \ {0}) /\ RenudgeSteps # <<>>
    /\ \A i \in 1..(Len(RenudgeSteps) - 1) : RenudgeSteps[i] <= RenudgeSteps[i + 1]
    /\ Backoff \in Seq(MinGap..Hour)
    /\ MinGap <= Hour

VARIABLES
    last,     \* the newest message of the room
    waiting,  \* messages `next` would hand out now, on traces that may still wake
    handed,   \* messages under a live lease, or delayed by a nack
    paused,   \* the room is paused
    pc,       \* the loop: "asleep" or "firing"
    timer,    \* ticks until it wakes, or until the target is stopped
    rung,     \* an event of the room waits in the loop's channel
    pending,  \* the newest_seq of the nudge that is under way
    burst,    \* struct Burst
    went,     \* history: ages of the nudges that went out within the hour
    toldOf    \* history: the newest message any nudge was sent for

room == <<last, waiting, handed, paused>>
loop == <<pc, timer, rung, pending, burst, went, toldOf>>
ruleVars == <<room, loop>>

News == 1..MaxNews

LeastOf(a, b) == IF a < b THEN a ELSE b
MostOf(a, b) == IF a > b THEN a ELSE b

\* The longest wait before a re-nudge.
LastStep == RenudgeSteps[Len(RenudgeSteps)]

\* The None of changed and began.  That of lastFire and lastOk is "too long ago to matter".
None == -1

NewBurst == [lastFire |-> MinGap, lastOk |-> LastStep, nudged |-> 0, gaveUp |-> 0, failures |-> 0,
             retryIn |-> 0, seen |-> 0, changed |-> None, began |-> None,
             renudges |-> 0, firingNew |-> FALSE, fires |-> <<>>]

RuleInit ==
    /\ last \in 0..MaxNews
    /\ waiting \in SUBSET (1..last) /\ handed \in SUBSET ((1..last) \ waiting)
    /\ paused \in BOOLEAN
    /\ pc = "asleep" /\ timer = 0 /\ rung = FALSE
    /\ pending = 0
    /\ burst = NewBurst
    /\ went = <<>> /\ toldOf = 0

-----------------------------------------------------------------------------
(* The room, as far as the rule sees it.                                   *)

\* A message for the reader lands; every loop that waits on the room is told.
Land ==
    /\ last < MaxNews /\ ~paused
    /\ last' = last + 1
    /\ waiting' = waiting \cup {last + 1}
    /\ rung' = TRUE
    /\ UNCHANGED <<handed, paused, pc, timer, pending, burst, went, toldOf>>

\* `next` takes a message; while its lease lives, or a nack delays it, it is not waiting.
Take(s) ==
    /\ s \in waiting
    /\ waiting' = waiting \ {s}
    /\ handed' = handed \cup {s}
    /\ UNCHANGED <<last, paused, loop>>

\* A lease or a nack's delay runs out: no event says so.
Return(s) ==
    /\ s \in handed
    /\ handed' = handed \ {s}
    /\ waiting' = waiting \cup {s}
    /\ UNCHANGED <<last, paused, loop>>

\* It wakes nobody any more: acked or quarantined, or the reader sent on its trace more often
\* than TRACE_LIMIT (that count only grows).
Leave(s) ==
    /\ s \in waiting \cup handed
    /\ waiting' = waiting \ {s}
    /\ handed' = handed \ {s}
    /\ UNCHANGED <<last, paused, loop>>

\* The owner pauses the room, or resumes it; the control message is an event too.
Pause ==
    /\ paused' = ~paused
    /\ rung' = TRUE
    /\ UNCHANGED <<last, waiting, handed, pc, timer, pending, burst, went, toldOf>>

\* What wake_pending counts; nothing in a paused room.
Counted == IF paused THEN {} ELSE waiting

Newest(S) == IF S = {} THEN 0 ELSE CHOOSE s \in S : \A t \in S : t <= s

-----------------------------------------------------------------------------
(* The schedule.                                                           *)

RenudgeWait(b) == RenudgeSteps[LeastOf(b.renudges + 1, Len(RenudgeSteps))]

\* Nothing waits: the failures and the gathering are forgotten.
Drained(b) == [b EXCEPT !.failures = 0, !.retryIn = 0, !.changed = None, !.began = None]

IsNew(b, newest) == newest > MostOf(b.nudged, b.gaveUp)

\* A burst is gathered: a newer message starts the quiet time again, not the burst.
Gather(b, newest) ==
    [b EXCEPT !.seen = newest,
              !.changed = IF b.seen = newest THEN b.changed ELSE 0,
              !.began = MostOf(b.began, 0)]

\* Ticks until it is told of: a second of quiet, or as long as it may gather.
GatherLeft(b) == LeastOf(Quiet - MostOf(b.changed, 0), MaxGather - b.began)

\* The hourly cap waits for the oldest nudge of the hour to age out.
CapLeft(b) == IF Len(b.fires) >= HourlyCap THEN Hour - b.fires[1] ELSE 0

\* Mutant: the gap is forgotten.
HeldBackByCapOnly(b, left) == MostOf(left, CapLeft(b))

\* No nudge before the gap since the last one and the hourly cap allow it.
HeldBack(b, left) == MostOf(MostOf(left, MinGap - b.lastFire), CapLeft(b))

\* Mutant: what was told of once is never told of again.
DecideOnce(b, p) ==
    IF p.count = 0 THEN [burst |-> Drained(b), wait |-> TickWait]
    ELSE IF b.failures > 0 THEN [burst |-> b, wait |-> b.retryIn]
    ELSE IF IsNew(b, p.newest)
         THEN LET g == [Gather(b, p.newest) EXCEPT !.firingNew = TRUE]
              IN  [burst |-> g, wait |-> HeldBack(g, GatherLeft(g))]
    ELSE [burst |-> b, wait |-> TickWait]

\* decide: the burst afterwards, and the ticks to wait: 0 or less fires, TickWait looks again.
Decide(b, p) ==
    IF p.count = 0 THEN [burst |-> Drained(b), wait |-> TickWait]
    ELSE IF b.failures > 0 THEN [burst |-> b, wait |-> b.retryIn]
    ELSE IF IsNew(b, p.newest)
         THEN LET g == [Gather(b, p.newest) EXCEPT !.firingNew = TRUE]
              IN  [burst |-> g, wait |-> HeldBack(g, GatherLeft(g))]
    ELSE IF p.newest > b.gaveUp
         THEN [burst |-> [b EXCEPT !.firingNew = FALSE],
               wait |-> HeldBack(b, RenudgeWait(b) - b.lastOk)]
    ELSE [burst |-> b, wait |-> TickWait]

\* Every nudge that goes out, whatever comes of it.
Went(b) == [b EXCEPT !.lastFire = 0, !.fires = Append(b.fires, 0), !.changed = None,
                     !.began = None]

FiredOk(b, newest) ==
    [Went(b) EXCEPT !.renudges = IF b.firingNew THEN 0 ELSE LeastOf(b.renudges + 1,
                                                                    Len(RenudgeSteps)),
                    !.lastOk = 0, !.nudged = newest, !.failures = 0, !.retryIn = 0]

\* Mutant: it gives up on whatever has landed by then.
FiredFailedGivingUpOnAll(b, newest) ==
    IF b.failures + 1 > Len(Backoff)
    THEN [Went(b) EXCEPT !.gaveUp = last, !.failures = 0, !.retryIn = 0]
    ELSE [Went(b) EXCEPT !.failures = b.failures + 1, !.retryIn = Backoff[b.failures + 1]]

\* A failed nudge is tried again after the next backoff; after the last it is given up.
FiredFailed(b, newest) ==
    IF b.failures + 1 > Len(Backoff)
    THEN [Went(b) EXCEPT !.gaveUp = newest, !.failures = 0, !.retryIn = 0]
    ELSE [Went(b) EXCEPT !.failures = b.failures + 1, !.retryIn = Backoff[b.failures + 1]]

-----------------------------------------------------------------------------
(* The loop.                                                               *)

\* wait_for ends, at its deadline or at an event of the room; the loop reads what waits and
\* decides: fire, or sleep until the schedule or the tick.
WakeAndDecide ==
    /\ pc = "asleep"
    /\ timer = 0 \/ rung
    /\ rung' = FALSE
    /\ LET p == [count |-> Cardinality(Counted), newest |-> Newest(Counted)]
           d == Decide(burst, p)
           fire == d.wait <= 0
       IN  /\ pending' = IF fire THEN p.newest ELSE 0
           /\ burst' = d.burst
           /\ pc' = IF fire THEN "firing" ELSE "asleep"
           /\ timer' = IF fire THEN ExecTimeout ELSE d.wait
    /\ UNCHANGED <<room, went, toldOf>>

\* The command has exited or the address has answered; what was read before it counts.
Fired(ok) ==
    /\ pc = "firing"
    /\ burst' = IF ok THEN FiredOk(burst, pending) ELSE FiredFailed(burst, pending)
    /\ went' = Append(went, 0)
    /\ toldOf' = MostOf(toldOf, pending)
    /\ pc' = "asleep"
    /\ timer' = 0
    /\ pending' = 0
    /\ UNCHANGED <<room, rung>>

OlderIfAny(age, most) == IF age = None THEN None ELSE LeastOf(age + 1, most)
Sooner(left) == MostOf(left - 1, 0)

\* Nudges an hour old leave the window, from its front (the code drops them when it next decides).
OlderWithinHour(ages) ==
    LET young == {n \in 0..Len(ages) : n < Len(ages) => ages[n + 1] + 1 < Hour}
        gone  == CHOOSE n \in young : \A k \in young : n <= k
    IN  [i \in 1..(Len(ages) - gone) |-> ages[gone + i] + 1]

Tick ==
    /\ timer > 0
    /\ ~(pc = "asleep" /\ rung)
    /\ timer' = timer - 1
    /\ burst' = [burst EXCEPT !.lastFire = LeastOf(@ + 1, MinGap),
                              !.lastOk = LeastOf(@ + 1, LastStep),
                              !.retryIn = Sooner(@),
                              !.changed = OlderIfAny(@, Quiet), !.began = OlderIfAny(@, MaxGather),
                              !.fires = OlderWithinHour(@)]
    /\ went' = OlderWithinHour(went)
    /\ UNCHANGED <<room, pc, rung, pending, toldOf>>

LoopStep == WakeAndDecide \/ (\E ok \in BOOLEAN : Fired(ok)) \/ Tick

RoomStep == Land \/ Pause \/ \E s \in News : Take(s) \/ Return(s) \/ Leave(s)

RuleNext == LoopStep \/ RoomStep

RuleSpec == RuleInit /\ [][RuleNext]_ruleVars

\* The rule's task runs and time passes; a target answers or is stopped at its time limit.
RuleFairness == WF_ruleVars(LoopStep)

RuleFairSpec == RuleSpec /\ RuleFairness

-----------------------------------------------------------------------------
(* Properties.                                                             *)

\* Types; every age stays within its interval.
RuleTypeOK ==
    /\ last \in 0..MaxNews /\ waiting \cup handed \subseteq 1..last
    /\ waiting \cap handed = {}
    /\ paused \in BOOLEAN /\ rung \in BOOLEAN
    /\ pc \in {"asleep", "firing"} /\ timer \in Nat
    /\ burst.lastFire \in 0..MinGap /\ burst.lastOk \in 0..LastStep /\ burst.retryIn \in 0..Hour
    /\ burst.failures \in 0..Len(Backoff) /\ burst.renudges \in 0..Len(RenudgeSteps)
    /\ {burst.nudged, burst.gaveUp, burst.seen, pending, toldOf} \subseteq 0..last

\* However messages land, are read, come back and nudges fail: any two nudges of the rule lie
\* MIN_GAP apart ("At most one nudge per rule this often").
GapKept == \A i \in 1..(Len(went) - 1) : went[i] - went[i + 1] >= MinGap

\* In any hour no more nudges go out than the cap and the retries of one failing nudge.
HourBounded == Len(went) <= HourlyCap + Len(Backoff)

\* Any two nudges of a rule lie MIN_GAP apart, and no more of them go out in an hour than the cap
\* and the retries of one failing nudge.
NudgesAreSpaced == GapKept /\ HourBounded

\* "No rule nudges more often than this in any hour, whatever arrives": retries are not held back.
HourCapped == Len(went) <= HourlyCap

\* Some message that waits in a room that is not paused is newer than all a nudge was sent for.
Untold == Counted # {} /\ Newest(Counted) > toldOf

\* Giving up, a nudge for older messages and messages that come and go: whatever stays unread is
\* told of by some nudge.
EveryMessageIsTold == []<>~Untold

\* While something newer than the burst given up on stays unread, nudges never stop.
KeepsReminding ==
    (<>[](Counted # {} /\ Newest(Counted) > burst.gaveUp)) => []<>(pc = "firing")
=============================================================================
