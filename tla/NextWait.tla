------------------------------ MODULE NextWait ------------------------------
(***************************************************************************)
(* A blocked `next`: the loop of wait_until over the delivery table        *)
(* (crates/cli/src/helper/local.rs).  The call subscribes to the room's    *)
(* notifications, looks, computes when a lease runs out or a delay passes  *)
(* (delivery_next_due), and sleeps until a notification, that time or its  *)
(* deadline.  Looking and computing the time are two calls of the store,   *)
(* with two readings of the clock: other workers act and time passes in    *)
(* between.                                                                *)
(***************************************************************************)
EXTENDS Deliveries

VARIABLES
    call,     \* where r's blocked `next` is
    bounded,  \* whether that call has a deadline
    told      \* whether its subscription holds a notification not yet received

waitVars == <<vars, call, bounded, told>>

Stages == {"idle", "look", "arm", "timed", "parked"}

Asleep(r) == call[r] \in {"timed", "parked"}

WaitInit ==
    /\ Init
    /\ call = [r \in Readers |-> "idle"]
    /\ bounded = [r \in Readers |-> FALSE]
    /\ told = [r \in Readers |-> FALSE]

\* Mutant: only a call that already sleeps is told.
TellSleepers == told' = [r \in Readers |-> told[r] \/ Asleep(r)]

\* notify_room: every subscription of the room holds the notification until received.
Tell == told' = [r \in Readers |-> told[r] \/ call[r] # "idle"]

\* `next` is called; it subscribes before it first looks.
Call(r) ==
    /\ call[r] = "idle"
    /\ call' = [call EXCEPT ![r] = "look"]
    /\ \E d \in BOOLEAN : bounded' = [bounded EXCEPT ![r] = d]
    /\ told' = [told EXCEPT ![r] = FALSE]
    /\ UNCHANGED vars

\* check(): one lease attempt; the call returns when it got a message.
Look(r) ==
    /\ call[r] = "look"
    /\ Lease(r)
    /\ call' = [call EXCEPT ![r] = IF issued' # issued THEN "idle" ELSE "arm"]
    /\ UNCHANGED <<bounded, told>>

\* delivery_next_due: leases and delays that still run, by a later reading of the clock.
Running(r) == {s \in Seqs : rows[r][s].state \in {"leased", "delayed"} /\ ~rows[r][s].due}

\* due(): sleep with an alarm if anything still runs, without one otherwise.
Arm(r) ==
    /\ call[r] = "arm"
    /\ call' = [call EXCEPT ![r] = IF Running(r) # {} THEN "timed" ELSE "parked"]
    /\ UNCHANGED <<vars, bounded, told>>

Alarm(r) ==
    /\ call[r] = "timed"
    /\ call' = [call EXCEPT ![r] = "look"]
    /\ UNCHANGED <<vars, bounded, told>>

\* Mutant: the notification is received and the call goes on sleeping.
NotifiedInSleep(r) ==
    /\ Asleep(r)
    /\ told[r]
    /\ told' = [told EXCEPT ![r] = FALSE]
    /\ UNCHANGED <<vars, call, bounded>>

\* A notification of the room is received.
Notified(r) ==
    /\ Asleep(r)
    /\ told[r]
    /\ told' = [told EXCEPT ![r] = FALSE]
    /\ call' = [call EXCEPT ![r] = "look"]
    /\ UNCHANGED <<vars, bounded>>

\* The deadline passes: one last look, and the call ends with or without a message.
Deadline(r) ==
    /\ Asleep(r)
    /\ bounded[r]
    /\ Lease(r)
    /\ call' = [call EXCEPT ![r] = "idle"]
    /\ UNCHANGED <<bounded, told>>

\* Steps of others that end in notify_room.
Telling ==
    /\ \/ \E m \in Message : Arrive(m)
       \/ \E r \in Readers :
             \/ \E lo, hi \in Arrived : lo <= hi /\ ReadAck(r, lo, hi)
             \/ \E s \in Seqs : Settle(r, s) \/ Replay(r, s)
    /\ Tell
    /\ UNCHANGED <<call, bounded>>

\* Steps nobody is told of: another worker's `next`, a peek, and time (not the day after
\* which acked rows are pruned: what is pruned is free for nobody).
Silent ==
    /\ \E r \in Readers :
          Lease(r) \/ Peek(r) \/ \E s \in Seqs : TimePasses(r, s)
    /\ UNCHANGED <<call, bounded, told>>

Steps(r) == Call(r) \/ Look(r) \/ Arm(r) \/ Alarm(r) \/ Notified(r) \/ Deadline(r)

WaitNext == (\E r \in Readers : Steps(r)) \/ Telling \/ Silent

\* The helper runs a call's next step when it can, and time passes, deadlines included.
\* Nothing obliges anyone to call, to settle or to send.
WaitFairness ==
    \A r \in Readers :
        /\ WF_waitVars(Look(r)) /\ WF_waitVars(Arm(r))
        /\ WF_waitVars(Alarm(r)) /\ WF_waitVars(Notified(r)) /\ WF_waitVars(Deadline(r))
        /\ \A s \in Seqs : WF_waitVars(TimePasses(r, s) /\ UNCHANGED <<call, bounded, told>>)

WaitSpec == WaitInit /\ [][WaitNext]_waitVars /\ WaitFairness

-----------------------------------------------------------------------------
(* Properties.                                                             *)

WaitTypeOK ==
    /\ TypeOK
    /\ call \in [Readers -> Stages]
    /\ bounded \in [Readers -> BOOLEAN]
    /\ told \in [Readers -> BOOLEAN]

\* No lost notification: a call that sleeps untold has seen every message that arrived
\* or was replayed; only time can have made something available since.
SleepsOnlyOnSeen ==
    \A r \in Readers : Asleep(r) /\ ~told[r] =>
        \A s \in Choices(r) : rows[r][s].state \in {"leased", "delayed"}

\* A blocked `next` is not left sleeping while a new or replayed message is available.
NewMessageEndsWait ==
    \A r \in Readers :
        (Asleep(r) /\ \E s \in Choices(r) : rows[r][s].state \in {"none", "replay"})
            ~> (~Asleep(r))

\* "something may be free then without any new message arriving" (wait_until): a blocked
\* `next` does not sleep for ever while a message is free for it.
FreeMessageEndsWait ==
    \A r \in Readers : (Asleep(r) /\ Choices(r) # {}) ~> (~Asleep(r) \/ Choices(r) = {})
=============================================================================
