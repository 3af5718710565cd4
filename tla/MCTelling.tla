------------------------------- MODULE MCTelling -------------------------------
(***************************************************************************)
(* The two ways a reader is told that a message is there, for TLC: a wake  *)
(* rule (Wake) and a blocked `next` (NextWait).  They run side by side and *)
(* share no variable; a behaviour moves one of them.                       *)
(*                                                                         *)
(* Wake's schedule is in small numbers that keep the order of the real     *)
(* ones: quiet < gap = gather, backoffs no shorter than the gap, a last    *)
(* re-nudge step of an hour, and more nudges possible in an hour than the  *)
(* cap allows.                                                             *)
(***************************************************************************)
EXTENDS Wake, NextWait

CONSTANTS a, b  \* the reader and another agent

RenudgeAfter == <<3, 4>>
Retries == <<2>>

VARIABLES side  \* the one that moves

TellingInit ==
    /\ side \in {"wake", "next"}
    /\ RuleInit /\ (side = "wake" \/ last = 0)
    /\ WaitInit

TellingNext ==
    /\ UNCHANGED side
    /\ \/ side = "wake" /\ RuleNext /\ UNCHANGED waitVars
       \/ side = "next" /\ WaitNext /\ UNCHANGED ruleVars

\* The fairness of both.  A `next` that is not called is obliged to nothing; the loop of a
\* rule would be.
TellingFairness == WF_ruleVars(side = "wake" /\ LoopStep) /\ WaitFairness

TellingSpec == TellingInit /\ [][TellingNext]_<<side, ruleVars, waitVars>> /\ TellingFairness
=============================================================================
