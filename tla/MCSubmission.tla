---------------------------- MODULE MCSubmission ----------------------------
(***************************************************************************)
(* A small instance of Submission for TLC: one sender queues two messages. *)
(***************************************************************************)
EXTENDS Submission

MCSenderOf == [m \in Messages |-> 1]

\* Bound: after a retry no request is under way that nobody waits for.  No fair action makes such
\* a request, or retries, so the bound never stops a fair action.
RetryOrLate == retries = 0 \/ orphans = {}

MCNext == Next /\ RetryOrLate'

MCSpec == Init /\ [][MCNext]_vars /\ Fairness
=============================================================================
