-------------------------------- MODULE Spend --------------------------------
(***************************************************************************)
(* Spending approves: check_approve on the members' helpers (crates/cli/   *)
(* src/helper/local.rs) and spend_approve at the room's home (crates/core/ *)
(* src/store.rs), for one room and the approves of one action.             *)
(*                                                                         *)
(* The home decides in one transaction; a member picks which approve to    *)
(* ask about from what it has heard of the chain so far.  Requests and     *)
(* answers are lost when a link breaks, and a request whose sender has     *)
(* given up may still be served.  Runs of check_approve stop when their    *)
(* helper does; the operation id in pending_spends stays on disk.          *)
(***************************************************************************)
EXTENDS Naturals, Sequences, FiniteSets

CONSTANTS
    Runs,        \* runs of check_approve; each runs once
    Members,     \* who spends, each on a helper of its own
    HomeMember,  \* the one whose helper is the room's home, or none of Members
    By,          \* the member a run acts as
    Named,       \* the operation id a run is given, or Unnamed
    Unnamed,
    NoOp,        \* no operation id on disk
    MaxApproves, \* bound: approves of this action
    MaxControls  \* bound: the owner's control messages

ASSUME SpendAssumption ==
    /\ By \in [Runs -> Members]
    /\ Unnamed \notin Runs /\ NoOp \notin Runs
    /\ \A r \in Runs : Named[r] # NoOp /\ Named[r] \notin Runs
    /\ MaxApproves \in Nat /\ MaxControls \in Nat

VARIABLES
    chain,    \* the room's chain, as far as it is about spending
    spends,   \* home: table spends, one row for an approve
    expired,  \* approves whose time has passed
    heard,    \* how much of the chain each member's helper has
    used,     \* table approvals_used of each helper, what it wrote from answers
    pending,  \* table pending_spends of each helper
    over,     \* history: operations that were taken off a disk
    run,      \* what each run is doing
    requests, \* spend requests under way
    answers   \* answers under way

home == <<chain, spends, expired>>
vars == <<chain, spends, expired, heard, used, pending, over, run, requests, answers>>

Approves == 1..MaxApproves

\* An operation made up for a run that was given none is named for the run.
Ops == (({Named[r] : r \in Runs}) \ {Unnamed}) \cup Runs

NotSpent == [op |-> NoOp]
SpendRow == [op : Ops, by : Members]

ApproveEvent(a) == [what |-> "approve", approve |-> a]
SpentEvent(a) == [what |-> "spent", approve |-> a]
ControlEvents == [what : {"pause", "resume", "demote", "promote"}]
                 \cup [what : {"mute", "unmute"}, who : Members]

\* History a run carries: the spends recorded for its operation when it began; for a run
\* without a name of its own, those of the operations its member made up and no run has ended.
Had(r) ==
    {a \in Approves :
        /\ spends[a] # NotSpent /\ spends[a].by = By[r]
        /\ IF Named[r] # Unnamed THEN spends[a].op = Named[r] ELSE spends[a].op \in Runs \ over}

Events == {ApproveEvent(a) : a \in Approves} \cup {SpentEvent(a) : a \in Approves} \cup ControlEvents

Init ==
    /\ chain = <<>>
    /\ spends = [a \in Approves |-> NotSpent]
    /\ expired = {}
    /\ heard = [m \in Members |-> 0]
    /\ used = [m \in Members |-> {}]
    /\ pending = [m \in Members |-> NoOp] /\ over = {}
    /\ run = [r \in Runs |-> [at |-> "idle"]]
    /\ requests = {} /\ answers = {}

-----------------------------------------------------------------------------
(* What the first n messages of the chain say.                             *)

Approved(n) == {a \in Approves : \E i \in 1..n : chain[i] = ApproveEvent(a)}
HeardSpent(n) == {a \in Approves : \E i \in 1..n : chain[i] = SpentEvent(a)}

\* Said(n, on, off): the last of the two said among the first n is on.
Said(n, on, off) ==
    \E i \in 1..n : chain[i] = on /\ \A j \in (i + 1)..n : chain[j] # off
Paused(n) == Said(n, [what |-> "pause"], [what |-> "resume"])
ApproverBarred(n) == Said(n, [what |-> "demote"], [what |-> "promote"])
SpenderBarred(n, m) ==
    Said(n, [what |-> "mute", who |-> m], [what |-> "unmute", who |-> m])

-----------------------------------------------------------------------------
(* The room goes on.                                                       *)

\* The approver signs one more approve for the action; the home takes it.
Approve ==
    LET a == Cardinality(Approved(Len(chain))) + 1 IN
    /\ a \in Approves
    /\ ~Paused(Len(chain)) /\ ~ApproverBarred(Len(chain))
    /\ chain' = Append(chain, ApproveEvent(a))
    /\ UNCHANGED <<spends, expired, heard, used, pending, over, run, requests, answers>>

Controls == Cardinality({i \in 1..Len(chain) : chain[i] \in ControlEvents})

\* A control message that would change nothing is left out.
Changes(e) ==
    LET n == Len(chain) IN
    CASE e.what = "pause"   -> ~Paused(n)
      [] e.what = "resume"  -> Paused(n)
      [] e.what = "demote"  -> ~ApproverBarred(n)
      [] e.what = "promote" -> ApproverBarred(n)
      [] e.what = "mute"    -> ~SpenderBarred(n, e.who)
      [] e.what = "unmute"  -> SpenderBarred(n, e.who)

\* The owner pauses the room, takes a role or a voice away, or gives it back.
Control(e) ==
    /\ Controls < MaxControls /\ Changes(e)
    /\ chain' = Append(chain, e)
    /\ UNCHANGED <<spends, expired, heard, used, pending, over, run, requests, answers>>

Expire(a) ==
    /\ a \in Approved(Len(chain)) \ expired
    /\ expired' = expired \cup {a}
    /\ UNCHANGED <<chain, spends, heard, used, pending, over, run, requests, answers>>

\* What a helper has of the chain; the home has all of it.
Has(m) == IF m = HomeMember THEN Len(chain) ELSE heard[m]

\* Pushes and syncs bring a member's helper further along the chain.
Hear(m) ==
    /\ m # HomeMember
    /\ \E n \in (heard[m] + 1)..Len(chain) : heard' = [heard EXCEPT ![m] = n]
    /\ UNCHANGED <<chain, spends, expired, used, pending, over, run, requests, answers>>

-----------------------------------------------------------------------------
(* The member's side: check_approve.                                       *)

\* The operation a run asks for: its own name, else the one on disk, else a fresh one.
OpOf(r) ==
    IF Named[r] # Unnamed THEN Named[r]
    ELSE IF pending[By[r]] # NoOp THEN pending[By[r]] ELSE r

\* Before anything is asked, a made-up operation id is on disk.
Begin(r) ==
    /\ run[r].at = "idle"
    /\ run' = [run EXCEPT ![r] = [at |-> "begun", op |-> OpOf(r),
                                  retry |-> Named[r] # Unnamed \/ pending[By[r]] # NoOp,
                                  had |-> Had(r)]]
    /\ pending' = IF Named[r] = Unnamed THEN [pending EXCEPT ![By[r]] = OpOf(r)] ELSE pending
    /\ UNCHANGED <<home, heard, used, over, requests, answers>>

\* The home cannot be reached: nothing was asked, the operation id stays on disk.
NoLink(r) ==
    /\ run[r].at = "begun" /\ By[r] # HomeMember
    /\ run' = [run EXCEPT ![r] = [at |-> "unreached"]]
    /\ UNCHANGED <<home, heard, used, pending, over, requests, answers>>

\* Spent, as far as this helper knows.
KnownSpent(m) ==
    used[m] \cup IF m = HomeMember THEN {a \in Approves : spends[a] # NotSpent}
                 ELSE HeardSpent(heard[m])

\* Mutant: a retry does not ask about spent approves.
CandidatesUnspent(m, retry) == Approved(Has(m)) \ KnownSpent(m)

\* approvals_for_action: for a retry the spent ones too.
Candidates(m, retry) == IF retry THEN Approved(Has(m)) ELSE Approved(Has(m)) \ KnownSpent(m)

\* One query reads the approves a run will ask about, the spent ones last; expired ones are
\* left out by the clock as it is now.
Gather(r) ==
    /\ run[r].at = "begun"
    /\ run' = [run EXCEPT ![r] = [at |-> "asking", op |-> @.op,
                                  left |-> Candidates(By[r], @.retry) \ expired,
                                  last |-> KnownSpent(By[r]), had |-> @.had]]
    /\ UNCHANGED <<home, heard, used, pending, over, requests, answers>>

\* Candidates whose approver may approve, as far as this helper has heard.
Askable(r) == IF ApproverBarred(Has(By[r])) THEN {} ELSE run[r].left

\* Unspent ones first, then the oldest.
Earlier(r, a, b) ==
    IF (a \in run[r].last) = (b \in run[r].last) THEN a <= b ELSE b \in run[r].last

\* It asks the home about the next one.
Ask(r, a) ==
    /\ run[r].at = "asking"
    /\ a \in Askable(r)
    /\ \A b \in Askable(r) : Earlier(r, a, b)
    /\ run' = [run EXCEPT ![r] = [at |-> "waiting", op |-> @.op, asked |-> a,
                                  left |-> {b \in @.left : ~Earlier(r, b, a)}, last |-> @.last,
                                  had |-> @.had]]
    /\ requests' = requests \cup {[run |-> r, approve |-> a, op |-> run[r].op]}
    /\ UNCHANGED <<home, heard, used, pending, over, answers>>

\* pending_spend_done: a run that made its operation up takes off the disk what is there, be it
\* a later operation than its own.
Forget(r) ==
    IF Named[r] = Unnamed
    THEN /\ pending' = [pending EXCEPT ![By[r]] = NoOp]
         /\ over' = over \cup ({pending[By[r]]} \ {NoOp})
    ELSE UNCHANGED <<pending, over>>

\* approval_use; at the home the row is there already.
NowUsed(r) ==
    IF By[r] = HomeMember THEN used ELSE [used EXCEPT ![By[r]] = @ \cup {run[r].asked}]

\* No approve is left to ask about: a plain no, and the operation is over.
Refused(r) ==
    /\ run[r].at = "asking" /\ Askable(r) = {}
    /\ run' = [run EXCEPT ![r] = [at |-> "refused", op |-> @.op]]
    /\ Forget(r)
    /\ UNCHANGED <<home, heard, used, requests, answers>>

\* The home recorded the spend for this operation, now or before: exit 0.
Granted(r) ==
    /\ run[r].at = "waiting"
    /\ [run |-> r, approve |-> run[r].asked, says |-> "spent"] \in answers
    /\ used' = NowUsed(r)
    /\ Forget(r)
    /\ run' = [run EXCEPT ![r] = [at |-> "granted", op |-> @.op, approve |-> @.asked]]
    /\ answers' = answers \ {[run |-> r, approve |-> run[r].asked, says |-> "spent"]}
    /\ UNCHANGED <<home, heard, requests>>

\* Another operation spent it: on to the next.
Taken(r) ==
    /\ run[r].at = "waiting"
    /\ [run |-> r, approve |-> run[r].asked, says |-> "already spent"] \in answers
    /\ used' = NowUsed(r)
    /\ run' = [run EXCEPT ![r] = [at |-> "asking", op |-> @.op, left |-> @.left, last |-> @.last,
                                  had |-> @.had]]
    /\ answers' = answers \ {[run |-> r, approve |-> run[r].asked, says |-> "already spent"]}
    /\ UNCHANGED <<home, heard, pending, over, requests>>

\* The home denies it, or the room is paused: the run ends, its operation id stays on disk.
Denied(r) ==
    /\ run[r].at = "waiting"
    /\ [run |-> r, approve |-> run[r].asked, says |-> "denied"] \in answers
    /\ run' = [run EXCEPT ![r] = [at |-> "denied"]]
    /\ answers' = answers \ {[run |-> r, approve |-> run[r].asked, says |-> "denied"]}
    /\ UNCHANGED <<home, heard, used, pending, over, requests>>

\* The link breaks under a request or its answer; the home may serve the request all the same.
Lose(r) ==
    /\ run[r].at = "waiting" /\ By[r] # HomeMember
    /\ run' = [run EXCEPT ![r] = [at |-> "unreached"]]
    /\ answers' = {x \in answers : x.run # r}
    /\ requests' \in {requests, {q \in requests : q.run # r}}
    /\ UNCHANGED <<home, heard, used, pending, over>>

\* The helper of m stops: its runs are gone, what it wrote stays.
Crash(m) ==
    /\ \E r \in Runs : By[r] = m /\ run[r].at \in {"begun", "asking", "waiting"}
    /\ run' = [r \in Runs |-> IF By[r] = m /\ run[r].at \in {"begun", "asking", "waiting"}
                              THEN [at |-> "unreached"] ELSE run[r]]
    /\ answers' = {x \in answers : By[x.run] # m}
    /\ UNCHANGED <<home, heard, used, pending, over, requests>>

-----------------------------------------------------------------------------
(* The home's side: spend_approve.                                         *)

Answer(q, says) ==
    /\ requests' = requests \ {q}
    /\ answers' = IF run[q.run].at = "waiting"
                  THEN answers \cup {[run |-> q.run, approve |-> q.approve, says |-> says]}
                  ELSE answers
    /\ UNCHANGED <<heard, used, pending, over, run, expired>>

\* The recorded spend is this operation's, by the same member.
Yours(q) == spends[q.approve] = [op |-> q.op, by |-> By[q.run]]

\* Mutant: the spender's own standing is not looked at.
MaySpendWhoeverAsks(q) ==
    /\ ~Paused(Len(chain)) /\ ~ApproverBarred(Len(chain)) /\ q.approve \notin expired

\* The room, the spender, the approve and its approver allow it, as the home has them now.
MaySpend(q) ==
    /\ ~Paused(Len(chain))
    /\ ~SpenderBarred(Len(chain), By[q.run])
    /\ q.approve \notin expired
    /\ ~ApproverBarred(Len(chain))

\* Mutant: an earlier spend is not looked up.
RecordOver(q) ==
    /\ MaySpend(q)
    /\ spends' = [spends EXCEPT ![q.approve] = [op |-> q.op, by |-> By[q.run]]]
    /\ chain' = Append(chain, SpentEvent(q.approve))
    /\ Answer(q, "spent")

\* The spend and its audit event, in one transaction.
Record(q) ==
    /\ spends[q.approve] = NotSpent
    /\ MaySpend(q)
    /\ spends' = [spends EXCEPT ![q.approve] = [op |-> q.op, by |-> By[q.run]]]
    /\ chain' = Append(chain, SpentEvent(q.approve))
    /\ Answer(q, "spent")

AnswerAgain(q) == Yours(q) /\ Answer(q, "spent") /\ UNCHANGED <<chain, spends>>

SpentByAnother(q) ==
    /\ spends[q.approve] # NotSpent /\ ~Yours(q)
    /\ Answer(q, "already spent")
    /\ UNCHANGED <<chain, spends>>

Deny(q) ==
    /\ spends[q.approve] = NotSpent /\ ~MaySpend(q)
    /\ Answer(q, "denied")
    /\ UNCHANGED <<chain, spends>>

-----------------------------------------------------------------------------

Serve == \E q \in requests : Record(q) \/ AnswerAgain(q) \/ SpentByAnother(q) \/ Deny(q)

RunStep(r) ==
    \/ Begin(r) \/ NoLink(r) \/ Gather(r) \/ (\E a \in Approves : Ask(r, a))
    \/ Refused(r) \/ Granted(r) \/ Taken(r) \/ Denied(r) \/ Lose(r)

Next ==
    \/ Approve \/ (\E e \in ControlEvents : Control(e)) \/ (\E a \in Approves : Expire(a))
    \/ (\E m \in Members : Hear(m) \/ Crash(m))
    \/ (\E r \in Runs : RunStep(r))
    \/ Serve

Spec == Init /\ [][Next]_vars

-----------------------------------------------------------------------------
(* Properties.                                                             *)

RunTypes ==
    [at : {"idle", "unreached", "denied"}]
    \cup [at : {"begun"}, op : Ops, retry : BOOLEAN, had : SUBSET Approves]
    \cup [at : {"asking"}, op : Ops, left : SUBSET Approves, last : SUBSET Approves,
          had : SUBSET Approves]
    \cup [at : {"waiting"}, op : Ops, left : SUBSET Approves, last : SUBSET Approves,
          had : SUBSET Approves, asked : Approves]
    \cup [at : {"granted"}, op : Ops, approve : Approves]
    \cup [at : {"refused"}, op : Ops]

TypeOK ==
    /\ chain \in Seq(Events)
    /\ spends \in [Approves -> {NotSpent} \cup SpendRow]
    /\ expired \subseteq Approves
    /\ heard \in [Members -> 0..Len(chain)]
    /\ used \in [Members -> SUBSET Approves]
    /\ pending \in [Members -> {NoOp} \cup Ops] /\ over \subseteq Ops
    /\ run \in [Runs -> RunTypes]
    /\ requests \subseteq [run : Runs, approve : Approves, op : Ops]
    /\ answers \subseteq [run : Runs, approve : Approves, says : {"spent", "already spent", "denied"}]

\* "One approve, one operation": however runs race, retry and lose their answers, all that exit 0
\* on one approve are the same member's and the same operation's, the one the home recorded.
OneOperation ==
    \A r \in Runs : run[r].at = "granted" =>
        spends[run[r].approve] = [op |-> run[r].op, by |-> By[r]]

\* A spend never lands behind the pause, the mute or the demotion that rules it out, whatever the
\* member had heard when it asked and however long its request was under way.
SpentWhenAllowed ==
    \A i \in 1..Len(chain) : \A a \in Approves : chain[i] = SpentEvent(a) =>
        /\ ~Paused(i - 1) /\ ~ApproverBarred(i - 1)
        /\ ~SpenderBarred(i - 1, spends[a].by)

\* "A retry after a crash asks for the same operation and gets the answer that was lost instead
\* of a refusal" (check_approve): unless the approve has expired or its approver may not approve
\* any more.  An operation that was made up is found again until a run that ends takes it off the
\* disk.
LostAnswerIsFound ==
    [][\A r \in Runs : run[r].at = "asking" /\ run'[r].at = "refused" =>
        \A a \in run[r].had : a \in expired \/ ApproverBarred(Has(By[r]))]_vars

\* "A second run of the same operation gets the same answer back" (README.md): no operation
\* spends two approves.
OneSpendPerOperation ==
    \A a, b \in Approves : spends[a] # NotSpent /\ spends[a] = spends[b] => a = b

\* "The check has its answer; forget its operation id" (store.rs): a run that ends takes no
\* operation off the disk but its own.
OwnOperationForgotten ==
    [][\A r \in Runs : run'[r] # run[r] /\ run'[r].at \in {"granted", "refused"} =>
        pending'[By[r]] = pending[By[r]] \/ pending[By[r]] = run[r].op]_vars
=============================================================================
