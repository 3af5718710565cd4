------------------------------ MODULE SpendProofs ------------------------------
(***************************************************************************)
(* One approve, one operation; no spend behind what rules it out; and a    *)
(* retry finds the answer that was lost: for any runs, members, approves   *)
(* and control messages, however requests and answers are lost or come     *)
(* late.                                                                   *)
(***************************************************************************)
EXTENDS Spend, TLAPS

Requests == [run : Runs, approve : Approves, op : Ops]
Answers == [run : Runs, approve : Approves, says : {"spent", "already spent", "denied"}]

\* The part of the types that the argument needs.
Typed ==
    /\ spends \in [Approves -> {NotSpent} \cup SpendRow]
    /\ used \in [Members -> SUBSET Approves]
    /\ pending \in [Members -> {NoOp} \cup Ops]
    /\ run \in [Runs -> RunTypes]
    /\ requests \subseteq Requests
    /\ answers \subseteq Answers

Asks(r) == run[r].at \in {"asking", "waiting"}

\* What was asked in the name of a run was asked after it chose its operation, and for that one.
AsksForIts ==
    \A q \in requests : /\ run[q.run].at \notin {"idle", "begun"}
                        /\ Asks(q.run) => run[q.run].op = q.op

\* A yes on its way to a run is for the operation of that run, as the home recorded it.
YesIsRecorded ==
    \A x \in answers : /\ run[x.run].at \notin {"idle", "begun"}
                       /\ x.says = "spent" /\ Asks(x.run) =>
                            spends[x.approve] = [op |-> run[x.run].op, by |-> By[x.run]]

IInv == Typed /\ AsksForIts /\ YesIsRecorded /\ OneOperation

-----------------------------------------------------------------------------

LEMMA InitIInv == Init => IInv
<1>1. SUFFICES ASSUME Init PROVE IInv
  OBVIOUS
<1>2. /\ spends = [a \in Approves |-> NotSpent] /\ used = [m \in Members |-> {}]
      /\ pending = [m \in Members |-> NoOp] /\ run = [r \in Runs |-> [at |-> "idle"]]
      /\ requests = {} /\ answers = {}
  BY <1>1 DEF Init
<1>3. Typed
  <2>1. [at |-> "idle"] \in RunTypes
    BY DEF RunTypes
  <2> QED
    BY <1>2, <2>1 DEF Typed
<1>4. OneOperation
  BY <1>2 DEF OneOperation
<1> QED
  BY <1>2, <1>3, <1>4 DEF IInv, AsksForIts, YesIsRecorded

-----------------------------------------------------------------------------
(* A run's own steps.                                                      *)

\* A run that goes on with the operation it has, and asks nothing new, breaks nothing.
LEMMA GoesOnKeeps ==
    ASSUME IInv, NEW r \in Runs, NEW t \in RunTypes,
           run' = [run EXCEPT ![r] = t],
           spends' = spends, requests' \subseteq requests, answers' \subseteq answers,
           used' \in [Members -> SUBSET Approves],
           pending' \in [Members -> {NoOp} \cup Ops],
           t.at \in {"idle", "begun"} => run[r].at \in {"idle", "begun"},
           t.at \in {"asking", "waiting"} =>
             run[r].at \in {"begun", "asking", "waiting"} /\ t.op = run[r].op,
           t.at = "granted" => spends[t.approve] = [op |-> t.op, by |-> By[r]]
    PROVE  IInv'
<1>1. run' \in [Runs -> RunTypes]
  BY DEF IInv, Typed
<1>2. Typed'
  BY <1>1 DEF IInv, Typed
<1>3. \A q \in Runs : q # r => run'[q] = run[q]
  BY DEF IInv, Typed
<1>4. run'[r] = t
  BY DEF IInv, Typed
<1>5. AsksForIts'
  <2>1. SUFFICES ASSUME NEW q \in requests
                 PROVE  /\ run'[q.run].at \notin {"idle", "begun"}
                        /\ run'[q.run].at \in {"asking", "waiting"} => run'[q.run].op = q.op
    BY DEF AsksForIts, Asks
  <2>2. q.run \in Runs
    BY DEF IInv, Typed, Requests
  <2>3. /\ run[q.run].at \notin {"idle", "begun"}
        /\ run[q.run].at \in {"asking", "waiting"} => run[q.run].op = q.op
    BY DEF IInv, AsksForIts, Asks
  <2>4. CASE q.run = r
    BY <1>4, <2>3, <2>4
  <2>5. CASE q.run # r
    BY <1>3, <2>2, <2>3, <2>5
  <2> QED
    BY <2>4, <2>5
<1>6. YesIsRecorded'
  <2>1. SUFFICES ASSUME NEW x \in answers
                 PROVE  /\ run'[x.run].at \notin {"idle", "begun"}
                        /\ x.says = "spent" /\ run'[x.run].at \in {"asking", "waiting"} =>
                             spends[x.approve] = [op |-> run'[x.run].op, by |-> By[x.run]]
    BY DEF YesIsRecorded, Asks
  <2>2. x.run \in Runs
    BY DEF IInv, Typed, Answers
  <2>3. /\ run[x.run].at \notin {"idle", "begun"}
        /\ x.says = "spent" /\ run[x.run].at \in {"asking", "waiting"} =>
             spends[x.approve] = [op |-> run[x.run].op, by |-> By[x.run]]
    BY DEF IInv, YesIsRecorded, Asks
  <2>4. CASE x.run = r
    BY <1>4, <2>3, <2>4
  <2>5. CASE x.run # r
    BY <1>3, <2>2, <2>3, <2>5
  <2> QED
    BY <2>4, <2>5
<1>7. OneOperation'
  BY <1>3, <1>4 DEF IInv, OneOperation
<1> QED
  BY <1>2, <1>5, <1>6, <1>7 DEF IInv

\* What a run finds out is about approves.
LEMMA KnownApproves ==
    ASSUME IInv, NEW r \in Runs
    PROVE  /\ KnownSpent(By[r]) \subseteq Approves
           /\ \A retry \in BOOLEAN : Candidates(By[r], retry) \subseteq Approves
           /\ Had(r) \subseteq Approves
           /\ OpOf(r) \in Ops
<1>1. By[r] \in Members
  BY SpendAssumption
<1>2. KnownSpent(By[r]) \subseteq Approves
  BY <1>1 DEF IInv, Typed, KnownSpent, HeardSpent
<1>3. Had(r) \subseteq Approves
  BY DEF Had
<1>4. OpOf(r) \in Ops
  BY <1>1, SpendAssumption DEF IInv, Typed, OpOf, Ops
<1> QED
  BY <1>2, <1>3, <1>4 DEF Candidates, Approved

LEMMA BeginKeeps ==
    ASSUME IInv, NEW r \in Runs, Begin(r)
    PROVE  IInv'
<1> DEFINE t == [at |-> "begun", op |-> OpOf(r),
                 retry |-> Named[r] # Unnamed \/ pending[By[r]] # NoOp, had |-> Had(r)]
<1>1. t \in RunTypes
  BY KnownApproves DEF RunTypes
<1>2. run' = [run EXCEPT ![r] = t]
  BY DEF Begin
<1>3. pending' \in [Members -> {NoOp} \cup Ops]
  BY KnownApproves DEF Begin, IInv, Typed
<1>4. /\ spends' = spends /\ requests' = requests /\ answers' = answers /\ used' = used
      /\ run[r].at = "idle"
  BY DEF Begin, home
<1>5. used' \in [Members -> SUBSET Approves]
  BY <1>4 DEF IInv, Typed
<1>6. t.at = "begun"
  OBVIOUS
<1> HIDE DEF t
<1> QED
  BY <1>1, <1>2, <1>3, <1>4, <1>5, <1>6, GoesOnKeeps

\* Runs end with no word: nothing was asked, or nobody answers, or the home says no.
LEMMA EndKeeps ==
    ASSUME IInv, NEW r \in Runs, NEW at \in {"unreached", "denied"},
           run' = [run EXCEPT ![r] = [at |-> at]],
           spends' = spends, requests' \subseteq requests, answers' \subseteq answers,
           used' = used, pending' = pending
    PROVE  IInv'
<1>1. [at |-> at] \in RunTypes /\ [at |-> at].at = at
  BY DEF RunTypes
<1>2. used' \in [Members -> SUBSET Approves] /\ pending' \in [Members -> {NoOp} \cup Ops]
  BY DEF IInv, Typed
<1> QED
  BY <1>1, <1>2, GoesOnKeeps

LEMMA GatherKeeps ==
    ASSUME IInv, NEW r \in Runs, Gather(r)
    PROVE  IInv'
<1> DEFINE t == [at |-> "asking", op |-> run[r].op,
                 left |-> Candidates(By[r], run[r].retry) \ expired,
                 last |-> KnownSpent(By[r]), had |-> run[r].had]
<1>1. run[r] \in [at : {"begun"}, op : Ops, retry : BOOLEAN, had : SUBSET Approves]
  BY DEF Gather, IInv, Typed, RunTypes
<1>2. t \in RunTypes
  BY <1>1, KnownApproves DEF RunTypes
<1>3. run' = [run EXCEPT ![r] = t]
  BY DEF Gather, IInv, Typed
<1>4. /\ spends' = spends /\ requests' = requests /\ answers' = answers
      /\ used' = used /\ pending' = pending
  BY DEF Gather, home
<1>5. used' \in [Members -> SUBSET Approves] /\ pending' \in [Members -> {NoOp} \cup Ops]
  BY <1>4 DEF IInv, Typed
<1>6. t.at = "asking" /\ t.op = run[r].op /\ run[r].at = "begun"
  BY <1>1
<1> HIDE DEF t
<1> QED
  BY <1>2, <1>3, <1>4, <1>5, <1>6, GoesOnKeeps

\* A question is added for the operation that the run goes on with.
LEMMA AskKeeps ==
    ASSUME IInv, NEW r \in Runs, NEW a \in Approves, Ask(r, a)
    PROVE  IInv'
<1> DEFINE t == [at |-> "waiting", op |-> run[r].op, asked |-> a,
                 left |-> {b \in run[r].left : ~Earlier(r, b, a)}, last |-> run[r].last,
                 had |-> run[r].had]
           q0 == [run |-> r, approve |-> a, op |-> run[r].op]
<1>1. run[r] \in [at : {"asking"}, op : Ops, left : SUBSET Approves, last : SUBSET Approves,
                  had : SUBSET Approves]
  BY DEF Ask, IInv, Typed, RunTypes
<1>2. t \in RunTypes
  BY <1>1 DEF RunTypes
<1>3. run' = [run EXCEPT ![r] = t]
  BY DEF Ask, IInv, Typed
<1>4. /\ spends' = spends /\ requests' = requests \cup {q0} /\ answers' = answers
      /\ used' = used /\ pending' = pending
  BY DEF Ask, home
<1>5. t.at = "waiting" /\ t.op = run[r].op /\ run[r].at = "asking"
  BY <1>1
<1>6. q0 \in Requests /\ q0.run = r /\ q0.op = run[r].op
  BY <1>1 DEF Requests
<1> HIDE DEF t, q0
<1>7. run' \in [Runs -> RunTypes] /\ run'[r] = t /\ \A q \in Runs : q # r => run'[q] = run[q]
  BY <1>2, <1>3 DEF IInv, Typed
<1>8. Typed'
  BY <1>4, <1>6, <1>7 DEF IInv, Typed
<1>9. AsksForIts'
  <2>1. SUFFICES ASSUME NEW q \in requests \cup {q0}
                 PROVE  /\ run'[q.run].at \notin {"idle", "begun"}
                        /\ run'[q.run].at \in {"asking", "waiting"} => run'[q.run].op = q.op
    BY <1>4 DEF AsksForIts, Asks
  <2>2. CASE q = q0
    BY <1>5, <1>6, <1>7, <2>2
  <2>3. CASE q \in requests
    <3>1. /\ q.run \in Runs /\ run[q.run].at \notin {"idle", "begun"}
          /\ run[q.run].at \in {"asking", "waiting"} => run[q.run].op = q.op
      BY <2>3 DEF IInv, Typed, Requests, AsksForIts, Asks
    <3> QED
      BY <1>5, <1>7, <3>1
  <2> QED
    BY <2>1, <2>2, <2>3
<1>10. YesIsRecorded'
  <2>1. SUFFICES ASSUME NEW x \in answers
                 PROVE  /\ run'[x.run].at \notin {"idle", "begun"}
                        /\ x.says = "spent" /\ run'[x.run].at \in {"asking", "waiting"} =>
                             spends[x.approve] = [op |-> run'[x.run].op, by |-> By[x.run]]
    BY <1>4 DEF YesIsRecorded, Asks
  <2>2. /\ x.run \in Runs /\ run[x.run].at \notin {"idle", "begun"}
        /\ x.says = "spent" /\ run[x.run].at \in {"asking", "waiting"} =>
             spends[x.approve] = [op |-> run[x.run].op, by |-> By[x.run]]
    BY DEF IInv, Typed, Answers, YesIsRecorded, Asks
  <2> QED
    BY <1>5, <1>7, <2>2
<1>11. OneOperation'
  BY <1>4, <1>5, <1>7 DEF IInv, OneOperation
<1> QED
  BY <1>8, <1>9, <1>10, <1>11 DEF IInv

\* What a member notes of its approves and of its operation keeps its type.
LEMMA NotesKeepTypes ==
    ASSUME IInv, NEW r \in Runs, run[r].at = "waiting"
    PROVE  /\ NowUsed(r) \in [Members -> SUBSET Approves]
           /\ Forget(r) => pending' \in [Members -> {NoOp} \cup Ops]
<1>1. run[r].asked \in Approves
  BY DEF IInv, Typed, RunTypes
<1>2. By[r] \in Members
  BY SpendAssumption
<1>3. NowUsed(r) \in [Members -> SUBSET Approves]
  BY <1>1, <1>2 DEF IInv, Typed, NowUsed
<1> QED
  BY <1>3 DEF IInv, Typed, Forget

\* A run that ends with a no for its operation.
LEMMA RefusedKeeps ==
    ASSUME IInv, NEW r \in Runs, Refused(r)
    PROVE  IInv'
<1> DEFINE t == [at |-> "refused", op |-> run[r].op]
<1>1. run[r].op \in Ops
  BY DEF Refused, IInv, Typed, RunTypes
<1>2. t \in RunTypes /\ t.at = "refused"
  BY <1>1 DEF RunTypes
<1>3. run' = [run EXCEPT ![r] = t]
  BY DEF Refused, IInv, Typed
<1>4. /\ spends' = spends /\ requests' = requests /\ answers' = answers /\ used' = used
      /\ Forget(r)
  BY DEF Refused, home
<1>5. used' \in [Members -> SUBSET Approves] /\ pending' \in [Members -> {NoOp} \cup Ops]
  BY <1>4 DEF IInv, Typed, Forget
<1> HIDE DEF t
<1> QED
  BY <1>2, <1>3, <1>4, <1>5, GoesOnKeeps

\* The yes it takes is the one the home recorded for it.
LEMMA GrantedKeeps ==
    ASSUME IInv, NEW r \in Runs, Granted(r)
    PROVE  IInv'
<1> DEFINE t == [at |-> "granted", op |-> run[r].op, approve |-> run[r].asked]
           x == [run |-> r, approve |-> run[r].asked, says |-> "spent"]
<1>1. run[r].op \in Ops /\ run[r].asked \in Approves /\ run[r].at = "waiting"
  BY DEF Granted, IInv, Typed, RunTypes
<1>2. t \in RunTypes /\ t.at = "granted" /\ t.op = run[r].op /\ t.approve = run[r].asked
  BY <1>1 DEF RunTypes
<1>3. run' = [run EXCEPT ![r] = t]
  BY DEF Granted, IInv, Typed
<1>4. x \in answers /\ x.run = r /\ x.approve = run[r].asked /\ x.says = "spent"
  BY DEF Granted
<1>5. spends[run[r].asked] = [op |-> run[r].op, by |-> By[r]]
  BY <1>1, <1>4 DEF IInv, YesIsRecorded, Asks
<1>6. /\ spends' = spends /\ requests' = requests /\ answers' \subseteq answers
      /\ used' = NowUsed(r) /\ Forget(r)
  BY DEF Granted, home
<1>7. used' \in [Members -> SUBSET Approves] /\ pending' \in [Members -> {NoOp} \cup Ops]
  BY <1>1, <1>6, NotesKeepTypes
<1> HIDE DEF t, x
<1> QED
  BY <1>2, <1>3, <1>5, <1>6, <1>7, GoesOnKeeps

LEMMA TakenKeeps ==
    ASSUME IInv, NEW r \in Runs, Taken(r)
    PROVE  IInv'
<1> DEFINE t == [at |-> "asking", op |-> run[r].op, left |-> run[r].left, last |-> run[r].last,
                 had |-> run[r].had]
<1>1. run[r] \in [at : {"waiting"}, op : Ops, left : SUBSET Approves, last : SUBSET Approves,
                  had : SUBSET Approves, asked : Approves]
  BY DEF Taken, IInv, Typed, RunTypes
<1>2. t \in RunTypes /\ t.at = "asking" /\ t.op = run[r].op /\ run[r].at = "waiting"
  BY <1>1 DEF RunTypes
<1>3. run' = [run EXCEPT ![r] = t]
  BY DEF Taken, IInv, Typed
<1>4. /\ spends' = spends /\ requests' = requests /\ answers' \subseteq answers
      /\ used' = NowUsed(r) /\ pending' = pending
  BY DEF Taken, home
<1>5. used' \in [Members -> SUBSET Approves] /\ pending' \in [Members -> {NoOp} \cup Ops]
  BY <1>2, <1>4, NotesKeepTypes DEF IInv, Typed
<1> HIDE DEF t
<1> QED
  BY <1>2, <1>3, <1>4, <1>5, GoesOnKeeps

LEMMA CrashKeeps ==
    ASSUME IInv, NEW m \in Members, Crash(m)
    PROVE  IInv'
<1>1. [at |-> "unreached"] \in RunTypes /\ [at |-> "unreached"].at = "unreached"
  BY DEF RunTypes
<1>2. \A r \in Runs : run'[r] = run[r] \/ run'[r] = [at |-> "unreached"]
  BY DEF Crash
<1>3. run' \in [Runs -> RunTypes]
  BY <1>1 DEF Crash, IInv, Typed
<1>4. /\ spends' = spends /\ requests' = requests /\ answers' \subseteq answers
      /\ used' = used /\ pending' = pending
  BY DEF Crash, home
<1>5. Typed'
  BY <1>3, <1>4 DEF IInv, Typed
<1>6. AsksForIts'
  BY <1>1, <1>2, <1>4 DEF IInv, Typed, Requests, AsksForIts, Asks
<1>7. YesIsRecorded'
  <2>1. SUFFICES ASSUME NEW x \in answers
                 PROVE  /\ run'[x.run].at \notin {"idle", "begun"}
                        /\ x.says = "spent" /\ run'[x.run].at \in {"asking", "waiting"} =>
                             spends[x.approve] = [op |-> run'[x.run].op, by |-> By[x.run]]
    BY <1>4 DEF YesIsRecorded, Asks
  <2>2. /\ x.run \in Runs /\ run[x.run].at \notin {"idle", "begun"}
        /\ x.says = "spent" /\ run[x.run].at \in {"asking", "waiting"} =>
             spends[x.approve] = [op |-> run[x.run].op, by |-> By[x.run]]
    BY DEF IInv, Typed, Answers, YesIsRecorded, Asks
  <2> QED
    BY <1>1, <1>2, <2>2
<1>8. OneOperation'
  BY <1>1, <1>2, <1>4 DEF IInv, OneOperation
<1> QED
  BY <1>5, <1>6, <1>7, <1>8 DEF IInv

-----------------------------------------------------------------------------
(* The home's steps.                                                       *)

\* An answer changes no run; a yes it brings is of the record that is there by then.
LEMMA AnswerKeeps ==
    ASSUME IInv, NEW q \in requests, NEW says \in {"spent", "already spent", "denied"},
           Answer(q, says),
           spends' \in [Approves -> {NotSpent} \cup SpendRow],
           \A a \in Approves : spends[a] # NotSpent => spends'[a] = spends[a],
           says = "spent" => spends'[q.approve] = [op |-> q.op, by |-> By[q.run]]
    PROVE  IInv'
<1> DEFINE x0 == [run |-> q.run, approve |-> q.approve, says |-> says]
<1>1. /\ run' = run /\ used' = used /\ pending' = pending /\ requests' \subseteq requests
      /\ answers' \subseteq answers \cup {x0}
      /\ x0 \in answers' => x0 \in answers \/ run[q.run].at = "waiting"
  BY DEF Answer
<1>2. q.run \in Runs /\ q.approve \in Approves /\ q.op \in Ops /\ q \in requests
  BY DEF IInv, Typed, Requests
<1>3. x0 \in Answers /\ x0.run = q.run /\ x0.approve = q.approve /\ x0.says = says
  BY <1>2 DEF Answers
<1> HIDE DEF x0
<1>4. Typed'
  BY <1>1, <1>3 DEF IInv, Typed
<1>5. AsksForIts'
  BY <1>1 DEF IInv, AsksForIts, Asks
<1>6. \A a \in Approves : \A o, m : spends[a] = [op |-> o, by |-> m] => spends'[a] = spends[a]
  <2>1. \A o, m : DOMAIN [op |-> o, by |-> m] = {"op", "by"}
    OBVIOUS
  <2>2. DOMAIN NotSpent = {"op"}
    BY DEF NotSpent
  <2>3. \A o, m : [op |-> o, by |-> m] # NotSpent
    <3>1. {"op", "by"} # {"op"}
      <4>1. "by" # "op"
        OBVIOUS
      <4>2. "by" \in {"op", "by"} /\ "by" \notin {"op"}
        BY <4>1
      <4> QED
        BY <4>2
    <3> QED
      BY <2>1, <2>2, <3>1
  <2> QED
    BY <2>3
<1>7. YesIsRecorded'
  <2>1. SUFFICES ASSUME NEW x \in answers'
                 PROVE  /\ run[x.run].at \notin {"idle", "begun"}
                        /\ x.says = "spent" /\ run[x.run].at \in {"asking", "waiting"} =>
                             spends'[x.approve] = [op |-> run[x.run].op, by |-> By[x.run]]
    BY <1>1 DEF YesIsRecorded, Asks
  <2>2. CASE x \in answers
    <3>1. /\ x.approve \in Approves /\ run[x.run].at \notin {"idle", "begun"}
          /\ x.says = "spent" /\ run[x.run].at \in {"asking", "waiting"} =>
               spends[x.approve] = [op |-> run[x.run].op, by |-> By[x.run]]
      BY <2>2 DEF IInv, Typed, Answers, YesIsRecorded, Asks
    <3> QED
      BY <1>6, <3>1
  <2>3. CASE x \notin answers
    <3>1. x = x0 /\ run[q.run].at = "waiting"
      BY <1>1, <2>1, <2>3
    <3>2. run[q.run].op = q.op
      BY <1>2, <3>1 DEF IInv, AsksForIts, Asks
    <3> QED
      BY <1>3, <3>1, <3>2
  <2> QED
    BY <2>2, <2>3
<1>8. OneOperation'
  <2>1. SUFFICES ASSUME NEW r \in Runs, run[r].at = "granted"
                 PROVE  spends'[run[r].approve] = [op |-> run[r].op, by |-> By[r]]
    BY <1>1 DEF OneOperation
  <2>2. run[r].approve \in Approves
    BY <2>1 DEF IInv, Typed, RunTypes
  <2>3. spends[run[r].approve] = [op |-> run[r].op, by |-> By[r]]
    BY <2>1 DEF IInv, OneOperation
  <2> QED
    BY <1>6, <2>2, <2>3
<1> QED
  BY <1>4, <1>5, <1>7, <1>8 DEF IInv

LEMMA ServeKeeps ==
    ASSUME IInv, Serve
    PROVE  IInv'
<1>1. PICK q \in requests : Record(q) \/ AnswerAgain(q) \/ SpentByAnother(q) \/ Deny(q)
  BY DEF Serve
<1>2. q.run \in Runs /\ q.approve \in Approves /\ q.op \in Ops /\ By[q.run] \in Members
  BY SpendAssumption DEF IInv, Typed, Requests
<1>3. spends \in [Approves -> {NotSpent} \cup SpendRow]
  BY DEF IInv, Typed
<1>4. CASE Record(q)
  <2> DEFINE spend == [op |-> q.op, by |-> By[q.run]]
  <2>1. spend \in SpendRow
    BY <1>2 DEF SpendRow
  <2>2. spends' = [spends EXCEPT ![q.approve] = spend] /\ spends[q.approve] = NotSpent
    BY <1>4 DEF Record
  <2>3. /\ spends' \in [Approves -> {NotSpent} \cup SpendRow]
        /\ \A a \in Approves : spends[a] # NotSpent => spends'[a] = spends[a]
        /\ spends'[q.approve] = spend
    BY <1>2, <1>3, <2>1, <2>2
  <2>4. Answer(q, "spent")
    BY <1>4 DEF Record
  <2> QED
    BY <2>3, <2>4, AnswerKeeps
<1>5. CASE AnswerAgain(q)
  BY <1>3, <1>5, AnswerKeeps DEF AnswerAgain, Yours
<1>6. CASE SpentByAnother(q)
  BY <1>3, <1>6, AnswerKeeps DEF SpentByAnother
<1>7. CASE Deny(q)
  BY <1>3, <1>7, AnswerKeeps DEF Deny
<1> QED
  BY <1>1, <1>4, <1>5, <1>6, <1>7

-----------------------------------------------------------------------------

\* The room going on and what helpers hear of it are nothing to this argument.
LEMMA RestingKeeps ==
    ASSUME IInv, UNCHANGED <<spends, used, pending, run, requests, answers>>
    PROVE  IInv'
<1>1. Typed'
  BY DEF IInv, Typed
<1> QED
  BY <1>1 DEF IInv, AsksForIts, YesIsRecorded, Asks, OneOperation

LEMMA NextIInv == IInv /\ [Next]_vars => IInv'
<1>1. SUFFICES ASSUME IInv, [Next]_vars PROVE IInv'
  OBVIOUS
<1>2. CASE Approve
  BY <1>1, <1>2, RestingKeeps DEF Approve
<1>3. ASSUME NEW e \in ControlEvents, Control(e) PROVE IInv'
  BY <1>1, <1>3, RestingKeeps DEF Control
<1>4. ASSUME NEW a \in Approves, Expire(a) PROVE IInv'
  BY <1>1, <1>4, RestingKeeps DEF Expire
<1>5. ASSUME NEW m \in Members, Hear(m) PROVE IInv'
  BY <1>1, <1>5, RestingKeeps DEF Hear
<1>6. ASSUME NEW m \in Members, Crash(m) PROVE IInv'
  BY <1>1, <1>6, CrashKeeps
<1>7. ASSUME NEW r \in Runs, RunStep(r) PROVE IInv'
  <2>1. CASE Begin(r)
    BY <1>1, <2>1, BeginKeeps
  <2>2. CASE NoLink(r)
    BY <1>1, <2>2, EndKeeps DEF NoLink, home
  <2>3. CASE Gather(r)
    BY <1>1, <2>3, GatherKeeps
  <2>4. ASSUME NEW a \in Approves, Ask(r, a) PROVE IInv'
    BY <1>1, <2>4, AskKeeps
  <2>5. CASE Refused(r)
    BY <1>1, <2>5, RefusedKeeps
  <2>6. CASE Granted(r)
    BY <1>1, <2>6, GrantedKeeps
  <2>7. CASE Taken(r)
    BY <1>1, <2>7, TakenKeeps
  <2>8. CASE Denied(r)
    BY <1>1, <2>8, EndKeeps DEF Denied, home
  <2>9. CASE Lose(r)
    BY <1>1, <2>9, EndKeeps DEF Lose, home
  <2> QED
    BY <1>7, <2>1, <2>2, <2>3, <2>4, <2>5, <2>6, <2>7, <2>8, <2>9 DEF RunStep
<1>8. CASE Serve
  BY <1>1, <1>8, ServeKeeps
<1>9. CASE UNCHANGED vars
  BY <1>1, <1>9, RestingKeeps DEF vars
<1> QED
  BY <1>1, <1>2, <1>3, <1>4, <1>5, <1>6, <1>7, <1>8, <1>9 DEF Next

-----------------------------------------------------------------------------

\* In every reachable state what is asked, answered and recorded belongs together
\* (check_approve, spend_approve).
THEOREM Inductive == Spec => []IInv
BY InitIInv, NextIInv, PTL DEF Spec

\* All runs that were granted one approve are one member's and one operation's, the one in the
\* home's spends (spend_approve in store.rs).
THEOREM OneApproveOneOperation == Spec => []OneOperation
BY Inductive, PTL DEF IInv

-----------------------------------------------------------------------------
(* Second argument: what the chain says when a spend lands on it.  Messages *)
(* behind it are never looked at again, and who spent an approve is written *)
(* once, so what held when the spend was recorded goes on to hold.          *)

\* A spend on the chain is one the home has a record of.
SpentIsRecorded ==
    \A i \in 1..Len(chain) : \A a \in Approves : chain[i] = SpentEvent(a) => spends[a] \in SpendRow

ChainInv == chain \in Seq(Events) /\ SpentIsRecorded /\ SpentWhenAllowed

\* What the room and its owner may do to a spender, as the first n messages have it.
AllowedAt(n, m) == ~Paused(n) /\ ~ApproverBarred(n) /\ ~SpenderBarred(n, m)

\* A message appended changes nothing that was said before it.
LEMMA SaidStays ==
    ASSUME chain \in Seq(Events), NEW e \in Events, chain' = Append(chain, e),
           NEW n \in 0..Len(chain), NEW m
    PROVE  AllowedAt(n, m)' <=> AllowedAt(n, m)
<1>1. \A i \in 1..n : chain'[i] = chain[i]
  OBVIOUS
<1>2. \A on, off : (\E i \in 1..n : chain'[i] = on /\ \A j \in (i + 1)..n : chain'[j] # off)
                   <=> (\E i \in 1..n : chain[i] = on /\ \A j \in (i + 1)..n : chain[j] # off)
  <2>1. \A i \in 1..n : \A j \in (i + 1)..n : j \in 1..n
    OBVIOUS
  <2>2. ASSUME NEW off, NEW i \in 1..n
        PROVE  (\A j \in (i + 1)..n : chain'[j] # off) <=> (\A j \in (i + 1)..n : chain[j] # off)
    BY <1>1, <2>1
  <2> QED
    BY <1>1, <2>2
<1>3. \A on, off : Said(n, on, off)' <=> Said(n, on, off)
  BY <1>2 DEF Said
<1> QED
  BY <1>3 DEF AllowedAt, Paused, ApproverBarred, SpenderBarred

\* A message that is no spend, or a spend recorded while the room allows it, may be appended.
LEMMA AppendKeepsChain ==
    ASSUME ChainInv, NEW e \in Events, chain' = Append(chain, e),
           \A a \in Approves : spends[a] \in SpendRow => spends'[a] = spends[a],
           \A a \in Approves : e = SpentEvent(a) =>
               spends'[a] \in SpendRow /\ AllowedAt(Len(chain), spends'[a].by)
    PROVE  ChainInv'
<1>1. /\ chain \in Seq(Events) /\ chain' \in Seq(Events) /\ Len(chain') = Len(chain) + 1
      /\ Len(chain) \in Nat
      /\ \A i \in 1..Len(chain) : chain'[i] = chain[i]
      /\ chain'[Len(chain) + 1] = e
  BY DEF ChainInv
<1>2. ASSUME NEW i \in 1..Len(chain'), NEW a \in Approves, chain'[i] = SpentEvent(a)
      PROVE  spends'[a] \in SpendRow /\ AllowedAt(i - 1, spends'[a].by)
  <2>1. CASE i = Len(chain) + 1
    <3>1. e = SpentEvent(a) /\ i - 1 = Len(chain)
      BY <1>1, <1>2, <2>1
    <3> QED
      BY <3>1
  <2>2. CASE i # Len(chain) + 1
    <3>1. i \in 1..Len(chain) /\ chain[i] = SpentEvent(a)
      BY <1>1, <1>2, <2>2
    <3>2. spends[a] \in SpendRow /\ spends'[a] = spends[a]
      BY <3>1 DEF ChainInv, SpentIsRecorded
    <3>3. AllowedAt(i - 1, spends[a].by)
      BY <3>1 DEF ChainInv, SpentWhenAllowed, AllowedAt
    <3> QED
      BY <3>2, <3>3
  <2> QED
    BY <2>1, <2>2
<1>3. \A n \in 0..Len(chain) : \A m : AllowedAt(n, m)' <=> AllowedAt(n, m)
  BY <1>1, SaidStays
<1>4. SpentIsRecorded'
  BY <1>2 DEF SpentIsRecorded
<1>5. SpentWhenAllowed'
  <2>1. SUFFICES ASSUME NEW i \in 1..Len(chain'), NEW a \in Approves, chain'[i] = SpentEvent(a)
                 PROVE  ~Paused(i - 1)' /\ ~ApproverBarred(i - 1)'
                        /\ \A m : m = spends'[a].by => ~SpenderBarred(i - 1, m)'
    BY DEF SpentWhenAllowed, SpenderBarred
  <2>2. i - 1 \in 0..Len(chain)
    BY <1>1
  <2>3. \A m : m = spends'[a].by => AllowedAt(i - 1, m)'
    BY <1>2, <1>3, <2>1, <2>2
  <2> QED
    BY <2>3 DEF AllowedAt
<1> QED
  BY <1>1, <1>4, <1>5 DEF ChainInv

\* Of all steps only the home's own writes the chain: approves, control messages and spends.
LEMMA NextChainInv == IInv /\ ChainInv /\ [Next]_vars => ChainInv'
<1>1. SUFFICES ASSUME IInv, ChainInv, [Next]_vars PROVE ChainInv'
  OBVIOUS
<1>2. ASSUME UNCHANGED <<chain, spends>> PROVE ChainInv'
  BY <1>1, <1>2 DEF ChainInv, SpentIsRecorded, SpentWhenAllowed, Paused, ApproverBarred,
     SpenderBarred, Said
\* The kinds of messages differ.
<1>3. \A a, b \in Approves : SpentEvent(a) # ApproveEvent(b)
  BY DEF SpentEvent, ApproveEvent
<1>4. \A a \in Approves : SpentEvent(a) \notin ControlEvents
  BY DEF SpentEvent, ControlEvents
<1>5. CASE Approve
  <2>1. PICK a \in Approves : chain' = Append(chain, ApproveEvent(a)) /\ spends' = spends
    BY <1>5 DEF Approve
  <2>2. ApproveEvent(a) \in Events
    BY DEF Events
  <2> QED
    BY <1>1, <1>3, <2>1, <2>2, AppendKeepsChain
<1>6. ASSUME NEW e \in ControlEvents, Control(e) PROVE ChainInv'
  <2>1. chain' = Append(chain, e) /\ spends' = spends /\ e \in Events
    BY <1>6 DEF Control, Events
  <2> QED
    BY <1>1, <1>4, <1>6, <2>1, AppendKeepsChain
<1>7. ASSUME NEW q \in requests, Record(q) PROVE ChainInv'
  <2> DEFINE spend == [op |-> q.op, by |-> By[q.run]]
             e == SpentEvent(q.approve)
  <2>1. q.run \in Runs /\ q.approve \in Approves /\ q.op \in Ops /\ By[q.run] \in Members
    BY <1>1, SpendAssumption DEF IInv, Typed, Requests
  <2>2. spend \in SpendRow /\ spend.by = By[q.run]
    BY <2>1 DEF SpendRow
  <2>3. spends[q.approve] \notin SpendRow
    <3>1. spends[q.approve] = NotSpent
      BY <1>7 DEF Record
    <3>2. \A row \in SpendRow : DOMAIN row = {"op", "by"}
      BY DEF SpendRow
    <3>3. DOMAIN NotSpent = {"op"} /\ "by" \notin {"op"} /\ "by" \in {"op", "by"}
      BY DEF NotSpent
    <3> QED
      BY <3>1, <3>2, <3>3
  <2>4. spends \in [Approves -> {NotSpent} \cup SpendRow]
    BY <1>1 DEF IInv, Typed
  <2>5. spends' = [spends EXCEPT ![q.approve] = spend] /\ chain' = Append(chain, e)
    BY <1>7 DEF Record
  <2>6. e \in Events
    BY <2>1 DEF Events
  <2>7. \A a \in Approves : e = SpentEvent(a) => a = q.approve
    BY <2>1 DEF SpentEvent
  <2>8. AllowedAt(Len(chain), By[q.run])
    BY <1>7 DEF Record, MaySpend, AllowedAt
  <2> HIDE DEF spend, e
  <2>9. spends'[q.approve] = spend
    BY <2>1, <2>4, <2>5
  <2>10. \A a \in Approves : spends[a] \in SpendRow => spends'[a] = spends[a]
    BY <2>1, <2>3, <2>4, <2>5
  <2>11. \A a \in Approves : e = SpentEvent(a) =>
            spends'[a] \in SpendRow /\ AllowedAt(Len(chain), spends'[a].by)
    BY <2>2, <2>7, <2>8, <2>9
  <2> QED
    BY <1>1, <2>5, <2>6, <2>10, <2>11, AppendKeepsChain
<1>8. CASE Serve
  <2>1. PICK q \in requests : Record(q) \/ AnswerAgain(q) \/ SpentByAnother(q) \/ Deny(q)
    BY <1>8 DEF Serve
  <2> QED
    BY <1>2, <1>7, <2>1 DEF AnswerAgain, SpentByAnother, Deny
<1>9. ASSUME NEW r \in Runs, RunStep(r) PROVE ChainInv'
  BY <1>2, <1>9 DEF RunStep, Begin, NoLink, Gather, Ask, Refused, Granted, Taken, Denied, Lose, home
<1>10. ASSUME NEW m \in Members, Hear(m) \/ Crash(m) PROVE ChainInv'
  BY <1>2, <1>10 DEF Hear, Crash, home
<1>11. ASSUME NEW a \in Approves, Expire(a) PROVE ChainInv'
  BY <1>2, <1>11 DEF Expire
<1>12. CASE UNCHANGED vars
  BY <1>2, <1>12 DEF vars
<1> QED
  BY <1>1, <1>5, <1>6, <1>8, <1>9, <1>10, <1>11, <1>12 DEF Next

LEMMA InitChainInv == Init => ChainInv
BY DEF Init, ChainInv, SpentIsRecorded, SpentWhenAllowed

\* In every reachable state the spends on the chain are recorded and were allowed.
THEOREM ChainInductive == Spec => []ChainInv
BY Inductive, InitChainInv, NextChainInv, PTL DEF Spec

\* No spend lands behind the pause, mute or demotion that rules it out, however stale what the
\* member had heard, and however late its request came in (spend_approve in store.rs).
THEOREM SpendsAreAllowed == Spec => []SpentWhenAllowed
BY ChainInductive, PTL DEF ChainInv
-----------------------------------------------------------------------------
(* Third argument: a retry finds the answer that was lost.  An operation    *)
(* that was made up is on its member's disk for as long as no run took it   *)
(* off, so the next run asks for the same one; the approve it spent is      *)
(* among those the member has heard of, so it is a candidate; and the home  *)
(* never tells its own operation that another one spent the approve.        *)

\* What member m has heard of.
Known(m) == Approved(Has(m))

Live(r) == run[r].at \in {"begun", "asking", "waiting"}

\* An operation that was made up is on the disk of m or was taken off one.
OfDisk(o, m) == o \in Runs => pending[m] = o \/ o \in over

MadeUpIsOnDisk ==
    /\ \A a \in Approves : spends[a] \in SpendRow => OfDisk(spends[a].op, spends[a].by)
    /\ \A q \in requests : OfDisk(q.op, By[q.run])
    /\ \A r \in Runs : Live(r) => OfDisk(run[r].op, By[r])

AskedIsKnown ==
    /\ \A a \in Approves : spends[a] \in SpendRow => a \in Known(spends[a].by)
    /\ \A q \in requests : q.approve \in Known(By[q.run])
    /\ \A r \in Runs : Asks(r) => run[r].left \subseteq Known(By[r])

Mine(r, a) == spends[a] = [op |-> run[r].op, by |-> By[r]]

\* An approve a run had is its own operation's, and still ahead of it.
HadIsAhead ==
    \A r \in Runs : Live(r) => \A a \in run[r].had :
        /\ Mine(r, a)
        /\ run[r].at = "begun" => run[r].retry
        /\ run[r].at = "asking" => a \in run[r].left \/ a \in expired
        /\ run[r].at = "waiting" => a \in run[r].left \/ a = run[r].asked \/ a \in expired

NoIsOfAnother ==
    \A x \in answers : x.says = "already spent" /\ Asks(x.run) =>
        spends[x.approve] \in SpendRow /\ ~Mine(x.run, x.approve)

FoundInv ==
    /\ heard \in [Members -> 0..Len(chain)]
    /\ MadeUpIsOnDisk /\ AskedIsKnown /\ HadIsAhead /\ NoIsOfAnother


\* Facts of the types, for one run or record at a time.
LEMMA FoundTypes ==
    ASSUME IInv
    PROVE  /\ \A r \in Runs : By[r] \in Members
           /\ \A q \in requests : q.run \in Runs /\ q.approve \in Approves /\ q.op \in Ops
           /\ \A x \in answers : x.run \in Runs /\ x.approve \in Approves
           /\ \A r \in Runs : Live(r) => run[r].op \in Ops /\ run[r].had \subseteq Approves
           /\ \A r \in Runs : Asks(r) => Live(r) /\ run[r].left \subseteq Approves
           /\ \A a \in Approves : spends[a] \in SpendRow => spends[a].by \in Members
           /\ \A o \in Ops, m \in Members : [op |-> o, by |-> m] \in SpendRow
<1>1. \A r \in Runs : By[r] \in Members
  BY SpendAssumption
<1>2. /\ \A q \in requests : q.run \in Runs /\ q.approve \in Approves /\ q.op \in Ops
      /\ \A x \in answers : x.run \in Runs /\ x.approve \in Approves
  BY DEF IInv, Typed, Requests, Answers
<1>3. \A r \in Runs : Live(r) => run[r].op \in Ops /\ run[r].had \subseteq Approves
  BY DEF IInv, Typed, Live, RunTypes
<1>4. \A r \in Runs : Asks(r) => Live(r) /\ run[r].left \subseteq Approves
  BY DEF IInv, Typed, Live, Asks, RunTypes
<1>5. /\ \A a \in Approves : spends[a] \in SpendRow => spends[a].by \in Members
      /\ \A o \in Ops, m \in Members : [op |-> o, by |-> m] \in SpendRow
  BY DEF SpendRow
<1> QED
  BY <1>1, <1>2, <1>3, <1>4, <1>5

\* As the chain grows and members hear more of it, they know no less.
LEMMA KnowsNoLess ==
    ASSUME ChainInv, FoundInv, NEW m \in Members,
           \/ chain' = chain
           \/ \E e \in Events : chain' = Append(chain, e),
           heard'[m] \in Nat, heard[m] <= heard'[m]
    PROVE  Known(m) \subseteq Known(m)'
<1>1. /\ Len(chain) \in Nat /\ Len(chain) <= Len(chain')
      /\ \A i \in 1..Len(chain) : chain'[i] = chain[i]
  BY DEF ChainInv
<1>2. heard[m] \in 0..Len(chain)
  BY DEF FoundInv
<1>3. CASE m = HomeMember
  BY <1>1, <1>3 DEF Known, Has, Approved, ApproveEvent
<1>4. CASE m # HomeMember
  <2>1. \A i \in 1..heard[m] : i \in 1..heard'[m] /\ chain'[i] = chain[i]
    BY <1>1, <1>2
  <2> QED
    BY <1>4, <2>1 DEF Known, Has, Approved, ApproveEvent
<1> QED
  BY <1>3, <1>4

\* The room goes on, an approve expires, a member hears more of the chain.
LEMMA WorldFinds ==
    ASSUME IInv, ChainInv, FoundInv,
           UNCHANGED <<spends, pending, over, run, requests, answers>>,
           \/ chain' = chain
           \/ \E e \in Events : chain' = Append(chain, e),
           heard' \in [Members -> 0..Len(chain')],
           \A m \in Members : heard[m] <= heard'[m],
           expired \subseteq expired'
    PROVE  FoundInv'
<1>1. \A m \in Members : Known(m) \subseteq Known(m)'
  <2>1. SUFFICES ASSUME NEW m \in Members PROVE Known(m) \subseteq Known(m)'
    OBVIOUS
  <2>2. heard'[m] \in Nat
    <3>1. Len(chain') \in Nat
      BY DEF ChainInv
    <3> QED
      BY <3>1
  <2> QED
    BY <2>2, KnowsNoLess
<1>2. MadeUpIsOnDisk'
  BY DEF FoundInv, MadeUpIsOnDisk, OfDisk, Live
<1>3. AskedIsKnown'
  <2>1. \A a \in Approves : spends[a] \in SpendRow => a \in Known(spends[a].by)'
    BY <1>1, FoundTypes DEF FoundInv, AskedIsKnown
  <2>2. \A q \in requests : q.approve \in Known(By[q.run])'
    BY <1>1, FoundTypes DEF FoundInv, AskedIsKnown
  <2>3. \A r \in Runs : Asks(r) => run[r].left \subseteq Known(By[r])'
    BY <1>1, FoundTypes DEF FoundInv, AskedIsKnown
  <2> QED
    BY <2>1, <2>2, <2>3 DEF AskedIsKnown, Asks, Known, Has, Approved
<1>4. HadIsAhead'
  BY DEF FoundInv, HadIsAhead, Live, Mine
<1>5. NoIsOfAnother'
  BY DEF FoundInv, NoIsOfAnother, Asks, Mine
<1> QED
  BY <1>2, <1>3, <1>4, <1>5 DEF FoundInv

\* A run goes on with its operation, or ends: what it still has ahead is the caller's to show.
LEMMA RunFinds ==
    ASSUME IInv, ChainInv, FoundInv, NEW r \in Runs, NEW t \in RunTypes,
           run' = [run EXCEPT ![r] = t],
           UNCHANGED <<chain, spends, expired, heard>>,
           \A q \in requests' : q \in requests \/ (q.run = r /\ t.at = "waiting" /\ q.op = t.op
                                                   /\ q.approve \in Known(By[r])),
           answers' \subseteq answers,
           \A o : \A m \in Members : OfDisk(o, m) => OfDisk(o, m)',
           t.at \in {"begun", "asking", "waiting"} =>
             /\ t.op \in Runs => pending'[By[r]] = t.op \/ t.op \in over'
             /\ \A a \in t.had :
                  /\ spends[a] = [op |-> t.op, by |-> By[r]]
                  /\ t.at = "begun" => t.retry
                  /\ t.at = "asking" => a \in t.left \/ a \in expired
                  /\ t.at = "waiting" => a \in t.left \/ a = t.asked \/ a \in expired,
           t.at \in {"asking", "waiting"} =>
             t.left \subseteq Known(By[r]) /\ Live(r) /\ t.op = run[r].op
    PROVE  FoundInv'
<1>1. run'[r] = t /\ \A q \in Runs : q # r => run'[q] = run[q]
  BY DEF IInv, Typed
<1>2. \A m : Known(m)' = Known(m)
  BY DEF Known, Has, Approved
<1>3. By[r] \in Members
  BY FoundTypes
<1>4. MadeUpIsOnDisk'
  <2>1. \A a \in Approves : spends[a] \in SpendRow =>
          (spends[a].op \in Runs => pending'[spends[a].by] = spends[a].op \/ spends[a].op \in over')
    BY FoundTypes DEF FoundInv, MadeUpIsOnDisk, OfDisk
  <2>2. \A q \in requests' : q.op \in Runs => pending'[By[q.run]] = q.op \/ q.op \in over'
    BY FoundTypes DEF FoundInv, MadeUpIsOnDisk, OfDisk
  <2>3. ASSUME NEW s \in Runs, run'[s].at \in {"begun", "asking", "waiting"}
        PROVE  run'[s].op \in Runs => pending'[By[s]] = run'[s].op \/ run'[s].op \in over'
    <3>1. CASE s = r
      BY <1>1, <2>3, <3>1
    <3>2. CASE s # r
      <4>1. run'[s] = run[s] /\ Live(s) /\ By[s] \in Members
        BY <1>1, <2>3, <3>2, FoundTypes DEF Live
      <4>2. OfDisk(run[s].op, By[s])
        BY <4>1 DEF FoundInv, MadeUpIsOnDisk
      <4> QED
        BY <4>1, <4>2 DEF OfDisk
    <3> QED
      BY <3>1, <3>2
  <2> QED
    BY <2>1, <2>2, <2>3 DEF MadeUpIsOnDisk, OfDisk, Live
<1>5. AskedIsKnown'
  <2>1. \A a \in Approves : spends[a] \in SpendRow => a \in Known(spends[a].by)
    BY DEF FoundInv, AskedIsKnown
  <2>2. \A q \in requests' : q.approve \in Known(By[q.run])
    BY DEF FoundInv, AskedIsKnown
  <2>3. ASSUME NEW s \in Runs, run'[s].at \in {"asking", "waiting"}
        PROVE  run'[s].left \subseteq Known(By[s])
    BY <1>1, <2>3 DEF FoundInv, AskedIsKnown, Asks
  <2> QED
    BY <2>1, <2>2, <2>3 DEF AskedIsKnown, Asks, Known, Has, Approved
<1>6. HadIsAhead'
  <2>1. ASSUME NEW s \in Runs, run'[s].at \in {"begun", "asking", "waiting"}, NEW a \in run'[s].had
        PROVE  /\ spends[a] = [op |-> run'[s].op, by |-> By[s]]
               /\ run'[s].at = "begun" => run'[s].retry
               /\ run'[s].at = "asking" => a \in run'[s].left \/ a \in expired
               /\ run'[s].at = "waiting" =>
                    a \in run'[s].left \/ a = run'[s].asked \/ a \in expired
    <3>1. CASE s = r
      BY <1>1, <2>1, <3>1
    <3>2. CASE s # r
      <4>1. run'[s] = run[s] /\ Live(s)
        BY <1>1, <2>1, <3>2 DEF Live
      <4> QED
        BY <2>1, <4>1 DEF FoundInv, HadIsAhead, Mine
    <3> QED
      BY <3>1, <3>2
  <2> QED
    BY <2>1 DEF HadIsAhead, Live, Mine
<1>7. NoIsOfAnother'
  <2>1. ASSUME NEW x \in answers, x.says = "already spent", run'[x.run].at \in {"asking", "waiting"}
        PROVE  /\ spends[x.approve] \in SpendRow
               /\ spends[x.approve] # [op |-> run'[x.run].op, by |-> By[x.run]]
    <3>1. x.run \in Runs /\ run[x.run].at \notin {"idle", "begun"}
      BY FoundTypes DEF IInv, YesIsRecorded
    <3>2. Asks(x.run) /\ run'[x.run].op = run[x.run].op
      BY <1>1, <2>1, <3>1 DEF Asks, Live
    <3> QED
      BY <2>1, <3>2 DEF FoundInv, NoIsOfAnother, Mine
  <2> QED
    BY <2>1 DEF NoIsOfAnother, Asks, Mine
<1> QED
  BY <1>4, <1>5, <1>6, <1>7 DEF FoundInv

\* A run that ended has nothing ahead.
LEMMA EndFinds ==
    ASSUME IInv, ChainInv, FoundInv, NEW r \in Runs, NEW t \in RunTypes,
           run' = [run EXCEPT ![r] = t],
           t.at \in {"unreached", "denied", "granted", "refused"},
           UNCHANGED <<chain, spends, expired, heard>>,
           requests' \subseteq requests, answers' \subseteq answers,
           \A o : \A m \in Members : OfDisk(o, m) => OfDisk(o, m)'
    PROVE  FoundInv'
BY RunFinds

\* What a run takes off the disk is over.
LEMMA ForgetFinds ==
    ASSUME IInv, NEW r \in Runs, Forget(r)
    PROVE  \A o : \A m \in Members : OfDisk(o, m) => OfDisk(o, m)'
<1>1. SUFFICES ASSUME NEW o \in Runs, NEW m \in Members, pending[m] = o \/ o \in over
               PROVE  pending'[m] = o \/ o \in over'
  BY DEF OfDisk
<1>2. By[r] \in Members /\ pending \in [Members -> {NoOp} \cup Ops] /\ o # NoOp
  BY SpendAssumption DEF IInv, Typed
<1>3. CASE Named[r] = Unnamed
  BY <1>1, <1>2, <1>3 DEF Forget
<1>4. CASE Named[r] # Unnamed
  BY <1>1, <1>4 DEF Forget
<1> QED
  BY <1>3, <1>4

\* The operation on its member's disk is the one a run without a name of its own begins with.
LEMMA BeginFinds ==
    ASSUME IInv, ChainInv, FoundInv, NEW r \in Runs, Begin(r)
    PROVE  FoundInv'
<1> DEFINE t == [at |-> "begun", op |-> OpOf(r),
                 retry |-> Named[r] # Unnamed \/ pending[By[r]] # NoOp, had |-> Had(r)]
<1>1. t \in RunTypes /\ t.at = "begun" /\ t.op = OpOf(r) /\ t.had = Had(r)
  BY KnownApproves DEF RunTypes
<1>2. run' = [run EXCEPT ![r] = t]
  BY DEF Begin
<1>3. /\ UNCHANGED <<chain, spends, expired, heard>> /\ requests' = requests /\ answers' = answers
      /\ over' = over
      /\ pending' = IF Named[r] = Unnamed THEN [pending EXCEPT ![By[r]] = OpOf(r)] ELSE pending
  BY DEF Begin, home
<1>4. By[r] \in Members /\ pending \in [Members -> {NoOp} \cup Ops]
  BY SpendAssumption DEF IInv, Typed
<1>5. \A o : \A m \in Members : OfDisk(o, m) => OfDisk(o, m)'
  <2>1. SUFFICES ASSUME NEW o \in Runs, NEW m \in Members, pending[m] = o
                 PROVE  pending'[m] = o
    BY <1>3 DEF OfDisk
  <2>2. o # NoOp
    BY SpendAssumption
  <2> QED
    BY <1>3, <1>4, <2>1, <2>2 DEF OpOf
<1>6. OpOf(r) \in Runs => pending'[By[r]] = OpOf(r)
  BY <1>3, <1>4, SpendAssumption DEF OpOf
<1>7. ASSUME NEW a \in Had(r)
      PROVE  spends[a] = [op |-> OpOf(r), by |-> By[r]] /\ t.retry
  <2>1. a \in Approves /\ spends[a] # NotSpent /\ spends[a].by = By[r]
    BY DEF Had
  <2>2. spends[a] \in SpendRow
    BY <2>1 DEF IInv, Typed
  <2>3. spends[a] = [op |-> spends[a].op, by |-> spends[a].by]
    BY <2>2 DEF SpendRow
  <2>4. CASE Named[r] # Unnamed
    <3>1. spends[a].op = Named[r]
      BY <1>7, <2>4 DEF Had
    <3> QED
      BY <2>1, <2>3, <2>4, <3>1 DEF OpOf
  <2>5. CASE Named[r] = Unnamed
    <3>1. spends[a].op \in Runs \ over
      BY <1>7, <2>5 DEF Had
    <3>2. pending[By[r]] = spends[a].op
      BY <2>1, <2>2, <3>1 DEF FoundInv, MadeUpIsOnDisk, OfDisk
    <3>3. pending[By[r]] # NoOp
      BY <3>1, <3>2, SpendAssumption
    <3> QED
      BY <2>1, <2>3, <2>5, <3>2, <3>3 DEF OpOf
  <2> QED
    BY <2>4, <2>5
<1> HIDE DEF t
<1> QED
  BY <1>1, <1>2, <1>3, <1>5, <1>6, <1>7, RunFinds

\* For a retry the spent approves too are asked about: all the member has heard of.
LEMMA GatherFinds ==
    ASSUME IInv, ChainInv, FoundInv, NEW r \in Runs, Gather(r)
    PROVE  FoundInv'
<1> DEFINE t == [at |-> "asking", op |-> run[r].op,
                 left |-> Candidates(By[r], run[r].retry) \ expired,
                 last |-> KnownSpent(By[r]), had |-> run[r].had]
<1>1. run[r] \in [at : {"begun"}, op : Ops, retry : BOOLEAN, had : SUBSET Approves]
  BY DEF Gather, IInv, Typed, RunTypes
<1>2. t \in RunTypes
  BY <1>1, KnownApproves DEF RunTypes
<1>3. run' = [run EXCEPT ![r] = t]
  BY DEF Gather, IInv, Typed
<1>4. /\ UNCHANGED <<chain, spends, expired, heard>> /\ requests' = requests /\ answers' = answers
      /\ over' = over /\ pending' = pending
  BY DEF Gather, home
<1>5. /\ t.at = "asking" /\ t.op = run[r].op /\ t.had = run[r].had
      /\ t.left = Candidates(By[r], run[r].retry) \ expired
      /\ Live(r) /\ run[r].at = "begun"
  BY <1>1 DEF Live
<1>6. Candidates(By[r], run[r].retry) \subseteq Known(By[r])
  BY DEF Candidates, Known
<1>7. t.op \in Runs => pending[By[r]] = t.op \/ t.op \in over
  BY <1>5 DEF FoundInv, MadeUpIsOnDisk, OfDisk
<1>8. ASSUME NEW a \in run[r].had
      PROVE  /\ spends[a] = [op |-> run[r].op, by |-> By[r]]
             /\ a \in Candidates(By[r], run[r].retry)
  <2>1. a \in Approves /\ By[r] \in Members /\ run[r].op \in Ops
    BY <1>1, <1>5, FoundTypes
  <2>2. spends[a] = [op |-> run[r].op, by |-> By[r]] /\ run[r].retry
    BY <1>5, <1>8 DEF FoundInv, HadIsAhead, Mine
  <2>3. spends[a] \in SpendRow /\ spends[a].by = By[r]
    BY <2>1, <2>2, FoundTypes
  <2>4. a \in Known(By[r])
    BY <2>1, <2>3 DEF FoundInv, AskedIsKnown
  <2> QED
    BY <2>2, <2>4 DEF Candidates, Known
<1> HIDE DEF t
<1>9. \A o : \A m \in Members : OfDisk(o, m) => OfDisk(o, m)'
  BY <1>4 DEF OfDisk
<1> QED
  BY <1>2, <1>3, <1>4, <1>5, <1>6, <1>7, <1>8, <1>9, RunFinds

\* It asks about approves it has heard of, and leaves only those behind that are not ahead of it.
LEMMA AskFinds ==
    ASSUME IInv, ChainInv, FoundInv, NEW r \in Runs, NEW a \in Approves, Ask(r, a)
    PROVE  FoundInv'
<1> DEFINE t == [at |-> "waiting", op |-> run[r].op, asked |-> a,
                 left |-> {b \in run[r].left : ~Earlier(r, b, a)}, last |-> run[r].last,
                 had |-> run[r].had]
           q0 == [run |-> r, approve |-> a, op |-> run[r].op]
<1>1. run[r] \in [at : {"asking"}, op : Ops, left : SUBSET Approves, last : SUBSET Approves,
                  had : SUBSET Approves]
  BY DEF Ask, IInv, Typed, RunTypes
<1>2. t \in RunTypes
  BY <1>1 DEF RunTypes
<1>3. run' = [run EXCEPT ![r] = t]
  BY DEF Ask, IInv, Typed
<1>4. /\ UNCHANGED <<chain, spends, expired, heard>> /\ requests' = requests \cup {q0}
      /\ answers' = answers /\ over' = over /\ pending' = pending
  BY DEF Ask, home
<1>5. /\ t.at = "waiting" /\ t.op = run[r].op /\ t.had = run[r].had /\ t.asked = a
      /\ t.left = {b \in run[r].left : ~Earlier(r, b, a)}
      /\ q0.run = r /\ q0.op = run[r].op /\ q0.approve = a
      /\ Live(r) /\ Asks(r) /\ run[r].at = "asking"
  BY <1>1 DEF Live, Asks
<1>6. Askable(r) = run[r].left /\ a \in run[r].left
  BY DEF Ask, Askable
<1>7. run[r].left \subseteq Known(By[r])
  BY <1>5 DEF FoundInv, AskedIsKnown
<1>8. \A b \in run[r].left : b = a \/ ~Earlier(r, b, a)
  <2>1. SUFFICES ASSUME NEW b \in run[r].left, b # a PROVE ~Earlier(r, b, a)
    OBVIOUS
  <2>2. Earlier(r, a, b) /\ a \in Nat /\ b \in Nat
    BY <1>1, <1>6 DEF Ask, Approves
  <2>3. CASE (a \in run[r].last) = (b \in run[r].last)
    <3>1. (b \in run[r].last) = (a \in run[r].last) /\ a <= b
      BY <2>2, <2>3 DEF Earlier
    <3> QED
      BY <2>1, <2>2, <3>1 DEF Earlier
  <2>4. CASE (a \in run[r].last) # (b \in run[r].last)
    <3>1. b \in run[r].last
      BY <2>2, <2>4 DEF Earlier
    <3>2. a \notin run[r].last
      BY <2>4, <3>1
    <3> QED
      BY <3>1, <3>2 DEF Earlier
  <2> QED
    BY <2>3, <2>4
<1>9. t.op \in Runs => pending[By[r]] = t.op \/ t.op \in over
  BY <1>5 DEF FoundInv, MadeUpIsOnDisk, OfDisk
<1>10. \A b \in run[r].had : /\ spends[b] = [op |-> run[r].op, by |-> By[r]]
                             /\ b \in run[r].left \/ b \in expired
  BY <1>5 DEF FoundInv, HadIsAhead, Mine
<1> HIDE DEF t, q0
<1>11. \A o : \A m \in Members : OfDisk(o, m) => OfDisk(o, m)'
  BY <1>4 DEF OfDisk
<1>12. t.left \subseteq Known(By[r]) /\ a \in Known(By[r])
  BY <1>5, <1>6, <1>7
<1>13. \A b \in t.had : /\ spends[b] = [op |-> t.op, by |-> By[r]]
                        /\ b \in t.left \/ b = t.asked \/ b \in expired
  BY <1>5, <1>8, <1>10
<1>14. \A q \in requests' : q \in requests \/ (q.run = r /\ t.at = "waiting" /\ q.op = t.op
                                               /\ q.approve \in Known(By[r]))
  BY <1>4, <1>5, <1>12
<1>15. t.at = "waiting" /\ t.op = run[r].op /\ Live(r) /\ answers' = answers
       /\ pending' = pending /\ over' = over
  BY <1>4, <1>5
<1>16. UNCHANGED <<chain, spends, expired, heard>>
  BY <1>4
<1> QED
  BY <1>2, <1>3, <1>9, <1>11, <1>12, <1>13, <1>14, <1>15, <1>16, RunFinds

\* The approve that another operation spent is none that this one had.
LEMMA TakenFinds ==
    ASSUME IInv, ChainInv, FoundInv, NEW r \in Runs, Taken(r)
    PROVE  FoundInv'
<1> DEFINE t == [at |-> "asking", op |-> run[r].op, left |-> run[r].left, last |-> run[r].last,
                 had |-> run[r].had]
           x == [run |-> r, approve |-> run[r].asked, says |-> "already spent"]
<1>1. run[r] \in [at : {"waiting"}, op : Ops, left : SUBSET Approves, last : SUBSET Approves,
                  had : SUBSET Approves, asked : Approves]
  BY DEF Taken, IInv, Typed, RunTypes
<1>2. t \in RunTypes
  BY <1>1 DEF RunTypes
<1>3. run' = [run EXCEPT ![r] = t]
  BY DEF Taken, IInv, Typed
<1>4. /\ UNCHANGED <<chain, spends, expired, heard>> /\ requests' = requests
      /\ answers' \subseteq answers /\ over' = over /\ pending' = pending
  BY DEF Taken, home
<1>5. /\ t.at = "asking" /\ t.op = run[r].op /\ t.had = run[r].had /\ t.left = run[r].left
      /\ Live(r) /\ Asks(r) /\ run[r].at = "waiting"
  BY <1>1 DEF Live, Asks
<1>6. x \in answers /\ x.run = r /\ x.approve = run[r].asked /\ x.says = "already spent"
  BY DEF Taken
<1>7. spends[run[r].asked] # [op |-> run[r].op, by |-> By[r]]
  BY <1>5, <1>6 DEF FoundInv, NoIsOfAnother, Mine
<1>8. run[r].left \subseteq Known(By[r])
  BY <1>5 DEF FoundInv, AskedIsKnown
<1>9. t.op \in Runs => pending[By[r]] = t.op \/ t.op \in over
  BY <1>5 DEF FoundInv, MadeUpIsOnDisk, OfDisk
<1>10. \A b \in run[r].had : /\ spends[b] = [op |-> run[r].op, by |-> By[r]]
                             /\ b \in run[r].left \/ b = run[r].asked \/ b \in expired
  BY <1>5 DEF FoundInv, HadIsAhead, Mine
<1> HIDE DEF t, x
<1>11. \A o : \A m \in Members : OfDisk(o, m) => OfDisk(o, m)'
  BY <1>4 DEF OfDisk
<1>12. \A b \in t.had : /\ spends[b] = [op |-> t.op, by |-> By[r]]
                        /\ b \in t.left \/ b \in expired
  BY <1>5, <1>7, <1>10
<1> QED
  BY <1>2, <1>3, <1>4, <1>5, <1>8, <1>9, <1>11, <1>12, RunFinds

\* Runs that end.
LEMMA StopFinds ==
    ASSUME IInv, ChainInv, FoundInv, NEW r \in Runs,
           NoLink(r) \/ Refused(r) \/ Granted(r) \/ Denied(r) \/ Lose(r)
    PROVE  FoundInv'
<1>1. /\ UNCHANGED <<chain, spends, expired, heard>>
      /\ requests' \subseteq requests /\ answers' \subseteq answers
  BY DEF NoLink, Refused, Granted, Denied, Lose, home
<1>2. \A o : \A m \in Members : OfDisk(o, m) => OfDisk(o, m)'
  <2>1. CASE Forget(r)
    BY <2>1, ForgetFinds
  <2>2. CASE pending' = pending /\ over' = over
    BY <2>2 DEF OfDisk
  <2> QED
    BY <2>1, <2>2 DEF NoLink, Refused, Granted, Denied, Lose
<1>3. \A at \in {"unreached", "denied"} :
        [at |-> at] \in RunTypes /\ [at |-> at].at \in {"unreached", "denied", "granted", "refused"}
  BY DEF RunTypes
<1>4. CASE NoLink(r) \/ Denied(r) \/ Lose(r)
  <2>1. PICK at \in {"unreached", "denied"} : run' = [run EXCEPT ![r] = [at |-> at]]
    BY <1>4 DEF NoLink, Denied, Lose
  <2> QED
    BY <1>1, <1>2, <1>3, <2>1, EndFinds
<1>5. CASE Refused(r)
  <2>1. run[r].op \in Ops
    BY <1>5 DEF Refused, IInv, Typed, RunTypes
  <2>2. /\ [at |-> "refused", op |-> run[r].op] \in RunTypes
        /\ [at |-> "refused", op |-> run[r].op].at = "refused"
    BY <2>1 DEF RunTypes
  <2>3. run' = [run EXCEPT ![r] = [at |-> "refused", op |-> run[r].op]]
    BY <1>5 DEF Refused, IInv, Typed
  <2> QED
    BY <1>1, <1>2, <2>2, <2>3, EndFinds
<1>6. CASE Granted(r)
  <2>1. run[r].op \in Ops /\ run[r].asked \in Approves
    BY <1>6 DEF Granted, IInv, Typed, RunTypes
  <2>2. /\ [at |-> "granted", op |-> run[r].op, approve |-> run[r].asked] \in RunTypes
        /\ [at |-> "granted", op |-> run[r].op, approve |-> run[r].asked].at = "granted"
    BY <2>1 DEF RunTypes
  <2>3. run' = [run EXCEPT ![r] = [at |-> "granted", op |-> run[r].op, approve |-> run[r].asked]]
    BY <1>6 DEF Granted, IInv, Typed
  <2> QED
    BY <1>1, <1>2, <2>2, <2>3, EndFinds
<1> QED
  BY <1>4, <1>5, <1>6

\* The helper stops: its runs have nothing ahead, what is on its disk stays.
LEMMA CrashFinds ==
    ASSUME IInv, ChainInv, FoundInv, NEW m \in Members, Crash(m)
    PROVE  FoundInv'
<1>1. \A r \in Runs : run'[r] = run[r] \/ run'[r] = [at |-> "unreached"]
  BY DEF Crash
<1>2. [at |-> "unreached"].at \notin {"begun", "asking", "waiting"}
  OBVIOUS
<1>3. \A r \in Runs : run'[r].at \in {"begun", "asking", "waiting"} => run'[r] = run[r]
  BY <1>1, <1>2
<1>4. /\ UNCHANGED <<chain, spends, expired, heard, pending, over, requests>>
      /\ answers' \subseteq answers
  BY DEF Crash, home
<1>5. MadeUpIsOnDisk'
  BY <1>3, <1>4 DEF FoundInv, MadeUpIsOnDisk, OfDisk, Live
<1>6. AskedIsKnown'
  BY <1>3, <1>4 DEF FoundInv, AskedIsKnown, Asks, Known, Has, Approved
<1>7. HadIsAhead'
  BY <1>3, <1>4 DEF FoundInv, HadIsAhead, Live, Mine
<1>8. NoIsOfAnother'
  BY <1>3, <1>4, FoundTypes DEF FoundInv, NoIsOfAnother, Asks, Mine
<1> QED
  BY <1>4, <1>5, <1>6, <1>7, <1>8 DEF FoundInv

ChainGrows ==
    \/ chain' = chain
    \/ \E e \in Events : chain' = Append(chain, e)

\* The only spend that may be new is the one that q asks for.
OnlySpends(q) ==
    /\ \A a \in Approves : spends[a] \in SpendRow => spends'[a] = spends[a]
    /\ \A a \in Approves : spends'[a] \in SpendRow =>
         \/ spends[a] \in SpendRow
         \/ a = q.approve /\ spends'[a] = [op |-> q.op, by |-> By[q.run]]

\* Another operation than that of q has spent its approve.
AnotherSpent(q) ==
    spends[q.approve] \in SpendRow /\ spends[q.approve] # [op |-> q.op, by |-> By[q.run]]

\* What is heard stays within a chain that grows.
LEMMA HeardStays ==
    ASSUME ChainInv, FoundInv, ChainGrows
    PROVE  /\ heard \in [Members -> 0..Len(chain')]
           /\ \A m \in Members : heard[m] \in Nat /\ heard[m] <= heard[m]
<1>1. Len(chain) \in Nat /\ Len(chain') \in Nat /\ Len(chain) <= Len(chain')
  BY DEF ChainInv, ChainGrows
<1>2. heard \in [Members -> 0..Len(chain)]
  BY DEF FoundInv
<1> QED
  BY <1>1, <1>2

\* A row has the fields it was made of.
LEMMA RowIs ==
    \A row, o, m : row = [op |-> o, by |-> m] => row.op = o /\ row.by = m
OBVIOUS

\* An answer tells no operation that another one spent what it spent itself, and a spend that is
\* recorded is of a request that is accounted for.
LEMMA AnswerFinds ==
    ASSUME IInv, ChainInv, FoundInv, NEW q \in requests,
           NEW says \in {"spent", "already spent", "denied"}, Answer(q, says), ChainGrows, OnlySpends(q),
           says = "already spent" => AnotherSpent(q)
    PROVE  FoundInv'
<1> DEFINE x0 == [run |-> q.run, approve |-> q.approve, says |-> says]
<1>1. /\ run' = run /\ pending' = pending /\ over' = over /\ heard' = heard /\ expired' = expired
      /\ requests' \subseteq requests
      /\ answers' \subseteq answers \cup {x0}
      /\ x0 \in answers' => x0 \in answers \/ run[q.run].at = "waiting"
  BY DEF Answer
<1>2. /\ q.run \in Runs /\ q.approve \in Approves /\ q.op \in Ops /\ By[q.run] \in Members
  BY FoundTypes
<1>3. x0.run = q.run /\ x0.approve = q.approve /\ x0.says = says
  OBVIOUS
<1> HIDE DEF x0
<1>4. \A m \in Members : Known(m) \subseteq Known(m)'
  <2>1. SUFFICES ASSUME NEW m \in Members PROVE Known(m) \subseteq Known(m)'
    OBVIOUS
  <2>2. heard[m] \in Nat /\ heard[m] <= heard[m]
    BY HeardStays
  <2>3. heard'[m] \in Nat /\ heard[m] <= heard'[m]
    <3>1. heard' = heard
      BY <1>1
    <3> QED
      BY <2>2, <3>1
  <2> QED
    BY <2>3, KnowsNoLess DEF ChainGrows
<1>5. heard' \in [Members -> 0..Len(chain')]
  BY <1>1, HeardStays
<1>6. \A a \in Approves : spends'[a] \in SpendRow =>
        /\ OfDisk(spends'[a].op, spends'[a].by)
        /\ spends'[a].by \in Members /\ a \in Known(spends'[a].by)
  <2>1. SUFFICES ASSUME NEW a \in Approves, spends'[a] \in SpendRow
                 PROVE  \E o, m : /\ spends'[a].op = o /\ spends'[a].by = m
                                  /\ OfDisk(o, m) /\ m \in Members /\ a \in Known(m)
    OBVIOUS
  <2>2. CASE spends[a] \in SpendRow
    <3>1. /\ OfDisk(spends[a].op, spends[a].by)
          /\ spends[a].by \in Members /\ a \in Known(spends[a].by)
      BY <2>2, FoundTypes DEF FoundInv, MadeUpIsOnDisk, AskedIsKnown
    <3>2. spends'[a] = spends[a]
      BY <2>2 DEF OnlySpends
    <3> HIDE DEF OfDisk, Known
    <3> QED
      BY <3>1, <3>2
  <2>3. CASE a = q.approve /\ spends'[a] = [op |-> q.op, by |-> By[q.run]]
    <3>1. OfDisk(q.op, By[q.run]) /\ q.approve \in Known(By[q.run])
      BY DEF FoundInv, MadeUpIsOnDisk, AskedIsKnown
    <3>2. spends'[a].op = q.op /\ spends'[a].by = By[q.run]
      BY <2>3, RowIs
    <3> HIDE DEF OfDisk, Known
    <3> QED
      BY <1>2, <2>3, <3>1, <3>2
  <2> QED
    BY <2>1, <2>2, <2>3 DEF OnlySpends
<1>7. MadeUpIsOnDisk'
  <2>1. \A a \in Approves : spends'[a] \in SpendRow =>
          (spends'[a].op \in Runs =>
             pending[spends'[a].by] = spends'[a].op \/ spends'[a].op \in over)
    BY <1>6 DEF OfDisk
  <2> QED
    BY <1>1, <2>1 DEF FoundInv, MadeUpIsOnDisk, OfDisk, Live
<1>8. AskedIsKnown'
  <2>1. \A a \in Approves : spends'[a] \in SpendRow => \A m : m = spends'[a].by => a \in Known(m)'
    BY <1>4, <1>6
  <2>2. \A p \in requests : p.approve \in Known(By[p.run])'
    BY <1>4, FoundTypes DEF FoundInv, AskedIsKnown
  <2>3. \A r \in Runs : Asks(r) => run[r].left \subseteq Known(By[r])'
    BY <1>4, FoundTypes DEF FoundInv, AskedIsKnown
  <2>4. \A a \in Approves : spends'[a] \in SpendRow => a \in Known(spends[a].by)'
    BY <2>1 DEF Known, Has, Approved
  <2> QED
    BY <1>1, <2>2, <2>3, <2>4 DEF AskedIsKnown, Asks, Known, Has, Approved
<1>9. HadIsAhead'
  <2>1. ASSUME NEW r \in Runs, Live(r), NEW a \in run[r].had
        PROVE  spends'[a] = [op |-> run[r].op, by |-> By[r]]
    <3>1. spends[a] = [op |-> run[r].op, by |-> By[r]]
      BY <2>1 DEF FoundInv, HadIsAhead, Mine
    <3>2. a \in Approves /\ spends[a] \in SpendRow
      BY <2>1, <3>1, FoundTypes
    <3> QED
      BY <3>1, <3>2 DEF OnlySpends
  <2> QED
    BY <1>1, <2>1 DEF FoundInv, HadIsAhead, Live, Mine
<1>10. NoIsOfAnother'
  <2>1. ASSUME NEW x \in answers', x.says = "already spent", Asks(x.run)
        PROVE  /\ spends'[x.approve] \in SpendRow
               /\ spends'[x.approve] # [op |-> run[x.run].op, by |-> By[x.run]]
    <3>1. CASE x \in answers
      <4>1. /\ x.approve \in Approves /\ spends[x.approve] \in SpendRow
            /\ spends[x.approve] # [op |-> run[x.run].op, by |-> By[x.run]]
        BY <2>1, <3>1, FoundTypes DEF FoundInv, NoIsOfAnother, Mine
      <4> QED
        BY <4>1 DEF OnlySpends
    <3>2. CASE x \notin answers
      <4>1. x = x0 /\ run[q.run].at = "waiting"
        BY <1>1, <2>1, <3>2
      <4>2. run[q.run].op = q.op
        BY <1>2, <4>1 DEF IInv, AsksForIts, Asks
      <4>3. /\ spends[q.approve] \in SpendRow
            /\ spends[q.approve] # [op |-> q.op, by |-> By[q.run]]
        BY <1>3, <2>1, <4>1 DEF AnotherSpent
      <4> QED
        BY <1>2, <1>3, <4>1, <4>2, <4>3 DEF OnlySpends
    <3> QED
      BY <3>1, <3>2
  <2> QED
    BY <1>1, <2>1 DEF NoIsOfAnother, Asks, Mine
<1> QED
  BY <1>5, <1>7, <1>8, <1>9, <1>10 DEF FoundInv

LEMMA ServeFinds ==
    ASSUME IInv, ChainInv, FoundInv, Serve
    PROVE  FoundInv'
<1>1. PICK q \in requests : Record(q) \/ AnswerAgain(q) \/ SpentByAnother(q) \/ Deny(q)
  BY DEF Serve
<1>2. q.run \in Runs /\ q.approve \in Approves /\ q.op \in Ops /\ By[q.run] \in Members
  BY FoundTypes
<1>3. spends \in [Approves -> {NotSpent} \cup SpendRow]
  BY DEF IInv, Typed
<1>4. CASE Record(q)
  <2>1. NotSpent \notin SpendRow
    <3>1. \A row \in SpendRow : DOMAIN row = {"op", "by"}
      BY DEF SpendRow
    <3>2. DOMAIN NotSpent = {"op"} /\ "by" \notin {"op"} /\ "by" \in {"op", "by"}
      BY DEF NotSpent
    <3> QED
      BY <3>1, <3>2
  <2>2. \E e \in Events : chain' = Append(chain, e)
    BY <1>2, <1>4 DEF Record, Events
  <2>3. \A row : spends' = [spends EXCEPT ![q.approve] = row] =>
          /\ \A a \in Approves : a # q.approve => spends'[a] = spends[a]
          /\ spends'[q.approve] = row
    BY <1>2, <1>3
  <2>4. /\ spends[q.approve] = NotSpent /\ Answer(q, "spent")
        /\ spends' = [spends EXCEPT ![q.approve] = [op |-> q.op, by |-> By[q.run]]]
    BY <1>4 DEF Record
  <2>5. /\ \A a \in Approves : a # q.approve => spends'[a] = spends[a]
        /\ spends'[q.approve] = [op |-> q.op, by |-> By[q.run]]
    BY <2>3, <2>4
  <2>6. \A a \in Approves : spends[a] \in SpendRow => spends'[a] = spends[a]
    BY <2>1, <2>4, <2>5
  <2>7. \A a \in Approves : spends'[a] \in SpendRow =>
          \/ spends[a] \in SpendRow
          \/ a = q.approve /\ spends'[a] = [op |-> q.op, by |-> By[q.run]]
    BY <2>5
  <2> QED
    BY <2>2, <2>4, <2>6, <2>7, AnswerFinds DEF ChainGrows, OnlySpends, AnotherSpent
<1>5. CASE AnswerAgain(q)
  BY <1>5, AnswerFinds DEF ChainGrows, OnlySpends, AnotherSpent, AnswerAgain
<1>6. CASE SpentByAnother(q)
  <2>1. spends[q.approve] \in SpendRow /\ spends[q.approve] # [op |-> q.op, by |-> By[q.run]]
    BY <1>2, <1>3, <1>6 DEF SpentByAnother, Yours
  <2> QED
    BY <1>6, <2>1, AnswerFinds DEF ChainGrows, OnlySpends, AnotherSpent, SpentByAnother
<1>7. CASE Deny(q)
  BY <1>7, AnswerFinds DEF ChainGrows, OnlySpends, AnotherSpent, Deny
<1> QED
  BY <1>1, <1>4, <1>5, <1>6, <1>7

LEMMA NextFoundInv == IInv /\ ChainInv /\ FoundInv /\ [Next]_vars => FoundInv'
<1>1. SUFFICES ASSUME IInv, ChainInv, FoundInv, [Next]_vars PROVE FoundInv'
  OBVIOUS
<1>2. /\ heard \in [Members -> 0..Len(chain)] /\ Len(chain) \in Nat
      /\ \A m \in Members : heard[m] \in 0..Len(chain) /\ heard[m] <= heard[m]
  BY <1>1 DEF FoundInv, ChainInv
<1>3. CASE Approve
  <2>1. PICK a \in Approves : chain' = Append(chain, ApproveEvent(a))
    BY <1>3 DEF Approve
  <2>2. ApproveEvent(a) \in Events /\ Len(chain') = Len(chain) + 1
    BY <1>1, <2>1 DEF Events, ChainInv
  <2>3. heard' = heard /\ expired' = expired
        /\ UNCHANGED <<spends, pending, over, run, requests, answers>>
    BY <1>3 DEF Approve
  <2>4. heard' \in [Members -> 0..Len(chain')]
    BY <1>2, <2>2, <2>3
  <2> QED
    BY <1>1, <1>2, <2>1, <2>2, <2>3, <2>4, WorldFinds
<1>4. ASSUME NEW e \in ControlEvents, Control(e) PROVE FoundInv'
  <2>1. e \in Events /\ chain' = Append(chain, e)
    BY <1>4 DEF Control, Events
  <2>2. Len(chain') = Len(chain) + 1
    BY <1>1, <2>1 DEF ChainInv
  <2>3. heard' = heard /\ expired' = expired
        /\ UNCHANGED <<spends, pending, over, run, requests, answers>>
    BY <1>4 DEF Control
  <2>4. heard' \in [Members -> 0..Len(chain')]
    BY <1>2, <2>2, <2>3
  <2> QED
    BY <1>1, <1>2, <2>1, <2>3, <2>4, WorldFinds
<1>5. ASSUME NEW a \in Approves, Expire(a) PROVE FoundInv'
  BY <1>1, <1>2, <1>5, WorldFinds DEF Expire
<1>6. ASSUME NEW m \in Members, Hear(m) PROVE FoundInv'
  <2>1. PICK n \in (heard[m] + 1)..Len(chain) : heard' = [heard EXCEPT ![m] = n]
    BY <1>6 DEF Hear
  <2>2. n \in 0..Len(chain) /\ heard[m] <= n
    BY <1>2
  <2>3. heard' \in [Members -> 0..Len(chain)] /\ \A k \in Members : heard[k] <= heard'[k]
    BY <1>2, <2>1, <2>2
  <2> QED
    BY <1>1, <1>6, <2>3, WorldFinds DEF Hear
<1>7. ASSUME NEW m \in Members, Crash(m) PROVE FoundInv'
  BY <1>1, <1>7, CrashFinds
<1>8. ASSUME NEW r \in Runs, RunStep(r) PROVE FoundInv'
  <2>1. CASE Begin(r)
    BY <1>1, <2>1, BeginFinds
  <2>2. CASE Gather(r)
    BY <1>1, <2>2, GatherFinds
  <2>3. ASSUME NEW a \in Approves, Ask(r, a) PROVE FoundInv'
    BY <1>1, <2>3, AskFinds
  <2>4. CASE Taken(r)
    BY <1>1, <2>4, TakenFinds
  <2>5. CASE NoLink(r) \/ Refused(r) \/ Granted(r) \/ Denied(r) \/ Lose(r)
    BY <1>1, <2>5, StopFinds
  <2> QED
    BY <1>8, <2>1, <2>2, <2>3, <2>4, <2>5 DEF RunStep
<1>9. CASE Serve
  BY <1>1, <1>9, ServeFinds
<1>10. CASE UNCHANGED vars
  BY <1>1, <1>2, <1>10, WorldFinds DEF vars
<1> QED
  BY <1>1, <1>3, <1>4, <1>5, <1>6, <1>7, <1>8, <1>9, <1>10 DEF Next

LEMMA InitFoundInv == Init => FoundInv
<1>1. SUFFICES ASSUME Init PROVE FoundInv
  OBVIOUS
<1>2. /\ chain = <<>> /\ spends = [a \in Approves |-> NotSpent]
      /\ heard = [m \in Members |-> 0] /\ run = [r \in Runs |-> [at |-> "idle"]]
      /\ requests = {} /\ answers = {}
  BY <1>1 DEF Init
<1>3. \A a \in Approves : spends[a] \notin SpendRow
  <2>1. \A row \in SpendRow : DOMAIN row = {"op", "by"}
    BY DEF SpendRow
  <2>2. DOMAIN NotSpent = {"op"} /\ "by" \notin {"op"} /\ "by" \in {"op", "by"}
    BY DEF NotSpent
  <2> QED
    BY <1>2, <2>1, <2>2
<1>4. \A r \in Runs : ~Live(r) /\ ~Asks(r)
  BY <1>2 DEF Live, Asks
<1>5. heard \in [Members -> 0..Len(chain)]
  BY <1>2
<1> QED
  BY <1>2, <1>3, <1>4, <1>5 DEF FoundInv, MadeUpIsOnDisk, AskedIsKnown, HadIsAhead, NoIsOfAnother

\* In every reachable state what a run's operation had spent before is still ahead of it.
THEOREM FoundInductive == Spec => []FoundInv
BY Inductive, ChainInductive, InitFoundInv, NextFoundInv, PTL DEF Spec

\* A run is refused only when every approve its operation had is expired, or their approver is
\* barred as far as its member has heard.
LEMMA RefusedHasNone ==
    ASSUME FoundInv, NEW r \in Runs, [Next]_vars,
           run[r].at = "asking", run'[r].at = "refused", run \in [Runs -> RunTypes]
    PROVE  \A a \in run[r].had : a \in expired \/ ApproverBarred(Has(By[r]))
<1>1. Live(r) /\ \A a \in run[r].had : a \in run[r].left \/ a \in expired
  BY DEF Live, FoundInv, HadIsAhead
<1>2. Refused(r)
  <2>1. run' # run
    OBVIOUS
  <2>2. ASSUME NEW s \in Runs, RunStep(s) PROVE Refused(r)
    <3>1. s = r
      BY <2>2 DEF RunStep, Begin, NoLink, Gather, Ask, Refused, Granted, Taken, Denied, Lose
    <3>2. CASE Gather(s) \/ Granted(s) \/ Taken(s) \/ Denied(s) \/ Lose(s) \/ Begin(s) \/ NoLink(s)
      BY <3>1, <3>2 DEF Gather, Granted, Taken, Denied, Lose, Begin, NoLink
    <3>3. ASSUME NEW a \in Approves, Ask(s, a) PROVE FALSE
      BY <3>1, <3>3 DEF Ask
    <3> QED
      BY <2>2, <3>1, <3>2, <3>3 DEF RunStep
  <2>3. ASSUME NEW m \in Members, Crash(m) PROVE FALSE
    <3>1. run'[r] = run[r] \/ run'[r] = [at |-> "unreached"]
      BY <2>3 DEF Crash
    <3> QED
      BY <3>1
  <2>4. ~Serve
    BY <2>1 DEF Serve, Record, AnswerAgain, SpentByAnother, Deny, Answer
  <2>5. ~Approve /\ (\A e \in ControlEvents : ~Control(e)) /\ (\A a \in Approves : ~Expire(a))
        /\ (\A m \in Members : ~Hear(m)) /\ ~UNCHANGED vars
    BY <2>1 DEF Approve, Control, Expire, Hear, vars
  <2> QED
    BY <2>2, <2>3, <2>4, <2>5 DEF Next
<1>3. run[r].left = {} \/ ApproverBarred(Has(By[r]))
  BY <1>2 DEF Refused, Askable
<1> QED
  BY <1>1, <1>3

\* "A retry after a crash asks for the same operation and gets the answer that was lost instead
\* of a refusal" (check_approve in local.rs), for any number of runs, members and approves.
THEOREM LostAnswersAreFound == Spec => LostAnswerIsFound
<1>1. FoundInv /\ IInv /\ [Next]_vars =>
        [\A r \in Runs : run[r].at = "asking" /\ run'[r].at = "refused" =>
           \A a \in run[r].had : a \in expired \/ ApproverBarred(Has(By[r]))]_vars
  BY RefusedHasNone DEF IInv, Typed
<1> QED
  BY <1>1, Inductive, FoundInductive, PTL DEF Spec, LostAnswerIsFound
=============================================================================
