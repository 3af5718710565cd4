--------------------------- MODULE SubmissionProofs ---------------------------
(***************************************************************************)
(* From outbox to chain exactly once: for any messages, senders, orphaned  *)
(* requests and retries, however often a message is submitted.             *)
(*                                                                         *)
(* Most steps touch neither the chain nor the member's copy and leave no   *)
(* row that was there; QuietKeeps is about all of those at once.  What is  *)
(* left are the steps that queue, submit, place, store and refuse.         *)
(***************************************************************************)
EXTENDS Submission, TLAPS

Submitted == [msg : Messages, stage : Stages]

\* A message its sender has not queued yet is nowhere: in no flush, request or chain.
NewIsNowhere ==
    \A m \in Messages : call[m] = "new" =>
        /\ row[m] = "none" /\ m \notin todo /\ m \notin Sequenced
        /\ \A r \in orphans \cup {live} : r \in Submitted => r.msg # m

\* The home says yes to what it has placed.
OkIsPlaced == live.stage = "ok" => live.msg \in Sequenced

\* A call that holds the lock waits for its own request.
LockIsDirect ==
    \A m \in Messages : lock = m => call[m] = "direct" /\ live.msg = m /\ live \in Submitted

\* AccountedForOnce, and of a message whose refusal is still on its way to the caller too.
Accounted ==
    \A m \in Messages :
        /\ call[m] \notin {"new", "refused"} => row[m] # "none" \/ m \in Replicated
        /\ row[m] = "none" \/ m \notin Replicated

IInv ==
    /\ TypeOK
    /\ NewIsNowhere
    /\ OkIsPlaced
    /\ LockIsDirect
    /\ PlacedOnce
    /\ Accounted
    /\ DeliveredIsReplicated

-----------------------------------------------------------------------------
(* The operators.                                                          *)

\* What leaves the outbox with a stored copy leaves rows rows.
LEMMA UnqueueTypes ==
    ASSUME TypeOK, NEW gone, Unqueue(gone)
    PROVE  /\ row' \in [Messages -> RowStates] /\ due' \in [Messages -> BOOLEAN]
           /\ odd' \in [Messages -> 0..UnknownMin] /\ aged' \in [Messages -> BOOLEAN]
           /\ lostKey' \subseteq Messages
<1>1. row' \in [Messages -> RowStates]
  BY DEF TypeOK, Unqueue, RowStates
<1>2. due' \in [Messages -> BOOLEAN]
  <2>1. \A m \in Messages : (IF m \in gone THEN FALSE ELSE due[m]) \in BOOLEAN
    BY DEF TypeOK
  <2> QED
    BY <2>1 DEF Unqueue
<1>3. odd' \in [Messages -> 0..UnknownMin]
  BY SubmissionAssumption DEF TypeOK, Unqueue
<1>4. aged' \in [Messages -> BOOLEAN]
  <2>1. \A m \in Messages : (IF m \in gone THEN FALSE ELSE aged[m]) \in BOOLEAN
    BY DEF TypeOK
  <2> QED
    BY <2>1 DEF Unqueue
<1> QED
  BY <1>1, <1>2, <1>3, <1>4 DEF TypeOK, Unqueue

\* A queued row stays a row, and a failed or waiting one too (outbox_wait, outbox_fail).
LEMMA WaitAndFail ==
    ASSUME TypeOK, NEW m \in Messages, Wait(m) \/ Fail(m)
    PROVE  /\ row' \in [Messages -> RowStates] /\ due' \in [Messages -> BOOLEAN]
           /\ odd' \in [Messages -> 0..UnknownMin] /\ aged' \in [Messages -> BOOLEAN]
           /\ \A k \in Messages : row'[k] = "none" <=> row[k] = "none"
<1>1. CASE Queued(m)
  <2>1. odd[m] \in 0..UnknownMin /\ aged[m] \in BOOLEAN /\ 0 \in 0..UnknownMin
    BY SubmissionAssumption DEF TypeOK
  <2>2. PICK s \in {"waiting", "failed"}, count \in 0..UnknownMin, old \in BOOLEAN :
          SetRow(m, s, FALSE, count, old)
    <3>1. CASE Wait(m)
      BY <1>1, <2>1, <3>1, Zenon DEF Wait
    <3>2. CASE Fail(m)
      <4>1. SetRow(m, "failed", FALSE, 0, FALSE)
        BY <1>1, <3>2 DEF Fail
      <4> QED
        BY <2>1, <4>1, Zenon
    <3> QED
      BY <3>1, <3>2
  <2>3. s \in RowStates
    BY DEF RowStates
  <2>4. row[m] # "none"
    BY <1>1 DEF Queued
  <2>6. /\ row' \in [Messages -> RowStates] /\ due' \in [Messages -> BOOLEAN]
        /\ odd' \in [Messages -> 0..UnknownMin] /\ aged' \in [Messages -> BOOLEAN]
        /\ row' = [row EXCEPT ![m] = s]
    BY <2>2, <2>3 DEF SetRow, TypeOK
  <2>7. \A k \in Messages : row'[k] = "none" <=> row[k] = "none"
    BY <2>4, <2>6 DEF TypeOK
  <2> QED
    BY <2>6, <2>7
<1>2. CASE ~Queued(m)
  BY <1>2 DEF Wait, Fail, RowsUnchanged, TypeOK
<1> QED
  BY <1>1, <1>2

\* The copy that came back is stored in its place: the member's copy of the chain grows to
\* hold it, and never shrinks (After).
LEMMA AfterReaches ==
    ASSUME TypeOK, NEW m \in Sequenced
    PROVE  /\ After(m) \in replica..Len(chain)
           /\ \E i \in 1..After(m) : chain[i] = m
<1> DEFINE seq == CHOOSE i \in DOMAIN chain : chain[i] = m
<1>1. Len(chain) \in Nat /\ DOMAIN chain = 1..Len(chain) /\ replica \in 0..Len(chain)
  BY DEF TypeOK
<1>2. seq \in 1..Len(chain) /\ chain[seq] = m
  BY <1>1 DEF Sequenced, Range
<1>3. After(m) = IF seq <= replica THEN replica
                 ELSE IF seq = replica + 1 THEN seq ELSE Len(chain)
  BY DEF After
<1> HIDE DEF seq
<1>4. After(m) \in replica..Len(chain) /\ seq \in 1..After(m)
  BY <1>1, <1>2, <1>3
<1> QED
  BY <1>2, <1>4

-----------------------------------------------------------------------------
(* Steps that neither place nor store nor remove anything.                 *)

LEMMA QuietKeeps ==
    ASSUME IInv, TypeOK', UNCHANGED <<chain, replica>>,
           \A m \in todo' : m \in todo \/ row[m] # "none",
           orphans' \subseteq orphans \cup {live}, live' \in {live, NoRequest},
           \A m \in Messages : row'[m] = "none" <=> row[m] = "none",
           \A m \in Messages :
              \/ call'[m] = call[m]
              \/ call[m] \notin {"new", "refused"} /\ call'[m] \in {"left", "refusing"},
           \/ lock' \in {NoOne, Flush}
           \/ lock' = lock /\ live' = live /\ \A m \in Messages : lock = m => call'[m] = call[m]
    PROVE  IInv'
<1>1. NoRequest \notin Submitted /\ NoRequest.stage # "ok"
  BY DEF NoRequest, Submitted, Stages, Answers
<1>2. Sequenced' = Sequenced /\ Replicated' = Replicated
  BY DEF Sequenced, Replicated, Range
<1>3. NewIsNowhere'
  <2>1. SUFFICES ASSUME NEW m \in Messages, call'[m] = "new"
                 PROVE  /\ row'[m] = "none" /\ m \notin todo' /\ m \notin Sequenced
                        /\ \A r \in orphans' \cup {live'} : r \in Submitted => r.msg # m
    BY <1>2 DEF NewIsNowhere, Submitted
  <2>2. call[m] = "new" /\ row[m] = "none"
    BY <2>1 DEF IInv, NewIsNowhere
  <2> QED
    BY <1>1, <2>2 DEF IInv, NewIsNowhere
<1>4. OkIsPlaced'
  BY <1>1, <1>2 DEF IInv, OkIsPlaced
<1>5. LockIsDirect'
  BY SubmissionAssumption DEF IInv, LockIsDirect, Submitted
<1>6. Accounted'
  BY <1>2 DEF IInv, Accounted
<1>7. DeliveredIsReplicated'
  BY <1>2 DEF IInv, DeliveredIsReplicated
<1>8. PlacedOnce'
  BY DEF IInv, PlacedOnce
<1> QED
  BY <1>3, <1>4, <1>5, <1>6, <1>7, <1>8 DEF IInv

\* Nobody waits for the request any more: at most it is one more orphan (Abandon).
LEMMA AbandonTypes ==
    ASSUME TypeOK, Abandon
    PROVE  /\ orphans' \subseteq [msg : Messages, stage : {"sent", "cleared"}]
           /\ orphans' \subseteq orphans \cup {live}
BY DEF TypeOK, Abandon, NoRequest, Stages, Answers

\* A call that gives up, is put off or hears a no leaves its message where it is.
LEMMA CallEndsKeep ==
    ASSUME IInv, NEW m \in Messages, StopWaiting(m) \/ DirectRefused(m) \/ DirectFails(m)
    PROVE  IInv'
<1>1. /\ UNCHANGED <<row, due, odd, aged, lostKey, todo, held, replica, link, chain, retries>>
      /\ call' \in {[call EXCEPT ![m] = "left"], [call EXCEPT ![m] = "refusing"]}
      /\ \/ lock' = NoOne /\ live' = NoRequest
         \/ call[m] = "queued" /\ UNCHANGED <<lock, live>>
      /\ orphans' = orphans \/ Abandon
  BY DEF StopWaiting, DirectRefused, DirectFails
<1>2. call[m] \in {"queued", "direct"}
  BY DEF StopWaiting, DirectRefused, DirectFails, IInv, LockIsDirect
<1>3. /\ orphans' \subseteq [msg : Messages, stage : {"sent", "cleared"}]
      /\ orphans' \subseteq orphans \cup {live}
  BY <1>1, AbandonTypes DEF IInv, TypeOK
<1>4. TypeOK'
  BY <1>1, <1>3 DEF IInv, TypeOK, CallStates
<1>5. \A k \in Messages :
         \/ call'[k] = call[k]
         \/ call[k] \notin {"new", "refused"} /\ call'[k] \in {"left", "refusing"}
  BY <1>1, <1>2 DEF IInv, TypeOK
<1>6. \/ lock' \in {NoOne, Flush}
      \/ lock' = lock /\ live' = live /\ \A k \in Messages : lock = k => call'[k] = call[k]
  BY <1>1 DEF IInv, TypeOK, LockIsDirect
<1> QED
  BY <1>1, <1>3, <1>4, <1>5, <1>6, QuietKeeps

\* Where the flush is, and where it goes after an entry that stays where it is.
LEMMA FlushGoesOn ==
    ASSUME IInv, UNCHANGED <<call, replica, chain>>,
           row' \in [Messages -> RowStates], due' \in [Messages -> BOOLEAN],
           odd' \in [Messages -> 0..UnknownMin], aged' \in [Messages -> BOOLEAN],
           \A k \in Messages : row'[k] = "none" <=> row[k] = "none",
           lostKey' \subseteq Messages, link' \in BOOLEAN, retries' \in 0..MaxRetries,
           \/ lock' = lock /\ live' = live
           \/ lock' \in {NoOne, Flush} /\ live' \in {NoRequest, live},
           todo' \subseteq Messages, \A k \in todo' : k \in todo \/ row[k] # "none",
           held' \subseteq Messages,
           orphans' \subseteq [msg : Messages, stage : {"sent", "cleared"}],
           orphans' \subseteq orphans \cup {live}
    PROVE  IInv'
<1>1. TypeOK'
  BY DEF IInv, TypeOK
<1>2. \A m \in Messages : call'[m] = call[m]
  OBVIOUS
<1> QED
  BY <1>1, <1>2, QuietKeeps

RowsTyped ==
    /\ row' \in [Messages -> RowStates] /\ due' \in [Messages -> BOOLEAN]
    /\ odd' \in [Messages -> 0..UnknownMin] /\ aged' \in [Messages -> BOOLEAN]
RowsStay == \A k \in Messages : row'[k] = "none" <=> row[k] = "none"

\* A row that is there and is put in another state is still there.
LEMMA RowStays ==
    ASSUME TypeOK, NEW m \in Messages, row[m] # "none",
           NEW s \in RowStates \ {"none"}, NEW count \in 0..UnknownMin,
           row' = [row EXCEPT ![m] = s], odd' = [odd EXCEPT ![m] = count],
           due' \in {[due EXCEPT ![m] = FALSE], [due EXCEPT ![m] = TRUE]},
           aged' \in {[aged EXCEPT ![m] = FALSE], aged}
    PROVE  RowsTyped /\ RowsStay
<1>1. row' \in [Messages -> RowStates] /\ odd' \in [Messages -> 0..UnknownMin] /\ RowsStay
  BY DEF TypeOK, RowsStay
<1>2. due' \in [Messages -> BOOLEAN] /\ aged' \in [Messages -> BOOLEAN]
  BY DEF TypeOK
<1> QED
  BY <1>1, <1>2 DEF RowsTyped

\* The flush passes over an entry, or its answer puts it off, sets it aside or fails it: the row
\* is still a row.
LEMMA FlushKeeps ==
    ASSUME IInv, NEW m \in Messages,
           \/ SkipLane(m) \/ SetAsideUnreadable(m) \/ FlushPaused(m) \/ FlushBusy(m)
           \/ FlushRefused(m) \/ FlushUnknown(m) \/ FlushFails(m) \/ FlushCannotStore(m)
    PROVE  IInv'
<1> USE SubmissionAssumption DEF IInv
<1>1. lock = Flush /\ todo \subseteq Messages /\ held \subseteq Messages /\ TypeOK
  BY DEF SkipLane, SetAsideUnreadable, FlushPaused, FlushBusy, FlushRefused, FlushUnknown,
     FlushFails, FlushCannotStore, Ready, Answered, At, TypeOK
<1>2. SkipLane(m) => RowsTyped /\ RowsStay
  BY DEF SkipLane, TypeOK, RowsTyped, RowsStay
<1>3. SetAsideUnreadable(m) => RowsTyped /\ RowsStay
  <2>1. CASE Queued(m)
    <3>1. row[m] # "none" /\ "quarantined" \in RowStates \ {"none"} /\ 0 \in 0..UnknownMin
      BY <2>1 DEF Queued, RowStates
    <3>2. SetAsideUnreadable(m) => SetRow(m, "quarantined", FALSE, 0, FALSE)
      BY <2>1 DEF SetAsideUnreadable
    <3> QED
      BY <3>1, <3>2, <1>1, RowStays DEF SetRow
  <2>2. CASE ~Queued(m)
    BY <2>2 DEF SetAsideUnreadable, RowsUnchanged, TypeOK, RowsTyped, RowsStay
  <2> QED
    BY <2>1, <2>2
<1>4. FlushPaused(m) \/ FlushBusy(m) \/ FlushRefused(m) \/ FlushFails(m) \/ FlushCannotStore(m)
        => RowsTyped /\ RowsStay
  BY <1>1, WaitAndFail
     DEF FlushPaused, FlushBusy, FlushRefused, FlushFails, FlushCannotStore, RowsTyped, RowsStay
<1>5. FlushUnknown(m) => RowsTyped /\ RowsStay
  <2> DEFINE count == IF odd[m] < UnknownMin THEN odd[m] + 1 ELSE odd[m]
  <2>1. count \in 0..UnknownMin
    BY DEF TypeOK
  <2>2. FlushUnknown(m) =>
          \/ Queued(m) /\ SetRow(m, "quarantined", FALSE, 0, FALSE)
          \/ Queued(m) /\ SetRow(m, "waiting", FALSE, count, aged[m])
          \/ RowsUnchanged
    BY DEF FlushUnknown
  <2> HIDE DEF count
  <2>3. {"quarantined", "waiting"} \subseteq RowStates \ {"none"} /\ 0 \in 0..UnknownMin
    BY DEF RowStates
  <2>4. CASE Queued(m) /\ SetRow(m, "quarantined", FALSE, 0, FALSE)
    BY <2>3, <2>4, <1>1, RowStays DEF SetRow, Queued
  <2>5. CASE Queued(m) /\ SetRow(m, "waiting", FALSE, count, aged[m])
    <3>1. aged' = aged
      BY <2>5 DEF SetRow, TypeOK
    <3> QED
      BY <2>1, <2>3, <2>5, <3>1, <1>1, RowStays DEF SetRow, Queued
  <2>6. RowsUnchanged => RowsTyped /\ RowsStay
    BY DEF RowsUnchanged, TypeOK, RowsTyped, RowsStay
  <2> QED
    BY <2>2, <2>4, <2>5, <2>6
<1>6. orphans' = orphans \/ Abandon
  BY DEF SkipLane, SetAsideUnreadable, FlushPaused, FlushBusy, FlushRefused, FlushUnknown,
     FlushFails, FlushCannotStore
<1>7. /\ orphans' \subseteq [msg : Messages, stage : {"sent", "cleared"}]
      /\ orphans' \subseteq orphans \cup {live}
  BY <1>6, AbandonTypes DEF TypeOK
<1>8. /\ UNCHANGED <<call, replica, chain, retries, lostKey>>
      /\ link' \in {link, FALSE} /\ lock' \in {lock, NoOne} /\ live' \in {NoRequest, live}
      /\ todo' \subseteq todo /\ held' \in {held, {}}
  BY DEF SkipLane, SetAsideUnreadable, FlushPaused, FlushBusy, FlushRefused, FlushUnknown,
     FlushFails, FlushCannotStore, Answered, BreakLane, NextEntry
<1>9. RowsTyped /\ RowsStay
  BY <1>2, <1>3, <1>4, <1>5
<1> QED
  BY <1>1, <1>7, <1>8, <1>9, FlushGoesOn DEF TypeOK, RowsTyped, RowsStay

\* So do the beginning and the end of a flush, links and time, and what a person does with a row
\* that was set aside.
LEMMA RestKeeps ==
    ASSUME IInv,
           \/ StartFlush \/ EndFlush \/ Connect \/ Disconnect
           \/ \E r \in AtHome : LoseRequest(r)
           \/ \E m \in Messages : TimePasses(m) \/ HourPasses(m) \/ Retry(m) \/ Drop(m)
    PROVE  IInv'
<1> USE SubmissionAssumption DEF IInv
<1>1. StartFlush \/ EndFlush \/ Connect \/ Disconnect \/ (\E r \in AtHome : LoseRequest(r))
        => RowsTyped /\ RowsStay /\ UNCHANGED retries
  BY DEF StartFlush, EndFlush, Connect, Disconnect, LoseRequest, member, TypeOK, RowsTyped, RowsStay
<1>2. ASSUME NEW m \in Messages, TimePasses(m) \/ HourPasses(m) \/ Retry(m) \/ Drop(m)
      PROVE  RowsTyped /\ RowsStay /\ retries' \in 0..MaxRetries
  <2>1. {"pending", "dropped"} \subseteq RowStates \ {"none"} /\ 0 \in 0..UnknownMin
    BY DEF RowStates
  <2>2. CASE TimePasses(m) \/ HourPasses(m)
    <3>1. /\ row' = row /\ odd' = odd /\ retries' = retries
          /\ due' \in {due, [due EXCEPT ![m] = TRUE]} /\ aged' \in {aged, [aged EXCEPT ![m] = TRUE]}
      BY <2>2 DEF TimePasses, HourPasses
    <3>2. due' \in [Messages -> BOOLEAN] /\ aged' \in [Messages -> BOOLEAN]
      BY <3>1 DEF TypeOK
    <3> QED
      BY <3>1, <3>2 DEF TypeOK, RowsTyped, RowsStay
  <2>3. CASE Retry(m)
    <3>1. retries' \in 0..MaxRetries
      BY <2>3 DEF Retry, TypeOK
    <3>2. row[m] # "none" /\ SetRow(m, "pending", TRUE, 0, FALSE)
      BY <2>3 DEF Retry, BackInLane
    <3> QED
      BY <2>1, <3>1, <3>2, RowStays DEF SetRow
  <2>4. CASE Drop(m)
    <3>1. retries' \in 0..MaxRetries
      BY <2>4 DEF Drop, TypeOK
    <3>2. row[m] # "none" /\ SetRow(m, "dropped", FALSE, 0, FALSE)
      BY <2>4 DEF Drop, Wiped
    <3> QED
      BY <2>1, <3>1, <3>2, RowStays DEF SetRow
  <2> QED
    BY <1>2, <2>2, <2>3, <2>4
<1>3. /\ UNCHANGED <<call, replica, chain, lostKey, live>>
      /\ link' \in BOOLEAN /\ lock' \in {lock, NoOne, Flush} /\ orphans' \subseteq orphans
      /\ todo' \in {todo, {m \in Messages : Queued(m)}}
      /\ held' \in {held, {}, {m \in Messages : row[m] = "waiting" /\ ~due[m]}}
  BY DEF StartFlush, EndFlush, Connect, Disconnect, LoseRequest, TimePasses, HourPasses, Retry,
     Drop, member, TypeOK
<1>4. \A k \in todo' : k \in todo \/ row[k] # "none"
  BY <1>3 DEF Queued
<1>5. RowsTyped /\ RowsStay /\ retries' \in 0..MaxRetries
  BY <1>1, <1>2 DEF TypeOK
<1> QED
  BY <1>3, <1>4, <1>5, FlushGoesOn DEF TypeOK, RowsTyped, RowsStay

\* A crash leaves the outbox and the stored copy as they are.
LEMMA CrashKeeps ==
    ASSUME IInv, Crash
    PROVE  IInv'
<1>1. /\ UNCHANGED <<row, due, odd, aged, replica, chain, retries>>
      /\ link' = FALSE /\ lock' = NoOne /\ live' = NoRequest /\ todo' = {} /\ held' = {}
      /\ lostKey' \subseteq Messages
  BY DEF Crash, IInv, TypeOK
<1>2. /\ orphans' \subseteq [msg : Messages, stage : {"sent", "cleared"}]
      /\ orphans' \subseteq orphans \cup {live}
  BY AbandonTypes DEF Crash, IInv
<1>3. /\ call' \in [Messages -> CallStates]
      /\ \A m \in Messages :
            \/ call'[m] = call[m]
            \/ call[m] \notin {"new", "refused"} /\ call'[m] = "left"
  BY DEF Crash, IInv, TypeOK, CallStates
<1>4. TypeOK'
  BY <1>1, <1>2, <1>3 DEF IInv, TypeOK
<1> QED
  BY <1>1, <1>2, <1>3, <1>4, QuietKeeps

-----------------------------------------------------------------------------
(* Queueing, submitting and refusing.                                      *)

\* `send` puts a message that is nowhere yet into the outbox.
LEMMA SendKeeps ==
    ASSUME IInv, NEW m \in Messages, Send(m)
    PROVE  IInv'
<1>1. /\ call[m] = "new" /\ row' = [row EXCEPT ![m] = "pending"]
      /\ due' = [due EXCEPT ![m] = TRUE] /\ odd' = [odd EXCEPT ![m] = 0]
      /\ aged' = [aged EXCEPT ![m] = FALSE]
      /\ call' = [call EXCEPT ![m] = "queued"]
      /\ UNCHANGED <<lostKey, lock, todo, held, replica, link, live, orphans, chain, retries>>
  BY DEF Send, SetRow
<1>2. row' \in [Messages -> RowStates] /\ call' \in [Messages -> CallStates]
  BY <1>1 DEF IInv, TypeOK, RowStates, CallStates
<1>3. odd' \in [Messages -> 0..UnknownMin]
  BY <1>1, SubmissionAssumption DEF IInv, TypeOK
<1>4. due' \in [Messages -> BOOLEAN] /\ aged' \in [Messages -> BOOLEAN]
  BY <1>1 DEF IInv, TypeOK
<1>5. TypeOK'
  BY <1>1, <1>2, <1>3, <1>4 DEF IInv, TypeOK
<1>6. m \notin Replicated /\ Sequenced' = Sequenced /\ Replicated' = Replicated
  BY <1>1 DEF IInv, TypeOK, NewIsNowhere, Sequenced, Replicated, Range
<1>7. NewIsNowhere' /\ LockIsDirect'
  BY <1>1, <1>6 DEF IInv, TypeOK, NewIsNowhere, LockIsDirect, Submitted
<1>8. Accounted' /\ DeliveredIsReplicated'
  BY <1>1, <1>6 DEF IInv, TypeOK, Accounted, DeliveredIsReplicated
<1> QED
  BY <1>1, <1>5, <1>6, <1>7, <1>8 DEF IInv, OkIsPlaced, PlacedOnce

\* What is refused at once was never queued; what is refused by the home leaves the outbox only
\* while its caller hears of it (outbox_remove).
LEMMA RefusalsKeep ==
    ASSUME IInv, NEW m \in Messages, RefuseOffline(m) \/ Remove(m)
    PROVE  IInv'
<1>1. /\ call[m] \in {"new", "refusing"} /\ call' = [call EXCEPT ![m] = "refused"]
      /\ UNCHANGED <<lock, todo, held, replica, link, live, orphans, chain, retries>>
  BY DEF RefuseOffline, Remove
<1>2. \/ /\ row' = [row EXCEPT ![m] = "none"] /\ due' = [due EXCEPT ![m] = FALSE]
         /\ odd' = [odd EXCEPT ![m] = 0] /\ aged' = [aged EXCEPT ![m] = FALSE]
         /\ lostKey' = lostKey \ {m} /\ call[m] = "refusing" /\ row[m] # "none"
      \/ UNCHANGED <<row, due, odd, aged, lostKey>>
  BY DEF RefuseOffline, Remove, RowsUnchanged, SetRow, Queued
<1>3. row' \in [Messages -> RowStates] /\ call' \in [Messages -> CallStates]
  BY <1>1, <1>2 DEF IInv, TypeOK, RowStates, CallStates
<1>4. odd' \in [Messages -> 0..UnknownMin] /\ lostKey' \subseteq Messages
  <2>1. 0 \in 0..UnknownMin
    BY SubmissionAssumption
  <2>2. odd' \in {odd, [odd EXCEPT ![m] = 0]} /\ lostKey' \subseteq lostKey
    BY <1>2
  <2> QED
    BY <2>1, <2>2 DEF IInv, TypeOK
<1>5. due' \in [Messages -> BOOLEAN] /\ aged' \in [Messages -> BOOLEAN]
  BY <1>2 DEF IInv, TypeOK
<1>6. TypeOK'
  BY <1>1, <1>3, <1>4, <1>5 DEF IInv, TypeOK
<1>7. Sequenced' = Sequenced /\ Replicated' = Replicated
  BY <1>1 DEF Sequenced, Replicated, Range
<1>8. NewIsNowhere' /\ LockIsDirect'
  BY <1>1, <1>2, <1>7 DEF IInv, TypeOK, NewIsNowhere, LockIsDirect, Submitted
<1>9. Accounted' /\ DeliveredIsReplicated'
  BY <1>1, <1>2, <1>7 DEF IInv, TypeOK, Accounted, DeliveredIsReplicated
<1> QED
  BY <1>1, <1>6, <1>7, <1>8, <1>9 DEF IInv, OkIsPlaced, PlacedOnce

\* The flush or a call submits a message that is queued.
LEMMA SubmitKeeps ==
    ASSUME IInv, NEW m \in Messages, Submit(m) \/ Direct(m)
    PROVE  IInv'
<1> DEFINE r == [msg |-> m, stage |-> "sent"]
<1>1. /\ UNCHANGED <<row, due, odd, aged, lostKey, todo, held, replica, link, orphans, chain, retries>>
      /\ \/ m \in todo /\ lock = Flush /\ live' = r /\ UNCHANGED <<call, lock>>
         \/ /\ call[m] = "queued" /\ call' = [call EXCEPT ![m] = "delivered"] /\ m \in Replicated
            /\ lock = NoOne /\ UNCHANGED <<lock, live>>
         \/ /\ call[m] = "queued" /\ call' = [call EXCEPT ![m] = "direct"]
            /\ lock' = m /\ live' = r
  BY DEF Submit, Direct, Ready, At
<1>2. r \in Submitted /\ r.msg = m /\ r.stage = "sent" /\ call[m] # "new"
  BY <1>1 DEF IInv, NewIsNowhere, Submitted, Stages
<1> HIDE DEF r
<1>3. TypeOK'
  BY <1>1, <1>2 DEF IInv, TypeOK, CallStates, Submitted
<1>4. Sequenced' = Sequenced /\ Replicated' = Replicated
  BY <1>1 DEF Sequenced, Replicated, Range
<1>5. \A k \in Messages : call'[k] = "new" => call[k] = "new" /\ k # m
  BY <1>1, <1>2 DEF IInv, TypeOK
<1>6. NewIsNowhere'
  BY <1>1, <1>2, <1>4, <1>5 DEF IInv, NewIsNowhere, Submitted
<1>7. LockIsDirect'
  <2>1. SUFFICES ASSUME NEW k \in Messages, lock' = k
                 PROVE  call'[k] = "direct" /\ live'.msg = k /\ live' \in Submitted
    BY DEF LockIsDirect, Submitted
  <2>2. CASE lock' = m /\ live' = r /\ call' = [call EXCEPT ![m] = "direct"]
    BY <1>2, <2>1, <2>2 DEF IInv, TypeOK
  <2> QED
    BY <1>1, <2>1, <2>2, SubmissionAssumption
<1>8. Accounted' /\ DeliveredIsReplicated'
  BY <1>1, <1>4 DEF IInv, TypeOK, Accounted, DeliveredIsReplicated
<1>9. OkIsPlaced'
  BY <1>1, <1>2, <1>4 DEF IInv, OkIsPlaced
<1> QED
  BY <1>1, <1>3, <1>6, <1>7, <1>8, <1>9 DEF IInv, PlacedOnce

-----------------------------------------------------------------------------
(* Storing, checking and placing.                                          *)

\* The member stores the chain up to n, and what it stores leaves the outbox (append).
LEMMA StoreKeeps ==
    ASSUME IInv, NEW n \in replica..Len(chain), Store(n),
           UNCHANGED <<chain, orphans, retries, link>>,
           \/ UNCHANGED <<lock, live>>
           \/ lock' \in {NoOne, Flush} /\ live' = NoRequest,
           todo' \subseteq todo, held' \subseteq held, call' \in [Messages -> CallStates],
           \A m \in Messages : call'[m] = "direct" => call[m] = "direct",
           \A m \in Messages : lock' = m => call'[m] = call[m],
           \A m \in Messages :
              \/ call'[m] = call[m]
              \/ call[m] = "direct" /\ call'[m] = "delivered" /\ \E i \in 1..n : chain[i] = m
    PROVE  IInv'
<1>1. replica' = n /\ Unqueue({chain[i] : i \in 1..n}) /\ n \in 0..Len(chain) /\ replica <= n
  BY DEF Store, IInv, TypeOK
<1>2. TypeOK'
  <2>1. /\ row' \in [Messages -> RowStates] /\ due' \in [Messages -> BOOLEAN]
        /\ odd' \in [Messages -> 0..UnknownMin] /\ aged' \in [Messages -> BOOLEAN]
        /\ lostKey' \subseteq Messages
    BY <1>1, UnqueueTypes DEF IInv
  <2> QED
    BY <1>1, <2>1 DEF IInv, TypeOK
<1>3. Sequenced' = Sequenced /\ Replicated' = {chain[i] : i \in 1..n} /\ Replicated \subseteq Replicated'
  BY <1>1 DEF Sequenced, Replicated, Range, IInv, TypeOK
<1>4. \A m \in Messages : row'[m] = IF m \in Replicated' THEN "none" ELSE row[m]
  BY <1>1, <1>3 DEF Unqueue
<1>5. NoRequest \notin Submitted /\ NoRequest.stage # "ok"
  BY DEF NoRequest, Submitted, Stages, Answers
<1>6. NewIsNowhere'
  <2>1. \A m \in Messages : call'[m] = "new" => call[m] = "new"
    OBVIOUS
  <2> QED
    BY <1>3, <1>4, <1>5, <2>1 DEF IInv, NewIsNowhere, Submitted
<1>7. OkIsPlaced'
  BY <1>3, <1>5 DEF IInv, OkIsPlaced
<1>8. LockIsDirect'
  BY SubmissionAssumption DEF IInv, LockIsDirect, Submitted
<1>9. Accounted' /\ DeliveredIsReplicated'
  BY <1>3, <1>4 DEF IInv, Accounted, DeliveredIsReplicated
<1> QED
  BY <1>2, <1>6, <1>7, <1>8, <1>9 DEF IInv, PlacedOnce

\* The answer brings the stored copy, to a call or to the flush.
LEMMA SequencedKeep ==
    ASSUME IInv, NEW m \in Messages, DirectSequenced(m) \/ FlushSequenced(m)
    PROVE  IInv'
<1>1. live.stage = "ok" /\ live.msg = m /\ Store(After(m))
      /\ UNCHANGED <<chain, orphans, retries, link>> /\ live' = NoRequest
      /\ todo' \subseteq todo /\ held' = held
  BY DEF DirectSequenced, FlushSequenced, Answered, NextEntry, IInv, LockIsDirect
<1>2. m \in Sequenced
  BY <1>1 DEF IInv, OkIsPlaced
<1>3. After(m) \in replica..Len(chain) /\ \E i \in 1..After(m) : chain[i] = m
  BY <1>2, AfterReaches DEF IInv
<1>4. \/ lock' = NoOne /\ call' = [call EXCEPT ![m] = "delivered"] /\ call[m] = "direct"
      \/ lock' = Flush /\ call' = call
  BY DEF DirectSequenced, FlushSequenced, Answered, At, IInv, LockIsDirect
<1>5. call' \in [Messages -> CallStates]
  BY <1>4 DEF IInv, TypeOK, CallStates
<1>6. \A k \in Messages : /\ call'[k] = "direct" => call[k] = "direct"
                          /\ lock' # k
  BY <1>4, SubmissionAssumption DEF IInv, TypeOK
<1>7. \A k \in Messages :
         \/ call'[k] = call[k]
         \/ call[k] = "direct" /\ call'[k] = "delivered" /\ \E i \in 1..After(m) : chain[i] = k
  BY <1>3, <1>4 DEF IInv, TypeOK
<1>8. lock' \in {NoOne, Flush}
  BY <1>4
<1> QED
  BY <1>1, <1>3, <1>5, <1>6, <1>7, <1>8, StoreKeeps

\* A push or a sync brings what the member lacks.
LEMMA ReceiveKeeps ==
    ASSUME IInv, NEW n \in 1..Len(chain), Receive(n)
    PROVE  IInv'
<1>1. n \in replica..Len(chain) /\ Store(n)
      /\ UNCHANGED <<call, lock, todo, held, link, live, orphans, chain, retries>>
  BY DEF Receive, IInv, TypeOK
<1> QED
  BY <1>1, StoreKeeps DEF IInv, TypeOK

\* What a step of the home does to the requests under way: one of them moves on, with the message
\* it carries, and says ok only of what is in the chain.
LEMMA AdvanceKeeps ==
    ASSUME IInv, NEW r \in AtHome, NEW v \in Stages, Advance(r, v),
           v = "ok" => r.msg \in Sequenced', Sequenced \subseteq Sequenced',
           Sequenced' \subseteq Sequenced \cup {r.msg},
           UNCHANGED <<member, link, retries>>
    PROVE  /\ r \in Submitted
           /\ live' \in Submitted \cup {NoRequest}
           /\ orphans' \subseteq [msg : Messages, stage : {"sent", "cleared"}]
           /\ NewIsNowhere' /\ OkIsPlaced' /\ LockIsDirect'
<1>1. NoRequest.stage = "none" /\ NoRequest \notin Submitted
  BY DEF NoRequest, Submitted, Stages, Answers
<1>2. r \in Submitted
  BY <1>1 DEF AtHome, IInv, TypeOK, Submitted, Stages
<1>3. /\ \/ r = live /\ live' = [live EXCEPT !.stage = v] /\ orphans' = orphans
         \/ /\ r \in orphans /\ live' = live
            /\ orphans' = (orphans \ {r}) \cup
                            (IF v = "cleared" THEN {[r EXCEPT !.stage = v]} ELSE {})
  BY DEF Advance
<1>4. /\ live' \in Submitted \cup {NoRequest}
      /\ orphans' \subseteq [msg : Messages, stage : {"sent", "cleared"}]
  BY <1>2, <1>3 DEF IInv, TypeOK, Submitted
<1>5. \A q \in orphans' \cup {live'} : q \in Submitted =>
         \E p \in orphans \cup {live} : p \in Submitted /\ p.msg = q.msg
  BY <1>2, <1>3 DEF Submitted
<1>6. NewIsNowhere'
  <2>1. UNCHANGED <<row, todo, call>> /\ (\A m \in Messages : call[m] = "new" => r.msg # m)
    BY <1>2 DEF member, IInv, NewIsNowhere, AtHome
  <2>2. SUFFICES ASSUME NEW m \in Messages, call[m] = "new"
                 PROVE  /\ m \notin Sequenced'
                        /\ \A q \in orphans' \cup {live'} : q \in Submitted => q.msg # m
    BY <2>1 DEF IInv, NewIsNowhere, Submitted
  <2> QED
    BY <1>5, <2>1, <2>2 DEF IInv, NewIsNowhere
<1>7. OkIsPlaced'
  BY <1>2, <1>3 DEF IInv, OkIsPlaced, Submitted
<1>8. LockIsDirect'
  BY <1>2, <1>3 DEF IInv, LockIsDirect, Submitted, member
<1> QED
  BY <1>2, <1>4, <1>6, <1>7, <1>8

\* The checks change nothing but where the request is.
LEMMA CheckKeeps ==
    ASSUME IInv, NEW r \in AtHome, NEW v \in Stages, Check(r, v)
    PROVE  IInv'
<1>1. UNCHANGED <<member, link, chain, retries>> /\ Advance(r, v)
      /\ (v = "ok" => r.msg \in Sequenced)
  BY DEF Check, Verdicts
<1>2. Sequenced' = Sequenced /\ Replicated' = Replicated
  BY <1>1 DEF Sequenced, Replicated, Range, member
<1>3. /\ live' \in Submitted \cup {NoRequest}
      /\ orphans' \subseteq [msg : Messages, stage : {"sent", "cleared"}]
      /\ NewIsNowhere' /\ OkIsPlaced' /\ LockIsDirect'
  BY <1>1, <1>2, AdvanceKeeps
<1>4. TypeOK'
  BY <1>1, <1>3 DEF IInv, TypeOK, member, Submitted
<1> QED
  BY <1>1, <1>2, <1>3, <1>4 DEF IInv, PlacedOnce, Accounted, DeliveredIsReplicated, member

\* sequence_and_append looks once more, in the transaction that gives the place.
LEMMA PlaceKeeps ==
    ASSUME IInv, NEW r \in AtHome, Place(r)
    PROVE  IInv'
<1>1. UNCHANGED <<member, link, retries>> /\ Advance(r, "ok") /\ "ok" \in Stages
      /\ chain' = IF r.msg \in Sequenced THEN chain ELSE Append(chain, r.msg)
  BY DEF Place, Stages, Answers
<1>2. r \in Submitted /\ r.msg \in Messages
  BY DEF AtHome, IInv, TypeOK, Submitted, Stages, NoRequest
<1>3. /\ chain' \in Seq(Messages) /\ Len(chain) <= Len(chain')
      /\ \A i \in 1..Len(chain) : chain'[i] = chain[i]
      /\ \A i \in 1..Len(chain') :
            \/ i \in 1..Len(chain)
            \/ i = Len(chain) + 1 /\ chain'[i] = r.msg /\ r.msg \notin Sequenced
      /\ r.msg \in Sequenced \/ Len(chain') = Len(chain) + 1
  BY <1>1, <1>2 DEF IInv, TypeOK
<1>4. chain \in Seq(Messages) /\ replica \in 0..Len(chain) /\ replica' = replica
      /\ Sequenced = {chain[i] : i \in 1..Len(chain)}
      /\ Sequenced' = {chain'[i] : i \in 1..Len(chain')}
  <2>1. chain \in Seq(Messages) /\ replica \in 0..Len(chain) /\ replica' = replica
    BY <1>1 DEF IInv, TypeOK, member
  <2>2. DOMAIN chain = 1..Len(chain) /\ DOMAIN chain' = 1..Len(chain') /\ Len(chain) \in Nat
    BY <1>3, <2>1
  <2> QED
    BY <2>1, <2>2 DEF Sequenced, Range
<1>5. Sequenced' = Sequenced \cup {r.msg}
  <2>1. Sequenced \subseteq Sequenced'
    BY <1>3, <1>4
  <2>2. Sequenced' \subseteq Sequenced \cup {r.msg}
    BY <1>3, <1>4
  <2>3. r.msg \in Sequenced'
    BY <1>1, <1>2, <1>3, <1>4, <2>1
  <2> QED
    BY <2>1, <2>2, <2>3
<1>6. Replicated' = Replicated
  <2>1. replica \in 0..Len(chain) /\ Len(chain) \in Nat
    BY <1>4
  <2>2. \A i \in 1..replica : chain'[i] = chain[i]
    BY <1>3, <2>1
  <2> QED
    BY <1>4, <2>2 DEF Replicated
<1>7. /\ live' \in Submitted \cup {NoRequest}
      /\ orphans' \subseteq [msg : Messages, stage : {"sent", "cleared"}]
      /\ NewIsNowhere' /\ OkIsPlaced' /\ LockIsDirect'
  BY <1>1, <1>5, AdvanceKeeps
<1>8. TypeOK'
  <2>1. replica' \in 0..Len(chain') /\ chain' \in Seq(Messages)
    BY <1>3, <1>4
  <2> QED
    BY <1>1, <1>7, <2>1 DEF IInv, TypeOK, member, Submitted
<1>9. PlacedOnce'
  <2>1. SUFFICES ASSUME NEW i \in 1..Len(chain'), NEW j \in 1..Len(chain'),
                        chain'[i] = chain'[j]
                 PROVE  i = j
    <3>1. DOMAIN chain' = 1..Len(chain')
      BY <1>3
    <3> QED
      BY <3>1 DEF PlacedOnce
  <2>2. \A k, l \in 1..Len(chain) : chain[k] = chain[l] => k = l
    <3>1. DOMAIN chain = 1..Len(chain)
      BY <1>4
    <3> QED
      BY <3>1 DEF IInv, PlacedOnce
  <2> QED
    BY <1>3, <1>4, <2>1, <2>2
<1> QED
  BY <1>1, <1>6, <1>7, <1>8, <1>9 DEF IInv, Accounted, DeliveredIsReplicated, member

-----------------------------------------------------------------------------
(* The theorems.                                                           *)

LEMMA InitIInv == Init => IInv
<1> SUFFICES ASSUME Init PROVE IInv
  OBVIOUS
<1> USE SubmissionAssumption DEF Init
<1>1. TypeOK
  <2>1. due \in [Messages -> BOOLEAN] /\ aged \in [Messages -> BOOLEAN] /\ link \in BOOLEAN
    OBVIOUS
  <2> QED
    BY <2>1 DEF TypeOK, RowStates, CallStates
<1>2. Sequenced = {} /\ NoRequest \notin Submitted /\ NoRequest.stage # "ok"
  BY DEF Sequenced, Range, NoRequest, Submitted, Stages, Answers
<1>3. NewIsNowhere /\ OkIsPlaced
  BY <1>2 DEF NewIsNowhere, OkIsPlaced
<1>4. LockIsDirect /\ PlacedOnce
  BY DEF LockIsDirect, PlacedOnce
<1>5. Accounted /\ DeliveredIsReplicated
  BY DEF Accounted, DeliveredIsReplicated, Replicated
<1> QED
  BY <1>1, <1>3, <1>4, <1>5 DEF IInv

LEMMA NextIInv == IInv /\ [Next]_vars => IInv'
<1> SUFFICES ASSUME IInv, [Next]_vars PROVE IInv'
  OBVIOUS
<1>1. ASSUME NEW m \in Messages, CallGoes(m) PROVE IInv'
  BY <1>1, SendKeeps, RefusalsKeep, SubmitKeeps, CallEndsKeep, SequencedKeep DEF CallGoes
<1>2. ASSUME NEW m \in Messages, Flushing(m) PROVE IInv'
  BY <1>2, FlushKeeps, SubmitKeeps, SequencedKeep DEF Flushing
<1>3. ASSUME NEW m \in Messages, TimePasses(m) \/ HourPasses(m) \/ Retry(m) \/ Drop(m) PROVE IInv'
  BY <1>3, RestKeeps
<1>4. CASE StartFlush \/ EndFlush \/ Connect \/ Disconnect
  BY <1>4, RestKeeps
<1>5. ASSUME NEW n \in 1..Len(chain), Receive(n) PROVE IInv'
  BY <1>5, ReceiveKeeps
<1>6. ASSUME NEW r \in AtHome, Home(r) PROVE IInv'
  BY <1>6, CheckKeeps, PlaceKeeps, RestKeeps DEF Home
<1>7. CASE Crash
  BY <1>7, CrashKeeps
<1>8. CASE UNCHANGED vars
  <2>1. UNCHANGED <<row, due, odd, aged, lostKey, call, lock, todo, held, replica, link, live,
                    orphans, chain, retries>>
    BY <1>8 DEF vars, member
  <2>2. TypeOK'
    BY <2>1 DEF IInv, TypeOK
  <2> QED
    BY <2>1, <2>2, QuietKeeps
<1> QED
  BY <1>1, <1>2, <1>3, <1>4, <1>5, <1>6, <1>7, <1>8 DEF Next

\* The inductive invariant holds in every reachable state.
THEOREM Inductive == Spec => []IInv
BY InitIInv, NextIInv, PTL DEF Spec

\* However often a message is submitted, by flushes, calls and requests that outlived theirs, the
\* home gives it one place (sequence_and_append).
THEOREM PlacedOnceAlways == Spec => []PlacedOnce
<1>1. IInv => PlacedOnce
  BY DEF IInv
<1> QED
  BY <1>1, Inductive, PTL

\* No message gets lost between outbox and chain, and none is in both (append, outbox_remove).
THEOREM AccountedAlways == Spec => []AccountedForOnce
<1>1. IInv => AccountedForOnce
  BY DEF IInv, Accounted, AccountedForOnce
<1> QED
  BY <1>1, Inductive, PTL

\* What a caller was told is delivered is in the member's own copy of the chain (send).
THEOREM DeliveredAlways == Spec => []DeliveredIsReplicated
<1>1. IInv => DeliveredIsReplicated
  BY DEF IInv
<1> QED
  BY <1>1, Inductive, PTL
=============================================================================
