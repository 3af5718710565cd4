----------------------------- MODULE FilesProofs -----------------------------
(***************************************************************************)
(* What a row of table files stands for, for any files, uploads and calls  *)
(* at once: bytes are in place (RowsHaveBytes), and as long as the home    *)
(* works on one request at a time they are the file's (KeptFilesAreWhole)  *)
(* and stay with what is unfinished within the room's store (StoreHolds).  *)
(*                                                                         *)
(* They hold because a call carries what it found out from step to step:   *)
(* it has moved bytes into place before it writes the row, those it moves  *)
(* are those it has hashed, and what it adds a piece to was let in whole,  *)
(* unless another call comes between.                                      *)
(*                                                                         *)
(* The store is a sum over a set of any size.  SumIs says of such a sum    *)
(* what the last argument needs, whatever order its members are taken in.  *)
(*                                                                         *)
(* And how long it stays (UnreadFilesStay), for any members, messages and  *)
(* files: what file_fetches holds was fetched, and what a sweep found out  *)
(* about a file stays true until it takes it.                              *)
(***************************************************************************)
EXTENDS Uploads, Keeping, FiniteSetTheorems, WellFoundedInduction, TLAPS

Typed ==
    /\ part \in [Files -> Seq(Nat)] /\ blob \in [Files -> Seq(Nat)]
    /\ row \subseteq Files
    /\ call \in [Calls -> CallTypes] /\ up \in [Uploads -> UpTypes]

\* Whoever is about to write the row has bytes in place.
BytesInv ==
    /\ Typed
    /\ \A c \in Calls : call[c].step = "moved" => blob[File(c)] # <<>>
    /\ RowHasBytes

Working(c) == call[c].step # "idle"

\* One call at a time: what it has hashed is there still, and what it moved is whole.
WholeInv ==
    /\ ~overlapped =>
         /\ \A c, d \in Calls : Working(c) /\ Working(d) => c = d
         /\ \A c \in Calls :
              /\ call[c].step = "hashed" /\ call[c].right => part[File(c)] = Whole(File(c))
              /\ call[c].step = "moved" => blob[File(c)] = Whole(File(c))
    /\ KeptIsWhole

\* Calls do their steps one after the other.
LEMMA Steps ==
    ASSUME Typed, NEW c \in Calls
    PROVE  /\ call[c].step \in {"ask", "put"} => call[c].of \in Uploads
           /\ call[c].step = "append" => call[c].of \in Uploads /\ call[c].offset \in Nat
           /\ call[c].step \in {"hash", "hashed", "moved"} => call[c].of \in Uploads
           /\ Working(c) => File(c) \in Files
           /\ Idle \in CallTypes
BY UploadsAssumption DEF Typed, CallTypes, Working, File, Idle

\* What a call may go on with.
LEMMA StepTypes ==
    ASSUME NEW u \in Uploads, NEW n \in Nat, NEW b \in BOOLEAN
    PROVE  /\ [step |-> "ask", of |-> u] \in CallTypes
           /\ [step |-> "put", of |-> u, offset |-> n] \in CallTypes
           /\ [step |-> "append", of |-> u, offset |-> n] \in CallTypes
           /\ [step |-> "hash", of |-> u] \in CallTypes
           /\ [step |-> "hashed", of |-> u, right |-> b] \in CallTypes
           /\ [step |-> "moved", of |-> u] \in CallTypes
BY DEF CallTypes

-----------------------------------------------------------------------------
(* Bytes are in place.                                                     *)

\* A call has gone on to t, and nothing else has changed that a row stands for.
LEMMA BytesKeep ==
    ASSUME BytesInv, NEW c \in Calls, NEW t \in CallTypes, call' = [call EXCEPT ![c] = t],
           part' \in [Files -> Seq(Nat)], up' \in [Uploads -> UpTypes],
           UNCHANGED <<blob, row>>, t.step # "moved"
    PROVE  BytesInv'
<1>1. Typed'
  BY DEF BytesInv, Typed
<1>2. ASSUME NEW d \in Calls, call'[d].step = "moved" PROVE blob'[FileOf[call'[d].of]] # <<>>
  BY <1>2 DEF BytesInv, Typed, File
<1> QED
  BY <1>1, <1>2 DEF BytesInv, RowHasBytes, File

\* A call has gone on, or has ended, with what it found in the files' pieces.
LEMMA PartsGoOn ==
    ASSUME BytesInv, NEW c \in Calls, UNCHANGED <<blob, row>>, up' \in [Uploads -> UpTypes],
           part' = part \/ \E f \in Files : \E s \in Seq(Nat) : part' = [part EXCEPT ![f] = s],
           \E t \in CallTypes : t.step # "moved" /\ call' = [call EXCEPT ![c] = t]
    PROVE  BytesInv'
<1>1. part' \in [Files -> Seq(Nat)]
  BY DEF BytesInv, Typed
<1> QED
  BY <1>1, BytesKeep

LEMMA IdleType == Idle \in CallTypes /\ Idle.step = "idle"
BY DEF Idle, CallTypes

\* What a call ends with is told to whoever waits for it.
LEMMA AnswerTypes ==
    ASSUME Typed, NEW n \in Nat, NEW why \in {"full", "short", "unfit"}
    PROVE  /\ Queued \in UpTypes /\ There \in UpTypes /\ Told(n) \in UpTypes
           /\ RefusedFor(why) \in UpTypes
           /\ \A c \in Calls : \A answer \in UpTypes : Answer(c, answer) =>
                /\ up' \in [Uploads -> UpTypes] /\ call' = [call EXCEPT ![c] = Idle]
                /\ UNCHANGED overlapped
           /\ \A c : \A step : GoesOn(c, step) =>
                /\ up' \in [Uploads -> UpTypes] /\ call' = [call EXCEPT ![c] = step]
                /\ UNCHANGED overlapped
<1>1. Queued \in UpTypes /\ There \in UpTypes /\ Told(n) \in UpTypes
  BY DEF UpTypes, Queued, There, Told
<1>2. RefusedFor(why) \in UpTypes
  BY DEF UpTypes, RefusedFor
<1>3. up \in [Uploads -> UpTypes]
  BY DEF Typed
<1>4. ASSUME NEW c \in Calls, NEW answer \in UpTypes, Answer(c, answer)
      PROVE  /\ up' \in [Uploads -> UpTypes] /\ call' = [call EXCEPT ![c] = Idle]
             /\ UNCHANGED overlapped
  BY <1>3, <1>4 DEF Answer
<1>5. ASSUME NEW c, NEW step, GoesOn(c, step)
      PROVE  /\ up' \in [Uploads -> UpTypes] /\ call' = [call EXCEPT ![c] = step]
             /\ UNCHANGED overlapped
  BY <1>3, <1>5 DEF GoesOn
<1> QED
  BY <1>1, <1>2, <1>4, <1>5

\* Every other step of a call, as far as its bytes go.
LEMMA ServeParts ==
    ASSUME BytesInv, NEW c \in Calls,
           \/ TurnAway(c) \/ HasIt(c) \/ Tell(c) \/ OutOfStep(c) \/ InStep(c)
           \/ AppendPiece(c) \/ Hash(c) \/ ThrowAway(c) \/ PutOff(c)
    PROVE  /\ UNCHANGED <<blob, row>> /\ up' \in [Uploads -> UpTypes]
           /\ part' = part \/ \E f \in Files : \E s \in Seq(Nat) : part' = [part EXCEPT ![f] = s]
           /\ \E t \in CallTypes : t.step # "moved" /\ call' = [call EXCEPT ![c] = t]
<1>1. Typed
  BY DEF BytesInv
<1>2. ASSUME call' = [call EXCEPT ![c] = Idle]
      PROVE  \E t \in CallTypes : t.step # "moved" /\ call' = [call EXCEPT ![c] = t]
  BY <1>2, IdleType
<1>3. CASE TurnAway(c) \/ HasIt(c) \/ OutOfStep(c) \/ PutOff(c)
  <2>1. /\ UNCHANGED home /\ call' = [call EXCEPT ![c] = Idle]
        /\ up' \in [Uploads -> UpTypes]
    <3>1. CASE OutOfStep(c)
      <4>1. Len(part[File(c)]) \in Nat
        BY <1>1, <3>1, Steps DEF OutOfStep, Typed, Working
      <4> QED
        BY <1>1, <3>1, <4>1, AnswerTypes DEF OutOfStep
    <3>2. CASE PutOff(c)
      BY <1>1, <3>2, AnswerTypes DEF PutOff, Typed
    <3> QED
      BY <1>1, <1>3, <3>1, <3>2, AnswerTypes DEF TurnAway, HasIt
  <2> QED
    BY <1>2, <2>1 DEF home
<1>4. CASE Tell(c)
  <2>1. File(c) \in Files /\ part[File(c)] \in Seq(Nat)
    BY <1>1, <1>4, Steps DEF Tell, Typed, Working
  <2>2. PICK s \in Seq(Nat) : part' = [part EXCEPT ![File(c)] = s]
    <3>1. (IF Len(part[File(c)]) > Size[File(c)] THEN <<>> ELSE part[File(c)]) \in Seq(Nat)
      BY <2>1
    <3> QED
      BY <1>4, <3>1 DEF Tell
  <2>3. PICK n \in Nat : Answer(c, Told(n))
    BY <1>4, <2>1 DEF Tell
  <2> QED
    BY <1>1, <1>2, <1>4, <2>1, <2>2, <2>3, AnswerTypes DEF Tell
<1>5. CASE InStep(c)
  <2>1. call[c].of \in Uploads /\ call[c].offset \in Nat /\ call[c] \in CallTypes
        /\ call[c].step = "put"
    BY <1>1, <1>5 DEF InStep, Typed, CallTypes, Idle
  <2> DEFINE t == [call[c] EXCEPT !.step = "append"]
  <2>2. t = [step |-> "append", of |-> call[c].of, offset |-> call[c].offset]
    BY <2>1 DEF CallTypes, Idle
  <2>3. t \in CallTypes /\ t.step = "append"
    BY <2>1, <2>2, StepTypes
  <2>4. call' = [call EXCEPT ![c] = t] /\ UNCHANGED home /\ up' \in [Uploads -> UpTypes]
    BY <1>1, <1>5 DEF InStep, GoesOn, Typed
  <2> HIDE DEF t
  <2> QED
    BY <2>3, <2>4 DEF home
<1>6. CASE AppendPiece(c)
  <2>1. File(c) \in Files /\ part[File(c)] \in Seq(Nat) /\ call[c].of \in Uploads
        /\ call[c].offset \in Nat
    BY <1>1, <1>6, Steps DEF AppendPiece, Typed, Working
  <2>2. /\ UNCHANGED <<blob, row>>
        /\ part' = [part EXCEPT ![File(c)] = Append(part[File(c)], call[c].offset + 1)]
        /\ \/ call' = [call EXCEPT ![c] = Idle]
           \/ call' = [call EXCEPT ![c] = [step |-> "hash", of |-> call[c].of]]
    BY <1>1, <1>6, <2>1 DEF AppendPiece, Answer, GoesOn, Typed
  <2>3. Append(part[File(c)], call[c].offset + 1) \in Seq(Nat) /\ up' \in [Uploads -> UpTypes]
    BY <1>1, <1>6, <2>1, AnswerTypes DEF AppendPiece
  <2>4. [step |-> "hash", of |-> call[c].of] \in CallTypes
    BY <2>1, StepTypes
  <2> QED
    BY <1>2, <2>1, <2>2, <2>3, <2>4
<1>7. CASE Hash(c)
  <2>1. call[c].of \in Uploads
    BY <1>1, <1>7, Steps DEF Hash
  <2>2. PICK b \in BOOLEAN :
           /\ UNCHANGED home
           /\ \/ call' = [call EXCEPT ![c] = Idle]
              \/ call' = [call EXCEPT ![c] = [step |-> "hashed", of |-> call[c].of, right |-> b]]
    BY <1>7 DEF Hash, Answer, GoesOn
  <2>3. [step |-> "hashed", of |-> call[c].of, right |-> b] \in CallTypes
    BY <2>1, StepTypes
  <2> QED
    BY <1>1, <1>2, <1>7, <2>2, <2>3, AnswerTypes DEF home, Hash
<1>8. CASE ThrowAway(c)
  <2>1. File(c) \in Files
    BY <1>1, <1>8, Steps DEF ThrowAway, Working
  <2>2. part' = [part EXCEPT ![File(c)] = <<>>] /\ UNCHANGED <<blob, row>>
        /\ Answer(c, RefusedFor("unfit"))
    BY <1>8 DEF ThrowAway
  <2>3. <<>> \in Seq(Nat)
    OBVIOUS
  <2> QED
    BY <1>1, <1>2, <2>1, <2>2, <2>3, AnswerTypes
<1> QED
  BY <1>3, <1>4, <1>5, <1>6, <1>7, <1>8

\* The bytes are moved into place, which is when there are some.
LEMMA MoveBytes ==
    ASSUME BytesInv, NEW c \in Calls, Move(c)
    PROVE  BytesInv'
<1>1. Typed /\ File(c) \in Files /\ call[c].of \in Uploads
  BY Steps DEF Move, BytesInv, Working
<1>2. CASE part[File(c)] = <<>>
  <2>1. UNCHANGED home /\ Answer(c, Queued)
    BY <1>2 DEF Move, home
  <2> QED
    BY <1>1, <2>1, AnswerTypes, IdleType, PartsGoOn DEF home
<1>3. CASE part[File(c)] # <<>>
  <2> DEFINE f == File(c)
             t == [step |-> "moved", of |-> call[c].of]
  <2>1. /\ blob' = [blob EXCEPT ![f] = part[f]] /\ part' = [part EXCEPT ![f] = <<>>]
        /\ call' = [call EXCEPT ![c] = t] /\ row' = row /\ up' = up
    BY <1>3 DEF Move, GoesOn
  <2>2. t \in CallTypes /\ FileOf[t.of] = f
    BY <1>1, StepTypes DEF File
  <2>3. part[f] # <<>>
    BY <1>3
  <2> HIDE DEF f, t
  <2>4. Typed'
    BY <1>1, <2>1, <2>2 DEF Typed, f
  <2>5. /\ blob'[f] # <<>> /\ \A g \in Files : blob'[g] = blob[g] \/ blob'[g] # <<>>
        /\ call'[c] = t /\ \A d \in Calls : d # c => call'[d] = call[d]
    BY <1>1, <2>1, <2>3 DEF Typed, f
  <2>6. \A d \in Calls : Working(d) => FileOf[call[d].of] \in Files
    BY <1>1, Steps DEF File
  <2>7. ASSUME NEW d \in Calls, call'[d].step = "moved" PROVE blob'[FileOf[call'[d].of]] # <<>>
    <3>1. CASE d = c
      BY <2>2, <2>5, <3>1
    <3>2. CASE d # c
      BY <2>5, <2>6, <2>7, <3>2 DEF BytesInv, File, Working
    <3> QED
      BY <3>1, <3>2
  <2>8. RowHasBytes'
    BY <1>1, <2>1, <2>5 DEF BytesInv, RowHasBytes, Typed
  <2> QED
    BY <2>4, <2>7, <2>8 DEF BytesInv, File
<1> QED
  BY <1>2, <1>3

\* The row is written for bytes that were moved.
LEMMA RecordBytes ==
    ASSUME BytesInv, NEW c \in Calls, Record(c)
    PROVE  BytesInv'
<1>1. Typed /\ File(c) \in Files /\ blob[File(c)] # <<>>
  BY Steps DEF Record, BytesInv, Working
<1>2. /\ row' = row \cup {File(c)} /\ UNCHANGED <<part, blob>>
      /\ call' = [call EXCEPT ![c] = Idle] /\ up' \in [Uploads -> UpTypes]
  BY <1>1, AnswerTypes DEF Record
<1>3. Typed'
  BY <1>1, <1>2, IdleType DEF Typed
<1>4. ASSUME NEW d \in Calls, call'[d].step = "moved" PROVE blob'[FileOf[call'[d].of]] # <<>>
  BY <1>1, <1>2, <1>4, IdleType DEF BytesInv, Typed, File
<1>5. RowHasBytes'
  BY <1>1, <1>2 DEF BytesInv, RowHasBytes
<1> QED
  BY <1>3, <1>4, <1>5 DEF BytesInv, File

\* A request is handed to the home, or is put off with others.
LEMMA SendBytes ==
    ASSUME BytesInv, NEW u \in Uploads, Send(u) \/ Cut(u)
    PROVE  BytesInv'
<1>1. Typed
  BY DEF BytesInv
<1>2. ASSUME NEW c \in Calls, Ask(u, c) PROVE BytesInv'
  <2>1. /\ UNCHANGED home /\ call' = [call EXCEPT ![c] = [step |-> "ask", of |-> u]]
        /\ up' = [up EXCEPT ![u] = [at |-> "waits", via |-> c]]
    BY <1>2 DEF Ask
  <2>2. [step |-> "ask", of |-> u] \in CallTypes /\ up' \in [Uploads -> UpTypes]
    BY <1>1, <2>1, StepTypes DEF Typed, UpTypes
  <2> QED
    BY <2>1, <2>2, PartsGoOn DEF home
<1>3. ASSUME NEW c \in Calls, Put(u, c) PROVE BytesInv'
  <2>1. /\ UNCHANGED home /\ call' = [call EXCEPT ![c] = [step |-> "put", of |-> u, offset |-> up[u].have]]
        /\ up' = [up EXCEPT ![u] = [at |-> "waits", via |-> c]] /\ up[u].at = "told"
    BY <1>3 DEF Put
  <2>2. up[u].have \in Nat /\ up' \in [Uploads -> UpTypes]
    BY <1>1, <2>1 DEF Typed, UpTypes
  <2>3. [step |-> "put", of |-> u, offset |-> up[u].have] \in CallTypes
    BY <2>2, StepTypes
  <2> QED
    BY <2>1, <2>2, <2>3, PartsGoOn DEF home
<1>4. CASE RunsShort(u)
  <2>1. UNCHANGED <<home, call>> /\ up' \in [Uploads -> UpTypes]
    BY <1>1, <1>4 DEF RunsShort, Typed, UpTypes
  <2> QED
    BY <1>1, <2>1 DEF home, BytesInv, Typed, RowHasBytes, File
<1>5. CASE Cut(u)
  <2>1. UNCHANGED home /\ up' = [up EXCEPT ![u] = Queued] /\ up[u].at = "waits"
        /\ (call' = call \/ call' = [call EXCEPT ![up[u].via] = Idle])
    BY <1>5 DEF Cut
  <2>2. up[u].via \in Calls /\ up' \in [Uploads -> UpTypes]
    BY <1>1, <2>1, AnswerTypes DEF Typed, UpTypes
  <2>3. CASE call' = call
    BY <1>1, <2>1, <2>2, <2>3 DEF home, BytesInv, Typed, RowHasBytes, File
  <2>4. CASE call' = [call EXCEPT ![up[u].via] = Idle]
    BY <2>1, <2>2, <2>4, IdleType, PartsGoOn DEF home
  <2> QED
    BY <2>1, <2>3, <2>4
<1> QED
  BY <1>2, <1>3, <1>4, <1>5 DEF Send

LEMMA NextBytes == BytesInv /\ [Next]_vars => BytesInv'
<1>1. SUFFICES ASSUME BytesInv, [Next]_vars PROVE BytesInv'
  OBVIOUS
<1>2. ASSUME NEW u \in Uploads, Send(u) \/ Cut(u) PROVE BytesInv'
  BY <1>1, <1>2, SendBytes
<1>3. ASSUME NEW c \in Calls, Serve(c) \/ PutOff(c) PROVE BytesInv'
  <2>1. CASE Move(c) \/ Record(c)
    BY <1>1, <2>1, MoveBytes, RecordBytes
  <2> QED
    BY <1>1, <1>3, <2>1, ServeParts, PartsGoOn DEF Serve
<1>4. CASE Stop
  <2>1. /\ UNCHANGED home /\ call' = [c \in Calls |-> Idle]
        /\ up' = [u \in Uploads |-> IF up[u].at = "waits" THEN Queued ELSE up[u]]
    BY <1>4 DEF Stop
  <2>2. Typed'
    BY <1>1, <2>1, IdleType, AnswerTypes DEF BytesInv, Typed, home
  <2> QED
    BY <1>1, <2>1, <2>2, IdleType DEF home, BytesInv, RowHasBytes
<1>5. CASE UNCHANGED vars
  BY <1>1, <1>5 DEF vars, home, BytesInv, Typed, RowHasBytes, File
<1> QED
  BY <1>1, <1>2, <1>3, <1>4, <1>5 DEF Next

LEMMA InitBytes == Init => BytesInv
BY IdleType DEF Init, BytesInv, Typed, RowHasBytes, Queued, UpTypes

\* In every reachable state who is to write the row of a file has its bytes in place.
THEOREM BytesInductive == Spec => []BytesInv
BY InitBytes, NextBytes, PTL DEF Spec

\* A file the home says it has is there, however calls, cuts and restarts fall together (serve
\* in files.rs).
THEOREM RowsHaveBytes == Spec => []RowHasBytes
BY BytesInductive, PTL DEF BytesInv

-----------------------------------------------------------------------------
(* The bytes are the file's.                                               *)

\* The one call there is has gone on to t.
LEMMA WholeKeeps ==
    ASSUME BytesInv, WholeInv, UNCHANGED <<blob, row, overlapped>>,
           NEW c \in Calls, Working(c), NEW t, call' = [call EXCEPT ![c] = t],
           t.step = "hashed" /\ t.right => part'[FileOf[t.of]] = Whole(FileOf[t.of]),
           t.step # "moved"
    PROVE  WholeInv'
<1>1. call'[c] = t /\ \A d \in Calls : d # c => call'[d] = call[d]
  BY DEF BytesInv, Typed
<1>2. ASSUME ~overlapped', NEW d \in Calls, d # c PROVE call'[d].step = "idle"
  BY <1>1, <1>2 DEF WholeInv, Working
<1> QED
  BY <1>1, <1>2 DEF WholeInv, Working, KeptIsWhole, Whole, File

\* It ends.
LEMMA WholeEnds ==
    ASSUME BytesInv, WholeInv, UNCHANGED <<blob, row, overlapped>>,
           NEW c \in Calls, call[c] # Idle, call' = [call EXCEPT ![c] = Idle]
    PROVE  WholeInv'
<1>1. Working(c)
  BY DEF BytesInv, Typed, CallTypes, Working
<1> QED
  BY <1>1, WholeKeeps, IdleType

LEMMA ServeWhole ==
    ASSUME BytesInv, WholeInv, NEW c \in Calls, Serve(c) \/ PutOff(c)
    PROVE  WholeInv'
<1>1. Typed
  BY DEF BytesInv
<1>2. Working(c) /\ call[c] # Idle /\ File(c) \in Files /\ call[c].of \in Uploads
  BY <1>1, Steps, IdleType DEF Serve, PutOff, TurnAway, HasIt, Tell, OutOfStep, InStep,
     AppendPiece, Hash, ThrowAway, Move, Record, Working
<1>3. CASE TurnAway(c) \/ HasIt(c) \/ Tell(c) \/ OutOfStep(c) \/ ThrowAway(c) \/ PutOff(c)
  <2>1. /\ UNCHANGED <<blob, row, overlapped>>
        /\ call' = [call EXCEPT ![c] = Idle]
    BY <1>3 DEF TurnAway, HasIt, Tell, OutOfStep, ThrowAway, PutOff, Answer, home
  <2> QED
    BY <1>2, <2>1, WholeEnds
<1>4. CASE InStep(c)
  <2> DEFINE t == [call[c] EXCEPT !.step = "append"]
  <2>1. call[c] \in CallTypes /\ call[c].step = "put"
    BY <1>1, <1>4 DEF InStep, Typed
  <2>2. t.step = "append"
    BY <2>1 DEF CallTypes, Idle
  <2>3. call' = [call EXCEPT ![c] = t] /\ UNCHANGED <<blob, row, overlapped>>
    BY <1>4 DEF InStep, GoesOn, home
  <2> HIDE DEF t
  <2> QED
    BY <1>2, <2>2, <2>3, WholeKeeps
<1>5. CASE AppendPiece(c)
  <2> DEFINE t == [step |-> "hash", of |-> call[c].of]
  <2>1. UNCHANGED <<blob, row, overlapped>>
        /\ (call' = [call EXCEPT ![c] = Idle] \/ call' = [call EXCEPT ![c] = t])
    BY <1>5 DEF AppendPiece, Answer, GoesOn
  <2>2. t.step = "hash"
    OBVIOUS
  <2> HIDE DEF t
  <2> QED
    BY <1>2, <2>1, <2>2, WholeKeeps, WholeEnds
<1>6. CASE Hash(c)
  <2> DEFINE f == File(c)
             t == [step |-> "hashed", of |-> call[c].of, right |-> part[f] = Whole(f)]
  <2>1. UNCHANGED <<part, blob, row, overlapped>>
        /\ (call' = [call EXCEPT ![c] = Idle] \/ call' = [call EXCEPT ![c] = t])
    BY <1>6 DEF Hash, Answer, GoesOn, home
  <2>2. t.step = "hashed" /\ FileOf[t.of] = f /\ (t.right => part[f] = Whole(f))
    BY DEF File
  <2> HIDE DEF f, t
  <2>3. t.right => part'[FileOf[t.of]] = Whole(FileOf[t.of])
    BY <2>1, <2>2
  <2> QED
    BY <1>2, <2>1, <2>2, <2>3, WholeKeeps, WholeEnds
\* What is moved is what was hashed, and was right.
<1>7. CASE Move(c)
  <2>1. CASE part[File(c)] = <<>>
    BY <1>2, <1>7, <2>1, WholeEnds DEF Move, Answer
  <2>2. CASE part[File(c)] # <<>>
    <3> DEFINE f == File(c)
               t == [step |-> "moved", of |-> call[c].of]
    <3>1. /\ blob' = [blob EXCEPT ![f] = part[f]] /\ UNCHANGED <<row, overlapped>>
          /\ call' = [call EXCEPT ![c] = t] /\ call[c].step = "hashed" /\ call[c].right
      BY <1>7, <2>2 DEF Move, GoesOn, Fits
    <3>2. t.step = "moved" /\ FileOf[t.of] = f /\ f \in Files
      BY <1>2 DEF File
    <3>3. ~overlapped => part[f] = Whole(f)
      BY <3>1 DEF WholeInv, f
    <3> HIDE DEF f, t
    <3>4. call'[c] = t /\ \A d \in Calls : d # c => call'[d] = call[d]
      BY <1>1, <3>1 DEF Typed
    <3>5. /\ blob'[f] = part[f] /\ \A g \in Files : g # f => blob'[g] = blob[g]
      BY <1>1, <3>1, <3>2 DEF Typed
    <3>6. KeptIsWhole'
      BY <1>1, <3>1, <3>3, <3>5 DEF WholeInv, KeptIsWhole, Typed, Whole
    <3>7. ASSUME ~overlapped', NEW d \in Calls, d # c PROVE call'[d].step = "idle"
      BY <1>2, <3>1, <3>4, <3>7 DEF WholeInv, Working
    <3>8. ~overlapped' => \A d, e \in Calls : Working(d)' /\ Working(e)' => d = e
      BY <3>7 DEF Working
    <3>9. ASSUME ~overlapped', NEW d \in Calls
          PROVE  /\ call'[d].step # "hashed"
                 /\ call'[d].step = "moved" => blob'[FileOf[call'[d].of]] = Whole(FileOf[call'[d].of])
      <4>1. CASE d = c
        BY <3>1, <3>2, <3>3, <3>4, <3>5, <3>9, <4>1
      <4>2. CASE d # c
        BY <3>7, <3>9, <4>2
      <4> QED
        BY <4>1, <4>2
    <3> QED
      BY <3>6, <3>8, <3>9 DEF WholeInv, File, Whole
  <2> QED
    BY <2>1, <2>2
<1>8. CASE Record(c)
  <2>1. /\ row' = row \cup {File(c)} /\ UNCHANGED <<part, blob, overlapped>>
        /\ call' = [call EXCEPT ![c] = Idle] /\ call[c].step = "moved"
    BY <1>8 DEF Record, Answer
  <2>2. KeptIsWhole'
    BY <2>1 DEF WholeInv, KeptIsWhole, Whole
  <2>3. \A d \in Calls : call'[d] = Idle \/ call'[d] = call[d]
    BY <1>1, <2>1 DEF Typed
  <2> QED
    BY <2>1, <2>2, <2>3, IdleType DEF WholeInv, Working, File, Whole
<1> QED
  BY <1>3, <1>4, <1>5, <1>6, <1>7, <1>8 DEF Serve

LEMMA NextWhole == BytesInv /\ WholeInv /\ [Next]_vars => WholeInv'
<1>1. SUFFICES ASSUME BytesInv, WholeInv, [Next]_vars PROVE WholeInv'
  OBVIOUS
<1>2. Typed
  BY <1>1 DEF BytesInv
\* Some calls end, and no other begins.
<1>3. ASSUME UNCHANGED <<part, blob, row, overlapped>>,
             \A d \in Calls : call'[d] = Idle \/ call'[d] = call[d]
      PROVE  WholeInv'
  BY <1>1, <1>3, IdleType DEF WholeInv, Working, KeptIsWhole, File, Whole
<1>4. ASSUME NEW u \in Uploads, Send(u) \/ Cut(u) PROVE WholeInv'
  <2>1. ASSUME NEW c \in Calls, Ask(u, c) \/ Put(u, c) PROVE WholeInv'
    <3>1. PICK t : call' = [call EXCEPT ![c] = t] /\ t.step \in {"ask", "put"}
      <4> DEFINE asks == [step |-> "ask", of |-> u]
                 puts == [step |-> "put", of |-> u, offset |-> up[u].have]
      <4>1. call' = [call EXCEPT ![c] = asks] \/ call' = [call EXCEPT ![c] = puts]
        BY <2>1 DEF Ask, Put
      <4>2. asks.step = "ask" /\ puts.step = "put"
        OBVIOUS
      <4> HIDE DEF asks, puts
      <4> QED
        BY <4>1, <4>2
    <3>2. UNCHANGED home /\ overlapped' = (overlapped \/ Idles # Calls)
      BY <2>1 DEF Ask, Put, NoteOverlap
    <3>3. ASSUME ~overlapped' PROVE \A d \in Calls : call[d].step = "idle"
      BY <3>2, <3>3 DEF Idles
    <3>4. call'[c] = t /\ \A d \in Calls : d # c => call'[d] = call[d]
      BY <1>2, <3>1 DEF Typed
    <3>5. KeptIsWhole'
      BY <1>1, <3>2 DEF WholeInv, KeptIsWhole, Whole, home
    <3> QED
      BY <3>1, <3>3, <3>4, <3>5 DEF WholeInv, Working
  <2>2. CASE RunsShort(u) \/ Cut(u)
    <3>1. UNCHANGED <<part, blob, row, overlapped>>
          /\ (call' = call \/ call' = [call EXCEPT ![up[u].via] = Idle])
      BY <2>2 DEF RunsShort, Cut, home
    <3>2. \A d \in Calls : call'[d] = Idle \/ call'[d] = call[d]
      BY <1>2, <3>1 DEF Typed
    <3> QED
      BY <1>3, <3>1, <3>2
  <2> QED
    BY <1>4, <2>1, <2>2 DEF Send
<1>5. ASSUME NEW c \in Calls, Serve(c) \/ PutOff(c) PROVE WholeInv'
  BY <1>1, <1>5, ServeWhole
<1>6. CASE Stop
  BY <1>3, <1>6 DEF Stop, home
<1>7. CASE UNCHANGED vars
  BY <1>3, <1>7 DEF vars, home
<1> QED
  BY <1>1, <1>4, <1>5, <1>6, <1>7 DEF Next

LEMMA InitWhole == Init => WholeInv
BY IdleType DEF Init, WholeInv, Working, KeptIsWhole

\* As long as no two requests were worked on at once, a file the home keeps is what its
\* fingerprint says: the bytes that are moved into place are those that were hashed.
THEOREM KeptFilesAreWhole == Spec => []KeptIsWhole
<1>1. WholeInv => KeptIsWhole
  BY DEF WholeInv
<1> QED
  BY <1>1, BytesInductive, InitWhole, NextWhole, PTL DEF Spec

-----------------------------------------------------------------------------
(* Sums: what MapThenSumSet comes to, in whatever order it takes the       *)
(* members of its set.                                                     *)

\* A set of naturals has a smallest.
LEMMA SmallestOf ==
    ASSUME NEW S \in SUBSET Nat, S # {}
    PROVE  \E q \in S : \A r \in S : q <= r
<1>1. PICK m \in S : \A r \in S : <<r, m>> \notin OpToRel(<, Nat)
  BY NatLessThanWellFounded, WFMin, Zenon
<1>2. \A r \in S : ~(r < m)
  BY <1>1, Zenon DEF OpToRel
<1> QED
  BY <1>2

\* What holds of a set as soon as it holds of all smaller ones holds of all.
LEMMA SubsetsOf ==
    ASSUME NEW F, IsFiniteSet(F), NEW T,
           \A s \in SUBSET F : (\A r \in SUBSET F : Cardinality(r) < Cardinality(s) => r \in T) => s \in T
    PROVE  \A s \in SUBSET F : s \in T
<1> SUFFICES ASSUME \E s \in SUBSET F : s \notin T
             PROVE  FALSE
  OBVIOUS
<1> DEFINE S == {Cardinality(s) : s \in {r \in SUBSET F : r \notin T}}
<1>1. \A s \in SUBSET F : Cardinality(s) \in Nat
  BY FS_Subset, FS_CardinalityType
<1>2. S \in SUBSET Nat /\ S # {}
  BY <1>1
<1>3. PICK q \in S : \A r \in S : q <= r
  BY <1>2, SmallestOf, Zenon
<1>4. PICK s \in SUBSET F : s \notin T /\ q = Cardinality(s)
  BY <1>3
<1>5. ASSUME NEW r \in SUBSET F, Cardinality(r) < Cardinality(s)
      PROVE  r \in T
  <2>1. r \notin T => Cardinality(r) \in S
    BY Zenon
  <2>2. Cardinality(r) \in Nat /\ Cardinality(s) \in Nat
    BY <1>1
  <2> HIDE DEF S
  <2> QED
    BY <1>3, <1>4, <1>5, <2>1, <2>2
<1> QED
  BY <1>4, <1>5

Some(s) == CHOOSE x \in s : TRUE

\* it adds up the weights W of the members of every subset of F.
Sums(it, W, F) ==
    it = [s \in SUBSET F |-> IF s = {} THEN 0 ELSE W[Some(s)] + it[s \ {Some(s)}]]

LEMMA OneLess ==
    ASSUME NEW F, IsFiniteSet(F), NEW s \in SUBSET F, NEW x \in s
    PROVE  /\ s \ {x} \in SUBSET F /\ Cardinality(s) \in Nat
           /\ Cardinality(s \ {x}) \in Nat /\ Cardinality(s \ {x}) < Cardinality(s)
<1>1. IsFiniteSet(s)
  BY FS_Subset
<1> QED
  <2>1. IsFiniteSet(s \ {x}) /\ Cardinality(s \ {x}) = IF x \in s THEN Cardinality(s) - 1 ELSE Cardinality(s)
    BY <1>1, FS_RemoveElement, Zenon
  <2>2. PICK n \in Nat : n = Cardinality(s)
    BY <1>1, FS_CardinalityType
  <2>3. PICK k \in Nat : k = Cardinality(s \ {x})
    BY <2>1, FS_CardinalityType
  <2>4. k = n - 1
    BY <2>1, <2>2, <2>3
  <2>5. k \in Nat /\ n \in Nat /\ k < n
    BY <2>4
  <2>6. s \ {x} \in SUBSET F
    OBVIOUS
  <2> QED
    BY <2>2, <2>3, <2>5, <2>6, Zenon

LEMMA SomeIs == \A s : s # {} => Some(s) \in s
BY DEF Some

LEMMA SumsExist ==
    ASSUME NEW F, IsFiniteSet(F), NEW W
    PROVE  \E it : Sums(it, W, F)
<1> DEFINE D(n) == {s \in SUBSET F : Cardinality(s) <= n}
           Rec(it, n) == it = [s \in D(n) |-> IF s = {} THEN 0 ELSE W[Some(s)] + it[s \ {Some(s)}]]
           S == {n \in Nat : ~\E it : Rec(it, n)}
<1>1. S \in SUBSET Nat
  OBVIOUS
<1>2. S = {}
  <2> SUFFICES ASSUME S # {}
               PROVE  FALSE
    OBVIOUS
  <2>1. PICK q \in S : \A r \in S : q <= r
    BY <1>1, SmallestOf, Zenon
  <2>2. q \in Nat
    OBVIOUS
  <2>3. q # 0
    <3> DEFINE f == [s \in D(0) |-> 0]
               g == [s \in D(0) |-> IF s = {} THEN 0 ELSE W[Some(s)] + f[s \ {Some(s)}]]
    <3>1. ASSUME NEW s \in D(0)
          PROVE  s = {}
      <4>1. ASSUME NEW x \in s
            PROVE  FALSE
        <5>1. s \in SUBSET F /\ Cardinality(s) <= 0
          OBVIOUS
        <5>2. Cardinality(s) \in Nat /\ Cardinality(s \ {x}) \in Nat /\ Cardinality(s \ {x}) < Cardinality(s)
          BY <5>1, OneLess, Zenon
        <5> QED
          BY <5>1, <5>2
      <4> QED
        BY <4>1
    <3>2. f = g
      BY <3>1
    <3>3. Rec(f, 0)
      BY <3>2, Zenon
    <3> HIDE DEF Rec, f
    <3> QED
      BY <3>3
  <2>4. PICK p \in Nat : q = p + 1
    BY <2>2, <2>3
  <2>5. p \notin S
    <3> HIDE DEF S
    <3> QED
      BY <2>1, <2>4
  <2>6. PICK f : Rec(f, p)
    BY <2>5, Zenon
  <2> DEFINE g == [s \in D(q) |-> IF s = {} THEN 0 ELSE W[Some(s)] + f[s \ {Some(s)}]]
             h == [s \in D(q) |-> IF s = {} THEN 0 ELSE W[Some(s)] + g[s \ {Some(s)}]]
  <2>7. ASSUME NEW s \in D(q), s # {}
        PROVE  g[s \ {Some(s)}] = f[s \ {Some(s)}]
    <3>1. PICK t : t = s \ {Some(s)}
      OBVIOUS
    <3>2. t \in D(p) /\ t \in D(q)
      <4>1. t \in SUBSET F /\ Cardinality(s) \in Nat /\ Cardinality(t) \in Nat /\ Cardinality(t) < Cardinality(s)
        BY <2>7, <3>1, OneLess, SomeIs
      <4> QED
        BY <2>4, <4>1
    <3>3. g[t] = IF t = {} THEN 0 ELSE W[Some(t)] + f[t \ {Some(t)}]
      BY <3>2
    <3>4. f[t] = IF t = {} THEN 0 ELSE W[Some(t)] + f[t \ {Some(t)}]
      <4> HIDE DEF D
      <4> QED
        BY <2>6, <3>2
    <3> HIDE DEF g
    <3> QED
      BY <3>1, <3>3, <3>4
  <2>8. g = h
    <3> HIDE DEF D
    <3>1. ASSUME NEW s \in D(q)
          PROVE  g[s] = h[s]
      <4>1. g[s] = IF s = {} THEN 0 ELSE W[Some(s)] + f[s \ {Some(s)}]
        OBVIOUS
      <4>2. h[s] = IF s = {} THEN 0 ELSE W[Some(s)] + g[s \ {Some(s)}]
        OBVIOUS
      <4> HIDE DEF g, h
      <4> QED
        BY <2>7, <4>1, <4>2
    <3> QED
      BY <3>1
  <2>9. Rec(g, q)
    BY <2>8, Zenon
  <2>10. q \notin S
    <3> HIDE DEF Rec, g
    <3> QED
      BY <2>9
  <2> QED
    BY <2>10
<1>3. PICK n \in Nat : n = Cardinality(F)
  BY FS_CardinalityType
<1>4. D(n) = SUBSET F
  BY <1>3, FS_Subset
<1>5. \E it : Rec(it, n)
  <2> HIDE DEF Rec
  <2> QED
    BY <1>2
<1>6. \A it : Rec(it, n) => Sums(it, W, F)
  <2> HIDE DEF D
  <2> QED
    BY <1>4, Zenon DEF Sums
<1> QED
  BY <1>5, <1>6

LEMMA SumsOf ==
    ASSUME NEW it, NEW W, NEW F, Sums(it, W, F), NEW s \in SUBSET F
    PROVE  it[s] = IF s = {} THEN 0 ELSE W[Some(s)] + it[s \ {Some(s)}]
BY DEF Sums

LEMMA SumsAreNat ==
    ASSUME NEW F, IsFiniteSet(F), NEW W, \A x \in F : W[x] \in Nat, NEW it, Sums(it, W, F)
    PROVE  \A s \in SUBSET F : it[s] \in Nat
<1> DEFINE T == {s \in SUBSET F : it[s] \in Nat}
<1>1. ASSUME NEW s \in SUBSET F, \A r \in SUBSET F : Cardinality(r) < Cardinality(s) => r \in T
      PROVE  s \in T
  <2>1. it[s] = IF s = {} THEN 0 ELSE W[Some(s)] + it[s \ {Some(s)}]
    BY SumsOf
  <2>2. CASE s = {}
    BY <2>1, <2>2
  <2>3. CASE s # {}
    <3>1. Some(s) \in s /\ s \ {Some(s)} \in T
      BY <1>1, <2>3, SomeIs, OneLess
    <3> QED
      BY <2>1, <2>3, <3>1
  <2> QED
    BY <2>2, <2>3
<1>2. \A s \in SUBSET F : s \in T
  <2> HIDE DEF T
  <2> QED
    BY <1>1, SubsetsOf
<1> QED
  BY <1>2

\* What they add up to hangs on the weights of the members only.
LEMMA SumsAgree ==
    ASSUME NEW F, IsFiniteSet(F), NEW G, F \subseteq G, NEW V, NEW W, \A x \in F : V[x] = W[x],
           NEW i, Sums(i, V, F), NEW j, Sums(j, W, G)
    PROVE  \A s \in SUBSET F : i[s] = j[s]
<1> DEFINE T == {s \in SUBSET F : i[s] = j[s]}
<1>1. ASSUME NEW s \in SUBSET F, \A r \in SUBSET F : Cardinality(r) < Cardinality(s) => r \in T
      PROVE  s \in T
  <2>1. i[s] = IF s = {} THEN 0 ELSE V[Some(s)] + i[s \ {Some(s)}]
    BY SumsOf
  <2>2. j[s] = IF s = {} THEN 0 ELSE W[Some(s)] + j[s \ {Some(s)}]
    <3>1. s \in SUBSET G
      OBVIOUS
    <3> QED
      BY <3>1 DEF Sums
  <2>3. s # {} => Some(s) \in F /\ i[s \ {Some(s)}] = j[s \ {Some(s)}]
    <3> SUFFICES ASSUME s # {}
                 PROVE  Some(s) \in F /\ s \ {Some(s)} \in T
      OBVIOUS
    <3> QED
      BY <1>1, SomeIs, OneLess
  <2> QED
    BY <2>1, <2>2, <2>3
<1>2. \A s \in SUBSET F : s \in T
  <2> HIDE DEF T
  <2> QED
    BY <1>1, SubsetsOf
<1> QED
  BY <1>2

\* Any member may be taken first.
LEMMA SumsTakeAny ==
    ASSUME NEW F, IsFiniteSet(F), NEW W, \A x \in F : W[x] \in Nat, NEW it, Sums(it, W, F)
    PROVE  \A s \in SUBSET F : \A x \in s : it[s] = W[x] + it[s \ {x}]
<1> DEFINE T == {s \in SUBSET F : \A x \in s : it[s] = W[x] + it[s \ {x}]}
<1>1. ASSUME NEW s \in SUBSET F, \A r \in SUBSET F : Cardinality(r) < Cardinality(s) => r \in T
      PROVE  s \in T
  <2>1. ASSUME NEW x \in s
        PROVE  it[s] = W[x] + it[s \ {x}]
    <3>1. PICK c : c = Some(s) /\ c \in s
      BY SomeIs
    <3>2. it[s] = W[c] + it[s \ {c}]
      BY <3>1, SumsOf
    <3>3. CASE x = c
      BY <3>2, <3>3, Zenon
    <3>4. CASE x # c
      <4>1. s \ {c} \in T /\ s \ {x} \in T
        <5>1. s \ {c} \in SUBSET F /\ Cardinality(s \ {c}) < Cardinality(s)
          BY <3>1, OneLess, Zenon
        <5>2. s \ {x} \in SUBSET F /\ Cardinality(s \ {x}) < Cardinality(s)
          BY OneLess, Zenon
        <5> HIDE DEF T
        <5> QED
          BY <1>1, <5>1, <5>2, Zenon
      <4>2. it[s \ {c}] = W[x] + it[(s \ {c}) \ {x}]
        BY <3>4, <4>1
      <4>3. it[s \ {x}] = W[c] + it[(s \ {x}) \ {c}]
        BY <3>1, <3>4, <4>1
      <4>4. (s \ {c}) \ {x} = (s \ {x}) \ {c}
        OBVIOUS
      <4>5. PICK t \in SUBSET F : t = (s \ {x}) \ {c}
        OBVIOUS
      <4>6. it[t] \in Nat /\ W[x] \in Nat /\ W[c] \in Nat
        BY <3>1, SumsAreNat
      <4>7. PICK a, v, w \in Nat : a = it[t] /\ v = W[x] /\ w = W[c]
        BY <4>6
      <4>8. it[s \ {c}] = v + a /\ it[s \ {x}] = w + a
        BY <4>2, <4>3, <4>4, <4>5, <4>7, Zenon
      <4>9. it[s] = w + (v + a) /\ W[x] + it[s \ {x}] = v + (w + a)
        BY <3>2, <4>7, <4>8, Zenon
      <4>10. w + (v + a) = v + (w + a)
        OBVIOUS
      <4> QED
        BY <4>9, <4>10, Zenon
    <3> QED
      BY <3>3, <3>4
  <2> QED
    BY <2>1
<1>2. \A s \in SUBSET F : s \in T
  <2> HIDE DEF T
  <2> QED
    BY <1>1, SubsetsOf
<1> QED
  BY <1>2

Sum(W, F) == (CHOOSE it : Sums(it, W, F))[F]

\* A sum is nothing without members, and any one member's weight more than without it.
LEMMA SumIs ==
    ASSUME NEW F, IsFiniteSet(F), NEW W, \A x \in F : W[x] \in Nat
    PROVE  /\ Sum(W, F) \in Nat
           /\ F = {} => Sum(W, F) = 0
           /\ \A x \in F : Sum(W, F) = W[x] + Sum(W, F \ {x})
           /\ \A V : (\A x \in F : V[x] = W[x]) => Sum(V, F) = Sum(W, F)
           /\ \A it : Sums(it, W, F) => it[F] = Sum(W, F)
<1> DEFINE i == CHOOSE it : Sums(it, W, F)
<1>1. Sums(i, W, F) /\ Sum(W, F) = i[F]
  BY SumsExist, Zenon DEF Sum
<1> HIDE DEF i
<1>2. Sum(W, F) \in Nat
  BY <1>1, SumsAreNat
<1>3. F = {} => Sum(W, F) = 0
  BY <1>1, SumsOf
<1>4. ASSUME NEW x \in F
      PROVE  Sum(W, F) = W[x] + Sum(W, F \ {x})
  <2> DEFINE j == CHOOSE it : Sums(it, W, F \ {x})
  <2>1. IsFiniteSet(F \ {x}) /\ F \ {x} \subseteq F
    BY FS_RemoveElement
  <2>2. Sums(j, W, F \ {x}) /\ Sum(W, F \ {x}) = j[F \ {x}]
    BY <2>1, SumsExist, Zenon DEF Sum
  <2> HIDE DEF j
  <2>3. PICK G : G = F \ {x}
    OBVIOUS
  <2>4. j[G] = i[G]
    BY <1>1, <2>1, <2>2, <2>3, SumsAgree
  <2>5. i[F] = W[x] + i[G]
    BY <1>1, <2>3, SumsTakeAny
  <2> QED
    BY <1>1, <2>2, <2>3, <2>4, <2>5
<1>5. ASSUME NEW V, \A x \in F : V[x] = W[x]
      PROVE  Sum(V, F) = Sum(W, F)
  <2> DEFINE j == CHOOSE it : Sums(it, V, F)
  <2>1. Sums(j, V, F) /\ Sum(V, F) = j[F]
    BY SumsExist, Zenon DEF Sum
  <2> HIDE DEF j
  <2> QED
    BY <1>1, <1>5, <2>1, SumsAgree
<1>6. ASSUME NEW it, Sums(it, W, F)
      PROVE  it[F] = Sum(W, F)
  BY <1>1, <1>6, SumsAgree
<1> QED
  BY <1>2, <1>3, <1>4, <1>5, <1>6

-----------------------------------------------------------------------------
(* What is kept and unfinished stays within the room's store.              *)

PartSum(p, F) == Sum([f \in Files |-> Len(p[f])], F)

LEMMA KeptIs ==
    ASSUME NEW r, IsFiniteSet(r), \A f \in r : Size[f] \in Nat
    PROVE  MapThenSumSet(LAMBDA f : Size[f], r) = Sum(Size, r)
BY Zenon DEF MapThenSumSet, MapThenFoldSet, Sum, Sums, Some

LEMMA UnfinishedIs ==
    ASSUME NEW p \in [Files -> Seq(Nat)], NEW F, F \subseteq Files
    PROVE  MapThenSumSet(LAMBDA f : Len(p[f]), F) = PartSum(p, F)
<1> DEFINE W == [f \in Files |-> Len(p[f])]
           P(it) == it = [s \in SUBSET F |-> IF s = {} THEN 0
                                             ELSE Len(p[CHOOSE x \in s : TRUE]) + it[s \ {CHOOSE x \in s : TRUE}]]
<1>1. IsFiniteSet(F) /\ \A x \in F : W[x] \in Nat /\ W[x] = Len(p[x])
  BY UploadsAssumption, FS_Subset
<1>2. MapThenSumSet(LAMBDA f : Len(p[f]), F) = (CHOOSE it : P(it))[F]
  BY Zenon DEF MapThenSumSet, MapThenFoldSet
<1>3. ASSUME NEW it
      PROVE  Sums(it, W, F) <=> P(it)
  <2> DEFINE a == [s \in SUBSET F |-> IF s = {} THEN 0 ELSE W[Some(s)] + it[s \ {Some(s)}]]
             b == [s \in SUBSET F |-> IF s = {} THEN 0
                                      ELSE Len(p[CHOOSE x \in s : TRUE]) + it[s \ {CHOOSE x \in s : TRUE}]]
  <2>1. ASSUME NEW s \in SUBSET F
        PROVE  a[s] = b[s]
    <3>1. PICK c : c = Some(s) /\ c = CHOOSE x \in s : TRUE
      BY DEF Some
    <3>2. s # {} => W[c] = Len(p[c])
      BY <1>1, <3>1, SomeIs
    <3>3. a[s] = IF s = {} THEN 0 ELSE W[c] + it[s \ {c}]
      BY <3>1
    <3>4. b[s] = IF s = {} THEN 0 ELSE Len(p[c]) + it[s \ {c}]
      BY <3>1
    <3> HIDE DEF a, b, W
    <3> QED
      BY <3>2, <3>3, <3>4
  <2>2. a = b
    BY <2>1
  <2> QED
    BY <2>2, Zenon DEF Sums
<1> HIDE DEF P, W
<1>4. \E it : P(it)
  BY <1>1, <1>3, SumsExist
<1>5. P(CHOOSE it : P(it))
  BY <1>4, Zenon
<1>6. PICK u : u = CHOOSE it : P(it)
  OBVIOUS
<1>7. u[F] = Sum(W, F)
  BY <1>1, <1>3, <1>5, <1>6, SumIs
<1> QED
  BY <1>2, <1>6, <1>7, Zenon DEF PartSum, W

\* One unfinished upload more or less.
LEMMA PartStep ==
    ASSUME NEW p \in [Files -> Seq(Nat)], NEW f \in Files, NEW s \in Seq(Nat), NEW q, q = [p EXCEPT ![f] = s]
    PROVE  /\ PartSum(p, Files \ {f}) \in Nat /\ PartSum(p, Files) \in Nat
           /\ PartSum(p, Files) = Len(p[f]) + PartSum(p, Files \ {f})
           /\ PartSum(q, Files) = Len(s) + PartSum(p, Files \ {f})
<1> DEFINE V == [g \in Files |-> Len(p[g])]
           W == [g \in Files |-> Len(q[g])]
<1>1. /\ \A g \in Files : V[g] \in Nat /\ W[g] \in Nat /\ (g # f => V[g] = W[g])
      /\ V[f] = Len(p[f]) /\ W[f] = Len(s)
  OBVIOUS
<1>2. IsFiniteSet(Files) /\ IsFiniteSet(Files \ {f})
  BY UploadsAssumption, FS_RemoveElement
<1> HIDE DEF V, W
<1>3. Sum(V, Files \ {f}) \in Nat /\ Sum(V, Files) \in Nat /\ Sum(V, Files) = V[f] + Sum(V, Files \ {f})
  BY <1>1, <1>2, SumIs
<1>4. Sum(W, Files) = W[f] + Sum(W, Files \ {f})
  BY <1>1, <1>2, SumIs
<1>5. Sum(W, Files \ {f}) = Sum(V, Files \ {f})
  <2>1. \A g \in Files \ {f} : W[g] = V[g] /\ V[g] \in Nat
    BY <1>1
  <2> QED
    BY <1>2, <2>1, SumIs
<1>6. /\ PartSum(p, Files) = Sum(V, Files) /\ PartSum(q, Files) = Sum(W, Files)
      /\ PartSum(p, Files \ {f}) = Sum(V, Files \ {f})
  BY Zenon DEF PartSum, V, W
<1> QED
  BY <1>1, <1>3, <1>4, <1>5, <1>6

LEMMA PartEmptied ==
    ASSUME NEW p \in [Files -> Seq(Nat)], NEW f \in Files
    PROVE  PartSum([p EXCEPT ![f] = <<>>], Files) = PartSum(p, Files \ {f})
<1>1. PICK e \in Seq(Nat) : e = <<>> /\ Len(e) = 0
  <2>1. <<>> \in Seq(Nat) /\ Len(<<>>) = 0
    OBVIOUS
  <2> QED
    BY <2>1, Zenon
<1>2. PICK q : q = [p EXCEPT ![f] = e]
  OBVIOUS
<1>3. PartSum(q, Files) = Len(e) + PartSum(p, Files \ {f}) /\ PartSum(p, Files \ {f}) \in Nat
  BY <1>2, PartStep, Zenon
<1> QED
  BY <1>1, <1>2, <1>3

LEMMA RowStep ==
    ASSUME NEW r, r \subseteq Files, NEW f \in Files
    PROVE  /\ Sum(Size, r) \in Nat
           /\ f \notin r => Sum(Size, r \cup {f}) = Size[f] + Sum(Size, r)
<1>1. IsFiniteSet(r) /\ IsFiniteSet(r \cup {f}) /\ \A g \in r \cup {f} : Size[g] \in Nat
  BY UploadsAssumption, FS_Subset
<1>2. Sum(Size, r) \in Nat
  BY <1>1, SumIs
<1>3. f \notin r => (r \cup {f}) \ {f} = r
  OBVIOUS
<1>4. Sum(Size, r \cup {f}) = Size[f] + Sum(Size, (r \cup {f}) \ {f})
  BY <1>1, SumIs
<1> QED
  BY <1>2, <1>3, <1>4

\* What a piece may be added to, and what is moved, has been made room for.
StoreInv ==
    /\ \A c \in Calls : call[c].step \in {"put", "append"} => call[c].offset < Size[File(c)]
    /\ ~overlapped =>
         /\ Sum(Size, row) + PartSum(part, Files) <= RoomBytes
         /\ \A c \in Calls : call[c].step = "append" =>
              /\ call[c].offset = Len(part[File(c)])
              /\ Sum(Size, row) + PartSum(part, Files \ {File(c)}) + Size[File(c)] <= RoomBytes
         /\ \A c \in Calls : call[c].step = "moved" =>
              \/ File(c) \in row
              \/ Sum(Size, row) + PartSum(part, Files) + Size[File(c)] <= RoomBytes

LEMMA InStoreIs ==
    ASSUME Typed
    PROVE  /\ Kept = Sum(Size, row) /\ Kept \in Nat
           /\ \A F \in SUBSET Files : Unfinished(F) = PartSum(part, F)
<1>1. row \subseteq Files /\ IsFiniteSet(row) /\ \A f \in row : Size[f] \in Nat
  BY UploadsAssumption, FS_Subset DEF Typed
<1>2. Kept = Sum(Size, row)
  BY <1>1, KeptIs, Zenon DEF Kept
<1>3. Sum(Size, row) \in Nat
  BY <1>1, SumIs
<1>4. \A F \in SUBSET Files : Unfinished(F) = PartSum(part, F)
  BY UnfinishedIs, Zenon DEF Unfinished, Typed
<1> QED
  BY <1>2, <1>3, <1>4

\* The one call there is has ended, and there is no more unfinished than before.
LEMMA StoreEnds ==
    ASSUME BytesInv, WholeInv, StoreInv, NEW c \in Calls, Working(c),
           call' = [call EXCEPT ![c] = Idle], UNCHANGED <<row, overlapped>>,
           part' = part \/ \E f \in Files : part' = [part EXCEPT ![f] = <<>>]
    PROVE  StoreInv'
<1>1. Typed /\ part \in [Files -> Seq(Nat)]
  BY DEF BytesInv, Typed
<1>2. call'[c] = Idle /\ \A d \in Calls : d # c => call'[d] = call[d]
  BY <1>1 DEF Typed
<1>3. \A d \in Calls : call'[d].step \in {"put", "append"} => call'[d].offset < Size[FileOf[call'[d].of]]
  BY <1>2, IdleType DEF StoreInv, File
<1>4. ASSUME ~overlapped', NEW d \in Calls
      PROVE  call'[d].step = "idle"
  BY <1>2, <1>4, IdleType DEF WholeInv, Working
<1>5. Sum(Size, row) \in Nat
  BY <1>1, InStoreIs
<1>6. ASSUME ~overlapped'
      PROVE  Sum(Size, row') + PartSum(part', Files) <= RoomBytes
  <2>1. Sum(Size, row) + PartSum(part, Files) <= RoomBytes /\ row' = row
    BY <1>6 DEF StoreInv
  <2>2. CASE part' = part
    BY <2>1, <2>2
  <2>3. ASSUME NEW f \in Files, part' = [part EXCEPT ![f] = <<>>]
        PROVE  Sum(Size, row') + PartSum(part', Files) <= RoomBytes
    <3>1. PICK a, b \in Nat : a = PartSum(part, Files \ {f}) /\ b = Len(part[f])
      <4>1. <<>> \in Seq(Nat) /\ Len(part[f]) \in Nat
        BY <1>1
      <4>2. PartSum(part, Files \ {f}) \in Nat
        BY <1>1, <4>1, PartStep, Zenon
      <4> QED
        BY <4>1, <4>2
    <3>2. PartSum(part, Files) = b + a /\ PartSum(part', Files) = a
      <4>1. <<>> \in Seq(Nat)
        OBVIOUS
      <4>2. PartSum(part, Files) = Len(part[f]) + PartSum(part, Files \ {f})
        BY <1>1, <4>1, PartStep, Zenon
      <4>3. PartSum(part', Files) = PartSum(part, Files \ {f})
        BY <1>1, <2>3, PartEmptied, Zenon
      <4> QED
        BY <3>1, <4>2, <4>3, Zenon
    <3>3. PICK k \in Nat : k = Sum(Size, row)
      BY <1>5
    <3>4. k + (b + a) <= RoomBytes
      BY <2>1, <3>2, <3>3
    <3>5. Sum(Size, row') + PartSum(part', Files) = k + a
      BY <2>1, <3>2, <3>3
    <3> QED
      BY <3>4, <3>5, UploadsAssumption
  <2> QED
    BY <2>2, <2>3
<1> QED
  BY <1>3, <1>4, <1>6 DEF StoreInv, File

\* It goes on to a step that has nothing to do with room, and nothing else has changed.
LEMMA StoreGoesOn ==
    ASSUME BytesInv, WholeInv, StoreInv, NEW c \in Calls, Working(c), NEW t,
           call' = [call EXCEPT ![c] = t], UNCHANGED <<part, row, overlapped>>,
           t.step \notin {"put", "append", "moved"}
    PROVE  StoreInv'
<1>1. call'[c] = t /\ \A d \in Calls : d # c => call'[d] = call[d]
  BY DEF BytesInv, Typed
<1>2. \A d \in Calls : call'[d].step \in {"put", "append", "moved"} => d # c /\ call'[d] = call[d]
  BY <1>1
<1>3. \A d \in Calls : call'[d].step \in {"put", "append"} => call'[d].offset < Size[FileOf[call'[d].of]]
  BY <1>2 DEF StoreInv, File
<1>4. ASSUME ~overlapped', NEW d \in Calls, call'[d].step = "append"
      PROVE  /\ call'[d].offset = Len(part'[FileOf[call'[d].of]])
             /\ Sum(Size, row') + PartSum(part', Files \ {FileOf[call'[d].of]}) + Size[FileOf[call'[d].of]] <= RoomBytes
  <2>1. call'[d] = call[d] /\ part' = part /\ row' = row /\ ~overlapped
    BY <1>2, <1>4
  <2> QED
    BY <1>4, <2>1 DEF StoreInv, File
<1>5. ASSUME ~overlapped', NEW d \in Calls, call'[d].step = "moved"
      PROVE  \/ FileOf[call'[d].of] \in row'
             \/ Sum(Size, row') + PartSum(part', Files) + Size[FileOf[call'[d].of]] <= RoomBytes
  <2>1. call'[d] = call[d] /\ part' = part /\ row' = row /\ ~overlapped
    BY <1>2, <1>5
  <2> QED
    BY <1>5, <2>1 DEF StoreInv, File
<1>6. ~overlapped' => Sum(Size, row') + PartSum(part', Files) <= RoomBytes
  BY DEF StoreInv
<1> QED
  BY <1>3, <1>4, <1>5, <1>6 DEF StoreInv, File

LEMMA ServeStore ==
    ASSUME BytesInv, WholeInv, StoreInv, NEW c \in Calls, Serve(c) \/ PutOff(c)
    PROVE  StoreInv'
<1>1. Typed /\ part \in [Files -> Seq(Nat)]
  BY DEF BytesInv, Typed
<1>2. Working(c) /\ call[c] # Idle /\ File(c) \in Files /\ call[c].of \in Uploads
  BY <1>1, Steps, IdleType DEF Serve, PutOff, TurnAway, HasIt, Tell, OutOfStep, InStep,
     AppendPiece, Hash, ThrowAway, Move, Record, Working
<1>3. PICK f \in Files : f = File(c)
  BY <1>2
<1>4. PICK a, b, z \in Nat : a = PartSum(part, Files \ {f}) /\ b = Len(part[f]) /\ z = Size[f]
  <2>1. <<>> \in Seq(Nat)
    OBVIOUS
  <2>2. PartSum(part, Files \ {f}) \in Nat
    BY <1>1, <2>1, PartStep, Zenon
  <2>3. Len(part[f]) \in Nat /\ Size[f] \in Nat
    BY <1>1, UploadsAssumption
  <2> QED
    BY <2>2, <2>3
<1>5. PICK k \in Nat : k = Sum(Size, row) /\ k = Kept
  BY <1>1, InStoreIs
<1>6. PartSum(part, Files) = b + a
  <2>1. <<>> \in Seq(Nat)
    OBVIOUS
  <2> QED
    BY <1>1, <1>4, <2>1, PartStep, Zenon
<1>7. Admit(f) => f \in row \/ k + a + z <= RoomBytes
  BY <1>1, <1>4, <1>5, InStoreIs DEF Admit
<1>8. ~overlapped => k + (b + a) <= RoomBytes
  BY <1>4, <1>5, <1>6 DEF StoreInv
<1>9. ~overlapped => \A d \in Calls : d # c => call[d].step = "idle"
  BY <1>2 DEF WholeInv, Working
<1>10. CASE TurnAway(c) \/ HasIt(c) \/ OutOfStep(c) \/ PutOff(c)
  <2>1. UNCHANGED <<part, row, overlapped>> /\ call' = [call EXCEPT ![c] = Idle]
    BY <1>10 DEF TurnAway, HasIt, OutOfStep, PutOff, Answer, home
  <2> QED
    BY <1>2, <2>1, StoreEnds
<1>11. CASE Tell(c) \/ ThrowAway(c)
  <2>1. /\ UNCHANGED <<row, overlapped>> /\ call' = [call EXCEPT ![c] = Idle]
        /\ part' = [part EXCEPT ![f] = part[f]] \/ part' = [part EXCEPT ![f] = <<>>]
    BY <1>3, <1>11 DEF Tell, ThrowAway, Answer
  <2>2. [part EXCEPT ![f] = part[f]] = part
    BY <1>1
  <2> QED
    BY <1>2, <2>1, <2>2, StoreEnds
<1>12. CASE InStep(c)
  <2>1. PICK u, o : call[c] = [step |-> "put", of |-> u, offset |-> o]
    <3>1. call[c] \in CallTypes /\ call[c].step = "put"
      BY <1>1, <1>12 DEF InStep, Typed
    <3>2. call[c] \in [step : {"put", "append"}, of : Uploads, offset : Nat]
      BY <3>1 DEF CallTypes, Idle
    <3>3. call[c] = [step |-> call[c].step, of |-> call[c].of, offset |-> call[c].offset]
      BY <3>2
    <3> QED
      BY <3>1, <3>3
  <2>2. PICK t : t = [step |-> "append", of |-> u, offset |-> o]
    OBVIOUS
  <2>3. call' = [call EXCEPT ![c] = t] /\ UNCHANGED <<part, row, overlapped>>
    <3>1. call' = [call EXCEPT ![c] = [call[c] EXCEPT !.step = "append"]] /\ UNCHANGED <<part, row, overlapped>>
      BY <1>12 DEF InStep, GoesOn, home
    <3>2. [call[c] EXCEPT !.step = "append"] = t
      BY <2>1, <2>2
    <3> QED
      BY <3>1, <3>2
  <2>4. t.step = "append" /\ t.of = u /\ t.offset = o /\ f = FileOf[u]
    BY <1>3, <2>1, <2>2 DEF File
  <2>5. o = b /\ o < z /\ k + a + z <= RoomBytes
    BY <1>3, <1>4, <1>7, <1>12, <2>1 DEF InStep, StoreInv
  <2>6. call'[c] = t /\ \A d \in Calls : d # c => call'[d] = call[d]
    BY <1>1, <2>3 DEF Typed
  <2>7. \A d \in Calls : call'[d].step \in {"put", "append"} => call'[d].offset < Size[FileOf[call'[d].of]]
    BY <1>4, <2>4, <2>5, <2>6 DEF StoreInv, File
  <2>8. ASSUME ~overlapped', NEW d \in Calls, call'[d].step = "append"
        PROVE  /\ call'[d].offset = Len(part'[FileOf[call'[d].of]])
               /\ Sum(Size, row') + PartSum(part', Files \ {FileOf[call'[d].of]}) + Size[FileOf[call'[d].of]] <= RoomBytes
    <3>1. d = c
      BY <1>9, <2>3, <2>6, <2>8
    <3>2. call'[d].offset = o /\ FileOf[call'[d].of] = f
      BY <2>4, <2>6, <3>1
    <3> QED
      BY <1>4, <1>5, <2>3, <2>5, <3>2
  <2>9. ASSUME ~overlapped', NEW d \in Calls
        PROVE  call'[d].step # "moved"
    BY <1>9, <2>3, <2>4, <2>6, <2>9
  <2>10. ~overlapped' => Sum(Size, row') + PartSum(part', Files) <= RoomBytes
    BY <2>3 DEF StoreInv
  <2> QED
    BY <2>7, <2>8, <2>9, <2>10 DEF StoreInv, File
<1>13. CASE AppendPiece(c)
  <2>1. PICK t : /\ call' = [call EXCEPT ![c] = t] /\ t.step \in {"idle", "hash"}
                 /\ part' = [part EXCEPT ![f] = Append(part[f], call[c].offset + 1)]
                 /\ UNCHANGED <<row, overlapped>> /\ call[c].step = "append"
    <3> DEFINE h == [step |-> "hash", of |-> call[c].of]
    <3>1. call' = [call EXCEPT ![c] = Idle] \/ call' = [call EXCEPT ![c] = h]
      BY <1>13 DEF AppendPiece, Answer, GoesOn
    <3>2. h.step = "hash"
      OBVIOUS
    <3>3. /\ part' = [part EXCEPT ![f] = Append(part[f], call[c].offset + 1)]
          /\ UNCHANGED <<row, overlapped>> /\ call[c].step = "append"
      BY <1>3, <1>13 DEF AppendPiece, Answer, GoesOn
    <3> HIDE DEF h
    <3> QED
      BY <3>1, <3>2, <3>3, IdleType
  <2>2. PICK o \in Nat : o = call[c].offset
    <3>1. call[c].step = "append"
      BY <2>1
    <3>2. call[c].offset \in Nat
      BY <1>1, <3>1, Steps, Zenon
    <3> QED
      BY <3>2
  <2>3. PICK s \in Seq(Nat) : s = Append(part[f], o + 1)
    <3>1. part[f] \in Seq(Nat) /\ o + 1 \in Nat
      BY <1>1
    <3>2. Append(part[f], o + 1) \in Seq(Nat)
      BY <3>1
    <3> QED
      BY <3>2
  <2>4. Len(s) = b + 1
    BY <1>1, <1>4, <2>3
  <2>5. part' = [part EXCEPT ![f] = s]
    BY <2>1, <2>2, <2>3
  <2>6. PartSum(part', Files) = Len(s) + PartSum(part, Files \ {f})
    BY <1>1, <2>5, PartStep, Zenon
  <2>7. ~overlapped => o = b /\ k + a + z <= RoomBytes
    BY <1>3, <1>4, <1>5, <2>1, <2>2 DEF StoreInv
  <2>8. o < z
    BY <1>3, <1>4, <2>1, <2>2 DEF StoreInv
  <2>9. ~overlapped' => Sum(Size, row') + PartSum(part', Files) <= RoomBytes
    <3>1. ~overlapped => k + ((b + 1) + a) <= RoomBytes
      BY <2>7, <2>8, UploadsAssumption
    <3>2. Sum(Size, row') + PartSum(part', Files) = k + ((b + 1) + a)
      BY <1>4, <1>5, <2>1, <2>4, <2>6
    <3> QED
      BY <2>1, <3>1, <3>2
  <2>10. call'[c] = t /\ \A d \in Calls : d # c => call'[d] = call[d]
    BY <1>1, <2>1 DEF Typed
  <2>11. ASSUME ~overlapped', NEW d \in Calls
         PROVE  call'[d].step \in {"idle", "hash"}
    BY <1>9, <2>1, <2>10, <2>11
  <2>12. \A d \in Calls : call'[d].step \in {"put", "append"} => call'[d].offset < Size[FileOf[call'[d].of]]
    BY <2>1, <2>10 DEF StoreInv, File
  <2> QED
    BY <2>9, <2>11, <2>12 DEF StoreInv, File
<1>14. CASE Hash(c)
  <2> DEFINE h == [step |-> "hashed", of |-> call[c].of, right |-> part[File(c)] = Whole(File(c))]
  <2>1. /\ call' = [call EXCEPT ![c] = Idle] \/ call' = [call EXCEPT ![c] = h]
        /\ UNCHANGED <<part, row, overlapped>>
    BY <1>14 DEF Hash, Answer, GoesOn, home
  <2>2. h.step = "hashed"
    OBVIOUS
  <2> HIDE DEF h
  <2> QED
    BY <1>2, <2>1, <2>2, StoreEnds, StoreGoesOn
<1>15. CASE Move(c)
  <2>1. CASE part[f] = <<>>
    <3>1. call' = [call EXCEPT ![c] = Idle] /\ UNCHANGED <<part, row, overlapped>>
      BY <1>3, <1>15, <2>1 DEF Move, Answer
    <3> QED
      BY <1>2, <3>1, StoreEnds
  <2>2. CASE part[f] # <<>>
    <3> DEFINE m == [step |-> "moved", of |-> call[c].of]
    <3>1. /\ call' = [call EXCEPT ![c] = m] /\ UNCHANGED <<row, overlapped>>
          /\ part' = [part EXCEPT ![f] = <<>>] /\ Admit(f)
      BY <1>3, <1>15, <2>2 DEF Move, GoesOn, Fits
    <3>2. m.step = "moved" /\ FileOf[m.of] = f
      BY <1>3 DEF File
    <3> HIDE DEF m
    <3>3. call'[c] = m /\ \A d \in Calls : d # c => call'[d] = call[d]
      BY <1>1, <3>1 DEF Typed
    <3>4. PartSum(part', Files) = a
      BY <1>1, <1>4, <3>1, PartEmptied, Zenon
    <3>5. ~overlapped' => Sum(Size, row') + PartSum(part', Files) <= RoomBytes
      <4>1. ~overlapped => k + a <= RoomBytes
        BY <1>8, UploadsAssumption
      <4> QED
        BY <1>5, <3>1, <3>4, <4>1
    <3>6. f \in row' \/ Sum(Size, row') + PartSum(part', Files) + Size[f] <= RoomBytes
      BY <1>4, <1>5, <1>7, <3>1, <3>4
    <3>7. \A d \in Calls : call'[d].step \in {"put", "append"} => call'[d].offset < Size[FileOf[call'[d].of]]
      BY <3>2, <3>3 DEF StoreInv, File
    <3>8. ASSUME ~overlapped', NEW d \in Calls
          PROVE  /\ call'[d].step # "append"
                 /\ call'[d].step = "moved" => FileOf[call'[d].of] = f
      BY <1>9, <3>1, <3>2, <3>3, <3>8
    <3> QED
      BY <3>5, <3>6, <3>7, <3>8 DEF StoreInv, File
  <2> QED
    BY <2>1, <2>2
<1>16. CASE Record(c)
  <2>1. /\ row' = row \cup {f} /\ UNCHANGED <<part, overlapped>>
        /\ call' = [call EXCEPT ![c] = Idle] /\ call[c].step = "moved"
    BY <1>3, <1>16 DEF Record, Answer
  <2>2. call'[c] = Idle /\ \A d \in Calls : d # c => call'[d] = call[d]
    BY <1>1, <2>1 DEF Typed
  <2>3. ~overlapped => f \in row \/ k + (b + a) + z <= RoomBytes
    BY <1>3, <1>4, <1>5, <1>6, <2>1 DEF StoreInv
  <2>4. f \notin row => Sum(Size, row') = z + k
    BY <1>1, <1>4, <1>5, <2>1, RowStep DEF Typed
  <2>5. f \in row => row' = row
    BY <2>1
  <2>6. ~overlapped' => Sum(Size, row') + PartSum(part', Files) <= RoomBytes
    <3>1. CASE f \in row
      BY <1>5, <1>6, <1>8, <2>1, <2>5, <3>1
    <3>2. CASE f \notin row
      <4>1. Sum(Size, row') + PartSum(part', Files) = (z + k) + (b + a)
        BY <1>6, <2>1, <2>4, <3>2
      <4>2. ~overlapped => (z + k) + (b + a) <= RoomBytes
        BY <2>3, <3>2, UploadsAssumption
      <4> QED
        BY <2>1, <4>1, <4>2
    <3> QED
      BY <3>1, <3>2
  <2>7. \A d \in Calls : call'[d].step \in {"put", "append"} => call'[d].offset < Size[FileOf[call'[d].of]]
    BY <2>2, IdleType DEF StoreInv, File
  <2>8. ASSUME ~overlapped', NEW d \in Calls
        PROVE  call'[d].step = "idle"
    BY <1>9, <2>1, <2>2, <2>8, IdleType
  <2> QED
    BY <2>6, <2>7, <2>8 DEF StoreInv, File
<1> QED
  BY <1>10, <1>11, <1>12, <1>13, <1>14, <1>15, <1>16 DEF Serve

LEMMA NextStore == BytesInv /\ WholeInv /\ StoreInv /\ [Next]_vars => StoreInv'
<1>1. SUFFICES ASSUME BytesInv, WholeInv, StoreInv, [Next]_vars PROVE StoreInv'
  OBVIOUS
<1>2. Typed
  BY <1>1 DEF BytesInv
\* Some calls end, and no other begins.
<1>3. ASSUME UNCHANGED <<part, row, overlapped>>,
             \A d \in Calls : call'[d] = Idle \/ call'[d] = call[d]
      PROVE  StoreInv'
  BY <1>1, <1>3, IdleType DEF StoreInv, File
<1>4. ASSUME NEW u \in Uploads, Send(u) \/ Cut(u) PROVE StoreInv'
  <2>1. ASSUME NEW c \in Calls, Ask(u, c) \/ Put(u, c) PROVE StoreInv'
    <3>1. PICK t : /\ call' = [call EXCEPT ![c] = t]
                   /\ \/ t.step = "ask"
                      \/ t.step = "put" /\ t.offset < Size[FileOf[t.of]]
      <4> DEFINE asks == [step |-> "ask", of |-> u]
                 puts == [step |-> "put", of |-> u, offset |-> up[u].have]
      <4>1. CASE Ask(u, c)
        <5>1. call' = [call EXCEPT ![c] = asks] /\ asks.step = "ask"
          BY <4>1 DEF Ask
        <5> HIDE DEF asks
        <5> QED
          BY <5>1
      <4>2. CASE Put(u, c)
        <5>1. call' = [call EXCEPT ![c] = puts] /\ up[u].have < Size[FileOf[u]]
          BY <4>2 DEF Put
        <5>2. puts.step = "put" /\ puts.offset = up[u].have /\ puts.of = u
          OBVIOUS
        <5> HIDE DEF puts
        <5> QED
          BY <5>1, <5>2
      <4> QED
        BY <2>1, <4>1, <4>2
    <3>2. UNCHANGED home /\ overlapped' = (overlapped \/ Idles # Calls)
      BY <2>1 DEF Ask, Put, NoteOverlap
    <3>3. ASSUME ~overlapped' PROVE ~overlapped /\ \A d \in Calls : call[d].step = "idle"
      BY <3>2, <3>3 DEF Idles
    <3>4. call'[c] = t /\ \A d \in Calls : d # c => call'[d] = call[d]
      BY <1>2, <3>1 DEF Typed
    <3>5. ASSUME ~overlapped'
          PROVE  \A d \in Calls : call'[d].step \notin {"append", "moved"}
      BY <3>1, <3>3, <3>4, <3>5
    <3>6. \A d \in Calls : call'[d].step \in {"put", "append"} => call'[d].offset < Size[FileOf[call'[d].of]]
      BY <1>1, <3>1, <3>4 DEF StoreInv, File
    <3>7. ~overlapped' => Sum(Size, row') + PartSum(part', Files) <= RoomBytes
      BY <1>1, <3>2, <3>3 DEF StoreInv, home
    <3> QED
      BY <3>5, <3>6, <3>7 DEF StoreInv, File
  <2>2. CASE RunsShort(u) \/ Cut(u)
    <3>1. UNCHANGED <<part, blob, row, overlapped>>
          /\ (call' = call \/ call' = [call EXCEPT ![up[u].via] = Idle])
      BY <2>2 DEF RunsShort, Cut, home
    <3>2. \A d \in Calls : call'[d] = Idle \/ call'[d] = call[d]
      BY <1>2, <3>1 DEF Typed
    <3> QED
      BY <1>3, <3>1, <3>2
  <2> QED
    BY <1>4, <2>1, <2>2 DEF Send
<1>5. ASSUME NEW c \in Calls, Serve(c) \/ PutOff(c) PROVE StoreInv'
  BY <1>1, <1>5, ServeStore
<1>6. CASE Stop
  BY <1>3, <1>6 DEF Stop, home
<1>7. CASE UNCHANGED vars
  BY <1>3, <1>7 DEF vars, home
<1> QED
  BY <1>1, <1>4, <1>5, <1>6, <1>7 DEF Next

LEMMA InitStore == Init => StoreInv
<1> SUFFICES ASSUME Init
             PROVE  StoreInv
  OBVIOUS
<1>1. /\ part = [f \in Files |-> <<>>] /\ row = {} /\ \A c \in Calls : call[c].step = "idle"
  BY IdleType DEF Init
<1> DEFINE W == [f \in Files |-> Len(part[f])]
           Z == [f \in Files |-> 0]
<1>2. W = Z
  BY <1>1
<1>3. Sum(Size, row) = 0
  <2>1. IsFiniteSet(row) /\ \A f \in row : Size[f] \in Nat
    BY <1>1, FS_EmptySet
  <2> QED
    BY <1>1, <2>1, SumIs
<1>4. PartSum(part, Files) = 0
  <2> DEFINE T == {s \in SUBSET Files : Sum(Z, s) = 0}
  <2>1. ASSUME NEW s \in SUBSET Files, \A r \in SUBSET Files : Cardinality(r) < Cardinality(s) => r \in T
        PROVE  s \in T
    <3>1. IsFiniteSet(s) /\ \A f \in s : Z[f] \in Nat /\ Z[f] = 0
      BY UploadsAssumption, FS_Subset
    <3> HIDE DEF Z
    <3>2. CASE s = {}
      BY <3>1, <3>2, SumIs
    <3>3. CASE s # {}
      <4>1. PICK f \in s : TRUE
        BY <3>3
      <4>2. s \ {f} \in T
        <5>1. s \ {f} \in SUBSET Files /\ Cardinality(s \ {f}) < Cardinality(s)
          BY OneLess, UploadsAssumption, Zenon
        <5> HIDE DEF T
        <5> QED
          BY <2>1, <5>1
      <4>3. Sum(Z, s) = Z[f] + Sum(Z, s \ {f})
        BY <3>1, SumIs
      <4> QED
        BY <3>1, <4>2, <4>3
    <3> QED
      BY <3>2, <3>3
  <2>2. \A s \in SUBSET Files : s \in T
    <3> HIDE DEF T
    <3> QED
      BY <2>1, SubsetsOf, UploadsAssumption, Zenon
  <2>3. Sum(Z, Files) = 0
    BY <2>2
  <2> QED
    BY <1>2, <2>3, Zenon DEF PartSum
<1> QED
  BY <1>1, <1>3, <1>4, UploadsAssumption DEF StoreInv

\* "Unfinished uploads take room too": as long as requests are worked on one at a time, what is
\* kept is whole, and it stays with what is unfinished within the room's store.
THEOREM StoreHolds == Spec => []StoreKept
<1>1. BytesInv /\ WholeInv /\ StoreInv => StoreKept
  <2> SUFFICES ASSUME BytesInv, WholeInv, StoreInv
               PROVE  StoreKept
    OBVIOUS
  <2>1. Kept = Sum(Size, row) /\ Unfinished(Files) = PartSum(part, Files)
    BY InStoreIs DEF BytesInv
  <2> QED
    BY <2>1 DEF StoreKept, WholeInv, StoreInv
<1> QED
  BY <1>1, BytesInductive, InitWhole, NextWhole, InitStore, NextStore, PTL DEF Spec

-----------------------------------------------------------------------------
(* A sweep takes no file that somebody has yet to read.                    *)

Recorded ==
    /\ rowAge \in [Blobs -> AgeOrNone]
    /\ fetched \in [Blobs -> [Members -> AgeOrNone]]
    /\ reading \in [Members -> Blobs \cup {Nothing}]

\* Whom a message is for.
MeantFor(m) == IF To[m] = Everyone THEN Members \ {From[m]} ELSE {To[m]}

\* Whom it is for has been sent its file.
ReadBy(m) == \A r \in MeantFor(m) : <<r, BlobOf[m]>> \in had

\* Who stands in file_fetches has had the file.
FetchedWasHad == \A f \in Blobs : \A r \in Members : fetched[f][r] # None => <<r, f>> \in had

\* What a sweep is about to take is too old, or read by everyone.
DueIsRead ==
    sweep.at = "rows" =>
        \A f \in Blobs : f \in sweep.due =>
            rowAge[f] = MaxDays \/ \A m \in sweep.saw : BlobOf[m] = f => ReadBy(m)

KeepInv == Recorded /\ FetchedWasHad /\ DueIsRead

LEMMA Days == None \in AgeOrNone /\ 0 \in AgeOrNone /\ None # 0 /\ MaxDays # None
BY KeepingAssumption DEF AgeOrNone, Ages, None

LEMMA InitKeep == KeepInit => KeepInv
BY Days DEF KeepInit, KeepInv, Recorded, FetchedWasHad, DueIsRead

\* What a sweep found out stays true as long as a day does not pass.
LEMMA DueStays ==
    ASSUME DueIsRead, sweep' = sweep \/ sweep'.at # "rows", had \subseteq had',
           \A f \in Blobs : rowAge[f] # None => rowAge'[f] = rowAge[f]
    PROVE  DueIsRead'
BY Days DEF DueIsRead, ReadBy

\* A step that neither reads nor sweeps.
LEMMA NothingFetched ==
    ASSUME KeepInv, UNCHANGED <<fetched, had>>, rowAge' \in [Blobs -> AgeOrNone],
           reading' \in [Members -> Blobs \cup {Nothing}],
           sweep' = sweep \/ sweep'.at # "rows",
           \A f \in Blobs : rowAge[f] # None => rowAge'[f] = rowAge[f]
    PROVE  KeepInv'
<1>1. Recorded' /\ FetchedWasHad'
  BY DEF KeepInv, Recorded, FetchedWasHad
<1>2. DueIsRead'
  BY DueStays DEF KeepInv
<1> QED
  BY <1>1, <1>2 DEF KeepInv

\* A member has had the whole of a file, and the home notes it.
LEMMA NotedIsHad ==
    ASSUME KeepInv, NEW f \in Blobs, NEW r \in Members, Note(f, r), had' = had \cup {<<r, f>>},
           UNCHANGED <<rowAge, sweep>>, reading' \in [Members -> Blobs \cup {Nothing}]
    PROVE  KeepInv'
<1>1. fetched' \in [Blobs -> [Members -> AgeOrNone]]
  BY Days DEF KeepInv, Recorded, Note, KeptAge
<1>2. \A g \in Blobs : \A s \in Members : fetched'[g][s] = fetched[g][s] \/ <<s, g>> = <<r, f>>
  BY DEF KeepInv, Recorded, Note
<1>3. FetchedWasHad'
  BY <1>2 DEF KeepInv, FetchedWasHad
<1>4. DueIsRead'
  BY DueStays DEF KeepInv
<1> QED
  BY <1>1, <1>3, <1>4 DEF KeepInv, Recorded

\* A look finds files that everyone has read or that are too old, or that nobody points at.
LEMMA LookFindsRead == ASSUME KeepInv, SweepLook PROVE KeepInv'
<1>1. sweep'.due = {f \in Blobs : Due(f)} /\ sweep'.saw = {m \in Messages : msg[m] = "placed"}
  BY DEF SweepLook
<1>2. UNCHANGED <<rowAge, fetched, had, reading>>
  BY DEF SweepLook, homeFiles
<1>3. ASSUME NEW f \in Blobs, f \in sweep'.due, rowAge[f] # MaxDays,
             NEW m \in sweep'.saw, BlobOf[m] = f, NEW r \in MeantFor(m)
      PROVE  <<r, f>> \in had
  <2>1. m \in Refs(f) /\ m \in Messages
    BY <1>1, <1>3 DEF Refs
  <2>2. FetchedByAll(f)
    BY <1>1, <1>3, <2>1 DEF Due
  <2>3. r \in Audience(f)
    BY <1>3, <2>1 DEF Audience, MeantFor
  <2>4. r \in Members
    BY <1>3, <2>1, KeepingAssumption DEF MeantFor
  <2>5. fetched[f][r] >= KeepDays
    BY <2>2, <2>3 DEF FetchedByAll
  <2>6. fetched[f][r] # None
    BY <2>5, KeepingAssumption DEF None
  <2> QED
    BY <2>4, <2>6 DEF KeepInv, FetchedWasHad
<1>4. DueIsRead'
  BY <1>2, <1>3 DEF DueIsRead, ReadBy, MeantFor
<1>5. Recorded' /\ FetchedWasHad'
  BY <1>2 DEF KeepInv, Recorded, FetchedWasHad
<1> QED
  BY <1>4, <1>5 DEF KeepInv

\* What a sweep takes leaves file_fetches too.
LEMMA TakenIsForgotten == ASSUME KeepInv, SweepRows PROVE KeepInv'
<1>1. Recorded'
  BY Days DEF KeepInv, Recorded, SweepRows
<1>2. FetchedWasHad'
  BY DEF KeepInv, Recorded, FetchedWasHad, SweepRows
<1>3. DueIsRead'
  BY DEF DueIsRead, SweepRows
<1> QED
  BY <1>1, <1>2, <1>3 DEF KeepInv

\* Ages go on, and what is not there has none.
LEMMA DayKeeps == ASSUME KeepInv, DayPasses PROVE KeepInv'
<1>1. \A age \in AgeOrNone : Older(age) \in AgeOrNone /\ (Older(age) # None => age # None)
  BY KeepingAssumption DEF Older, AgeOrNone, Ages, None
<1>2. Recorded'
  BY <1>1 DEF KeepInv, Recorded, DayPasses
<1>3. FetchedWasHad'
  BY <1>1 DEF KeepInv, Recorded, FetchedWasHad, DayPasses
<1>4. DueIsRead'
  BY DEF DueIsRead, DayPasses
<1> QED
  BY <1>2, <1>3, <1>4 DEF KeepInv

LEMMA NextKeep == KeepInv /\ [KeepNext]_keepVars => KeepInv'
<1> SUFFICES ASSUME KeepInv, [KeepNext]_keepVars
             PROVE  KeepInv'
  OBVIOUS
<1> USE DEF homeFiles
<1>0. Recorded
  BY DEF KeepInv
<1>1. ASSUME NEW m \in Messages,
             Attach(m) \/ Refuse(m) \/ Fail(m) \/ Tombstone(m) \/ CannotUpload(m)
             \/ CheckMessage(m) \/ PlaceMessage(m)
      PROVE  KeepInv'
  <2>1. UNCHANGED <<rowAge, fetched, reading, sweep, had>>
    BY <1>1 DEF Attach, Refuse, Fail, Tombstone, CannotUpload, CheckMessage, PlaceMessage
  <2> QED
    BY <1>0, <2>1, NothingFetched DEF Recorded
<1>2. ASSUME NEW m \in Messages, Queue(m) \/ Upload(m) PROVE KeepInv'
  <2>1. UNCHANGED <<fetched, reading, sweep, had>>
    BY <1>2 DEF Queue, Upload
  <2>2. /\ rowAge' \in [Blobs -> AgeOrNone]
        /\ \A f \in Blobs : rowAge[f] # None => rowAge'[f] = rowAge[f]
    <3>1. BlobOf[m] \in Blobs
      BY KeepingAssumption
    <3>2. CASE Queue(m)
      BY <1>0, <3>1, <3>2, Days DEF Queue, KeptAge, Recorded
    <3>3. CASE Upload(m)
      BY <1>0, <3>1, <3>3, Days DEF Upload, Recorded
    <3> QED
      BY <1>2, <3>2, <3>3
  <2> QED
    BY <1>0, <2>1, <2>2, NothingFetched DEF Recorded
<1>3. ASSUME NEW r \in Members, LastPiece(r) PROVE KeepInv'
  <2>1. reading[r] \in Blobs /\ reading' \in [Members -> Blobs \cup {Nothing}]
    BY <1>0, <1>3 DEF LastPiece, Recorded
  <2>2. Note(reading[r], r) /\ had' = had \cup {<<r, reading[r]>>} /\ UNCHANGED <<rowAge, sweep>>
    BY <1>3 DEF LastPiece
  <2> QED
    BY <2>1, <2>2, NotedIsHad
<1>4. ASSUME NEW r \in Members, GetFails(r) \/ \E f \in Blobs : StartGet(r, f) PROVE KeepInv'
  <2>1. reading' \in [Members -> Blobs \cup {Nothing}] /\ UNCHANGED <<rowAge, fetched, sweep, had>>
    BY <1>0, <1>4 DEF GetFails, StartGet, Recorded
  <2> QED
    BY <1>0, <2>1, NothingFetched DEF Recorded
<1>5. ASSUME NEW f \in Blobs, GetAtHome(f) PROVE KeepInv'
  <2>1. Note(f, Home) /\ had' = had \cup {<<Home, f>>} /\ UNCHANGED <<rowAge, sweep, reading>>
    BY <1>5 DEF GetAtHome
  <2> QED
    BY <1>0, <2>1, NotedIsHad, KeepingAssumption DEF Recorded
<1>6. ASSUME SweepBytes \/ OrphanLook \/ OrphanRemove \/ HomeStops PROVE KeepInv'
  <2>1. UNCHANGED <<rowAge, fetched, had>> /\ sweep'.at # "rows"
    BY <1>6 DEF SweepBytes, OrphanLook, OrphanRemove, HomeStops
  <2>2. reading' \in [Members -> Blobs \cup {Nothing}]
    BY <1>0, <1>6 DEF SweepBytes, OrphanLook, OrphanRemove, HomeStops, Recorded
  <2> QED
    BY <1>0, <2>1, <2>2, NothingFetched DEF Recorded
<1>7. ASSUME (\E s \in Members : CopiesLook(s) \/ CopiesRemove(s)) \/ UNCHANGED keepVars
      PROVE  KeepInv'
  <2>1. UNCHANGED <<rowAge, fetched, reading, sweep, had>>
    BY <1>7 DEF CopiesLook, CopiesRemove, keepVars
  <2> QED
    BY <1>0, <2>1, NothingFetched DEF Recorded
<1> QED
  BY <1>1, <1>2, <1>3, <1>4, <1>5, <1>6, <1>7, LookFindsRead, TakenIsForgotten, DayKeeps
     DEF KeepNext, Proceed, GetStep, SweepStep

THEOREM KeepInductive == KeepSpec => []KeepInv
BY InitKeep, NextKeep, PTL DEF KeepSpec

\* Only the sweep takes a row, and only one that was due when it looked.
LEMMA RowsAreTaken ==
    ASSUME KeepInv, [KeepNext]_keepVars, NEW f \in Blobs, rowAge[f] # None, rowAge'[f] = None
    PROVE  SweepRows /\ f \in sweep.due
<1> USE DEF homeFiles
<1>0. rowAge \in [Blobs -> AgeOrNone]
  BY DEF KeepInv, Recorded
<1>1. rowAge' # rowAge
  OBVIOUS
<1>2. ASSUME NEW m \in Messages, Queue(m) \/ Upload(m) PROVE FALSE
  <2>1. CASE Queue(m)
    BY <1>0, <2>1, Days DEF Queue, KeptAge
  <2>2. CASE Upload(m)
    BY <1>0, <2>2, Days DEF Upload
  <2> QED
    BY <1>2, <2>1, <2>2
<1>3. ~DayPasses
  <2> SUFFICES ASSUME DayPasses PROVE FALSE
    OBVIOUS
  <2>1. rowAge'[f] = Older(rowAge[f])
    BY DEF DayPasses
  <2> QED
    BY <1>0, <2>1, KeepingAssumption DEF Older, AgeOrNone, Ages, None
<1>4. SweepRows
  <2>1. ASSUME NEW m \in Messages,
               Attach(m) \/ Refuse(m) \/ Fail(m) \/ Tombstone(m) \/ CannotUpload(m)
               \/ CheckMessage(m) \/ PlaceMessage(m)
        PROVE  FALSE
    BY <1>1, <2>1
       DEF Attach, Refuse, Fail, Tombstone, CannotUpload, CheckMessage, PlaceMessage
  <2>2. ASSUME NEW r \in Members, GetStep(r) \/ \E g \in Blobs : StartGet(r, g) PROVE FALSE
    BY <1>1, <2>2 DEF GetStep, LastPiece, GetFails, StartGet
  <2>3. ASSUME NEW g \in Blobs, GetAtHome(g) PROVE FALSE
    BY <1>1, <2>3 DEF GetAtHome
  <2>4. ~(SweepLook \/ SweepBytes \/ OrphanLook \/ OrphanRemove \/ HomeStops)
    BY <1>1 DEF SweepLook, SweepBytes, OrphanLook, OrphanRemove, HomeStops
  <2>5. ASSUME NEW s \in Members, CopiesLook(s) \/ CopiesRemove(s) PROVE FALSE
    BY <1>1, <2>5 DEF CopiesLook, CopiesRemove
  <2>6. ~UNCHANGED keepVars
    BY <1>1 DEF keepVars
  <2> QED
    BY <1>2, <1>3, <2>1, <2>2, <2>3, <2>4, <2>5, <2>6 DEF KeepNext, Proceed, SweepStep
<1> QED
  BY <1>4 DEF SweepRows

\* The sweep at the home takes a file before its time only when everyone was sent it whom a
\* message it has looked at is for: whatever messages share the file, and however often it was
\* fetched, lost and brought again.
THEOREM UnreadFilesStay == KeepSpec => UnreadStays
<1>1. ASSUME KeepInv, [KeepNext]_keepVars,
             NEW f \in Blobs, rowAge[f] \notin {None, MaxDays}, rowAge'[f] = None,
             NEW m \in sweep.saw, BlobOf[m] = f, NEW r \in Members,
             IF To[m] = Everyone THEN r # From[m] ELSE r = To[m]
      PROVE  <<r, f>> \in had
  <2>1. SweepRows /\ f \in sweep.due
    BY <1>1, RowsAreTaken
  <2>2. ReadBy(m)
    BY <1>1, <2>1 DEF KeepInv, DueIsRead, SweepRows
  <2>3. r \in MeantFor(m)
    BY <1>1 DEF MeantFor
  <2> QED
    BY <1>1, <2>2, <2>3 DEF ReadBy
<1>2. KeepInv /\ [KeepNext]_keepVars =>
        [\A f \in Blobs : rowAge[f] \notin {None, MaxDays} /\ rowAge'[f] = None =>
            \A m \in sweep.saw : BlobOf[m] = f =>
                \A r \in Members :
                    (IF To[m] = Everyone THEN r # From[m] ELSE r = To[m])
                        => <<r, f>> \in had]_keepVars
  BY <1>1
<1> QED
  BY <1>2, KeepInductive, PTL DEF KeepSpec, UnreadStays
=============================================================================
