-------------------------------- MODULE Uploads --------------------------------
(***************************************************************************)
(* Bringing files to a room's home, a piece at a time, ahead of the        *)
(* messages that point at them: `upload` of a member's helper and `admit`  *)
(* and `serve` of the home (crates/cli/src/helper/files.rs).               *)
(*                                                                         *)
(* The home answers the requests of one link one after the other and those *)
(* of several links at the same time.  A request it has taken is worked    *)
(* off to its end even when the link that brought it is gone, so that one  *)
(* upload may meet its own earlier request.                                *)
(***************************************************************************)
EXTENDS Naturals, Sequences, FiniteSets, FiniteSetsExt

CONSTANTS
    Uploads,    \* messages with a file, each on a helper of its own
    Files,
    FileOf,     \* the file a message points at
    Size,       \* its size in pieces (CHUNK)
    RoomBytes,  \* room_file_bytes, in pieces
    Calls,      \* requests the home may work on at once
    MaxFaults   \* bound: links cut, requests put off, restarts of the home

ASSUME UploadsAssumption ==
    /\ FileOf \in [Uploads -> Files] /\ IsFiniteSet(Files)
    /\ Size \in [Files -> Nat \ {0}]
    /\ Calls # {}
    /\ RoomBytes \in Nat /\ MaxFaults \in Nat

VARIABLES
    unsafe,  \* files a `safe` room turns away by their bytes
    part,    \* the unfinished upload of each file: the pieces in it
    blob,    \* the finished bytes of each file, <<>> for none
    row,     \* files with a row in table files
    up,      \* where each upload is
    call,    \* what the home works on
    faults,  \* bounded counter
    overlapped   \* history: two requests were worked on at the same time

home == <<part, blob, row>>
vars == <<unsafe, part, blob, row, up, call, faults, overlapped>>

\* The bytes a file is made of: piece i of it is i.
Whole(f) == [i \in 1..Size[f] |-> i]

Queued == [at |-> "queued"]
Idle == [step |-> "idle"]

Init ==
    /\ unsafe \in SUBSET Files
    /\ part = [f \in Files |-> <<>>]
    /\ blob = [f \in Files |-> <<>>]
    /\ row = {}
    /\ up = [u \in Uploads |-> Queued]
    /\ call = [c \in Calls |-> Idle]
    /\ faults = 0
    /\ overlapped = FALSE

-----------------------------------------------------------------------------
(* The rules of the home.                                                  *)

Kept == MapThenSumSet(LAMBDA f : Size[f], row)
Unfinished(F) == MapThenSumSet(LAMBDA f : Len(part[f]), F)

\* Mutant: unfinished uploads are left out of the sum.
AdmitByKept(f) == f \in row \/ Kept + Size[f] <= RoomBytes

\* admit: the room has space for all of f, counting what is kept and what other uploads have
\* brought so far.
Admit(f) == f \in row \/ Kept + Unfinished(Files \ {f}) + Size[f] <= RoomBytes

-----------------------------------------------------------------------------
(* The member's helper: upload.                                            *)

Idles == {c \in Calls : call[c].step = "idle"}

\* Which of the free places a request takes makes no difference.
Free(c) == Idles # {} /\ c = CHOOSE d \in Idles : TRUE
Waits(u, c) == up[u].at = "waits" /\ up[u].via = c

\* Two requests at once are remembered.
NoteOverlap == overlapped' = (overlapped \/ Idles # Calls)

\* It asks what the home has of its file.
Ask(u, c) ==
    /\ up[u].at = "queued" /\ Free(c)
    /\ up' = [up EXCEPT ![u] = [at |-> "waits", via |-> c]]
    /\ call' = [call EXCEPT ![c] = [step |-> "ask", of |-> u]]
    /\ NoteOverlap
    /\ UNCHANGED <<unsafe, home, faults>>

\* It sends the piece from where the home says.
Put(u, c) ==
    /\ up[u].at = "told" /\ up[u].have < Size[FileOf[u]] /\ Free(c)
    /\ up' = [up EXCEPT ![u] = [at |-> "waits", via |-> c]]
    /\ call' = [call EXCEPT ![c] = [step |-> "put", of |-> u, offset |-> up[u].have]]
    /\ NoteOverlap
    /\ UNCHANGED <<unsafe, home, faults>>

\* There is no piece there: its own copy must have become shorter, and the message is refused.
RunsShort(u) ==
    /\ up[u].at = "told" /\ up[u].have >= Size[FileOf[u]]
    /\ up' = [up EXCEPT ![u] = [at |-> "refused", why |-> "short"]]
    /\ UNCHANGED <<unsafe, home, call, faults, overlapped>>

\* The link is cut: the message stays queued.  A request on its way is lost, one the home has
\* taken is worked off.
Cut(u) ==
    /\ up[u].at = "waits" /\ faults < MaxFaults
    /\ faults' = faults + 1
    /\ up' = [up EXCEPT ![u] = Queued]
    /\ call' \in {call} \cup
        IF call[up[u].via].step \in {"ask", "put"} THEN {[call EXCEPT ![up[u].via] = Idle]} ELSE {}
    /\ UNCHANGED <<unsafe, home, overlapped>>

-----------------------------------------------------------------------------
(* The home: serve.                                                        *)

\* The call ends; who still waits for it has the answer.
Answer(c, answer) ==
    /\ call' = [call EXCEPT ![c] = Idle]
    /\ up' = [u \in Uploads |-> IF Waits(u, c) THEN answer ELSE up[u]]
    /\ UNCHANGED <<unsafe, faults, overlapped>>

Told(have) == [at |-> "told", have |-> have]
There == [at |-> "there"]
RefusedFor(why) == [at |-> "refused", why |-> why]

\* The call goes on with its next step.
GoesOn(c, step) ==
    /\ call' = [call EXCEPT ![c] = step]
    /\ UNCHANGED <<unsafe, up, faults, overlapped>>

File(c) == FileOf[call[c].of]

\* Not now: the room is paused, or the member's allowance for the day is used up.
PutOff(c) ==
    /\ call[c].step \in {"ask", "put"} /\ faults < MaxFaults
    /\ call' = [call EXCEPT ![c] = Idle]
    /\ up' = [u \in Uploads |-> IF Waits(u, c) THEN Queued ELSE up[u]]
    /\ faults' = faults + 1
    /\ UNCHANGED <<unsafe, home, overlapped>>

\* The room is full.
TurnAway(c) ==
    /\ call[c].step \in {"ask", "put"} /\ ~Admit(File(c))
    /\ Answer(c, RefusedFor("full"))
    /\ UNCHANGED home

\* The file is there already: the same file sent twice is stored once.
HasIt(c) ==
    /\ call[c].step \in {"ask", "put"} /\ File(c) \in row
    /\ Answer(c, There)
    /\ UNCHANGED home

\* What there is of an unfinished upload; one that is too long is thrown away.
Tell(c) ==
    LET f == File(c)
        have == IF Len(part[f]) > Size[f] THEN <<>> ELSE part[f]
    IN  /\ call[c].step = "ask" /\ Admit(f) /\ f \notin row
        /\ part' = [part EXCEPT ![f] = have]
        /\ Answer(c, Told(Len(have)))
        /\ UNCHANGED <<blob, row>>

\* Mutant: the member is sent back to its own offset.
OutOfStepOwnOffset(c) ==
    LET f == File(c) IN
    /\ call[c].step = "put" /\ Admit(f) /\ f \notin row
    /\ call[c].offset # Len(part[f])
    /\ Answer(c, Told(call[c].offset))
    /\ UNCHANGED home

\* A piece that does not fit on is not taken; the member goes on from what there is.
OutOfStep(c) ==
    LET f == File(c) IN
    /\ call[c].step = "put" /\ Admit(f) /\ f \notin row
    /\ call[c].offset # Len(part[f])
    /\ Answer(c, Told(Len(part[f])))
    /\ UNCHANGED home

\* The checks are done and the length is read.
InStep(c) ==
    LET f == File(c) IN
    /\ call[c].step = "put" /\ Admit(f) /\ f \notin row
    /\ call[c].offset = Len(part[f])
    /\ GoesOn(c, [call[c] EXCEPT !.step = "append"])
    /\ UNCHANGED home

\* The piece goes to the end of the file, wherever that is by now.
AppendPiece(c) ==
    LET f == File(c)
        have == call[c].offset + 1
    IN  /\ call[c].step = "append"
        /\ part' = [part EXCEPT ![f] = Append(@, have)]
        /\ IF have < Size[f] THEN Answer(c, Told(have))
           ELSE GoesOn(c, [step |-> "hash", of |-> call[c].of])
        /\ UNCHANGED <<blob, row>>

\* All in, as far as this call counted: its fingerprint and size are taken.
Hash(c) ==
    LET f == File(c) IN
    /\ call[c].step = "hash"
    /\ IF part[f] = <<>> THEN Answer(c, Queued)
       ELSE GoesOn(c, [step |-> "hashed", of |-> call[c].of, right |-> part[f] = Whole(f)])
    /\ UNCHANGED home

\* check_kind: of a kind the room takes, by its bytes.
KindTaken(f) == f \notin unsafe

Fits(c) == call[c].right /\ KindTaken(File(c)) /\ Admit(File(c))

\* It is not what it was said to be, not of a kind the room takes, or too much by now.
ThrowAway(c) ==
    /\ call[c].step = "hashed" /\ ~Fits(c)
    /\ part' = [part EXCEPT ![File(c)] = <<>>]
    /\ Answer(c, RefusedFor("unfit"))
    /\ UNCHANGED <<blob, row>>

\* Mutant: the row is written before the bytes are in place.
MoveRowFirst(c) ==
    /\ call[c].step = "hashed" /\ Fits(c)
    /\ row' = row \cup {File(c)}
    /\ GoesOn(c, [step |-> "moved", of |-> call[c].of])
    /\ UNCHANGED <<part, blob>>

\* The bytes are moved into place; they may be gone, moved by another call.
Move(c) ==
    LET f == File(c) IN
    /\ call[c].step = "hashed" /\ Fits(c)
    /\ IF part[f] = <<>> THEN Answer(c, Queued) /\ UNCHANGED <<part, blob>>
       ELSE /\ blob' = [blob EXCEPT ![f] = part[f]]
            /\ part' = [part EXCEPT ![f] = <<>>]
            /\ GoesOn(c, [step |-> "moved", of |-> call[c].of])
    /\ UNCHANGED row

\* file_add: the row says the file is here.
Record(c) ==
    /\ call[c].step = "moved"
    /\ row' = row \cup {File(c)}
    /\ Answer(c, There)
    /\ UNCHANGED <<part, blob>>

Serve(c) ==
    \/ TurnAway(c) \/ HasIt(c) \/ Tell(c) \/ OutOfStep(c) \/ InStep(c)
    \/ AppendPiece(c) \/ Hash(c) \/ ThrowAway(c) \/ Move(c) \/ Record(c)

\* The home stops: what it was working on is gone, what is on disk stays.
Stop ==
    /\ faults < MaxFaults
    /\ faults' = faults + 1
    /\ call' = [c \in Calls |-> Idle]
    /\ up' = [u \in Uploads |-> IF up[u].at = "waits" THEN Queued ELSE up[u]]
    /\ UNCHANGED <<unsafe, home, overlapped>>

-----------------------------------------------------------------------------

Send(u) == \/ \E c \in Calls : Ask(u, c) \/ Put(u, c)
           \/ RunsShort(u)

Next ==
    \/ \E u \in Uploads : Send(u) \/ Cut(u)
    \/ \E c \in Calls : Serve(c) \/ PutOff(c)
    \/ Stop

Spec == Init /\ [][Next]_vars

\* The outbox is flushed again and again, and the home works off what it has taken.
Fairness == /\ \A u \in Uploads : SF_vars(Send(u))
            /\ \A c \in Calls : WF_vars(Serve(c))

FairSpec == Spec /\ Fairness

-----------------------------------------------------------------------------
(* Properties.                                                             *)

CallTypes ==
    {Idle} \cup [step : {"ask", "hash", "moved"}, of : Uploads]
    \cup [step : {"put", "append"}, of : Uploads, offset : Nat]
    \cup [step : {"hashed"}, of : Uploads, right : BOOLEAN]

UpTypes ==
    [at : {"queued", "there"}] \cup [at : {"waits"}, via : Calls]
    \cup [at : {"told"}, have : Nat] \cup [at : {"refused"}, why : {"full", "short", "unfit"}]

\* Types.
TypeOK ==
    /\ unsafe \subseteq Files /\ row \subseteq Files
    /\ \A f \in Files : {part[f], blob[f]} \subseteq Seq(1..Size[f])
    /\ up \in [Uploads -> UpTypes] /\ call \in [Calls -> CallTypes]
    /\ faults \in 0..MaxFaults /\ overlapped \in BOOLEAN

\* A file the home says it has, and lets messages point at, has bytes in place, over restarts at
\* any point of an upload.
RowHasBytes == \A f \in row : blob[f] # <<>>

\* As long as requests come one at a time, what is kept is what its fingerprint says.
KeptIsWhole == ~overlapped => \A f \in row : blob[f] = Whole(f)

\* "Unfinished uploads take room too, so pieces cannot fill the disk": and what is kept and what
\* is unfinished stay within the room's store together.
StoreKept == KeptIsWhole /\ (~overlapped => Kept + Unfinished(Files) <= RoomBytes)

\* Every upload ends: its file is there or its message is refused, however pieces of several
\* uploads, cuts and restarts fall together.
UploadEnds == \A u \in Uploads : <>(up[u].at \in {"there", "refused"})

\* "A cut connection picks up where it stopped" (docs/FILES.md): no helper is told that a file
\* has become shorter which has not changed.
PicksUp == \A u \in Uploads : up[u] # RefusedFor("short")
=============================================================================
