-------------------------------- MODULE Replica --------------------------------
(***************************************************************************)
(* A member's helper and its copy of a room: the chain, the member rows    *)
(* and the room row, kept up by pushes and by syncs over a link that comes *)
(* and goes (room_link_task, serve_home_link and sync_from_home of         *)
(* crates/cli/src/helper/peers.rs; verify_incoming, apply_control and      *)
(* apply_from_home of crates/cli/src/helper/mod.rs).                       *)
(*                                                                         *)
(* The rows follow one other member, the worker, and what the owner does   *)
(* to it.  Each push goes out on a stream of its own: pushes come in any   *)
(* order, late, or never.  The home's own rows are what its chain says     *)
(* (Home is about how they get there).                                     *)
(***************************************************************************)
EXTENDS Naturals, Sequences

CONSTANTS
    MaxSeq,   \* bound: messages of the room
    Batch,    \* SYNC_BATCH
    MaxCuts   \* bound: links that break, the member's helper restarting

ASSUME ReplicaAssumption == MaxSeq \in Nat /\ Batch \in Nat \ {0} /\ MaxCuts \in Nat

VARIABLES
    chain,   \* the room's chain at its home
    mine,    \* the member's copy of it
    row,     \* the worker's row in the member's table members
    room,    \* the member's row in table rooms
    link,    \* "down", "up", or "ended": a closed room has no link any more
    old,     \* the room as it was read when the link came up
    pushes,  \* messages the home has pushed and the member has not seen
    work,    \* what the member's room task is doing
    cuts     \* bounded counter

member == <<mine, row, room>>
vars == <<chain, member, link, old, pushes, work, cuts>>

Ops == {"join", "say", "mute", "unmute", "revoke", "pause", "resume", "hold", "release", "rotate"}

Seqs == 1..MaxSeq

Unknown == [known |-> FALSE, muted |-> FALSE, revoked |-> FALSE]
Row(muted, revoked) == [known |-> TRUE, muted |-> muted, revoked |-> revoked]
Idle == [at |-> "idle"]
NewRoom == [paused |-> FALSE, hold |-> FALSE, closed |-> FALSE]

Init ==
    /\ chain = <<>> /\ mine = <<>>
    /\ row = Unknown
    /\ room = NewRoom /\ old = NewRoom
    /\ link = "down"
    /\ pushes = {}
    /\ work = Idle
    /\ cuts = 0

-----------------------------------------------------------------------------
(* What a message does to the rows.                                        *)

\* The worker's row after a message: joining brings a fresh one.
RowAfter(r, op) ==
    CASE op = "join" -> Row(FALSE, FALSE)
      [] ~r.known -> r
      [] op = "mute" -> [r EXCEPT !.muted = TRUE]
      [] op = "unmute" -> [r EXCEPT !.muted = FALSE]
      [] op = "revoke" -> [r EXCEPT !.revoked = TRUE]
      [] OTHER -> r

\* apply_control writes the whole row of the room, from the copy it is given.
RoomAfter(now, given, op) ==
    CASE op \in {"pause", "resume"} -> [given EXCEPT !.paused = (op = "pause")]
      [] op \in {"hold", "release"} -> [given EXCEPT !.hold = (op = "hold")]
      [] op = "rotate" -> [given EXCEPT !.paused = TRUE, !.closed = TRUE]
      [] OTHER -> now

\* The rows at the home, n messages on.
HomeRow[n \in Nat] == IF n = 0 THEN Unknown ELSE RowAfter(HomeRow[n - 1], chain[n])
HomeRoom[n \in Nat] ==
    IF n = 0 THEN NewRoom ELSE RoomAfter(HomeRoom[n - 1], HomeRoom[n - 1], chain[n])

-----------------------------------------------------------------------------
(* The home.                                                               *)

Newest == Len(chain)

\* What the home lets in, and would change something.
Takes(op) ==
    LET w == HomeRow[Newest]
        h == HomeRoom[Newest]
    IN  /\ ~h.closed
        /\ CASE op = "join" -> ~w.known \/ w.revoked
             [] op = "say" -> w.known /\ ~w.revoked /\ ~w.muted /\ ~h.paused
             [] op = "mute" -> w.known /\ ~w.revoked /\ ~w.muted
             [] op = "unmute" -> w.known /\ ~w.revoked /\ w.muted
             [] op = "revoke" -> w.known /\ ~w.revoked
             [] op = "pause" -> ~h.paused
             [] op = "resume" -> h.paused
             [] op = "hold" -> ~h.hold
             [] op = "release" -> h.hold
             [] op = "rotate" -> TRUE

\* The home places a message and pushes it to the links it has; a rotation closes them.
Place(op) ==
    /\ Newest < MaxSeq /\ Takes(op)
    /\ chain' = Append(chain, op)
    /\ pushes' = IF link = "up" THEN pushes \cup {Newest + 1} ELSE pushes
    /\ UNCHANGED <<member, link, old, work, cuts>>

LosePush(s) ==
    /\ s \in pushes
    /\ pushes' = pushes \ {s}
    /\ UNCHANGED <<chain, member, link, old, work, cuts>>

-----------------------------------------------------------------------------
(* The member's room task.                                                 *)

\* room_link_task: a closed room needs no link; else the room as it is now goes with the link.
LinkUp ==
    /\ link = "down"
    /\ IF room.closed THEN link' = "ended" /\ UNCHANGED <<old, work>>
       ELSE link' = "up" /\ old' = room /\ work' = [at |-> "sync"]
    /\ UNCHANGED <<chain, member, pushes, cuts>>

\* The link is gone with all that was under way on it; the task begins again.
DropLink ==
    /\ link' = "down"
    /\ pushes' = {}
    /\ work' = Idle
    /\ UNCHANGED <<chain, old>>

Cut ==
    /\ link = "up" /\ cuts < MaxCuts
    /\ cuts' = cuts + 1
    /\ DropLink
    /\ UNCHANGED member

\* A sync asks for what follows; the home reads its messages
SyncRead ==
    /\ work.at = "sync"
    /\ LET upto == IF Newest < Len(mine) + Batch THEN Newest ELSE Len(mine) + Batch
       IN  work' = [at |-> "read", from |-> Len(mine) + 1, upto |-> upto]
    /\ UNCHANGED <<chain, member, link, old, pushes, cuts>>

\* A full batch that does not reach the home's head: ask again.
More == work.upto = work.from + Batch - 1 /\ work.upto < Newest

\* Mutant: the answer has no members.
SyncRowsNone ==
    /\ work.at = "read"
    /\ UNCHANGED row
    /\ work' = [at |-> "apply", next |-> work.from, upto |-> work.upto, again |-> More]
    /\ UNCHANGED <<chain, mine, room, link, old, pushes, cuts>>

\* and then its head and its members, which may be further on; the member takes these over first.
SyncRows ==
    /\ work.at = "read"
    /\ row' = HomeRow[Newest]
    /\ work' = [at |-> "apply", next |-> work.from, upto |-> work.upto, again |-> More]
    /\ UNCHANGED <<chain, mine, room, link, old, pushes, cuts>>

\* A push comes in.
TakePush(s) ==
    /\ link = "up" /\ work.at = "idle"
    /\ s \in pushes
    /\ pushes' = pushes \ {s}
    /\ work' = [at |-> "apply", next |-> s, upto |-> s, again |-> FALSE]
    /\ UNCHANGED <<chain, member, link, old, cuts>>

\* verify_incoming does what the message says before it has a place here.
Verify ==
    LET op == chain[work.next] IN
    /\ work.at = "apply" /\ work.next <= work.upto
    /\ op = "say" => row.known
    /\ row' = RowAfter(row, op)
    /\ room' = RoomAfter(room, old, op)
    /\ work' = [work EXCEPT !.at = "verified"]
    /\ UNCHANGED <<chain, mine, link, old, pushes, cuts>>

\* The sender is not known here: the push is answered with an error.
UnknownSender ==
    /\ work.at = "apply" /\ work.next <= work.upto
    /\ chain[work.next] = "say" /\ ~row.known
    /\ work' = Idle
    /\ UNCHANGED <<chain, member, link, old, pushes, cuts>>

\* Mutant: whatever comes is stored.
StoreAny ==
    /\ work.at = "verified"
    /\ mine' = IF work.next <= Len(mine) THEN mine ELSE Append(mine, chain[work.next])
    /\ work' = [work EXCEPT !.at = "apply", !.next = @ + 1]
    /\ UNCHANGED <<chain, row, room, link, old, pushes, cuts>>

\* append: only what follows; what is there already is passed over.
Store ==
    /\ work.at = "verified" /\ work.next <= Len(mine) + 1
    /\ mine' = IF work.next <= Len(mine) THEN mine ELSE Append(mine, chain[work.next])
    /\ work' = [work EXCEPT !.at = "apply", !.next = @ + 1]
    /\ UNCHANGED <<chain, row, room, link, old, pushes, cuts>>

\* A message that does not follow: NeedSync.
ChainBreak ==
    /\ work.at = "verified" /\ work.next > Len(mine) + 1
    /\ work' = [at |-> "sync"]
    /\ UNCHANGED <<chain, member, link, old, pushes, cuts>>

\* All applied: the next batch, or back to listening; a closed room ends the task.
Applied ==
    /\ work.at = "apply" /\ work.next > work.upto
    /\ IF work.again THEN work' = [at |-> "sync"] /\ UNCHANGED link
       ELSE work' = Idle /\ link' = IF room.closed THEN "ended" ELSE link
    /\ UNCHANGED <<chain, member, old, pushes, cuts>>

\* Mutant: the tick does nothing.
TickNothing == FALSE /\ UNCHANGED vars

\* Every half minute it syncs whatever it has heard.
Tick ==
    /\ link = "up" /\ work.at = "idle"
    /\ work' = [at |-> "sync"]
    /\ UNCHANGED <<chain, member, link, old, pushes, cuts>>

-----------------------------------------------------------------------------

Busy == SyncRead \/ SyncRows \/ Verify \/ UnknownSender \/ Store \/ ChainBreak \/ Applied

Next ==
    \/ \E op \in Ops : Place(op)
    \/ \E s \in Seqs : LosePush(s) \/ TakePush(s)
    \/ LinkUp \/ Cut \/ Tick \/ Busy

Spec == Init /\ [][Next]_vars

\* The task goes on with what it began, dials again, and its tick comes round.
Fairness == WF_vars(Busy) /\ WF_vars(LinkUp) /\ SF_vars(Tick)

FairSpec == Spec /\ Fairness

-----------------------------------------------------------------------------
(* Properties.                                                             *)

Rooms == [paused : BOOLEAN, hold : BOOLEAN, closed : BOOLEAN]

\* Types; a member never has more than the home.
TypeOK ==
    /\ chain \in Seq(Ops) /\ Len(mine) <= Len(chain)
    /\ row \in {Unknown} \cup [known : {TRUE}, muted : BOOLEAN, revoked : BOOLEAN]
    /\ {room, old} \subseteq Rooms
    /\ link \in {"down", "up", "ended"}
    /\ pushes \subseteq 1..Len(chain)
    /\ work.at \in {"idle", "sync", "read", "apply", "verified"}
    /\ cuts \in 0..MaxCuts

\* Whatever order messages come in, twice, late or never: the member's copy is the home's chain
\* up to some message.
CopyIsPrefix == mine = SubSeq(chain, 1, Len(mine))

\* It catches up, unless the room was closed under it.
CatchesUp == <>[](room.closed \/ mine = chain)

\* What early, late and repeated messages did to the worker's row wears off.
RowsConverge == <>[](room.closed \/ row = HomeRow[Newest])

\* A member that has all of the chain and nothing else to come knows of a pause ("A paused room
\* fires nothing", docs/WAKE.md).
PauseIsKnown ==
    mine = chain /\ pushes = {} /\ work = Idle /\ link = "up" /\ HomeRoom[Newest].paused
        => room.paused
=============================================================================
