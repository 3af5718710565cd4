--------------------------------- MODULE Home ---------------------------------
(***************************************************************************)
(* The home's one door: sequence_here (crates/cli/src/helper/mod.rs) run   *)
(* by many calls at once, one per link and per local `send`.  A call reads *)
(* the room, then the member, then who holds the task, and only then takes *)
(* the transaction that gives the message its place; nothing is locked in  *)
(* between, so what it read may be stale.  A control message changes the   *)
(* room and the members in that transaction, and once more afterwards,     *)
(* from the room as the call first read it (apply_control).                *)
(***************************************************************************)
EXTENDS Naturals, Sequences, FiniteSets

CONSTANTS
    Calls,     \* requests the home serves at once
    Members,   \* member names, the owner's among them
    Owner,
    Messages,  \* message ids; a resubmit carries the id it had
    Said,      \* what each message says: [from, op, who]
    NoOne,     \* the holder of a task nobody holds
    MaxLen     \* bound on the chain

RoomOps == {"pause", "resume", "hold", "unhold"}
MemberOps == {"mute", "unmute", "revoke", "grant", "demote"}
ControlOps == RoomOps \union MemberOps
TaskOps == {"claim", "release"}

ASSUME HomeAssumption ==
    /\ Owner \in Members
    /\ NoOne \notin Members
    /\ MaxLen \in Nat
    /\ Said \in [Messages -> [from : Members, op : ControlOps \union TaskOps, who : Members]]

VARIABLES
    chain,    \* the room's messages in the order the home gave them
    room,     \* the rooms row: paused, hold
    members,  \* the members rows: role, muted, revoked
    call,     \* what each call is doing, with what it has read
    saw,      \* history: how long the chain was at each read behind a placed message
    raced     \* history: a control call wrote a room back that was read before another's

vars == <<chain, room, members, call, saw, raced>>

From(m) == Said[m].from
Op(m) == Said[m].op
Who(m) == Said[m].who
IsControl(m) == Op(m) \in ControlOps
Placed(m) == \E i \in 1..Len(chain) : chain[i] = m

Rooms == [paused : BOOLEAN, hold : BOOLEAN]
Rows == [role : {"observer", "chat"}, muted : BOOLEAN, revoked : BOOLEAN]
Reads == [room : Nat, member : Nat, holder : Nat]

Requests ==
    [at : {"read", "vetted", "cleared", "placed"}, m : Messages, room : Rooms, saw : Reads]

NewRoom == [paused |-> FALSE, hold |-> FALSE]
NewRow == [role |-> "chat", muted |-> FALSE, revoked |-> FALSE]
NoReads == [room |-> 0, member |-> 0, holder |-> 0]
Idle == [at |-> "idle"]

TypeOK ==
    /\ chain \in Seq(Messages)
    /\ room \in Rooms
    /\ members \in [Members -> Rows]
    /\ call \in [Calls -> {Idle} \union Requests]
    /\ saw \in [Messages -> Reads]
    /\ raced \in BOOLEAN

Init ==
    /\ chain = <<>>
    /\ room = NewRoom
    /\ members = [x \in Members |-> NewRow]
    /\ call = [c \in Calls |-> Idle]
    /\ saw = [m \in Messages |-> NoReads]
    /\ raced = FALSE

-----------------------------------------------------------------------------
(* What control messages do *)

\* The column of the room a control message sets.
OnRoom(m, r) ==
    CASE Op(m) = "pause"  -> [r EXCEPT !.paused = TRUE]
      [] Op(m) = "resume" -> [r EXCEPT !.paused = FALSE]
      [] Op(m) = "hold"   -> [r EXCEPT !.hold = TRUE]
      [] Op(m) = "unhold" -> [r EXCEPT !.hold = FALSE]
      [] OTHER -> r

\* The column of the named member's row a control message sets.
OnMember(m, row) ==
    CASE Op(m) = "mute"   -> [row EXCEPT !.muted = TRUE]
      [] Op(m) = "unmute" -> [row EXCEPT !.muted = FALSE]
      [] Op(m) = "revoke" -> [row EXCEPT !.revoked = TRUE]
      [] Op(m) = "grant"  -> [row EXCEPT !.role = "chat"]
      [] Op(m) = "demote" -> [row EXCEPT !.role = "observer"]
      [] OTHER -> row

OnMembers(m, rows) == [rows EXCEPT ![Who(m)] = OnMember(m, @)]

\* claim_holder: who holds the task after these messages, by the claim not yet
\* released by the member that made it.
HolderAfter(messages) ==
    LET held[i \in 0..Len(messages)] ==
            IF i = 0 THEN NoOne
            ELSE IF Op(messages[i]) = "claim" /\ held[i - 1] = NoOne
                 THEN From(messages[i])
            ELSE IF Op(messages[i]) = "release" /\ held[i - 1] = From(messages[i])
                 THEN NoOne
            ELSE held[i - 1]
    IN held[Len(messages)]

\* Who holds it once the first n messages are in.
Holder(n) == HolderAfter(SubSeq(chain, 1, n))

-----------------------------------------------------------------------------
(* One call of sequence_here *)

\* The caller looks the room up and calls sequence_here with that copy.
Read(c, m) ==
    /\ call[c] = Idle
    /\ call' = [call EXCEPT ![c] =
                  [at |-> "read", m |-> m, room |-> room,
                   saw |-> [NoReads EXCEPT !.room = Len(chain)]]]
    /\ UNCHANGED <<chain, room, members, saw, raced>>

\* Mutant: only the mute is looked at.
MaySendRevoked(m) == ~members[From(m)].muted

\* Member::check_may_send, for the sender's row as it is now.
MaySend(m) ==
    LET row == members[From(m)] IN
    /\ ~row.revoked
    /\ ~row.muted
    /\ \/ From(m) = Owner
       \/ ~IsControl(m) /\ row.role # "observer"

\* Mutant: the pause is left to the member's rules.
TakesPaused(m, r) == TRUE

\* A paused room takes the owner's control messages only.
RoomTakes(m, r) == r.paused => From(m) = Owner /\ IsControl(m)

\* The sender is known, this is no resubmit, room and member allow the message.
Vet(c) ==
    /\ call[c].at = "read"
    /\ ~Placed(call[c].m)
    /\ RoomTakes(call[c].m, call[c].room)
    /\ MaySend(call[c].m)
    /\ call' = [call EXCEPT ![c].at = "vetted", ![c].saw.member = Len(chain)]
    /\ UNCHANGED <<chain, room, members, saw, raced>>

\* Mutant: a claim is refused only when the claimer holds the task already.
TypeAllowsSecond(m) ==
    /\ Op(m) = "claim" => Holder(Len(chain)) # From(m)
    /\ Op(m) = "release" => Holder(Len(chain)) = From(m)

\* check_typed: claims are first-come, releases need the holder.
TypeAllows(m) ==
    /\ Op(m) = "claim" => Holder(Len(chain)) = NoOne
    /\ Op(m) = "release" => Holder(Len(chain)) = From(m)

\* The rules of the type hold against the chain as it is now.
CheckTyped(c) ==
    /\ call[c].at = "vetted"
    /\ TypeAllows(call[c].m)
    /\ call' = [call EXCEPT ![c].at = "cleared", ![c].saw.holder = Len(chain)]
    /\ UNCHANGED <<chain, room, members, saw, raced>>

\* A check says no (limits, policy, size and time are not modelled and may
\* always do so), or the message is stored already and the call returns that.
Return(c) ==
    /\ call[c].at \in {"read", "vetted"}
    /\ call' = [call EXCEPT ![c] = Idle]
    /\ UNCHANGED <<chain, room, members, saw, raced>>

\* Mutant: the transaction does not look the id up again.
PlaceAgain(c) ==
    LET m == call[c].m IN
    /\ call[c].at = "cleared"
    /\ Len(chain) < MaxLen
    /\ chain' = Append(chain, m)
    /\ room' = OnRoom(m, room)
    /\ members' = OnMembers(m, members)
    /\ saw' = [saw EXCEPT ![m] = call[c].saw]
    /\ call' = [call EXCEPT ![c] = Idle]
    /\ UNCHANGED raced

\* Mutant: a control message takes effect only after the transaction.
PlaceWithoutEffect(c) ==
    LET m == call[c].m IN
    /\ call[c].at = "cleared"
    /\ Len(chain) < MaxLen
    /\ ~Placed(m)
    /\ chain' = Append(chain, m)
    /\ saw' = [saw EXCEPT ![m] = call[c].saw]
    /\ call' = [call EXCEPT ![c] = IF IsControl(m) THEN [@ EXCEPT !.at = "placed"] ELSE Idle]
    /\ UNCHANGED <<room, members, raced>>

\* sequence_and_append(_control): the next place in the chain and, for a control
\* message, its effect, in one transaction; other messages are then answered.
Place(c) ==
    LET m == call[c].m IN
    /\ call[c].at = "cleared"
    /\ Len(chain) < MaxLen
    /\ ~Placed(m)
    /\ chain' = Append(chain, m)
    /\ room' = OnRoom(m, room)
    /\ members' = OnMembers(m, members)
    /\ saw' = [saw EXCEPT ![m] = call[c].saw]
    /\ call' = [call EXCEPT ![c] = IF IsControl(m) THEN [@ EXCEPT !.at = "placed"] ELSE Idle]
    /\ UNCHANGED raced

\* The same message raced in twice; the other copy won.
RacedIn(c) ==
    /\ call[c].at = "cleared"
    /\ Placed(call[c].m)
    /\ call' = [call EXCEPT ![c] = Idle]
    /\ UNCHANGED <<chain, room, members, saw, raced>>

\* Another control message was placed after call c read the room.
Overtaken(c) ==
    \E i \in (call[c].saw.room + 1)..Len(chain) :
        chain[i] # call[c].m /\ IsControl(chain[i])

\* apply_control: room ops write the whole row, from the copy the call read at
\* the start; member ops write the one column again.
Reapply(c) ==
    LET m == call[c].m IN
    /\ call[c].at = "placed"
    /\ room' = IF Op(m) \in RoomOps THEN OnRoom(m, call[c].room) ELSE room
    /\ members' = OnMembers(m, members)
    /\ raced' = (raced \/ Overtaken(c))
    /\ call' = [call EXCEPT ![c] = Idle]
    /\ UNCHANGED <<chain, saw>>

\* The home stops and starts: calls are gone, what was committed stays.
Crash ==
    /\ \E c \in Calls : call[c] # Idle
    /\ call' = [c \in Calls |-> Idle]
    /\ UNCHANGED <<chain, room, members, saw, raced>>

Next ==
    \/ \E c \in Calls :
        \/ \E m \in Messages : Read(c, m)
        \/ Vet(c)
        \/ CheckTyped(c)
        \/ Return(c)
        \/ Place(c)
        \/ RacedIn(c)
        \/ Reapply(c)
    \/ Crash

Spec == Init /\ [][Next]_vars

-----------------------------------------------------------------------------
(* Properties *)

\* Among these messages is one of some kind that none of another kind follows.
LastWord(messages, these, those) ==
    \E i \in 1..Len(messages) :
        /\ messages[i] \in these
        /\ \A j \in (i + 1)..Len(messages) : messages[j] \notin those

Saying(op) == {m \in Messages : Op(m) = op}
SayingOf(x, op) == {m \in Messages : Op(m) = op /\ Who(m) = x}

\* What messages say of the room and of the members,
RoomAfter(messages) ==
    [paused |-> LastWord(messages, Saying("pause"), Saying("resume")),
     hold |-> LastWord(messages, Saying("hold"), Saying("unhold"))]
MembersAfter(messages) ==
    [x \in Members |->
        [role |-> IF LastWord(messages, SayingOf(x, "demote"), SayingOf(x, "grant"))
                  THEN "observer" ELSE "chat",
         muted |-> LastWord(messages, SayingOf(x, "mute"), SayingOf(x, "unmute")),
         revoked |-> LastWord(messages, SayingOf(x, "revoke"), {})]]

\* and what the first n of the chain say.
RoomAt(n) == RoomAfter(SubSeq(chain, 1, n))
MembersAt(n) == MembersAfter(SubSeq(chain, 1, n))

\* A message has one place: however often an outbox submits it, and even when two
\* copies pass every check at the same time.
OnePlace == \A i, j \in 1..Len(chain) : chain[i] = chain[j] => i = j

\* What the rows say is what the chain says, in every state and after every crash,
\* as long as no control call was overtaken by another.
RowsFollowChain ==
    ~raced => room = RoomAt(Len(chain)) /\ members = MembersAt(Len(chain))

\* A key that is cut stays cut: no message of a member is placed by a call that
\* looked the member up after a revoke of that member was in the chain, whatever
\* else raced.
RevokedIsCut ==
    \A i, j \in 1..Len(chain) :
        Op(chain[i]) = "revoke" /\ Who(chain[i]) = From(chain[j]) => saw[chain[j]].member < i

\* The kill switch, as far as the code goes: nothing but the owner's control
\* messages is placed by a call that read the room while the chain said paused.
PausedTakesControlOnly ==
    ~raced => \A j \in 1..Len(chain) :
        RoomAt(saw[chain[j]].room).paused => From(chain[j]) = Owner /\ IsControl(chain[j])

\* A claim is placed only by a call that found the task free, a release only by one
\* that found its sender holding it.
ClaimedWhenFree ==
    \A j \in 1..Len(chain) :
        LET holder == Holder(saw[chain[j]].holder) IN
        /\ Op(chain[j]) = "claim" => holder = NoOne
        /\ Op(chain[j]) = "release" => holder = From(chain[j])

\* "Kill switch. Nothing moves until resume." (crates/core/src/control.rs): once no
\* call is in flight, a room whose last word was pause is paused.
PausedUntilResume ==
    (\A c \in Calls : call[c] = Idle) => (RoomAt(Len(chain)).paused => room.paused)

\* "Two claims on one task: first wins, second is told no." (README.md): no claim
\* enters the chain, to be answered as taken, while another member holds the task.
SecondClaimIsRefused ==
    \A j \in 1..Len(chain) : Op(chain[j]) = "claim" => Holder(j - 1) = NoOne
=============================================================================
