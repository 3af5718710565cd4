--------------------------------- MODULE Admit ---------------------------------
(***************************************************************************)
(* Invites, joining and rotation at a room's home (admit of                *)
(* crates/cli/src/helper/peers.rs; invite, join, join_over and rotate of   *)
(* local.rs).                                                              *)
(*                                                                         *)
(* admit is a row of store calls with nothing held in between: what one    *)
(* call has read, another may have changed.  An invite is used up before   *)
(* the member's row is there, the row before the chain says so, and the    *)
(* answer may be lost, so that a joiner comes again with an invite that    *)
(* was used.  A key of the home's own machine joins the same way, and      *)
(* writes the row it was told once more.                                   *)
(*                                                                         *)
(* Of the chain only what it says of joins and of the rotation is kept;    *)
(* roles, mutes and nodes are left out.  Nor is the 24 hours' end of an    *)
(* invite a step: it takes joins away, and a join may never come.          *)
(***************************************************************************)
EXTENDS Naturals, FiniteSets

CONSTANTS
    Calls,       \* joins the home serves at once
    Keys,        \* who wants in
    Local,       \* those on the home's own machine
    Names,
    Invites,
    NameOn,      \* the name an invite binds
    Holders,     \* who has come by an invite
    NoKey

ASSUME AdmitAssumption ==
    /\ IsFiniteSet(Invites)
    /\ Local \subseteq Keys /\ NoKey \notin Keys
    /\ NameOn \in [Invites -> Names]
    /\ Holders \in [Invites -> SUBSET Keys]

VARIABLES
    invites,  \* table invites: made, used (by whom);
              \*   history: gone, its name was revoked since
    rows,     \* table members, but for the owner
    joined,   \* how often the chain says that this key joined under this name
    call,     \* what each join is doing, with what it has read
    has,      \* joiners that have the room
    room,     \* the old room: told (the chain has its rotation), closed; named: whose the name is
    rotate,   \* what the call that rotates it is doing
    raced     \* history: names whose row was written by a join that a revoke overtook

home == <<invites, rows, joined>>
rotation == <<room, rotate>>
vars == <<home, call, has, rotation, raced>>

Fresh == [made |-> FALSE, used |-> NoKey, gone |-> FALSE]
NoRow == [key |-> NoKey, revoked |-> FALSE]
Row(k) == [key |-> k, revoked |-> FALSE]
Idle == [at |-> "idle"]

Init ==
    /\ invites = [i \in Invites |-> Fresh]
    /\ rows = [n \in Names |-> NoRow]
    /\ joined = [n \in Names |-> [k \in Keys |-> 0]]
    /\ call = [c \in Calls |-> Idle]
    /\ has = {}
    /\ room = [told |-> FALSE, closed |-> FALSE, named |-> "old"]
    /\ rotate = "idle"
    /\ raced = {}

Member(n) == rows[n].key # NoKey /\ ~rows[n].revoked

Busy(c) == call[c] # Idle
Name(c) == NameOn[call[c].invite]

-----------------------------------------------------------------------------
(* The owner.                                                              *)

\* invite: the name is free, as far as the members go.
Invite(i) ==
    /\ ~invites[i].made /\ ~room.closed
    /\ ~Member(NameOn[i])
    /\ invites' = [invites EXCEPT ![i].made = TRUE]
    /\ UNCHANGED <<rows, joined, call, has, rotation, raced>>

\* The message and what it does to the row, in one transaction.
Revoke(n) ==
    /\ Member(n)
    /\ rows' = [rows EXCEPT ![n].revoked = TRUE]
    /\ invites' = [i \in Invites |->
                     IF NameOn[i] = n /\ invites[i].used # NoKey
                     THEN [invites[i] EXCEPT !.gone = TRUE] ELSE invites[i]]
    /\ call' = [c \in Calls |->
                  IF Busy(c) /\ Name(c) = n THEN [call[c] EXCEPT !.stale = TRUE] ELSE call[c]]
    /\ raced' = raced \ {n}
    /\ UNCHANGED <<joined, has, rotation>>

-----------------------------------------------------------------------------
(* One join at the home.                                                   *)

End(c) == call' = [call EXCEPT ![c] = Idle]
Go(c, stage) == call' = [call EXCEPT ![c].at = stage]

Elsewhere(n, k) == {m \in Names \ {n} : rows[m].key = k}

\* What is read before the first write: the room, the invite, who has its name (this
\* key: a rejoin; another: taken), and that the key is no member under another name.  Who
\* has the room asks no more.
Look(c, k, i) ==
    LET n == NameOn[i]
        mine == Member(n) /\ rows[n].key = k
    IN  /\ call[c] = Idle /\ k \in Holders[i] \ has
        /\ invites[i].made /\ ~room.closed
        /\ \A m \in Elsewhere(n, k) : ~Member(m)
        /\ call' = [call EXCEPT ![c] =
                      [at |-> IF mine THEN "write" ELSE "use", key |-> k, invite |-> i,
                       rejoin |-> mine, taken |-> Member(n) /\ ~mine,
                       row |-> NoRow, stale |-> FALSE]]
        /\ UNCHANGED <<home, has, rotation, raced>>

\* Mutant: an invite may be used again.
UseAgain(c) ==
    /\ Busy(c) /\ call[c].at = "use"
    /\ invites' = [invites EXCEPT ![call[c].invite].used = call[c].key]
    /\ IF call[c].taken THEN End(c) ELSE Go(c, "write")
    /\ UNCHANGED <<rows, joined, has, rotation, raced>>

\* invite_use: once; only then is a taken name turned away.
Use(c) ==
    /\ Busy(c) /\ call[c].at = "use"
    /\ invites[call[c].invite].used = NoKey
    /\ invites' = [invites EXCEPT ![call[c].invite].used = call[c].key]
    /\ IF call[c].taken THEN End(c) ELSE Go(c, "write")
    /\ UNCHANGED <<rows, joined, has, rotation, raced>>

UsedUp(c) ==
    /\ Busy(c) /\ call[c].at = "use" /\ invites[call[c].invite].used # NoKey
    /\ End(c)
    /\ UNCHANGED <<home, has, rotation, raced>>

\* upsert_member goes by the name; a key has one row, whatever its name, or the write fails.
Clash(c) == Elsewhere(Name(c), call[c].key) # {}
Upsert(c, row) ==
    /\ rows' = [rows EXCEPT ![Name(c)] = row]
    /\ raced' = IF call[c].stale THEN raced \cup {Name(c)} ELSE raced

\* Mutant: a rejoin is announced as well.
WriteAnnouncingAll(c) ==
    /\ Busy(c) /\ call[c].at = "write" /\ ~Clash(c)
    /\ Upsert(c, Row(call[c].key))
    /\ Go(c, "announce")
    /\ UNCHANGED <<invites, joined, has, rotation>>

\* The member's row, not revoked, be it a rejoin.
Write(c) ==
    /\ Busy(c) /\ call[c].at = "write" /\ ~Clash(c)
    /\ Upsert(c, Row(call[c].key))
    /\ Go(c, IF call[c].rejoin THEN "list" ELSE "announce")
    /\ UNCHANGED <<invites, joined, has, rotation>>

WriteFails(c) ==
    /\ Busy(c) /\ call[c].at \in {"write", "store"} /\ Clash(c)
    /\ End(c)
    /\ UNCHANGED <<home, has, rotation, raced>>

\* The owner's "joined".
Announce(c) ==
    /\ Busy(c) /\ call[c].at = "announce"
    /\ joined' = [joined EXCEPT ![Name(c)][call[c].key] = @ + 1]
    /\ Go(c, "list")
    /\ UNCHANGED <<invites, rows, has, rotation, raced>>

\* JoinOk lists the members as they are now.  To be on the list is to be in; a key of this
\* machine stores its row first.
Listed(c) == Busy(c) /\ call[c].at = "list" /\ rows[Name(c)].key = call[c].key

List(c) ==
    /\ Listed(c) /\ call[c].key \in Local
    /\ call' = [call EXCEPT ![c].at = "store", ![c].row = rows[Name(c)], ![c].stale = FALSE]
    /\ UNCHANGED <<home, has, rotation, raced>>
Unlisted(c) ==
    /\ Busy(c) /\ call[c].at = "list" /\ ~Listed(c)
    /\ End(c)
    /\ UNCHANGED <<home, has, rotation, raced>>

\* join on the home's machine: the row again, as listed.
StoreMine(c) ==
    /\ Busy(c) /\ call[c].at = "store" /\ ~Clash(c)
    /\ Upsert(c, call[c].row)
    /\ has' = has \cup {call[c].key}
    /\ End(c)
    /\ UNCHANGED <<invites, joined, rotation>>

\* join_over: the answer comes and the joiner has the room, or it is lost.
Answer(c) ==
    /\ Listed(c) /\ call[c].key \notin Local
    /\ has' = has \cup {call[c].key}
    /\ End(c)
    /\ UNCHANGED <<home, rotation, raced>>
LoseAnswer(c) ==
    /\ Listed(c) /\ call[c].key \notin Local
    /\ End(c)
    /\ UNCHANGED <<home, has, rotation, raced>>

-----------------------------------------------------------------------------
(* Rotation: one message and three writes.                                 *)

\* Mutant: the room is closed before its members are told.
RotateUntold ==
    /\ rotate = "idle" /\ ~room.closed
    /\ rotate' = "sequenced"
    /\ UNCHANGED <<home, room, call, has, raced>>

Rotate ==
    /\ rotate = "idle" /\ ~room.closed
    /\ room' = [room EXCEPT !.told = TRUE] /\ rotate' = "sequenced"
    /\ UNCHANGED <<home, call, has, raced>>

Close ==
    /\ rotate = "sequenced"
    /\ room' = [room EXCEPT !.closed = TRUE] /\ rotate' = "closed"
    /\ UNCHANGED <<home, call, has, raced>>

\* The old room gives the name up; its links are closed.
Rename ==
    /\ rotate = "closed"
    /\ room' = [room EXCEPT !.named = "none"] /\ rotate' = "renamed"
    /\ UNCHANGED <<home, call, has, raced>>

\* A room of the same name, by rotate or by hand: the name must be free.
NewRoom ==
    /\ rotate \in {"renamed", "idle"} /\ room.named = "none"
    /\ room' = [room EXCEPT !.named = "new"] /\ rotate' = "idle"
    /\ UNCHANGED <<home, call, has, raced>>

\* The home stops, with something under way, and starts.
Crash ==
    /\ rotate # "idle" \/ \E c \in Calls : Busy(c)
    /\ call' = [c \in Calls |-> Idle]
    /\ rotate' = "idle"
    /\ UNCHANGED <<home, room, has, raced>>

-----------------------------------------------------------------------------

Admitting(c) ==
    \/ Use(c) \/ UsedUp(c) \/ Write(c) \/ WriteFails(c)
    \/ Announce(c) \/ List(c) \/ Unlisted(c) \/ StoreMine(c)

Next ==
    \/ \E i \in Invites : Invite(i) \/ \E c \in Calls, k \in Keys : Look(c, k, i)
    \/ \E n \in Names : Revoke(n)
    \/ \E c \in Calls : Admitting(c) \/ Answer(c) \/ LoseAnswer(c)
    \/ Rotate \/ Close \/ Rename \/ NewRoom \/ Crash

Spec == Init /\ [][Next]_vars

-----------------------------------------------------------------------------
(* Properties.                                                             *)

Requests ==
    [at : {"use", "write", "announce", "list", "store"}, key : Keys, invite : Invites,
     rejoin : BOOLEAN, taken : BOOLEAN, row : {NoRow} \cup [key : Keys, revoked : BOOLEAN],
     stale : BOOLEAN]

\* Types; and a rejoin finds the name its own, so that nothing is both.
TypeOK ==
    /\ invites \in [Invites -> [made : BOOLEAN, used : Keys \cup {NoKey}, gone : BOOLEAN]]
    /\ rows \in [Names -> {NoRow} \cup [key : Keys, revoked : BOOLEAN]]
    /\ joined \in [Names -> [Keys -> 0..Cardinality(Invites)]]
    /\ \A c \in Calls : Busy(c) => call[c] \in Requests /\ ~(call[c].rejoin /\ call[c].taken)
    /\ has \subseteq Keys /\ raced \subseteq Names
    /\ room \in [told : BOOLEAN, closed : BOOLEAN, named : {"old", "none", "new"}]
    /\ rotate \in {"idle", "sequenced", "closed", "renamed"}

\* "One invite, one member, used once": whatever races, is lost or stops half way, a member
\* is one whose key has used up an invite to that name, and none from before the name was last
\* revoked -- unless the revoke came between the reads of a join and its write.
MembersAreInvited ==
    \A n \in Names :
        rows[n].key # NoKey =>
            \E i \in Invites :
                /\ NameOn[i] = n /\ invites[i].used = rows[n].key
                /\ Member(n) => ~invites[i].gone \/ n \in raced

\* The chain says "joined" at most once for each invite that was used, however often its
\* joiner comes again.
AnnouncedOnce ==
    \A n \in Names, k \in Keys :
        joined[n][k] <= Cardinality({i \in Invites : NameOn[i] = n /\ invites[i].used = k})

\* A rotation that stops anywhere has told the room before it closed it, and closed it before
\* the name is another room's.
RotatedInOrder ==
    /\ room.closed => room.told
    /\ room.named # "old" => room.closed
=============================================================================
