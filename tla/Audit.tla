--------------------------------- MODULE Audit ---------------------------------
(***************************************************************************)
(* The audit bundle of a room: the chain as the home keeps it, what        *)
(* retention leaves of it, `export` and `verify` (crates/core/src/bundle.rs*)
(* and message.rs; export of crates/cli/src/helper/local.rs; retention of  *)
(* helper/mod.rs and store.rs).                                            *)
(*                                                                         *)
(* verify knows nothing but the bundle.  In one that starts with the       *)
(* room's first message it learns who is who from the owner's notices on   *)
(* the way, in any other from the list in the header; a message whose      *)
(* content is gone must hold together by the hash that is left of it.      *)
(*                                                                         *)
(* Of a message's fields those with one and the same fate are one: id,     *)
(* text, data and action are its body.  A hash is the value it is taken    *)
(* of, under a name; a signature names its key and what it is over.        *)
(***************************************************************************)
EXTENDS Naturals, Sequences, SequencesExt

CONSTANTS
    People,    \* of members; the owner's among them
    SigningKeys,
    Owner,    \* the owner's name, one of People
    OwnerKey, \* one of SigningKeys
    Nobody,   \* no key, no name, no text
    MaxSeq    \* bound on the chain

ASSUME AuditAssumption ==
    /\ Owner \in People /\ OwnerKey \in SigningKeys
    /\ Nobody \notin People \cup SigningKeys \cup {"hello", "joined", "revoke", "hold", "changed"}
    /\ MaxSeq \in Nat

VARIABLES
    chain,  \* the messages of the room, as read from the store
    names,   \* table members: the key of a name, and whether it is revoked
    hold,   \* a legal hold is on
    later,  \* the room's retention time has passed since the start
    bundle  \* what was exported last, and by whom: an honest copy, or one that was changed

auditVars == <<chain, names, hold, later, bundle>>

-----------------------------------------------------------------------------
(* Messages.                                                               *)

NoHash    == <<>>
Hash(x)   == <<"sha256", x>>
Sig(k, x) == <<k, x>>

\* content_hash: the hash kept of a body that is gone, or made explicit.
ContentHash(m) == IF m.hash # NoHash THEN m.hash ELSE Hash(m.body)

\* Everything but seq, prev and sig, with the body replaced by its hash.
SigningBytes(m) == <<m.from, m.kind, ContentHash(m), m.ts>>

Envelope(m)  == <<m.seq, m.prev, SigningBytes(m), m.sig>>
ChainHash(m) == Hash(Envelope(m))

Genesis == Hash(Nobody)

\* A body is a text, or the member a notice is about.
Text(t)      == [text |-> t, name |-> Nobody, key |-> Nobody]
AboutMember(n, k) == [text |-> "joined", name |-> n, key |-> k]
Empty        == Text(Nobody)

\* Message::new, with its place in chain c.
Next1(c, n, k, kind, body, ts) ==
    LET bare == [seq |-> Len(c) + 1, prev |-> IF c = <<>> THEN Genesis ELSE ChainHash(Last(c)),
                 from |-> n, kind |-> kind, body |-> body, ts |-> ts,
                 hash |-> NoHash, gone |-> FALSE, sig |-> Nobody]
    IN  [bare EXCEPT !.sig = Sig(k, SigningBytes(bare))]

Notice(c, n, k, ts) == Next1(c, Owner, OwnerKey, "system", AboutMember(n, k), ts)

\* with_explicit_hash, for a bundle.
Explicit(m) == [m EXCEPT !.hash = ContentHash(m)]

\* Mutant: the hash is taken of what is left.
TombstoneOfNothing(m) == [m EXCEPT !.body = Empty, !.gone = TRUE, !.hash = Hash(Empty)]

\* What the store gives back of a message whose content is deleted.
Tombstone(m) == [m EXCEPT !.hash = ContentHash(m), !.body = Empty, !.gone = TRUE]

-----------------------------------------------------------------------------
(* export.                                                                 *)

\* messages_hash
MessagesHash(lines) == Hash([i \in DOMAIN lines |-> ChainHash(lines[i])])

\* The header: the members as the table has them now.
Header(n, k, lines, members) ==
    LET bare == [members |-> members, by |-> k, count |-> Len(lines), hash |-> MessagesHash(lines), sig |-> Nobody]
    IN  [bare EXCEPT !.sig = Sig(k, bare)]

\* The messages that are at these places of the chain.
Bundle(n, at) ==
    LET lines == [i \in DOMAIN at |-> Explicit(chain[at[i]])]
    IN  [head |-> Header(n, names[n].key, lines, [m \in People |-> names[m].key]),
         lines |-> lines]

-----------------------------------------------------------------------------
(* verify.                                                                 *)

FromGenesis(b) == b.lines # <<>> /\ b.lines[1].seq = 1

HeaderTrouble(b) ==
    {t \in {"header", "exporter", "count", "hash"} :
       \/ t = "header"   /\ b.head.sig # Sig(b.head.by, [b.head EXCEPT !.sig = Nobody])
       \/ t = "exporter" /\ \A n \in People : b.head.members[n] # b.head.by
       \/ t = "count"    /\ Len(b.lines) # b.head.count
       \/ t = "hash"     /\ MessagesHash(b.lines) # b.head.hash}

\* Whom the first line may be from: its sender is taken for the owner.
KnownAtFirst(b) ==
    IF FromGenesis(b)
    THEN [n \in People |-> IF n = b.lines[1].from THEN OwnerKey ELSE Nobody]
    ELSE b.head.members

\* A notice of the owner's names a member; who has been named keeps the key of the first.
KnownAfter(m, old) ==
    IF m.kind = "system" /\ m.body.name # Nobody /\ old[m.from] = OwnerKey
    THEN [old EXCEPT ![m.body.name] = IF @ = Nobody THEN m.body.key ELSE @]
    ELSE old

\* Whose key is known before line i.
KnownAt(b) ==
    LET known[i \in 1..Len(b.lines)] ==
          IF i = 1 THEN KnownAtFirst(b) ELSE KnownAfter(b.lines[i - 1], known[i - 1])
    IN  known

\* How line i joins on to the one before it.
LinkTrouble(b, i) ==
    LET m == b.lines[i]
    IN  {t \in {"gap", "break", "start"} :
           \/ t = "gap"   /\ i > 1 /\ m.seq # b.lines[i - 1].seq + 1
           \/ t = "break" /\ i > 1 /\ m.prev # ChainHash(b.lines[i - 1])
           \/ t = "start" /\ i = 1 /\ FromGenesis(b) /\ m.prev # Genesis}

\* Mutant: the explicit hash is taken for that of the content.
ContentTroubleAsSaid(m) ==
    IF m.gone /\ m.body # Empty THEN {"revived"} ELSE {}

\* Erased means erased, and what is there is what was hashed.
ContentTrouble(m) ==
    IF m.gone
    THEN IF m.body # Empty THEN {"revived"} ELSE {}
    ELSE IF Hash(m.body) # ContentHash(m) THEN {"content"} ELSE {}

SenderTrouble(m, key) ==
    IF key = Nobody THEN {"unknown"}
    ELSE {t \in {"signature", "not the owner"} :
            \/ t = "signature"     /\ m.sig # Sig(key, SigningBytes(m))
            \/ t = "not the owner" /\ m.kind \in {"system", "control"} /\ key # OwnerKey}

Trouble(b) ==
    LET known == KnownAt(b)
    IN  HeaderTrouble(b) \cup
        UNION {LinkTrouble(b, i) \cup ContentTrouble(b.lines[i])
                 \cup SenderTrouble(b.lines[i], known[i][b.lines[i].from]) : i \in DOMAIN b.lines}

-----------------------------------------------------------------------------
(* The room.                                                               *)

Now == IF later THEN 1 ELSE 0

NoBundle == [whose |-> "none"]

AuditInit ==
    /\ chain = <<Notice(<<>>, Owner, OwnerKey, 0)>>
    /\ names = [n \in People |-> [key |-> IF n = Owner THEN OwnerKey ELSE Nobody, revoked |-> FALSE]]
    /\ hold = FALSE /\ later = FALSE
    /\ bundle = NoBundle

Place(m) == Len(chain) < MaxSeq /\ chain' = Append(chain, m)

Named(n) == names[n].key # Nobody /\ ~names[n].revoked

\* admit: a name that no member has, or only a revoked one; a key in use under no other name.
NameJoins(n, k) ==
    /\ ~Named(n)
    /\ \A o \in People : names[o].key = k => o = n \/ names[o].revoked
    /\ names' = [names EXCEPT ![n] = [key |-> k, revoked |-> FALSE]]
    /\ Place(Notice(chain, n, k, Now))
    /\ UNCHANGED <<hold, later, bundle>>

\* A message is dated when it is written: one that waited in an outbox may be an old one.
Say(n, ts) ==
    /\ Named(n)
    /\ ts <= Now
    /\ Place(Next1(chain, n, names[n].key, "chat", Text("hello"), ts))
    /\ UNCHANGED <<names, hold, later, bundle>>

Control(body) == Place(Next1(chain, Owner, OwnerKey, "control", Text(body), Now))

NameRevoked(n) ==
    /\ Named(n) /\ n # Owner
    /\ Control("revoke")
    /\ names' = [names EXCEPT ![n].revoked = TRUE]
    /\ UNCHANGED <<hold, later, bundle>>

Hold ==
    /\ Control("hold")
    /\ hold' = ~hold
    /\ UNCHANGED <<names, later, bundle>>

DaysPass == ~later /\ later' = TRUE /\ UNCHANGED <<chain, names, hold, bundle>>

\* retention_loop, tombstone_before: what is older goes, whatever it says.
Retain ==
    /\ later /\ ~hold
    /\ chain' = [i \in DOMAIN chain |-> IF chain[i].ts = 0 /\ ~chain[i].gone
                                        THEN Tombstone(chain[i]) ELSE chain[i]]
    /\ chain' # chain
    /\ UNCHANGED <<names, hold, later, bundle>>

-----------------------------------------------------------------------------
(* A bundle is written, and may be changed on its way.                     *)

\* All of the chain, or what is dated since the retention time; in the order of the chain.
Export(n, since) ==
    LET kept == {i \in DOMAIN chain : since => chain[i].ts = 1}
    IN  /\ Named(n)
        /\ bundle = NoBundle
        /\ \E at \in [1..Cardinality(kept) -> kept] :
             /\ \A i, j \in DOMAIN at : i < j => at[i] < at[j]
             /\ bundle' = [whose |-> "honest", since |-> since, file |-> Bundle(n, at)]
        /\ UNCHANGED <<chain, names, hold, later>>

\* One line lost, written twice or out of place, or one field of one line another.
Changed(lines) ==
    LET without(i) == RemoveAt(lines, i)
        twice(i)   == InsertAt(lines, i, lines[i])
        edited(i)  == {[lines EXCEPT ![i] = m] : m \in
                         {[lines[i] EXCEPT !.body = Text("changed")]}
                         \cup {[lines[i] EXCEPT !.from = n] : n \in People}
                         \cup {[lines[i] EXCEPT !.kind = t] : t \in {"chat", "control"}}
                         \cup {[lines[i] EXCEPT !.ts = 1 - @], [lines[i] EXCEPT !.seq = @ + 1],
                               [lines[i] EXCEPT !.gone = ~@]}}
    IN  (UNION {{without(i), twice(i)} \cup edited(i) : i \in DOMAIN lines}) \ {lines}

Damage ==
    /\ bundle.whose = "honest"
    /\ \E lines \in Changed(bundle.file.lines) :
         bundle' = [whose |-> "changed", since |-> bundle.since, file |-> [bundle.file EXCEPT !.lines = lines]]
    /\ UNCHANGED <<chain, names, hold, later>>

Discard == bundle # NoBundle /\ bundle' = NoBundle /\ UNCHANGED <<chain, names, hold, later>>

Growing ==
    \/ \E n \in People : \/ \E k \in SigningKeys : NameJoins(n, k)
                        \/ \E ts \in 0..1 : Say(n, ts)
                        \/ NameRevoked(n)
    \/ Hold \/ DaysPass \/ Retain

\* A bundle is a copy: what the room does while one is about changes nothing in it.
AuditNext ==
    \/ bundle = NoBundle /\ Growing
    \/ \E n \in People, since \in BOOLEAN : Export(n, since)
    \/ Damage \/ Discard

AuditSpec == AuditInit /\ [][AuditNext]_auditVars

-----------------------------------------------------------------------------
(* Properties.                                                             *)

\* Who signed a line, and who it is about, is who bears the name now.
Steady(b) == \A i \in DOMAIN b.lines :
    LET m == b.lines[i]
    IN  /\ m.sig[1] = b.head.members[m.from]
        /\ m.body.name # Nobody => m.body.key = b.head.members[m.body.name]

\* Nothing is left out between two lines.
Whole(b) == \A i \in DOMAIN b.lines : i > 1 => b.lines[i].seq = b.lines[i - 1].seq + 1

NoticeErased(b) == \E i \in DOMAIN b.lines : b.lines[i].kind = "system" /\ b.lines[i].gone

\* What an honest member exports verifies, erased content, holds, revoked members and all,
\* whether it starts with the room or later: unless a name has changed hands or a message
\* dated earlier than it was placed leaves a gap.  An erased notice costs verify the member it
\* was about, and nothing else.  (bundle.rs, message.rs: the hash left of a content keeps
\* chain and signature good.)
HonestVerifies ==
    /\ bundle.whose = "honest"
    /\ Steady(bundle.file) /\ Whole(bundle.file)
    => Trouble(bundle.file) \subseteq
         IF FromGenesis(bundle.file) /\ NoticeErased(bundle.file) THEN {"unknown"} ELSE {}

\* No line of a bundle can be lost, doubled or changed in any field without verify saying so.
\* (bundle.rs: verify.)
DamageIsSeen == bundle.whose = "changed" => Trouble(bundle.file) # {}

\* README.md: "a retention delete leaves a tombstone and `verify` still proves nothing else
\* changed".  It does not: retention erases the notices too, and verify, which learns from
\* them, then knows no sender but the owner.
ErasedStillVerifies ==
    /\ bundle.whose = "honest"
    /\ Steady(bundle.file) /\ Whole(bundle.file)
    => Trouble(bundle.file) = {}

\* A bundle of what is dated since a day is whole.  It is not: a message that waited in an
\* outbox is dated earlier than those placed before it.
SinceIsWhole == bundle.whose = "honest" => Whole(bundle.file)

\* A name keeps its key for as long as the room is.  It does not: a revoked member's name may
\* be given to another key, and verify holds on to the first.
NamesKeepKeys == bundle.whose = "honest" => Steady(bundle.file)
=============================================================================
