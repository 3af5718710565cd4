-------------------------------- MODULE Keeping --------------------------------
(***************************************************************************)
(* How long files stay: the copies senders keep until their messages are   *)
(* in, the files a room's home keeps for its readers, who fetches them,    *)
(* and the sweep that gives the disk back (attach, check_message, serve    *)
(* FileGet, get_one and sweep of crates/cli/src/helper/files.rs, and       *)
(* file_sweep of crates/core/src/store.rs).  How the pieces of a file come *)
(* to the home is Uploads; here an upload is one step.                     *)
(*                                                                         *)
(* Time is the age of things in days, up to MaxDays.  A day is long: no    *)
(* submit and no sweep is half done while one passes; a fetch may be.      *)
(***************************************************************************)
EXTENDS Integers

CONSTANTS
    Members,
    Home,      \* the member whose helper is the room's home
    Messages,  \* messages with a file
    From,      \* who sends a message
    To,        \* who it is for, or Everyone
    Everyone,
    Blobs,
    BlobOf,
    KeepDays,  \* file_keep_days
    MaxDays,   \* file_max_days
    MaxLost    \* bound: answers and links lost, restarts of the home

ASSUME KeepingAssumption ==
    /\ Home \in Members /\ Everyone \notin Members
    /\ From \in [Messages -> Members] /\ To \in [Messages -> Members \cup {Everyone}]
    /\ BlobOf \in [Messages -> Blobs]
    /\ KeepDays \in Nat /\ MaxDays \in Nat \ {0} /\ KeepDays <= MaxDays /\ MaxLost \in Nat

VARIABLES
    msg,      \* how far each message is
    copy,     \* age of a sender's copy of a file, on its own helper
    bytes,    \* age of a file's bytes at the home
    rowAge,   \* age of its row in table files
    fetched,  \* table file_fetches: how long ago a member had all of it
    reading,  \* the file a member is fetching
    sweep,    \* what the home's sweep is doing
    sweeping, \* what the sweep of each member's helper is about to remove
    lost,     \* bounded counter
    had       \* history: who was ever sent a file to its end

homeFiles == <<bytes, rowAge, fetched>>
keepVars == <<msg, copy, bytes, rowAge, fetched, reading, sweep, sweeping, lost, had>>

Ages == 0..MaxDays
None == -1
Nothing == "nothing"

Stages == {"unsent", "attached", "queued", "uploaded", "checked", "placed", "refused", "gone"}

\* A sender at the home has no copy of its own: what it attaches is kept at once.
AtHome(m) == From[m] = Home

\* Copies of messages that went before may lie with a sender.
KeepInit ==
    /\ msg = [m \in Messages |-> "unsent"]
    /\ copy \in [Members -> [Blobs -> Ages \cup {None}]]
    /\ \A f \in Blobs : copy[Home][f] = None
    /\ bytes = [f \in Blobs |-> None] /\ rowAge = [f \in Blobs |-> None]
    /\ fetched = [f \in Blobs |-> [r \in Members |-> None]]
    /\ reading = [r \in Members |-> Nothing]
    /\ sweep = [at |-> "idle"]
    /\ sweeping = [s \in Members |-> {}]
    /\ lost = 0
    /\ had = {}

MsgGoes(m, stage) == msg' = [msg EXCEPT ![m] = stage]

-----------------------------------------------------------------------------
(* Sending.                                                                *)

\* copy_in: a copy that is there already is kept, as old as it is.
KeptAge(age) == IF age = None THEN 0 ELSE age

\* copy_in: into the home's blobs or the sender's own; what is sent is this copy.
CopyIn(m) ==
    IF AtHome(m)
    THEN bytes' = [bytes EXCEPT ![BlobOf[m]] = KeptAge(@)] /\ UNCHANGED copy
    ELSE copy' = [copy EXCEPT ![From[m]][BlobOf[m]] = KeptAge(@)] /\ UNCHANGED bytes

\* send copies the file before anything else.
Attach(m) ==
    /\ msg[m] = "unsent"
    /\ MsgGoes(m, "attached")
    /\ CopyIn(m)
    /\ UNCHANGED <<rowAge, fetched, reading, sweep, sweeping, lost, had>>

\* At the home the file is recorded; elsewhere the message goes into the outbox.
Queue(m) ==
    /\ msg[m] = "attached"
    /\ IF AtHome(m)
       THEN /\ rowAge' = [rowAge EXCEPT ![BlobOf[m]] = KeptAge(@)]
            /\ MsgGoes(m, "uploaded")
       ELSE MsgGoes(m, "queued") /\ UNCHANGED rowAge
    /\ UNCHANGED <<copy, bytes, fetched, reading, sweep, sweeping, lost, had>>

\* The home refuses the file: what was copied stays for the sweep.
Refuse(m) ==
    /\ msg[m] = "attached" /\ AtHome(m)
    /\ MsgGoes(m, "refused")
    /\ UNCHANGED <<copy, bytes, rowAge, fetched, reading, sweep, sweeping, lost, had>>

\* upload: the home has the file, or gets it from the sender's copy.
Upload(m) ==
    LET f == BlobOf[m] IN
    /\ msg[m] = "queued"
    /\ rowAge[f] # None \/ copy[From[m]][f] # None
    /\ IF rowAge[f] # None THEN UNCHANGED <<bytes, rowAge>>
       ELSE bytes' = [bytes EXCEPT ![f] = 0] /\ rowAge' = [rowAge EXCEPT ![f] = 0]
    /\ MsgGoes(m, "uploaded")
    /\ UNCHANGED <<copy, fetched, reading, sweep, sweeping, lost, had>>

\* Neither has it: the message is refused.
CannotUpload(m) ==
    /\ msg[m] = "queued" /\ rowAge[BlobOf[m]] = None /\ copy[From[m]][BlobOf[m]] = None
    /\ MsgGoes(m, "refused")
    /\ UNCHANGED <<copy, homeFiles, reading, sweep, sweeping, lost, had>>

\* check_message: a message may go in only if its file is here.
CheckMessage(m) ==
    /\ msg[m] = "uploaded"
    /\ MsgGoes(m, IF rowAge[BlobOf[m]] = None THEN "refused" ELSE "checked")
    /\ UNCHANGED <<copy, homeFiles, reading, sweep, sweeping, lost, had>>

\* It is placed, and from here on refers to its file.
PlaceMessage(m) ==
    /\ msg[m] = "checked"
    /\ MsgGoes(m, "placed")
    /\ UNCHANGED <<copy, homeFiles, reading, sweep, sweeping, lost, had>>

\* The link breaks, or the home cannot take it now; the message stays queued.
Fail(m) ==
    /\ msg[m] = "uploaded" /\ ~AtHome(m) /\ lost < MaxLost
    /\ MsgGoes(m, "queued")
    /\ lost' = lost + 1
    /\ UNCHANGED <<copy, homeFiles, reading, sweep, sweeping, had>>

\* Retention or a delete takes the content, and with it the reference.
Tombstone(m) ==
    /\ msg[m] = "placed"
    /\ MsgGoes(m, "gone")
    /\ UNCHANGED <<copy, homeFiles, reading, sweep, sweeping, lost, had>>

Refs(f) == {m \in Messages : msg[m] = "placed" /\ BlobOf[m] = f}

-----------------------------------------------------------------------------
(* Getting.                                                                *)

\* Nobody fetches a file of a message nobody sent.
StartGet(r, f) ==
    /\ reading[r] = Nothing /\ r # Home
    /\ Refs(f) # {} /\ rowAge[f] # None /\ bytes[f] # None
    /\ reading' = [reading EXCEPT ![r] = f]
    /\ UNCHANGED <<msg, copy, homeFiles, sweep, sweeping, lost, had>>

\* file_fetched keeps the first time.
Note(f, r) == fetched' = [fetched EXCEPT ![f][r] = KeptAge(@)]

\* The home reads the last piece and notes who has it all now; the answer may be lost.
LastPiece(r) ==
    LET f == reading[r] IN
    /\ f # Nothing /\ Refs(f) # {} /\ rowAge[f] # None /\ bytes[f] # None
    /\ Note(f, r)
    /\ had' = had \cup {<<r, f>>}
    /\ reading' = [reading EXCEPT ![r] = Nothing]
    /\ UNCHANGED <<msg, copy, bytes, rowAge, sweep, sweeping, lost>>

\* The file went, or nothing refers to it any more: the fetch fails.
GetFails(r) ==
    LET f == reading[r] IN
    /\ f # Nothing /\ (Refs(f) = {} \/ rowAge[f] = None \/ bytes[f] = None)
    /\ reading' = [reading EXCEPT ![r] = Nothing]
    /\ UNCHANGED <<msg, copy, homeFiles, sweep, sweeping, lost, had>>

\* A member at the home copies the bytes; it looks for no row.
GetAtHome(f) ==
    /\ Refs(f) # {} /\ bytes[f] # None
    /\ Note(f, Home)
    /\ had' = had \cup {<<Home, f>>}
    /\ UNCHANGED <<msg, copy, bytes, rowAge, reading, sweep, sweeping, lost>>

-----------------------------------------------------------------------------
(* The sweep at the home.                                                  *)

Audience(f) ==
    UNION {IF To[m] = Everyone THEN Members \ {From[m]} ELSE {To[m]} : m \in Refs(f)}

\* Mutant: one reader is enough.
FetchedByAnyone(f) == \E r \in Audience(f) : fetched[f][r] >= KeepDays

\* Everyone it was for has it, and the last of them for KeepDays.
FetchedByAll(f) ==
    /\ rowAge[f] >= KeepDays
    /\ \A r \in Audience(f) : fetched[f][r] >= KeepDays

Due(f) ==
    /\ rowAge[f] # None
    /\ \/ rowAge[f] = MaxDays
       \/ IF Refs(f) = {} THEN rowAge[f] >= 1 ELSE FetchedByAll(f)

\* file_sweep looks which files are due.
SweepLook ==
    /\ sweep.at = "idle"
    /\ sweep' = [at |-> "rows", due |-> {f \in Blobs : Due(f)},
                 saw |-> {m \in Messages : msg[m] = "placed"}]
    /\ UNCHANGED <<msg, copy, homeFiles, reading, sweeping, lost, had>>

\* It takes them out of the records.
SweepRows ==
    /\ sweep.at = "rows"
    /\ rowAge' = [f \in Blobs |-> IF f \in sweep.due THEN None ELSE rowAge[f]]
    /\ fetched' = [f \in Blobs |-> IF f \in sweep.due THEN [r \in Members |-> None]
                                   ELSE fetched[f]]
    /\ sweep' = [at |-> "bytes", due |-> sweep.due]
    /\ UNCHANGED <<msg, copy, bytes, reading, sweeping, lost, had>>

\* The caller removes their bytes.
SweepBytes ==
    /\ sweep.at = "bytes"
    /\ bytes' = [f \in Blobs |-> IF f \in sweep.due THEN None ELSE bytes[f]]
    /\ sweep' = [at |-> "look"]
    /\ UNCHANGED <<msg, copy, rowAge, fetched, reading, sweeping, lost, had>>

\* Mutant: bytes without a row are taken for an upload that goes on.
OrphansNone == {}

\* What has lain there for a day without a row.
Orphans == {f \in Blobs : bytes[f] >= 1 /\ rowAge[f] = None}

OrphanLook ==
    /\ sweep.at = "look"
    /\ sweep' = [at |-> "orphans", orphans |-> Orphans]
    /\ UNCHANGED <<msg, copy, homeFiles, reading, sweeping, lost, had>>

OrphanRemove ==
    /\ sweep.at = "orphans"
    /\ bytes' = [f \in Blobs |-> IF f \in sweep.orphans THEN None ELSE bytes[f]]
    /\ sweep' = [at |-> "idle"]
    /\ UNCHANGED <<msg, copy, rowAge, fetched, reading, sweeping, lost, had>>

SweepStep == SweepLook \/ SweepRows \/ SweepBytes \/ OrphanLook \/ OrphanRemove

\* The home stops in the middle of a sweep and of what it was serving.
HomeStops ==
    /\ lost < MaxLost
    /\ sweep.at # "idle"
    /\ sweep' = [at |-> "idle"]
    /\ reading' = [r \in Members |-> Nothing]
    /\ msg' = [m \in Messages |->
                 IF AtHome(m) /\ msg[m] \in {"attached", "uploaded", "checked"} THEN "refused"
                 ELSE IF msg[m] \in {"uploaded", "checked"} THEN "queued" ELSE msg[m]]
    /\ lost' = lost + 1
    /\ UNCHANGED <<copy, homeFiles, sweeping, had>>

-----------------------------------------------------------------------------
(* The sweep of a sender's helper.                                         *)

\* What some message in the outbox points at.
InOutbox(s) == {BlobOf[m] : m \in {n \in Messages : From[n] = s /\ ~AtHome(n)
                                     /\ msg[n] \in {"queued", "uploaded", "checked"}}}

Spare(s) == {f \in Blobs : copy[s][f] >= 1} \ InOutbox(s)

\* It reads the outbox, and then the folder.
CopiesLook(s) ==
    /\ sweeping[s] = {} /\ Spare(s) # {}
    /\ sweeping' = [sweeping EXCEPT ![s] = Spare(s)]
    /\ UNCHANGED <<msg, copy, homeFiles, reading, sweep, lost, had>>

CopiesRemove(s) ==
    /\ sweeping[s] # {}
    /\ copy' = [copy EXCEPT ![s] = [f \in Blobs |-> IF f \in sweeping[s] THEN None ELSE @[f]]]
    /\ sweeping' = [sweeping EXCEPT ![s] = {}]
    /\ UNCHANGED <<msg, homeFiles, reading, sweep, lost, had>>

-----------------------------------------------------------------------------

Older(age) == IF age = None THEN None ELSE IF age < MaxDays THEN age + 1 ELSE age

DayPasses ==
    /\ sweep.at = "idle"
    /\ \A m \in Messages : msg[m] \notin {"attached", "uploaded", "checked"}
    /\ \A s \in Members : sweeping[s] = {}
    /\ copy' = [s \in Members |-> [f \in Blobs |-> Older(copy[s][f])]]
    /\ bytes' = [f \in Blobs |-> Older(bytes[f])]
    /\ rowAge' = [f \in Blobs |-> Older(rowAge[f])]
    /\ fetched' = [f \in Blobs |-> [r \in Members |-> Older(fetched[f][r])]]
    /\ UNCHANGED <<msg, reading, sweep, sweeping, lost, had>>

Proceed(m) == Queue(m) \/ Upload(m) \/ CannotUpload(m) \/ CheckMessage(m) \/ PlaceMessage(m)

GetStep(r) == LastPiece(r) \/ GetFails(r)

KeepNext ==
    \/ \E m \in Messages : Attach(m) \/ Proceed(m) \/ Refuse(m) \/ Fail(m) \/ Tombstone(m)
    \/ \E r \in Members : GetStep(r) \/ \E f \in Blobs : StartGet(r, f)
    \/ \E f \in Blobs : GetAtHome(f)
    \/ SweepStep \/ HomeStops
    \/ \E s \in Members : CopiesLook(s) \/ CopiesRemove(s)
    \/ DayPasses

KeepSpec == KeepInit /\ [][KeepNext]_keepVars

\* Helpers carry on with what they do, sweep again and again, and days pass.
KeepFairness ==
    /\ \A m \in Messages : WF_keepVars(Proceed(m))
    /\ \A r \in Members :
         WF_keepVars(GetStep(r)) /\ SF_keepVars(CopiesLook(r)) /\ WF_keepVars(CopiesRemove(r))
    /\ WF_keepVars(SweepStep)
    /\ SF_keepVars(DayPasses)

KeepFairSpec == KeepSpec /\ KeepFairness

-----------------------------------------------------------------------------
(* Properties.                                                             *)

AgeOrNone == Ages \cup {None}

\* Types.
KeepTypeOK ==
    /\ msg \in [Messages -> Stages]
    /\ copy \in [Members -> [Blobs -> AgeOrNone]]
    /\ bytes \in [Blobs -> AgeOrNone] /\ rowAge \in [Blobs -> AgeOrNone]
    /\ fetched \in [Blobs -> [Members -> AgeOrNone]]
    /\ reading \in [Members -> Blobs \cup {Nothing}]
    /\ sweep.at \in {"idle", "rows", "bytes", "look", "orphans"}
    /\ sweeping \in [Members -> SUBSET Blobs] /\ lost \in 0..MaxLost
    /\ had \subseteq Members \X Blobs

\* Over fetches that repeat, files that go and come back, and several messages for one file: the
\* sweep takes a file before its time only when everyone has been sent it whom a message it has
\* looked at is for.
UnreadStays ==
    [][\A f \in Blobs : rowAge[f] \notin {None, MaxDays} /\ rowAge'[f] = None =>
        \A m \in sweep.saw : BlobOf[m] = f =>
            \A r \in Members :
                (IF To[m] = Everyone THEN r # From[m] ELSE r = To[m]) => <<r, f>> \in had]_keepVars

\* Whatever fails in the middle, refused sends, lost answers and sweeps cut short, the home gives
\* the disk back.
HomeGivesBack == \A f \in Blobs : []<>(bytes[f] = None)

\* So does a sender's helper, for what no message waits for.
SendersGiveBack ==
    \A s \in Members : \A f \in Blobs : []<>(copy[s][f] = None \/ f \in InOutbox(s))

\* The disk is given back on both sides.
DiskGivenBack == HomeGivesBack /\ SendersGiveBack

\* "A message may go in only if every file it points at is here."
PlacedHasFile == [][\A m \in Messages : PlaceMessage(m) => rowAge[BlobOf[m]] # None]_keepVars
=============================================================================
