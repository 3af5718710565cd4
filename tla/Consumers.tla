------------------------------ MODULE Consumers ------------------------------
(***************************************************************************)
(* What takes messages out of a room, over the delivery table of module    *)
(* Deliveries: `diavlos next` run again and again, `watch --exec`, a       *)
(* deliver rule of the helper, and the Slack, Teams and Buzz bridges,      *)
(* which also bring a channel's messages into the room                     *)
(* (crates/cli/src/main.rs, helper/wake.rs, helper/local.rs stream_watch,  *)
(* bridge/*.rs).                                                           *)
(*                                                                         *)
(* A consumer does something outside (prints, runs a command, posts to a   *)
(* channel) and settles by token afterwards.  It may stop at any step, its *)
(* leases may run out while it works, and the stream that feeds it lives   *)
(* in another process and outlives it by one message.                      *)
(*                                                                         *)
(* A channel is the sequence of what was posted to it.  The kinds differ   *)
(* in when a post counts as done and in how the channel is read back:      *)
(* Slack and Buzz over a socket, Teams by polling a delta feed whose place *)
(* is kept on disk with the refresh token of the sign-in.                  *)
(***************************************************************************)
EXTENDS Deliveries

CONSTANTS Me, Them,    \* the consumer's member of the room, and everyone else
          Kinds,       \* the consumers looked at, of AllKinds
          OwnIds,      \* teams.rs OWN_IDS: how many of its own posts it remembers
          MaxHuman,    \* bound: what people type in the channel
          MaxTeams,    \* bound: messages of others in a room bridged to Teams
          MaxStops,    \* bound: crashes, exits on an error, removals of the rule
          MaxTokens    \* bound: refresh tokens issued

AllKinds == {"next", "exec", "deliver", "slack", "teams", "buzz"}

ASSUME ConsumersAssumption ==
    /\ Readers = {Me} /\ Others = {Them} /\ Me # Them
    /\ Kinds \subseteq AllKinds
    /\ OwnIds \in Nat \ {0}
    /\ {MaxHuman, MaxTeams, MaxStops, MaxTokens} \subseteq Nat

VARIABLES
    kind,     \* which consumer this is
    gated,    \* whether the room's class is confidential or pii
    up,       \* "up", "down", or "removed": a deliver rule the user took away
    watch,    \* the line the stream last wrote
    dead,     \* streams whose reader is gone, each by the line it last wrote
    lines,    \* lines written and not yet read
    hand,     \* the delivery being worked on
    done,     \* how far that is
    outside,  \* history: the messages that reached the other side
    channel,  \* what was posted in the channel: a person's words, or message seq
    frames,   \* buzz: frames handed to the task that owns the socket
    heard,    \* how far the channel was read: by the socket, or url of the poll
    online,   \* whether the socket is connected
    ours,     \* teams: places in the channel of our newest posts
    disk,     \* teams: the saved session, the link past 0 and the refresh token
    mem,      \* teams: the poll's copy of it
    held,     \* teams: the poster's copy of it
    newest,   \* teams: the refresh token issued last
    valid,    \* teams: the access token has not expired
    poll,     \* teams: where the poll loop is, and what is left of its page
    seeding,  \* teams: whether this round only marks the place
    seen,     \* history: places of the channel the poll dealt with
    stops

delivery == <<log, rows, bookmark, issued, replays, taken>>
stream   == <<watch, dead, lines>>
work     == <<hand, done>>
inbound  == <<heard, online, poll, seeding, seen>>
session  == <<ours, disk, mem, held, newest, valid>>
fixed    == <<kind, gated>>
consumerVars == <<delivery, fixed, up, stream, work, outside, channel, frames, inbound, session, stops>>

Streams == {"exec", "slack", "teams", "buzz"}
Bridges == {"slack", "teams", "buzz"}

\* A delivery: the message and the token it was leased under; 0 is none.
NoLine == [seq |-> 0, token |-> 0]

\* A person's words are item 0, a message posted by the bridge its seq.
Human == 0

NoLink == 0

\* The poster's copy of the session, when it has none.
NoSession == [link |-> NoLink, token |-> 0]
LinkTo(place) == place + 1

NoPoll == [busy |-> FALSE, page |-> {}, next |-> 0, last |-> FALSE]

Up(k) == up = "up" /\ kind \in k

ConsumersInit ==
    /\ Init
    /\ kind \in Kinds
    /\ gated \in IF kind = "deliver" THEN BOOLEAN ELSE {FALSE}
    /\ up = "up"
    /\ watch = NoLine /\ dead = {} /\ lines = <<>>
    /\ hand = NoLine /\ done = "no"
    /\ outside = {} /\ channel = <<>> /\ frames = <<>>
    /\ heard = 0 /\ online = FALSE
    /\ ours = <<>> /\ newest = 1 /\ valid = TRUE
    /\ disk = [link |-> NoLink, token |-> 1] /\ mem = disk /\ held = NoSession
    /\ poll = NoPoll /\ seeding = TRUE /\ seen = {}
    /\ stops = 0

-----------------------------------------------------------------------------
(* Stopping and starting.                                                  *)

\* What a stop leaves: the store, the channel and the session on disk.  The helper's end
\* of a stream is still there and finds out when it next writes.
Gone ==
    /\ dead' = IF kind \in Streams THEN dead \cup {watch} ELSE dead
    /\ watch' = NoLine /\ lines' = <<>>
    /\ hand' = NoLine /\ done' = "no"
    /\ frames' = <<>> /\ online' = FALSE /\ ours' = <<>>
    /\ poll' = NoPoll /\ mem' = NoSession /\ held' = NoSession
    /\ heard' = IF kind = "teams" THEN 0 ELSE heard
    /\ seeding' = TRUE
    /\ UNCHANGED <<fixed, outside, seen>>

\* An error that ends the process.
Exit == up' = "down" /\ Gone

Stop ==
    /\ up = "up"
    /\ stops < MaxStops
    /\ stops' = stops + 1
    /\ Exit
    /\ UNCHANGED <<delivery, channel, disk, newest, valid>>

\* `wake remove`: the rule's task is aborted, and its command with it.
RemoveRule ==
    /\ Up({"deliver"})
    /\ stops < MaxStops
    /\ stops' = stops + 1
    /\ up' = "removed"
    /\ Gone
    /\ UNCHANGED <<delivery, channel, disk, newest, valid>>

\* "Refresh tokens rotate. Keep the new one or the next start fails."
Rotated(s) == [s EXCEPT !.token = newest + 1]

\* sign_in: with the saved token if the provider takes it, else by a code a person
\* types.  Either way a new token is issued and saved with the link kept on disk.
SignIn ==
    /\ newest' = newest + 1
    /\ valid' = TRUE
    /\ disk' = Rotated(disk)
    /\ mem' = disk'
    /\ heard' = IF disk.link = NoLink THEN 0 ELSE disk.link - 1
    /\ seeding' = (disk.link = NoLink)

Start ==
    /\ up = "down"
    /\ up' = "up"
    /\ IF kind = "teams"
       THEN SignIn
       ELSE UNCHANGED <<newest, valid, disk, mem, heard, seeding>>
    /\ UNCHANGED <<delivery, fixed, stream, work, outside, channel, frames, online, ours, held, poll, seen, stops>>

\* `wake add` for the same agent again: the rule is checked, saved and started.
AddRule ==
    /\ up = "removed"
    /\ ~gated
    /\ up' = "up"
    /\ UNCHANGED <<delivery, fixed, stream, work, outside, channel, frames, inbound, session, stops>>

-----------------------------------------------------------------------------
(* Taking messages.                                                        *)

\* The line of a lease just written.
Leased == LET s == CHOOSE t \in Seqs : issued'[Me][t] # issued[Me][t]
          IN  [seq |-> s, token |-> issued'[Me][s]]

\* The stream waits while the line it wrote is leased and its lease runs.
Serves(line) ==
    /\ line # NoLine
    /\ rows[Me][line.seq].token = line.token
    /\ rows[Me][line.seq].state = "leased"
    /\ ~rows[Me][line.seq].due

\* stream_watch: the next message is leased and written, whether or not the reader is
\* still working on the one before.
WatchTakes ==
    /\ Up(Streams)
    /\ ~Serves(watch)
    /\ Lease(Me)
    /\ IF issued' = issued
       THEN UNCHANGED <<watch, lines>>
       ELSE watch' = Leased /\ lines' = Append(lines, Leased)
    /\ UNCHANGED <<fixed, up, dead, work, outside, channel, frames, inbound, session, stops>>

\* A stream whose reader is gone leases one more message before its write fails.
DeadTakes ==
    \E line \in dead :
        /\ ~Serves(line)
        /\ Lease(Me)
        /\ dead' = IF issued' = issued THEN dead ELSE dead \ {line}
        /\ UNCHANGED <<fixed, up, watch, lines, work, outside, channel, frames, inbound, session, stops>>

\* The consumer reads the next line.
ReadLine ==
    /\ Up(Streams)
    /\ hand = NoLine /\ lines # <<>>
    /\ hand' = Head(lines) /\ lines' = Tail(lines)
    /\ UNCHANGED <<delivery, fixed, up, watch, dead, done, outside, channel, frames, inbound, session, stops>>

\* `diavlos next`: the message is leased under a token, whoever acks it later.
NextTakes ==
    /\ Up({"next"})
    /\ hand = NoLine
    /\ Lease(Me)
    /\ hand' = IF issued' = issued THEN NoLine ELSE Leased
    /\ UNCHANGED <<fixed, up, stream, done, outside, channel, frames, inbound, session, stops>>

\* run_deliver: look at what waits, then take one; not in a room of a private class.
DeliverTakes ==
    /\ Up({"deliver"})
    /\ ~gated
    /\ hand = NoLine
    /\ WakePending(Me) # {}
    /\ Lease(Me)
    /\ hand' = IF issued' = issued THEN NoLine ELSE Leased
    /\ UNCHANGED <<fixed, up, stream, done, outside, channel, frames, inbound, session, stops>>

-----------------------------------------------------------------------------
(* Working on a message.                                                   *)

\* `next` prints the message: "that is receipt".
Prints ==
    /\ Up({"next"})
    /\ hand # NoLine /\ done = "no"
    /\ done' = "ok"
    /\ outside' = outside \cup {hand.seq}
    /\ UNCHANGED <<delivery, fixed, up, stream, hand, channel, frames, inbound, session, stops>>

\* A command did its work or not, whatever its exit code; it may not have started.
Runs ==
    /\ hand # NoLine /\ done = "no"
    /\ done' \in {"ok", "failed"}
    /\ outside' \in {outside \cup {hand.seq}} \cup (IF done' = "failed" THEN {outside} ELSE {})
    /\ UNCHANGED <<delivery, fixed, up, stream, hand, channel, frames, inbound, session, stops>>

\* `watch --exec` runs the script in the foreground.
RunScript == Up({"exec"}) /\ Runs

\* run_command: a rule's command runs under a time limit.
RunCommand == Up({"deliver"}) /\ Runs

\* "The command may have settled it itself with DIAVLOS_TOKEN": acked it once its work was
\* done, or handed it back.
CommandSettles ==
    /\ Up({"exec", "deliver"})
    /\ hand # NoLine /\ done = "no"
    /\ \/ Ack(Me, hand.seq, hand.token) /\ outside' = outside \cup {hand.seq}
       \/ Nack(Me, hand.seq, hand.token) /\ UNCHANGED outside
    /\ UNCHANGED <<fixed, up, stream, work, channel, frames, inbound, session, stops>>

\* The post is in the channel.
Posted(s) == channel' = Append(channel, s) /\ outside' = outside \cup {s}

\* Mutant: any answer is taken for a post.
SlackPostsUnchecked ==
    /\ Up({"slack"})
    /\ hand # NoLine /\ done = "no"
    /\ Posted(hand.seq) \/ UNCHANGED <<channel, outside>>
    /\ done' = "ok"
    /\ UNCHANGED <<delivery, fixed, up, stream, hand, frames, inbound, session, stops>>

\* chat.postMessage: the answer says whether it was posted.
SlackPosts ==
    /\ Up({"slack"})
    /\ hand # NoLine /\ done = "no"
    /\ \/ Posted(hand.seq) /\ done' = "ok"
       \/ UNCHANGED <<channel, outside>> /\ done' = "failed"
    /\ UNCHANGED <<delivery, fixed, up, stream, hand, frames, inbound, session, stops>>

\* The frame goes to the task that owns the socket, and that counts as posted.
BuzzHandsOver ==
    /\ Up({"buzz"})
    /\ hand # NoLine /\ done = "no"
    /\ frames' = Append(frames, hand.seq)
    /\ done' = "ok"
    /\ UNCHANGED <<delivery, fixed, up, stream, hand, outside, channel, inbound, session, stops>>

\* The task sends the next frame.  The relay may refuse it; a send that fails loses it
\* and the connection.
BuzzSends ==
    /\ Up({"buzz"})
    /\ online /\ frames # <<>>
    /\ frames' = Tail(frames)
    /\ \/ Posted(Head(frames)) /\ UNCHANGED online
       \/ UNCHANGED <<channel, outside, online>>
       \/ online' = FALSE /\ UNCHANGED <<channel, outside>>
    /\ UNCHANGED <<delivery, fixed, up, stream, work, heard, poll, seeding, seen, session, stops>>

\* The poster reads the session from disk before it waits for the sign-in.
TeamsLoads ==
    /\ Up({"teams"})
    /\ hand # NoLine /\ done = "no"
    /\ held' = disk
    /\ done' = "loaded"
    /\ UNCHANGED <<delivery, fixed, up, stream, hand, outside, channel, frames, inbound,
                   ours, disk, mem, newest, valid, stops>>

\* Auth::token with session s.  An expired access token is renewed with the refresh
\* token in s, which is replaced; the provider may refuse any but the newest one.
TokenRenewed(s) == ~valid /\ newest < MaxTokens
TokenRefused(s) == ~valid /\ s.token # newest
WithToken(s) == IF valid THEN s ELSE Rotated(s)
TakesToken(s) ==
    /\ valid \/ TokenRenewed(s)
    /\ valid' = TRUE
    /\ newest' = IF valid THEN newest ELSE newest + 1
    /\ disk' = WithToken(s)

Refused ==
    /\ Exit
    /\ UNCHANGED <<delivery, channel, disk, newest, valid, stops>>

\* The poster, holding the sign-in, gets a token and saves the whole session with it;
\* then the post lands in the channel, or Graph turns it down.
TeamsPosts ==
    /\ Up({"teams"})
    /\ done = "loaded"
    /\ \/ /\ TakesToken(held)
          /\ held' = NoSession
          /\ \/ Posted(hand.seq) /\ done' = "landed"
             \/ UNCHANGED <<channel, outside>> /\ done' = "failed"
          /\ UNCHANGED <<delivery, fixed, up, stream, hand, frames, inbound, ours, mem, stops>>
       \/ TokenRefused(held) /\ Refused

\* The answer brings the id, which is remembered; an answer without one is a failure.
\* The channel has moved on meanwhile, and so may the poll have.
TeamsAnswered ==
    /\ Up({"teams"})
    /\ done = "landed"
    /\ LET mine == {p \in 1..Len(channel) : channel[p] = hand.seq}
           id   == CHOOSE p \in mine : \A q \in mine : q <= p
           kept == Append(ours, id)
       IN  \/ /\ done' = "ok"
              /\ ours' = IF Len(kept) > OwnIds THEN Tail(kept) ELSE kept
           \/ done' = "failed" /\ UNCHANGED ours
    /\ UNCHANGED <<delivery, fixed, up, stream, hand, outside, channel, frames, inbound,
                   disk, mem, held, newest, valid, stops>>

\* The store takes a settle of the line in hand.
SettleTaken ==
    \/ done = "ok" /\ Ack(Me, hand.seq, hand.token)
    \/ done = "failed" /\ Nack(Me, hand.seq, hand.token) /\ ~rows'[Me][hand.seq].due

SettleStands ==
    /\ Names(Me, hand.seq, hand.token)
    /\ rows[Me][hand.seq].state = "leased" \/ (done = "ok" /\ rows[Me][hand.seq].state = "acked")

\* The outcome is known: ack it, or hand it back for a while.
SettleHand ==
    /\ Up(AllKinds \ {"deliver"})
    /\ done \in {"ok", "failed"}
    /\ SettleTaken
    /\ hand' = NoLine /\ done' = "no"
    /\ UNCHANGED <<fixed, up, stream, outside, channel, frames, inbound, session, stops>>

\* The lease ran out and the message went out again: `watch --exec` ends with the error,
\* the others report it and go on.
SettleTooLate ==
    /\ Up(AllKinds \ {"deliver"})
    /\ done \in {"ok", "failed"}
    /\ ~SettleStands
    /\ IF kind = "exec"
       THEN Exit
       ELSE /\ hand' = NoLine /\ done' = "no"
            /\ UNCHANGED <<fixed, up, stream, outside, frames, inbound, ours, mem, held>>
    /\ UNCHANGED <<delivery, channel, disk, newest, valid, stops>>

\* run_deliver settles what the command left, and what it finds settled it leaves alone.
RuleSettles ==
    /\ Up({"deliver"})
    /\ done \in {"ok", "failed"}
    /\ SettleTaken \/ (~SettleStands /\ UNCHANGED delivery)
    /\ hand' = NoLine /\ done' = "no"
    /\ UNCHANGED <<fixed, up, stream, outside, channel, frames, inbound, session, stops>>

-----------------------------------------------------------------------------
(* The channel, and what it brings into the room.                          *)

\* Someone types in the channel.
PersonTypes ==
    /\ kind \in Bridges
    /\ Cardinality({p \in 1..Len(channel) : channel[p] = Human}) < MaxHuman
    /\ channel' = Append(channel, Human)
    /\ UNCHANGED <<delivery, fixed, up, stream, work, outside, frames, inbound, session, stops>>

\* `send` of a chat by the bridge's own member; the room may refuse it, and then it is
\* only reported.
Relay ==
    \/ Arrive([from |-> Me, housekeeping |-> FALSE])
    \/ UNCHANGED delivery

\* Slack may deliver what it has not delivered yet.
SlackConnects ==
    /\ Up({"slack"})
    /\ ~online
    /\ online' = TRUE
    /\ heard' \in heard..Len(channel)
    /\ UNCHANGED <<delivery, fixed, up, stream, work, outside, channel, frames,
                   poll, seeding, seen, session, stops>>

\* The relay takes our key and, with a limit of 0, replays nothing.
BuzzConnects ==
    /\ Up({"buzz"})
    /\ ~online
    /\ online' = TRUE
    /\ heard' = Len(channel)
    /\ UNCHANGED <<delivery, fixed, up, stream, work, outside, channel, frames,
                   poll, seeding, seen, session, stops>>

Disconnect ==
    /\ Up({"slack", "buzz"})
    /\ online
    /\ stops < MaxStops
    /\ stops' = stops + 1
    /\ online' = FALSE
    /\ UNCHANGED <<delivery, fixed, up, stream, work, outside, channel, frames,
                   heard, poll, seeding, seen, session>>

\* slack_event_to_draft: what has a bot's id is skipped.
FromPerson(item) == item = Human

\* buzz_event_to_draft: what is under our key is skipped.
FromOtherKey(item) == item = Human

Relayed(item) == IF kind = "slack" THEN FromPerson(item) ELSE FromOtherKey(item)

\* An event arrives on the socket; Slack's is acknowledged to Slack before it is relayed.
Hear ==
    /\ Up({"slack", "buzz"})
    /\ online
    /\ heard < Len(channel)
    /\ heard' = heard + 1
    /\ IF Relayed(channel[heard + 1]) THEN Relay ELSE UNCHANGED delivery
    /\ UNCHANGED <<fixed, up, stream, work, outside, channel, frames,
                   online, poll, seeding, seen, session, stops>>

\* The poll, holding the sign-in, gets a token and saves its own copy of the session
\* with it; then it gets a page of the feed.  A page that does not reach the end of the
\* channel leads to the next one, the last one to the link of the next round.
PollGets ==
    /\ Up({"teams"})
    /\ ~poll.busy
    /\ \/ /\ TakesToken(mem)
          /\ mem' = WithToken(mem)
          /\ \E end \in heard..Len(channel) :
                /\ end = heard => heard = Len(channel)
                /\ poll' = [busy |-> TRUE, next |-> end, last |-> end = Len(channel),
                            page |-> IF seeding THEN {} ELSE (heard + 1)..end]
                /\ seen' = IF seeding THEN seen \cup 1..end ELSE seen
          /\ UNCHANGED <<delivery, fixed, up, stream, work, outside, channel, frames,
                         heard, online, seeding, ours, held, stops>>
       \/ TokenRefused(mem) /\ Refused

\* 400 or 410: the link is dropped, and a fresh round marks the place anew.
PollStartsOver ==
    /\ Up({"teams"})
    /\ ~poll.busy
    /\ stops < MaxStops
    /\ stops' = stops + 1
    /\ heard' = 0 /\ seeding' = TRUE
    /\ mem' = [mem EXCEPT !.link = NoLink] /\ disk' = mem'
    /\ poll' = NoPoll
    /\ UNCHANGED <<delivery, fixed, up, stream, work, outside, channel, frames,
                   online, seen, ours, held, newest, valid>>

\* Mutant: the link is saved as soon as the page is there.
PageArrived == poll.busy

\* The whole page was dealt with.
PageDone == poll.busy /\ poll.page = {}

\* teams_message_to_draft: unless it is one of ours, which is looked up now, the next
\* message of the page is relayed.
PollRelays ==
    /\ Up({"teams"})
    /\ poll.page # {}
    /\ LET p == CHOOSE q \in poll.page : \A r \in poll.page : q <= r
       IN  /\ IF \E i \in 1..Len(ours) : ours[i] = p THEN UNCHANGED delivery ELSE Relay
           /\ poll' = [poll EXCEPT !.page = @ \ {p}]
           /\ seen' = seen \cup {p}
    /\ UNCHANGED <<fixed, up, stream, work, outside, channel, frames,
                   heard, online, seeding, session, stops>>

\* On to the next page; at the end of the round the link is saved, with the rest of the
\* poll's copy of the session.
PollMovesOn ==
    /\ Up({"teams"})
    /\ PageDone
    /\ heard' = poll.next
    /\ poll' = NoPoll
    /\ IF poll.last
       THEN /\ mem' = [mem EXCEPT !.link = LinkTo(poll.next)]
            /\ disk' = mem'
            /\ seeding' = FALSE
       ELSE UNCHANGED <<mem, disk, seeding>>
    /\ UNCHANGED <<delivery, fixed, up, stream, work, outside, channel, frames,
                   online, seen, ours, held, newest, valid, stops>>

\* An hour passes and the access token expires.
TokenExpires ==
    /\ Up({"teams"})
    /\ valid /\ newest < MaxTokens
    /\ valid' = FALSE
    /\ UNCHANGED <<delivery, fixed, up, stream, work, outside, channel, frames, inbound,
                   ours, disk, mem, held, newest, stops>>

-----------------------------------------------------------------------------
(* The system.                                                             *)

\* A message of someone else comes into the room.
OthersSend ==
    /\ kind = "teams" => Cardinality({s \in Arrived : log[s].from = Them}) < MaxTeams
    /\ Arrive([from |-> Them, housekeeping |-> FALSE])
    /\ UNCHANGED <<fixed, up, stream, work, outside, channel, frames, inbound, session, stops>>

\* A lease runs out, or the delay of a nack passes.
Time(s) ==
    /\ TimePasses(Me, s)
    /\ UNCHANGED <<fixed, up, stream, work, outside, channel, frames, inbound, session, stops>>

Taking   == NextTakes \/ WatchTakes \/ DeadTakes \/ ReadLine \/ DeliverTakes
Posting  == Prints \/ RunScript \/ RunCommand \/ SlackPosts \/ BuzzHandsOver \/ BuzzSends
            \/ TeamsLoads \/ TeamsPosts \/ TeamsAnswered
Settling == SettleHand \/ SettleTooLate \/ RuleSettles
Polling  == PollGets \/ PollStartsOver \/ PollRelays \/ PollMovesOn

ConsumersNext ==
    \/ Stop \/ RemoveRule \/ Start \/ AddRule
    \/ Taking \/ Posting \/ CommandSettles \/ Settling
    \/ PersonTypes \/ SlackConnects \/ BuzzConnects \/ Disconnect \/ Hear \/ Polling \/ TokenExpires
    \/ OthersSend
    \/ \E s \in Seqs : Time(s)

\* Processes run their next step when they can, a consumer that went down is started
\* again, and time passes.  Nobody need send, type, or give a rule back.
ConsumersFairness ==
    /\ WF_consumerVars(Start) /\ WF_consumerVars(Taking)
    /\ WF_consumerVars(Posting) /\ WF_consumerVars(Settling)
    /\ \A s \in Seqs : WF_consumerVars(Time(s))

ConsumersSpec == ConsumersInit /\ [][ConsumersNext]_consumerVars /\ ConsumersFairness

-----------------------------------------------------------------------------
(* Properties.                                                             *)

Line == [seq : 0..MaxSeq, token : Nat]
Session == [link : Nat, token : Nat]

ConsumersTypeOK ==
    /\ TypeOK
    /\ kind \in AllKinds /\ gated \in BOOLEAN /\ up \in {"up", "down", "removed"}
    /\ watch \in Line /\ dead \subseteq Line /\ lines \in Seq(Line) /\ hand \in Line
    /\ done \in {"no", "loaded", "landed", "ok", "failed"}
    /\ outside \subseteq Seqs
    /\ channel \in Seq(0..MaxSeq) /\ frames \in Seq(Seqs)
    /\ {disk, mem, held} \subseteq Session

\* bridge::settle: "a duplicate post is possible, a lost one is not".  A message the
\* consumer acked has reached the other side, through crashes and leases that run out
\* in the middle of a post; Buzz is another matter, see PostIsNotLost.
AckedReachedOutside == kind # "buzz" => taken[Me] \subseteq outside

PostIsNotLost == taken[Me] \subseteq outside

\* After a restart the poll goes on from the link on disk.  Whatever lies before that
\* link was relayed, refused, or passed over by a round that only marked the place: a
\* stop between a page and its link repeats messages and skips none.
LinkSkipsNothing == disk.link # NoLink => 1..(disk.link - 1) \subseteq seen

\* Owed, and never yet on the other side.
Waiting == {s \in Owed(Me) : s \notin outside}

\* Every message for the consumer reaches the other side or is set aside in quarantine,
\* whatever crashes, fails or runs out on the way, unless the rule is taken away: again
\* and again nothing waits.
EveryMessageGetsOut ==
    []<>(kind = "buzz" \/ gated \/ up = "removed" \/ Waiting = {})
=============================================================================
