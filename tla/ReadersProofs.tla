---------------------------- MODULE ReadersProofs ----------------------------
(***************************************************************************)
(* Those who read from a room, and what tells them that something waits.   *)
(*                                                                         *)
(* What takes messages out of a room works the delivery table by the rules *)
(* of module Deliveries, so that all the table promises holds for it       *)
(* (ImplementsTable); what it acked has reached the other side             *)
(* (AcksReachOutside); and the link its poll goes on from skips nothing of *)
(* the channel (LinkIsSafe).  A blocked `next` sleeps only on what it has  *)
(* seen (NothingSleptThrough).  A wake rule's nudges keep their gap and    *)
(* their hourly bound (NudgesSpaced).                                      *)
(*                                                                         *)
(* The inductive invariants: what the consumer has in its hands (HandInv), *)
(* what it knows of the other side (OutInv), and how far the channel was   *)
(* dealt with, behind every copy of the link and within the page at hand   *)
(* (FeedInv); what is fresh for a call that is about to sleep (SeenInv);   *)
(* and how the schedule's counters stand to the nudges that really went    *)
(* out (RuleInv).                                                          *)
(***************************************************************************)
EXTENDS Consumers, NextWait, Wake, DeliveriesProofs, WellFoundedInduction

\* A set of numbers has a least one.
LEMMA SmallestOf ==
    ASSUME NEW S \in SUBSET Nat, S # {}
    PROVE  \E q \in S : \A r \in S : q <= r
<1>1. PICK m \in S : \A r \in S : <<r, m>> \notin OpToRel(<, Nat)
  BY NatLessThanWellFounded, WFMin, Zenon
<1>2. \A r \in S : ~(r < m)
  BY <1>1, Zenon DEF OpToRel
<1> QED
  BY <1>2

-----------------------------------------------------------------------------
(* Consumers.                                                              *)

Delivery == [seq : Seqs, token : Nat]

\* A message is in hand from its line on, and only then is there work to speak of.
HandInv ==
    /\ hand \in Delivery \cup {NoLine}
    /\ lines \in Seq(Delivery)
    /\ done # "no" => hand # NoLine

\* What the consumer takes for done has reached the other side.
OutInv ==
    /\ kind # "buzz" /\ done \in {"ok", "landed"} => hand.seq \in outside
    /\ AckedReachedOutside

\* Every place before the session's link was dealt with.
Behind(s) == \A p \in Nat : 1 <= p /\ p < s.link => p \in seen

FeedInv ==
    /\ newest \in Nat
    /\ disk \in Session /\ mem \in Session /\ held \in Session
    /\ Behind(disk) /\ Behind(mem) /\ Behind(held)
    /\ poll \in [busy : BOOLEAN, page : SUBSET Nat, next : Nat, last : BOOLEAN]
    /\ kind = "teams" => heard \in Nat
    /\ ~seeding => kind = "teams" /\ \A p \in Nat : 1 <= p /\ p <= heard => p \in seen
    /\ poll.busy => \A p \in Nat : 1 <= p /\ p <= poll.next /\ p \notin poll.page => p \in seen

-----------------------------------------------------------------------------
(* The table.                                                              *)

\* What the consumer does to the table is a step of the table.
LEMMA TableStep ==
    ASSUME IInv,
           \/ Lease(Me)
           \/ \E m \in Message : Arrive(m)
           \/ \E s \in Seqs, n \in Nat : Ack(Me, s, n) \/ Nack(Me, s, n)
           \/ \E s \in Seqs : TimePasses(Me, s)
           \/ UNCHANGED delivery
    PROVE  [Next]_vars
<1>1. Me \in Readers
  BY ConsumersAssumption
<1>2. ASSUME NEW s \in Seqs, NEW n \in Nat, Ack(Me, s, n) \/ Nack(Me, s, n) PROVE Settle(Me, s)
  BY <1>2 DEF Settle, Ack, Nack, Names
<1>3. ASSUME UNCHANGED delivery PROVE UNCHANGED vars
  BY <1>3 DEF delivery, vars
<1> QED
  BY <1>1, <1>2, <1>3 DEF Next

\* A lease that drew a token leaves a delivery of a message in the line.
LEMMA LeasedIsDelivery ==
    ASSUME IInv, Lease(Me), issued' # issued
    PROVE  Leased \in Delivery
<1>1. Me \in Readers /\ issued \in [Readers -> [Seqs -> Nat]] /\ Len(log) <= MaxSeq
      /\ Len(log) \in Nat /\ MaxSeq \in Nat
  BY ConsumersAssumption, DeliveriesAssumption DEF IInv, TypeOK
<1>2. PICK s \in Arrived : issued' = [issued EXCEPT ![Me][s] = issued[Me][s] + 1]
  BY DEF Lease, NothingOwed, HandOut
<1>3. s \in Seqs
  BY <1>1 DEF Arrived, Seqs
<1>4. issued'[Me][s] # issued[Me][s] /\ issued'[Me] \in [Seqs -> Nat]
  BY <1>1, <1>2, <1>3
<1> DEFINE t == CHOOSE u \in Seqs : issued'[Me][u] # issued[Me][u]
<1>5. t \in Seqs
  BY <1>3, <1>4
<1>6. issued'[Me][t] \in Nat
  BY <1>4, <1>5
<1>7. Leased = [seq |-> t, token |-> issued'[Me][t]]
  BY DEF Leased
<1> HIDE DEF t
<1> QED
  BY <1>5, <1>6, <1>7 DEF Delivery

LEMMA MessagesOfBoth ==
    /\ [from |-> Me, housekeeping |-> FALSE] \in Message
    /\ [from |-> Them, housekeeping |-> FALSE] \in Message
BY ConsumersAssumption DEF Message

\* Every step of the consumer is a step of the table, or leaves it alone.
LEMMA StepsOfTable == IInv /\ HandInv /\ [ConsumersNext]_consumerVars => [Next]_vars
<1>1. SUFFICES ASSUME IInv, HandInv, [ConsumersNext]_consumerVars PROVE [Next]_vars
  OBVIOUS
<1>2. hand # NoLine \/ done # "no" => hand.seq \in Seqs /\ hand.token \in Nat
  BY <1>1 DEF HandInv, Delivery
<1>3. CASE Stop \/ RemoveRule \/ Start \/ AddRule
  BY <1>1, <1>3, TableStep DEF Stop, RemoveRule, Start, AddRule
<1>4. CASE Taking
  BY <1>1, <1>4, TableStep DEF Taking, NextTakes, WatchTakes, DeadTakes, ReadLine, DeliverTakes
<1>5. CASE Posting
  <2>1. CASE Prints \/ RunScript \/ RunCommand
    BY <1>1, <2>1, TableStep DEF Prints, RunScript, RunCommand, Runs
  <2>2. CASE SlackPosts \/ BuzzHandsOver \/ BuzzSends
    BY <1>1, <2>2, TableStep DEF SlackPosts, BuzzHandsOver, BuzzSends
  <2>3. CASE TeamsLoads \/ TeamsPosts \/ TeamsAnswered
    BY <1>1, <2>3, TableStep DEF TeamsLoads, TeamsPosts, TeamsAnswered, Refused
  <2> QED
    BY <1>5, <2>1, <2>2, <2>3 DEF Posting
<1>6. CASE CommandSettles
  BY <1>1, <1>2, <1>6, TableStep DEF CommandSettles
<1>7. CASE Settling
  <2>1. CASE SettleHand
    BY <1>1, <1>2, <2>1, TableStep DEF SettleHand, SettleTaken
  <2>2. CASE SettleTooLate
    BY <1>1, <2>2, TableStep DEF SettleTooLate
  <2>3. CASE RuleSettles
    BY <1>1, <1>2, <2>3, TableStep DEF RuleSettles, SettleTaken
  <2> QED
    BY <1>7, <2>1, <2>2, <2>3 DEF Settling
<1>8. CASE PersonTypes \/ SlackConnects \/ BuzzConnects \/ Disconnect \/ TokenExpires
  BY <1>1, <1>8, TableStep DEF PersonTypes, SlackConnects, BuzzConnects, Disconnect, TokenExpires
<1>9. ASSUME Relay \/ UNCHANGED delivery PROVE [Next]_vars
  BY <1>1, <1>9, MessagesOfBoth, TableStep DEF Relay
<1>10. CASE Hear \/ Polling
  BY <1>9, <1>10 DEF Hear, Polling, PollGets, PollStartsOver, PollRelays, PollMovesOn, Refused
<1>11. CASE OthersSend
  BY <1>1, <1>11, MessagesOfBoth, TableStep DEF OthersSend
<1>12. CASE \E s \in Seqs : Time(s)
  BY <1>1, <1>12, TableStep DEF Time
<1>13. CASE UNCHANGED consumerVars
  BY <1>1, <1>13, TableStep DEF consumerVars
<1> QED
  BY <1>1, <1>3, <1>4, <1>5, <1>6, <1>7, <1>8, <1>10, <1>11, <1>12, <1>13 DEF ConsumersNext

-----------------------------------------------------------------------------
(* The hands.                                                              *)

\* The hands are empty after a stop.
LEMMA GoneEmpties ==
    ASSUME HandInv, Gone
    PROVE  HandInv' /\ done' = "no"
BY DEF Gone, HandInv, NoLine

LEMMA NextHand == IInv /\ HandInv /\ [ConsumersNext]_consumerVars => HandInv'
<1>1. SUFFICES ASSUME IInv, HandInv, [ConsumersNext]_consumerVars PROVE HandInv'
  OBVIOUS
<1>2. ASSUME UNCHANGED <<hand, lines, done>> PROVE HandInv'
  BY <1>1, <1>2 DEF HandInv
<1>3. ASSUME hand' = NoLine, done' = "no", UNCHANGED lines PROVE HandInv'
  BY <1>1, <1>3 DEF HandInv
<1>4. ASSUME hand # NoLine, UNCHANGED <<hand, lines>> PROVE HandInv'
  BY <1>1, <1>4 DEF HandInv
<1>5. done # "no" => hand # NoLine
  BY <1>1 DEF HandInv
<1>6. CASE Stop \/ RemoveRule
  BY <1>1, <1>6, GoneEmpties DEF Stop, RemoveRule, Exit
<1>7. CASE Start \/ AddRule
  BY <1>2, <1>7 DEF Start, AddRule, stream, work
<1>8. CASE WatchTakes
  <2>1. CASE issued' = issued
    BY <1>2, <1>8, <2>1 DEF WatchTakes, work
  <2>2. CASE issued' # issued
    <3>1. Leased \in Delivery /\ lines' = Append(lines, Leased) /\ UNCHANGED <<hand, done>>
      BY <1>1, <1>8, <2>2, LeasedIsDelivery DEF WatchTakes, work
    <3> QED
      BY <1>1, <3>1 DEF HandInv
  <2> QED
    BY <2>1, <2>2
<1>9. CASE ReadLine
  BY <1>1, <1>9 DEF ReadLine, HandInv
<1>10. CASE NextTakes \/ DeliverTakes
  <2>1. /\ hand = NoLine /\ Lease(Me) /\ UNCHANGED <<lines, done>>
        /\ hand' = IF issued' = issued THEN NoLine ELSE Leased
    BY <1>10 DEF NextTakes, DeliverTakes, stream
  <2>2. issued' # issued => Leased \in Delivery
    BY <1>1, <2>1, LeasedIsDelivery
  <2> QED
    BY <1>1, <2>1, <2>2 DEF HandInv
<1>11. CASE DeadTakes
  BY <1>2, <1>11 DEF DeadTakes, work
<1>12. CASE Posting
  <2>1. CASE Prints \/ RunScript \/ RunCommand \/ SlackPosts \/ BuzzHandsOver
    BY <1>4, <2>1 DEF Prints, RunScript, RunCommand, Runs, SlackPosts, BuzzHandsOver, stream
  <2>2. CASE BuzzSends
    BY <1>2, <2>2 DEF BuzzSends, stream, work
  <2>3. CASE TeamsLoads \/ TeamsAnswered
    BY <1>4, <1>5, <2>3 DEF TeamsLoads, TeamsAnswered, stream
  <2>4. CASE TeamsPosts
    BY <1>1, <1>4, <1>5, <2>4, GoneEmpties DEF TeamsPosts, Refused, Exit, stream
  <2> QED
    BY <1>12, <2>1, <2>2, <2>3, <2>4 DEF Posting
<1>13. CASE CommandSettles
  BY <1>2, <1>13 DEF CommandSettles, stream, work
<1>14. CASE Settling
  BY <1>1, <1>3, <1>14, GoneEmpties
  DEF Settling, SettleHand, SettleTooLate, RuleSettles, Exit, stream
<1>15. CASE PersonTypes \/ SlackConnects \/ BuzzConnects \/ Disconnect \/ Hear \/ TokenExpires
  BY <1>2, <1>15 DEF PersonTypes, SlackConnects, BuzzConnects, Disconnect, Hear, TokenExpires,
     stream, work
<1>16. CASE Polling
  BY <1>1, <1>2, <1>16, GoneEmpties
  DEF Polling, PollGets, PollStartsOver, PollRelays, PollMovesOn, Refused, Exit, stream, work
<1>17. CASE OthersSend \/ \E s \in Seqs : Time(s)
  BY <1>2, <1>17 DEF OthersSend, Time, stream, work
<1>18. CASE UNCHANGED consumerVars
  BY <1>2, <1>18 DEF consumerVars, stream, work
<1> QED
  BY <1>1, <1>6, <1>7, <1>8, <1>9, <1>10, <1>11, <1>12, <1>13, <1>14, <1>15, <1>16, <1>17, <1>18
  DEF ConsumersNext, Taking

LEMMA InitHand == ConsumersInit => HandInv
BY DEF ConsumersInit, HandInv

\* The table under a consumer keeps its invariant, and the consumer's hands theirs.
THEOREM ConsumersInductive == ConsumersSpec => [](IInv /\ HandInv)
<1>1. ConsumersInit => IInv
  BY InitIInv DEF ConsumersInit
<1> QED
  BY <1>1, InitHand, NextHand, StepsOfTable, NextIInv, PTL DEF ConsumersSpec

\* A room with a consumer is a room of module Deliveries: `next`, `watch --exec`, the deliver
\* rules and the bridges hold what the table promises by settling with the tokens they have.
THEOREM ImplementsTable == ConsumersSpec => Spec
<1>1. ConsumersInit => Init
  BY DEF ConsumersInit
<1> QED
  BY <1>1, ConsumersInductive, StepsOfTable, PTL DEF ConsumersSpec, Spec

\* So every message owed to it is kept, until it is taken on or set aside.
THEOREM ConsumersKeepPromise == ConsumersSpec => KeepsPromise
BY ImplementsTable, PromiseKept, PTL

-----------------------------------------------------------------------------
(* The other side.                                                         *)

\* A settle of the hand's message, or of none.
LEMMA TakenWhen ==
    ASSUME IInv, NEW s \in Seqs, NEW n \in Nat, Ack(Me, s, n) \/ Nack(Me, s, n)
    PROVE  taken'[Me] \subseteq taken[Me] \cup {s} /\ (Nack(Me, s, n) => taken' = taken)
BY ConsumersAssumption DEF IInv, TypeOK, Ack, Nack

LEMMA OutKeeps ==
    ASSUME OutInv, kind' = kind, outside \subseteq outside', taken'[Me] \subseteq taken[Me],
           done' \in {"ok", "landed"} =>
               kind = "buzz" \/ hand'.seq \in outside' \/ UNCHANGED <<hand, done>>
    PROVE  OutInv'
BY DEF OutInv, AckedReachedOutside

LEMMA NextOut == IInv /\ HandInv /\ OutInv /\ [ConsumersNext]_consumerVars => OutInv'
<1>1. SUFFICES ASSUME IInv, HandInv, OutInv, [ConsumersNext]_consumerVars PROVE OutInv'
  OBVIOUS
<1>2. ASSUME UNCHANGED <<kind, taken, hand, done, outside>> PROVE OutInv'
  BY <1>1, <1>2, OutKeeps
<1>3. ASSUME UNCHANGED <<kind, taken, outside>>, done' \notin {"ok", "landed"} PROVE OutInv'
  BY <1>1, <1>3, OutKeeps
<1>4. done # "no" => hand.seq \in Seqs /\ hand.token \in Nat
  BY <1>1 DEF HandInv, Delivery
<1>5. ASSUME Gone, UNCHANGED delivery PROVE OutInv'
  BY <1>3, <1>5 DEF Gone, fixed, delivery
<1>6. CASE Stop \/ RemoveRule
  BY <1>5, <1>6 DEF Stop, RemoveRule, Exit
<1>7. CASE Start \/ AddRule
  BY <1>2, <1>7 DEF Start, AddRule, delivery, fixed, work
<1>8. ASSUME Lease(Me) PROVE taken' = taken
  BY <1>8 DEF Lease, NothingOwed, HandOut
<1>9. CASE Taking
  <2>1. done = "no" \/ hand # NoLine
    BY <1>1 DEF HandInv
  <2>2. CASE NextTakes \/ DeliverTakes \/ ReadLine
    <3>1. hand = NoLine /\ UNCHANGED <<kind, taken, outside, done>>
      BY <1>8, <2>2 DEF NextTakes, DeliverTakes, ReadLine, fixed, delivery
    <3>2. done' = "no"
      BY <1>1, <3>1 DEF HandInv
    <3> QED
      BY <1>3, <3>1, <3>2
  <2>3. CASE WatchTakes \/ DeadTakes
    BY <1>2, <1>8, <2>3 DEF WatchTakes, DeadTakes, fixed, work
  <2> QED
    BY <1>9, <2>2, <2>3 DEF Taking
<1>10. ASSUME UNCHANGED <<kind, taken, hand>>, outside \subseteq outside',
              done' \in {"ok", "landed"} => kind = "buzz" \/ hand.seq \in outside'
       PROVE  OutInv'
  BY <1>1, <1>10, OutKeeps
<1>11. CASE Posting
  <2>1. CASE Prints
    BY <1>10, <2>1 DEF Prints, delivery, fixed
  <2>2. CASE RunScript \/ RunCommand
    BY <1>10, <2>2 DEF RunScript, RunCommand, Runs, delivery, fixed
  <2>3. CASE SlackPosts
    BY <1>10, <2>3 DEF SlackPosts, Posted, delivery, fixed
  <2>4. CASE BuzzHandsOver
    BY <1>10, <2>4 DEF BuzzHandsOver, Up, delivery, fixed
  <2>5. CASE BuzzSends
    <3>1. /\ UNCHANGED <<kind, taken, hand, done>> /\ outside \subseteq outside'
          /\ kind = "buzz"
      BY <2>5 DEF BuzzSends, Posted, Up, delivery, fixed, work
    <3> QED
      BY <1>10, <3>1
  <2>6. CASE TeamsLoads
    BY <1>3, <2>6 DEF TeamsLoads, delivery, fixed
  <2>7. CASE TeamsPosts
    <3>1. CASE Refused
      BY <1>5, <3>1 DEF Refused, Exit
    <3>2. CASE ~Refused
      BY <1>10, <2>7, <3>2 DEF TeamsPosts, Posted, delivery, fixed
    <3> QED
      BY <3>1, <3>2
  <2>8. CASE TeamsAnswered
    <3>1. done = "landed" /\ UNCHANGED <<kind, taken, hand, outside>>
      BY <2>8 DEF TeamsAnswered, delivery, fixed
    <3>2. kind = "buzz" \/ hand.seq \in outside
      BY <1>1, <3>1 DEF OutInv
    <3> QED
      BY <1>10, <3>1, <3>2
  <2> QED
    BY <1>11, <2>1, <2>2, <2>3, <2>4, <2>5, <2>6, <2>7, <2>8 DEF Posting
<1>12. CASE CommandSettles
  <2>1. /\ hand # NoLine /\ done = "no" /\ UNCHANGED <<kind, hand, done>>
        /\ outside \subseteq outside'
        /\ \/ Ack(Me, hand.seq, hand.token) /\ outside' = outside \cup {hand.seq}
           \/ Nack(Me, hand.seq, hand.token)
    BY <1>12 DEF CommandSettles, fixed, work
  <2>2. hand.seq \in Seqs /\ hand.token \in Nat
    BY <1>1, <2>1 DEF HandInv, Delivery
  <2>3. CASE Ack(Me, hand.seq, hand.token) /\ outside' = outside \cup {hand.seq}
    <3>1. taken'[Me] \subseteq taken[Me] \cup {hand.seq}
      BY <1>1, <2>2, <2>3, TakenWhen
    <3> QED
      BY <1>1, <2>1, <2>3, <3>1 DEF OutInv, AckedReachedOutside
  <2>4. CASE Nack(Me, hand.seq, hand.token)
    <3>1. taken' = taken
      BY <1>1, <2>2, <2>4, TakenWhen
    <3> QED
      BY <1>10, <2>1, <3>1
  <2> QED
    BY <2>1, <2>3, <2>4
\* What was acked was done, and so is out.
<1>13. ASSUME SettleTaken, UNCHANGED <<kind, outside>>, done' = "no" PROVE OutInv'
  <2>1. CASE done = "ok" /\ Ack(Me, hand.seq, hand.token)
    <3>1. taken'[Me] \subseteq taken[Me] \cup {hand.seq}
      BY <1>1, <1>4, <2>1, TakenWhen
    <3> QED
      BY <1>1, <1>13, <2>1, <3>1 DEF OutInv, AckedReachedOutside
  <2>2. CASE done = "failed" /\ Nack(Me, hand.seq, hand.token)
    <3>1. taken' = taken
      BY <1>1, <1>4, <2>2, TakenWhen
    <3> QED
      BY <1>3, <1>13, <3>1
  <2> QED
    BY <1>13, <2>1, <2>2 DEF SettleTaken
<1>14. CASE Settling
  <2>1. CASE SettleHand
    BY <1>13, <2>1 DEF SettleHand, fixed
  <2>2. CASE SettleTooLate
    BY <1>3, <1>5, <2>2 DEF SettleTooLate, Exit, delivery, fixed
  <2>3. CASE RuleSettles
    BY <1>3, <1>13, <2>3 DEF RuleSettles, delivery, fixed
  <2> QED
    BY <1>14, <2>1, <2>2, <2>3 DEF Settling
<1>15. ASSUME NEW m, Relay \/ Arrive(m) \/ UNCHANGED delivery PROVE taken' = taken
  BY <1>15 DEF Relay, Arrive, delivery
<1>16. CASE PersonTypes \/ SlackConnects \/ BuzzConnects \/ Disconnect \/ TokenExpires
  BY <1>2, <1>16 DEF PersonTypes, SlackConnects, BuzzConnects, Disconnect, TokenExpires,
     delivery, fixed, work
<1>17. CASE Hear \/ PollRelays
  <2>1. UNCHANGED <<kind, taken, hand, done, outside>>
    BY <1>15, <1>17 DEF Hear, PollRelays, fixed, work
  <2> QED
    BY <1>2, <2>1
<1>18. CASE PollGets \/ PollStartsOver \/ PollMovesOn
  BY <1>2, <1>5, <1>18 DEF PollGets, PollStartsOver, PollMovesOn, Refused, Exit,
     delivery, fixed, work
<1>19. CASE OthersSend \/ \E s \in Seqs : Time(s)
  BY <1>2, <1>15, <1>19 DEF OthersSend, Time, TimePasses, fixed, work
<1>20. CASE UNCHANGED consumerVars
  BY <1>2, <1>20 DEF consumerVars, delivery, fixed, work
<1> QED
  BY <1>1, <1>6, <1>7, <1>9, <1>11, <1>12, <1>14, <1>16, <1>17, <1>18, <1>19, <1>20
  DEF ConsumersNext, Polling

LEMMA InitOut == ConsumersInit => OutInv
<1>1. ConsumersInit => taken[Me] = {}
  BY ConsumersAssumption DEF ConsumersInit, Init
<1> QED
  BY <1>1 DEF ConsumersInit, OutInv, AckedReachedOutside

\* A message the consumer acked has reached the other side, through crashes and leases that
\* run out in the middle of a post (settle in bridge/mod.rs, run_deliver in wake.rs).
THEOREM AcksReachOutside == ConsumersSpec => []AckedReachedOutside
<1>1. ConsumersSpec => []OutInv
  BY ConsumersInductive, InitOut, NextOut, PTL DEF ConsumersSpec
<1>2. OutInv => AckedReachedOutside
  BY DEF OutInv
<1> QED
  BY <1>1, <1>2, PTL

-----------------------------------------------------------------------------
(* The channel.                                                            *)

\* Places are dealt with for good, so a session may be kept or copied.
LEMMA BehindKeeps ==
    ASSUME seen \subseteq seen', NEW s, Behind(s)
    PROVE  \A p \in Nat : 1 <= p /\ p < s.link => p \in seen'
BY DEF Behind

\* A new token, the same link.
LEMMA RotatedLink ==
    ASSUME FeedInv, NEW s \in Session
    PROVE  /\ Rotated(s) \in Session /\ Rotated(s).link = s.link
           /\ WithToken(s) \in Session /\ WithToken(s).link = s.link
BY DEF FeedInv, Session, Rotated, WithToken

\* The copies of the session, each a copy of what one was, and the newest token.
SessionsFrom(d, m, h) ==
    /\ newest' \in Nat
    /\ disk' \in Session /\ disk'.link = d.link
    /\ mem' \in Session /\ mem'.link = m.link
    /\ held' \in Session /\ held'.link = h.link

LEMMA SessionsKeep ==
    ASSUME FeedInv, seen \subseteq seen', NEW d, NEW m, NEW h, SessionsFrom(d, m, h),
           Behind(d), Behind(m), Behind(h)
    PROVE  /\ newest' \in Nat
           /\ disk' \in Session /\ mem' \in Session /\ held' \in Session
           /\ Behind(disk)' /\ Behind(mem)' /\ Behind(held)'
BY DEF SessionsFrom, Behind

\* The poll is not touched.
LEMMA PollKeeps ==
    ASSUME FeedInv, NEW d, NEW m, NEW h, SessionsFrom(d, m, h),
           Behind(d), Behind(m), Behind(h),
           UNCHANGED <<kind, seen, seeding, poll>>, kind = "teams" => heard' = heard
    PROVE  FeedInv'
<1>1. /\ newest' \in Nat
      /\ disk' \in Session /\ mem' \in Session /\ held' \in Session
      /\ Behind(disk)' /\ Behind(mem)' /\ Behind(held)'
  BY SessionsKeep
<1> QED
  BY <1>1 DEF FeedInv

LEMMA SameSessions ==
    ASSUME FeedInv
    PROVE  /\ UNCHANGED session => SessionsFrom(disk, mem, held)
           /\ Behind(disk) /\ Behind(mem) /\ Behind(held) /\ Behind(NoSession)
           /\ NoSession \in Session
BY DEF FeedInv, session, SessionsFrom, Session, NoSession, NoLink, Behind

\* After a stop nothing is left but what is on disk.
LEMMA GoneFeeds ==
    ASSUME FeedInv, Gone, UNCHANGED <<disk, newest>>
    PROVE  FeedInv'
<1>1. /\ newest' \in Nat
      /\ disk' \in Session /\ mem' \in Session /\ held' \in Session
      /\ Behind(disk)' /\ Behind(mem)' /\ Behind(held)'
  <2>1. SessionsFrom(disk, NoSession, NoSession) /\ seen' = seen
    BY SameSessions DEF Gone, SessionsFrom, FeedInv
  <2> QED
    BY <2>1, SameSessions, SessionsKeep
<1>2. /\ seeding' /\ kind' = kind /\ poll' = NoPoll
      /\ kind = "teams" => heard' = 0
  BY DEF Gone, fixed
<1>3. poll' \in [busy : BOOLEAN, page : SUBSET Nat, next : Nat, last : BOOLEAN] /\ ~poll'.busy
  BY <1>2 DEF NoPoll
<1>4. kind' = "teams" => heard' \in Nat
  BY <1>2
<1> QED
  BY <1>1, <1>2, <1>3, <1>4 DEF FeedInv

\* A sign-in goes on from the link on disk, or marks the place anew.
LEMMA StartFeeds ==
    ASSUME FeedInv, Start
    PROVE  FeedInv'
<1>1. CASE kind # "teams"
  <2>1. SessionsFrom(disk, mem, held) /\ UNCHANGED <<kind, seen, seeding, poll, heard>>
    BY <1>1 DEF Start, FeedInv, SessionsFrom, fixed
  <2> QED
    BY <2>1, SameSessions, PollKeeps
<1>2. CASE kind = "teams"
  <2>1. /\ newest' = newest + 1 /\ disk' = Rotated(disk) /\ mem' = disk' /\ held' = held
        /\ heard' = IF disk.link = NoLink THEN 0 ELSE disk.link - 1
        /\ seeding' = (disk.link = NoLink)
        /\ UNCHANGED <<kind, seen, poll>>
    BY <1>2 DEF Start, SignIn, fixed
  <2>2. SessionsFrom(disk, disk, held)
    BY <2>1, RotatedLink DEF SessionsFrom, FeedInv
  <2>3. /\ newest' \in Nat
        /\ disk' \in Session /\ mem' \in Session /\ held' \in Session
        /\ Behind(disk)' /\ Behind(mem)' /\ Behind(held)'
    BY <2>1, <2>2, SameSessions, SessionsKeep
  <2>4. disk.link \in Nat
    BY DEF FeedInv, Session
  <2>5. heard' \in Nat /\ (disk.link # NoLink => heard' = disk.link - 1)
    <3>1. CASE disk.link = NoLink
      BY <2>1, <3>1
    <3>2. CASE disk.link # NoLink
      BY <2>1, <2>4, <3>2 DEF NoLink
    <3> QED
      BY <3>1, <3>2
  <2>6. ~seeding' => \A p \in Nat : 1 <= p /\ p <= heard' => p \in seen'
    BY <2>1, <2>4, <2>5 DEF FeedInv, Behind
  <2> QED
    BY <1>2, <2>1, <2>3, <2>5, <2>6 DEF FeedInv
<1> QED
  BY <1>1, <1>2

\* A page is fetched: while a round only marks the place, all that is there is passed over.
LEMMA PollGetsFeeds ==
    ASSUME FeedInv, PollGets
    PROVE  FeedInv'
<1>1. CASE Refused
  BY <1>1, GoneFeeds DEF Refused, Exit
<1>2. CASE ~Refused
  <2>1. kind = "teams" /\ heard \in Nat
    BY <1>2 DEF PollGets, Up, FeedInv
  <2>2. /\ TakesToken(mem) /\ mem' = WithToken(mem)
        /\ UNCHANGED <<kind, heard, seeding, held>>
    BY <1>2 DEF PollGets, fixed
  <2>3. PICK end \in heard..Len(channel) :
           /\ poll' = [busy |-> TRUE, next |-> end, last |-> end = Len(channel),
                       page |-> IF seeding THEN {} ELSE (heard + 1)..end]
           /\ seen' = IF seeding THEN seen \cup 1..end ELSE seen
    BY <1>2 DEF PollGets
  <2>4. end \in Nat /\ heard <= end
    BY <2>1
  <2>5. SessionsFrom(mem, mem, held)
    BY <2>2, RotatedLink DEF TakesToken, SessionsFrom, FeedInv
  <2>6. /\ newest' \in Nat
        /\ disk' \in Session /\ mem' \in Session /\ held' \in Session
        /\ Behind(disk)' /\ Behind(mem)' /\ Behind(held)'
    BY <2>3, <2>5, SameSessions, SessionsKeep
  <2>7. poll' \in [busy : BOOLEAN, page : SUBSET Nat, next : Nat, last : BOOLEAN]
    <3> DEFINE page == IF seeding THEN {} ELSE (heard + 1)..end
    <3>1. page \in SUBSET Nat
      BY <2>1, <2>4
    <3> HIDE DEF page
    <3> QED
      BY <2>3, <2>4, <3>1 DEF page
  <2>8. ASSUME NEW p \in Nat, 1 <= p
        PROVE  /\ p <= end /\ p \notin poll'.page => p \in seen'
               /\ ~seeding' /\ p <= heard' => p \in seen'
    <3>1. CASE seeding
      BY <2>2, <2>3, <2>4, <2>8, <3>1
    <3>2. CASE ~seeding
      BY <2>1, <2>2, <2>3, <2>4, <2>8, <3>2 DEF FeedInv
    <3> QED
      BY <3>1, <3>2
  <2>9. poll'.next = end
    BY <2>3
  <2>10. poll'.busy => \A p \in Nat : 1 <= p /\ p <= poll'.next /\ p \notin poll'.page => p \in seen'
    BY <2>8, <2>9
  <2>11. ~seeding' => kind' = "teams" /\ \A p \in Nat : 1 <= p /\ p <= heard' => p \in seen'
    BY <2>1, <2>2, <2>8
  <2> QED
    BY <2>1, <2>2, <2>6, <2>7, <2>10, <2>11 DEF FeedInv
<1> QED
  BY <1>1, <1>2

\* One message of the page is dealt with.
LEMMA PollRelaysFeeds ==
    ASSUME FeedInv, PollRelays
    PROVE  FeedInv'
<1>1. PICK p \in Nat : /\ poll' = [poll EXCEPT !.page = @ \ {p}]
                       /\ seen' = seen \cup {p}
  <2> DEFINE p == CHOOSE q \in poll.page : \A r \in poll.page : q <= r
  <2>1. poll' = [poll EXCEPT !.page = @ \ {p}] /\ seen' = seen \cup {p}
    BY DEF PollRelays
  <2>2. \E q \in poll.page : \A r \in poll.page : q <= r
    <3>1. poll.page \in SUBSET Nat /\ poll.page # {}
      BY DEF PollRelays, FeedInv
    <3> QED
      BY <3>1, SmallestOf
  <2>3. p \in poll.page
    BY <2>2
  <2> QED
    BY <2>1, <2>3 DEF FeedInv
<1>2. UNCHANGED <<kind, heard, seeding, session>>
  BY DEF PollRelays, fixed
<1>3. /\ newest' \in Nat
      /\ disk' \in Session /\ mem' \in Session /\ held' \in Session
      /\ Behind(disk)' /\ Behind(mem)' /\ Behind(held)'
  BY <1>1, <1>2, SameSessions, SessionsKeep
<1>4. /\ poll' \in [busy : BOOLEAN, page : SUBSET Nat, next : Nat, last : BOOLEAN]
      /\ poll'.busy = poll.busy /\ poll'.next = poll.next /\ poll'.page = poll.page \ {p}
  BY <1>1 DEF FeedInv
<1> QED
  BY <1>1, <1>2, <1>3, <1>4 DEF FeedInv

\* The page is done: on to the next, and at the end of a round the link moves on.
LEMMA PollMovesOnFeeds ==
    ASSUME FeedInv, PollMovesOn
    PROVE  FeedInv'
<1>1. /\ kind = "teams" /\ kind' = kind /\ poll.busy /\ poll.page = {}
      /\ heard' = poll.next /\ poll' = NoPoll /\ UNCHANGED <<seen, held, newest>>
  BY DEF PollMovesOn, PageDone, Up, fixed
<1>2. poll.next \in Nat /\ \A p \in Nat : 1 <= p /\ p <= poll.next => p \in seen
  BY <1>1 DEF FeedInv
<1>3. /\ newest' \in Nat
      /\ disk' \in Session /\ mem' \in Session /\ held' \in Session
      /\ Behind(disk)' /\ Behind(mem)' /\ Behind(held)'
  <2>1. CASE poll.last
    <3>1. mem' = [mem EXCEPT !.link = LinkTo(poll.next)] /\ disk' = mem'
      BY <2>1 DEF PollMovesOn
    <3>2. mem' \in Session /\ mem'.link = poll.next + 1
      BY <1>2, <3>1 DEF FeedInv, Session, LinkTo
    <3>3. \A p \in Nat : 1 <= p /\ p < mem'.link => p \in seen'
      BY <1>1, <1>2, <3>2
    <3> QED
      BY <1>1, <3>1, <3>2, <3>3 DEF FeedInv, Behind
  <2>2. CASE ~poll.last
    BY <1>1, <2>2 DEF PollMovesOn, FeedInv, Behind
  <2> QED
    BY <2>1, <2>2
<1>4. poll' \in [busy : BOOLEAN, page : SUBSET Nat, next : Nat, last : BOOLEAN] /\ ~poll'.busy
  BY <1>1 DEF NoPoll
<1> QED
  BY <1>1, <1>2, <1>3, <1>4 DEF FeedInv

\* The link is dropped; a fresh round passes over what is there.
LEMMA StartsOverFeeds ==
    ASSUME FeedInv, PollStartsOver
    PROVE  FeedInv'
<1>1. /\ seeding' = TRUE /\ kind' = kind /\ heard' = 0 /\ poll' = NoPoll
      /\ mem' = [mem EXCEPT !.link = NoLink] /\ disk' = mem' /\ UNCHANGED <<seen, held, newest>>
  BY DEF PollStartsOver, fixed
<1>2. mem' \in Session /\ mem'.link = 0
  BY <1>1 DEF FeedInv, Session, NoLink
<1>3. Behind(disk)' /\ Behind(mem)' /\ Behind(held)'
  BY <1>1, <1>2 DEF FeedInv, Behind
<1>4. poll' \in [busy : BOOLEAN, page : SUBSET Nat, next : Nat, last : BOOLEAN] /\ ~poll'.busy
  BY <1>1 DEF NoPoll
<1> QED
  BY <1>1, <1>2, <1>3, <1>4 DEF FeedInv

LEMMA NextFeed == FeedInv /\ [ConsumersNext]_consumerVars => FeedInv'
<1>1. SUFFICES ASSUME FeedInv, [ConsumersNext]_consumerVars PROVE FeedInv'
  OBVIOUS
<1>2. ASSUME UNCHANGED <<kind, heard, poll, seeding, seen, newest, disk, mem, held>> PROVE FeedInv'
  BY <1>1, <1>2 DEF FeedInv, Behind
<1>3. CASE Stop \/ RemoveRule \/ SettleTooLate
  BY <1>1, <1>2, <1>3, GoneFeeds DEF Stop, RemoveRule, SettleTooLate, Exit, fixed, inbound
<1>4. CASE Start
  BY <1>1, <1>4, StartFeeds
<1>5. CASE AddRule \/ Taking
  BY <1>2, <1>5 DEF AddRule, Taking, NextTakes, WatchTakes, DeadTakes, ReadLine, DeliverTakes,
     fixed, inbound, session
<1>6. CASE Posting
  <2>1. CASE Prints \/ RunScript \/ RunCommand \/ SlackPosts \/ BuzzHandsOver \/ BuzzSends
    BY <1>2, <2>1 DEF Prints, RunScript, RunCommand, Runs, SlackPosts, BuzzHandsOver, BuzzSends,
       fixed, inbound, session
  <2>2. CASE TeamsLoads
    <3>1. SessionsFrom(disk, mem, disk)
      BY <1>1, <2>2 DEF TeamsLoads, SessionsFrom, FeedInv
    <3>2. UNCHANGED <<kind, seen, seeding, poll, heard>>
      BY <2>2 DEF TeamsLoads, fixed, inbound
    <3> QED
      BY <1>1, <3>1, <3>2, SameSessions, PollKeeps
  <2>3. CASE TeamsPosts
    <3>1. CASE Refused
      BY <1>1, <3>1, GoneFeeds DEF Refused, Exit
    <3>2. CASE ~Refused
      <4>1. /\ TakesToken(held) /\ held' = NoSession /\ mem' = mem
            /\ UNCHANGED <<kind, seen, seeding, poll, heard>>
        BY <2>3, <3>2 DEF TeamsPosts, fixed, inbound
      <4>2. SessionsFrom(held, mem, NoSession)
        BY <1>1, <4>1, RotatedLink, SameSessions DEF TakesToken, SessionsFrom, FeedInv
      <4> QED
        BY <1>1, <4>1, <4>2, SameSessions, PollKeeps
    <3> QED
      BY <3>1, <3>2
  <2>4. CASE TeamsAnswered
    BY <1>2, <2>4 DEF TeamsAnswered, fixed, inbound
  <2> QED
    BY <1>6, <2>1, <2>2, <2>3, <2>4 DEF Posting
<1>7. CASE CommandSettles \/ SettleHand \/ RuleSettles
  BY <1>2, <1>7 DEF CommandSettles, SettleHand, RuleSettles, fixed, inbound, session
<1>8. CASE PersonTypes \/ Disconnect \/ TokenExpires
  BY <1>2, <1>8 DEF PersonTypes, Disconnect, TokenExpires, fixed, inbound, session
\* The sockets are other kinds'.
<1>9. CASE SlackConnects \/ BuzzConnects \/ Hear
  <2>1. kind # "teams" /\ UNCHANGED <<kind, seen, seeding, poll, session>>
    BY <1>9 DEF SlackConnects, BuzzConnects, Hear, Up, fixed
  <2> QED
    BY <1>1, <2>1, SameSessions, PollKeeps
<1>10. CASE Polling
  BY <1>1, <1>10, PollGetsFeeds, StartsOverFeeds, PollRelaysFeeds, PollMovesOnFeeds DEF Polling
<1>11. CASE OthersSend \/ \E s \in Seqs : Time(s)
  BY <1>2, <1>11 DEF OthersSend, Time, fixed, inbound, session
<1>12. CASE UNCHANGED consumerVars
  BY <1>2, <1>12 DEF consumerVars, fixed, inbound, session
<1> QED
  BY <1>1, <1>3, <1>4, <1>5, <1>6, <1>7, <1>8, <1>9, <1>10, <1>11, <1>12
  DEF ConsumersNext, Settling

LEMMA InitFeed == ConsumersInit => FeedInv
<1>1. SUFFICES ASSUME ConsumersInit PROVE FeedInv
  OBVIOUS
<1>2. NoPoll \in [busy : BOOLEAN, page : SUBSET Nat, next : Nat, last : BOOLEAN] /\ ~NoPoll.busy
  BY DEF NoPoll
<1>3. /\ disk \in Session /\ mem = disk /\ held \in Session /\ disk.link = 0 /\ held.link = 0
  BY <1>1 DEF ConsumersInit, Session, NoLink, NoSession
<1> QED
  BY <1>1, <1>2, <1>3 DEF ConsumersInit, FeedInv, Behind

\* The poll repeats messages and skips none: before the link that it goes on from,
\* every message of the channel was relayed, refused, or passed over on purpose, whichever copy
\* of the session was written last (poll and Auth::token in bridge/teams.rs).
THEOREM LinkIsSafe == ConsumersSpec => []LinkSkipsNothing
<1>1. ConsumersSpec => []FeedInv
  BY InitFeed, NextFeed, PTL DEF ConsumersSpec
<1>2. FeedInv => LinkSkipsNothing
  <2>1. SUFFICES ASSUME FeedInv, NEW p \in 1..(disk.link - 1) PROVE p \in seen
    BY DEF LinkSkipsNothing
  <2>2. disk.link \in Nat
    BY <2>1 DEF FeedInv, Session
  <2>3. p \in Nat /\ 1 <= p /\ p < disk.link
    BY <2>1, <2>2
  <2> QED
    BY <2>1, <2>3 DEF FeedInv, Behind
<1> QED
  BY <1>1, <1>2, PTL

-----------------------------------------------------------------------------
(* NextWait: what a blocked `next` sleeps on.                              *)

\* New or replayed: what no alarm would announce.
Fresh(r) ==
    {s \in Arrived :
        \/ Wanted(r, s) /\ rows[r][s].state = "none" /\ s > bookmark[r]
        \/ rows[r][s].state = "replay"}

WaitTyped ==
    /\ call \in [Readers -> Stages]
    /\ told \in [Readers -> BOOLEAN]

\* A call that has looked in vain and was told of nothing since has nothing fresh before it,
\* from the look on: also while it computes its alarm.
SeenInv == \A r \in Readers :
    call[r] \in {"arm", "timed", "parked"} /\ ~told[r] => Fresh(r) = {}

WaitInv == IInv /\ LiveInv /\ WaitTyped /\ SeenInv

\* Steps that tell nobody leave nothing fresh that was not fresh before.
LEMMA SilentMakesNothingFresh ==
    ASSUME IInv, LiveInv, NEW r \in Readers, NEW q \in Readers,
           Lease(q) \/ Peek(q) \/ \E s \in Seqs : TimePasses(q, s)
    PROVE  Fresh(r)' \subseteq Fresh(r)
<1>1. log' = log /\ Arrived' = Arrived
  BY DEF Lease, NothingOwed, HandOut, Peek, TimePasses, Arrived
<1>2. /\ rows[r] \in [Seqs -> Row] /\ rows \in [Readers -> [Seqs -> Row]] /\ Arrived \subseteq Seqs
      /\ bookmark \in [Readers -> 0..MaxSeq] /\ MaxSeq \in Nat /\ Len(log) \in Nat
      /\ rows[q] \in [Seqs -> Row] /\ Seqs \subseteq Nat
      /\ issued \in [Readers -> [Seqs -> Nat]]
  BY RowsOf, DeliveriesAssumption DEF IInv, TypeOK
<1>3. \A s \in Seqs : Quarantined(rows[q][s]).state = "quarantined"
  BY <1>2 DEF Quarantined, Row
<1>4. \A s \in Seqs : Swept(rows[q])[s].state \in {rows[q][s].state, "quarantined"}
  BY <1>2, <1>3, SweptRows
<1>5. /\ bookmark'[r] >= bookmark[r] /\ bookmark'[r] \in Nat
      /\ \A s \in Seqs : rows'[r][s].state \in {"none", "replay"} => rows'[r][s].state = rows[r][s].state
  <2>1. CASE q # r
    <3>1. rows'[r] = rows[r] /\ bookmark'[r] = bookmark[r]
      BY <1>2, <2>1 DEF Lease, NothingOwed, HandOut, Peek, TimePasses
    <3> QED
      BY <1>2, <3>1
  <2>2. ASSUME q = r, NEW b \in 0..Len(log), NothingOwed(r, b)
        PROVE  <1>5
    <3>1. rows'[r] = Swept(rows[r]) /\ bookmark'[r] = b /\ b >= bookmark[r]
      BY <1>2, <2>2 DEF NothingOwed, StopsAt
    <3> QED
      BY <1>2, <1>4, <2>2, <3>1
  <2>3. ASSUME q = r, NEW b \in 0..Len(log), NEW s \in Arrived, HandOut(r, b, s)
        PROVE  <1>5
    <3> DEFINE row == LeasedRow(Swept(rows[r])[s], issued[r][s] + 1)
    <3>1. rows'[r] = [Swept(rows[r]) EXCEPT ![s] = row]
          /\ bookmark'[r] = b /\ b >= bookmark[r]
      BY <1>2, <2>3 DEF HandOut, StopsAt
    <3>2. row.state = "leased"
      BY DEF LeasedRow
    <3>3. Swept(rows[r]) \in [Seqs -> Row]
      BY <1>2, SweptRows
    <3> HIDE DEF row
    <3>4. \A t \in Seqs : rows'[r][t] = IF t = s THEN row ELSE Swept(rows[r])[t]
      BY <3>1, <3>3
    <3> QED
      BY <1>2, <1>4, <2>3, <3>1, <3>2, <3>4
  <2>4. ASSUME q = r, Peek(r)
        PROVE  <1>5
    <3>1. PICK b \in 0..Len(log) : bookmark'[r] = b /\ b >= bookmark[r] /\ rows' = rows
      BY <1>2, <2>4 DEF Peek, StopsAt
    <3> QED
      BY <1>2, <3>1
  <2>5. ASSUME q = r, NEW s \in Seqs, TimePasses(r, s)
        PROVE  <1>5
    <3>1. /\ rows' = [rows EXCEPT ![r] = [rows[r] EXCEPT ![s] = [rows[r][s] EXCEPT !.due = TRUE]]]
          /\ bookmark' = bookmark
      BY <2>5 DEF TimePasses
    <3>2. [rows[r][s] EXCEPT !.due = TRUE].state = rows[r][s].state
      BY <1>2 DEF Row
    <3> DEFINE row == [rows[r][s] EXCEPT !.due = TRUE]
    <3>3. rows'[r] = [rows[r] EXCEPT ![s] = row]
      BY <1>2, <3>1
    <3> HIDE DEF row
    <3>4. \A t \in Seqs : rows'[r][t] = IF t = s THEN row ELSE rows[r][t]
      BY <1>2, <3>3
    <3>5. \A t \in Seqs : rows'[r][t].state = rows[r][t].state
      BY <3>2, <3>4 DEF row
    <3> QED
      BY <1>2, <3>1, <3>5
  <2> QED
    BY <2>1, <2>2, <2>3, <2>4, <2>5 DEF Lease
<1> SUFFICES ASSUME NEW s \in Fresh(r)'
             PROVE  s \in Fresh(r)
  OBVIOUS
<1>6. s \in Arrived /\ s \in Seqs /\ s \in Nat /\ bookmark[r] \in Nat
  <2>1. s \in Arrived'
    BY DEF Fresh
  <2>2. s \in Arrived
    BY <1>1, <2>1, Zenon
  <2>3. \A m \in 0..MaxSeq : m \in Nat
    BY <1>2
  <2>4. bookmark[r] \in 0..MaxSeq
    BY <1>2
  <2> QED
    BY <1>2, <2>2, <2>3, <2>4, Zenon
<1>7. rows'[r][s].state \in {"none", "replay"} /\ rows[r][s].state = rows'[r][s].state
  BY <1>5, <1>6 DEF Fresh
<1>8. rows'[r][s].state = "none" => Wanted(r, s) /\ s > bookmark[r]
  BY <1>1, <1>5, <1>6 DEF Fresh, Wanted
<1> QED
  BY <1>6, <1>7, <1>8 DEF Fresh

\* A look in vain leaves nothing fresh.
LEMMA LookedInVain ==
    ASSUME IInv, LiveInv, NEW r \in Readers, Lease(r), issued' = issued
    PROVE  Fresh(r)' = {}
<1>1. /\ rows[r] \in [Seqs -> Row] /\ rows \in [Readers -> [Seqs -> Row]] /\ Arrived \subseteq Seqs
      /\ bookmark \in [Readers -> 0..MaxSeq] /\ MaxSeq \in Nat /\ Len(log) \in Nat
      /\ Seqs \subseteq Nat /\ issued \in [Readers -> [Seqs -> Nat]]
  BY RowsOf, DeliveriesAssumption DEF IInv, TypeOK
<1>2. ASSUME NEW b \in 0..Len(log), NEW s \in Arrived, HandOut(r, b, s)
      PROVE  FALSE
  <2>1. issued' = [issued EXCEPT ![r][s] = issued[r][s] + 1]
    BY <1>2 DEF HandOut
  <2>2. issued'[r][s] = issued[r][s] + 1 /\ issued[r][s] \in Nat
    BY <1>1, <2>1
  <2> QED
    BY <2>2
<1>3. PICK b \in 0..Len(log) : NothingOwed(r, b)
  BY <1>2 DEF Lease
<1>4. /\ log' = log /\ Arrived' = Arrived /\ rows'[r] = Swept(rows[r]) /\ bookmark'[r] = b
      /\ Candidates(r, Swept(rows[r]), b) = {}
  BY <1>1, <1>3 DEF NothingOwed, Arrived
<1>5. FreeBelow(Swept(rows[r]), b) = {} /\ FreeAfter(r, Swept(rows[r]), b) = {}
  BY <1>4 DEF Candidates
<1> SUFFICES ASSUME NEW s \in Fresh(r)'
             PROVE  FALSE
  OBVIOUS
<1>6. s \in Arrived /\ s \in Seqs /\ s \in 1..Len(log) /\ b \in Nat
  BY <1>1, <1>4 DEF Fresh, Arrived
<1>7. \/ Wanted(r, s) /\ Swept(rows[r])[s].state = "none" /\ s > b
      \/ Swept(rows[r])[s].state = "replay"
  BY <1>4 DEF Fresh, Wanted
<1>8. Swept(rows[r])[s].state = "replay" => Wanted(r, s) /\ Back(Swept(rows[r])[s])
  BY <1>6, SweptLive DEF LiveRow, Back
<1>9. s > b
  BY <1>5, <1>6, <1>7, <1>8 DEF FreeBelow
<1>10. s \in b + 1..Len(log)
  BY <1>1, <1>6, <1>9
<1>11. Wanted(r, s) /\ (Swept(rows[r])[s].state = "none" \/ Back(Swept(rows[r])[s]))
  BY <1>7, <1>8
<1> QED
  BY <1>5, <1>10, <1>11, Zenon DEF FreeAfter

\* Every step of the wait is one of the table, or leaves it alone.
LEMMA WaitStepsOfTable == [WaitNext]_waitVars => [Next]_vars
<1> SUFFICES ASSUME [WaitNext]_waitVars
             PROVE  [Next]_vars
  OBVIOUS
<1>1. ASSUME NEW r \in Readers, Steps(r)
      PROVE  Lease(r) \/ UNCHANGED vars
  BY <1>1 DEF Steps, Call, Look, Arm, Alarm, Notified, Deadline
<1>2. CASE Telling
  BY <1>2 DEF Telling, Next
<1>3. CASE Silent
  BY <1>3 DEF Silent, Next
<1>4. CASE UNCHANGED waitVars
  BY <1>4 DEF waitVars
<1> QED
  BY <1>1, <1>2, <1>3, <1>4 DEF WaitNext, Next

LEMMA WaitStart == WaitInit => WaitInv
<1> SUFFICES ASSUME WaitInit
             PROVE  WaitInv
  OBVIOUS
<1>1. IInv /\ LiveInv
  BY InitIInv, InitLive DEF WaitInit
<1>2. WaitTyped /\ SeenInv
  BY DEF WaitInit, WaitTyped, SeenInv, Stages
<1> QED
  BY <1>1, <1>2 DEF WaitInv

\* The steps of r's own call.
LEMMA CallKeeps ==
    ASSUME WaitInv, NEW r \in Readers, Steps(r)
    PROVE  WaitTyped' /\ SeenInv'
<1> USE DEF WaitInv
<1>1. call \in [Readers -> Stages] /\ told \in [Readers -> BOOLEAN]
  BY DEF WaitTyped
<1>2. \A q \in Readers : Fresh(q)' \subseteq Fresh(q)
  <2>1. Lease(r) \/ UNCHANGED vars
    BY DEF Steps, Call, Look, Arm, Alarm, Notified, Deadline
  <2>2. UNCHANGED vars => \A q \in Readers : Fresh(q)' = Fresh(q)
    BY DEF vars, Fresh, Arrived, Wanted
  <2> QED
    BY <2>1, <2>2, SilentMakesNothingFresh
<1>3. /\ call' \in [Readers -> Stages] /\ told' \in [Readers -> BOOLEAN]
      /\ \A q \in Readers \ {r} : call'[q] = call[q] /\ told'[q] = told[q]
      /\ \/ call'[r] \in {"idle", "look"}
         \/ Fresh(r)' = {}
         \/ call[r] \in {"arm", "timed", "parked"} /\ told'[r] = told[r]
  <2>1. CASE Call(r)
    BY <1>1, <2>1 DEF Call, Stages
  <2>2. CASE Look(r)
    <3>1. /\ call' = [call EXCEPT ![r] = IF issued' # issued THEN "idle" ELSE "arm"]
          /\ told' = told /\ Lease(r)
      BY <2>2 DEF Look
    <3>2. CASE issued' = issued
      <4>1. Fresh(r)' = {}
        BY <3>1, <3>2, LookedInVain
      <4>2. call' = [call EXCEPT ![r] = "arm"]
        BY <3>1, <3>2
      <4> QED
        BY <1>1, <3>1, <4>1, <4>2 DEF Stages
    <3>3. CASE issued' # issued
      <4>1. call' = [call EXCEPT ![r] = "idle"]
        BY <3>1, <3>3
      <4> QED
        BY <1>1, <3>1, <4>1 DEF Stages
    <3> QED
      BY <3>2, <3>3
  <2>3. CASE Arm(r)
    <3>1. PICK c \in {"timed", "parked"} : call' = [call EXCEPT ![r] = c]
      BY <2>3 DEF Arm
    <3> QED
      BY <1>1, <2>3, <3>1 DEF Arm, Stages
  <2>4. CASE Alarm(r)
    BY <1>1, <2>4 DEF Alarm, Stages
  <2>5. CASE Notified(r)
    BY <1>1, <2>5 DEF Notified, Stages
  <2>6. CASE Deadline(r)
    BY <1>1, <2>6 DEF Deadline, Stages
  <2> QED
    BY <2>1, <2>2, <2>3, <2>4, <2>5, <2>6 DEF Steps
<1>4. SeenInv'
  <2> SUFFICES ASSUME NEW q \in Readers, call'[q] \in {"arm", "timed", "parked"}, ~told'[q]
               PROVE  Fresh(q)' = {}
    BY DEF SeenInv
  <2>1. \/ Fresh(q)' = {}
        \/ call[q] \in {"arm", "timed", "parked"} /\ told'[q] = told[q]
    BY <1>3
  <2> QED
    BY <1>2, <2>1 DEF SeenInv
<1> QED
  BY <1>3, <1>4 DEF WaitTyped

LEMMA WaitStepKeeps == WaitInv /\ [WaitNext]_waitVars => WaitInv'
<1> SUFFICES ASSUME WaitInv, [WaitNext]_waitVars
             PROVE  WaitInv'
  OBVIOUS
<1> USE DEF WaitInv
<1>1. IInv' /\ LiveInv'
  BY WaitStepsOfTable, NextIInv, NextLive
<1>2. call \in [Readers -> Stages] /\ told \in [Readers -> BOOLEAN]
  BY DEF WaitTyped
<1>3. WaitTyped' /\ SeenInv'
  <2>1. ASSUME NEW r \in Readers, Steps(r)
        PROVE  WaitTyped' /\ SeenInv'
    BY <2>1, CallKeeps
  <2>2. CASE Telling
    <3>1. call' = call /\ told' = [r \in Readers |-> told[r] \/ call[r] # "idle"]
      BY <2>2 DEF Telling, Tell
    <3>2. told' \in [Readers -> BOOLEAN]
      BY <1>2, <3>1
    <3>3. \A r \in Readers : call'[r] # "idle" => told'[r]
      BY <1>2, <3>1
    <3> QED
      BY <1>2, <3>1, <3>2, <3>3 DEF WaitTyped, SeenInv
  <2>3. CASE Silent
    <3>1. call' = call /\ told' = told
      BY <2>3 DEF Silent
    <3>2. \A r \in Readers : Fresh(r)' \subseteq Fresh(r)
      BY <2>3, SilentMakesNothingFresh DEF Silent
    <3> QED
      BY <1>2, <3>1, <3>2 DEF WaitTyped, SeenInv
  <2>4. CASE UNCHANGED waitVars
    BY <2>4 DEF waitVars, vars, WaitTyped, SeenInv, Fresh, Arrived, Wanted
  <2> QED
    BY <2>1, <2>2, <2>3, <2>4 DEF WaitNext
<1> QED
  BY <1>1, <1>3

\* No lost notification: whatever other workers, acks, replays and time do between the look of a
\* blocked `next` and its sleep, a call that sleeps untold has seen all that was there to see
\* (wait_until subscribes before it first looks).
THEOREM NothingSleptThrough == WaitSpec => []SleepsOnlyOnSeen
<1>1. WaitSpec => []WaitInv
  BY WaitStart, WaitStepKeeps, PTL DEF WaitSpec
<1>2. WaitInv => SleepsOnlyOnSeen
  <2> SUFFICES ASSUME WaitInv, NEW r \in Readers, Asleep(r), ~told[r], NEW s \in Choices(r)
               PROVE  rows[r][s].state \in {"leased", "delayed"}
    BY DEF SleepsOnlyOnSeen
  <2>1. s \in WakePending(r)
    BY ChoicesArePending DEF WaitInv, WakeSeesAllChoices
  <2>2. Fresh(r) = {}
    BY DEF WaitInv, SeenInv, Asleep
  <2> QED
    BY <2>1, <2>2 DEF WakePending, Fresh, Back
<1> QED
  BY <1>1, <1>2, PTL

-----------------------------------------------------------------------------
(* Wake: how nudges are spaced.                                            *)

\* Ages of nudges, the oldest first.
Ages == 0..(Hour - 1)
Spaced(ages) == \A i, j \in 1..Len(ages) : i < j => ages[i] - ages[j] >= MinGap

BurstType ==
    [lastFire : 0..MinGap, lastOk : 0..LastStep, nudged : 0..last, gaveUp : 0..last,
     failures : 0..Len(Backoff), retryIn : 0..Hour, seen : 0..last,
     changed : None..Quiet, began : None..MaxGather, renudges : 0..Len(RenudgeSteps),
     firingNew : BOOLEAN, fires : {went}]

RuleTyped ==
    /\ last \in Nat /\ waiting \subseteq 1..last /\ handed \subseteq 1..last
    /\ waiting \cap handed = {}
    /\ paused \in BOOLEAN /\ rung \in BOOLEAN
    /\ pc \in {"asleep", "firing"} /\ timer \in Nat
    /\ last <= MaxNews
    /\ pending \in 0..last /\ toldOf \in 0..last
    /\ burst \in BurstType
    /\ went \in Seq(Ages)

\* What the loop is about to do keeps the gap: the last nudge is far enough back, or the backoff
\* that is left makes up for it.
GapInv ==
    /\ Spaced(went)
    /\ went # <<>> => burst.lastFire <= went[Len(went)]
    /\ burst.failures > 0 => burst.retryIn + burst.lastFire >= MinGap
    /\ pc = "firing" => burst.lastFire = MinGap

\* Beyond the cap an hour has the retries of one nudge: the first try of a nudge finds less than
\* the cap, and each failure since then adds one.
CapInv ==
    /\ Len(went) <= HourlyCap + Len(Backoff)
    /\ burst.failures > 0 => Len(went) < HourlyCap + burst.failures
    /\ pc = "firing" /\ burst.failures = 0 => Len(went) < HourlyCap

RuleInv == RuleTyped /\ GapInv /\ CapInv

LEMMA RuleConstants ==
    /\ MaxNews \in Nat
    /\ Quiet \in Nat \ {0} /\ MaxGather \in Nat \ {0} /\ MinGap \in Nat \ {0}
    /\ HourlyCap \in Nat \ {0} /\ Hour \in Nat \ {0} /\ TickWait \in Nat \ {0}
    /\ ExecTimeout \in Nat \ {0}
    /\ RenudgeSteps \in Seq(Nat \ {0}) /\ Len(RenudgeSteps) \in Nat \ {0}
    /\ LastStep \in Nat \ {0}
    /\ Backoff \in Seq(MinGap..Hour) /\ Len(Backoff) \in Nat
    /\ MinGap <= Hour
    /\ None = -1
<1>1. RenudgeSteps \in Seq(Nat \ {0}) /\ Len(RenudgeSteps) \in Nat \ {0}
  BY WakeAssumption
<1> QED
  BY <1>1, WakeAssumption DEF LastStep, None

LEMMA MostOfIs ==
    ASSUME NEW i \in Int, NEW j \in Int
    PROVE  MostOf(i, j) \in {i, j} /\ MostOf(i, j) >= i /\ MostOf(i, j) >= j
BY DEF MostOf

LEMMA LeastOfIs ==
    ASSUME NEW i \in Int, NEW j \in Int
    PROVE  LeastOf(i, j) \in {i, j} /\ LeastOf(i, j) <= i /\ LeastOf(i, j) <= j
BY DEF LeastOf

LEMMA NewestIn ==
    ASSUME NEW n \in Nat, NEW S \in SUBSET (1..n)
    PROVE  Newest(S) \in 0..n
<1>1. CASE S = {}
  BY <1>1 DEF Newest
<1>2. CASE S # {}
  <2> DEFINE T == {k \in Nat : \E s \in S : k = n - s}
  <2>1. T \in SUBSET Nat /\ T # {}
    <3>1. PICK s \in S : TRUE
      BY <1>2
    <3>2. n - s \in Nat
      OBVIOUS
    <3> QED
      BY <3>2
  <2>2. PICK q \in T : \A r \in T : q <= r
    BY <2>1, SmallestOf
  <2>3. PICK s \in S : q = n - s
    BY <2>2
  <2>4. \A t \in S : t <= s
    <3> SUFFICES ASSUME NEW t \in S PROVE t <= s
      OBVIOUS
    <3>1. n - t \in T
      OBVIOUS
    <3> QED
      BY <2>2, <2>3, <3>1
  <2>5. (CHOOSE m \in S : \A t \in S : t <= m) \in S
    BY <2>4, Zenon
  <2>6. Newest(S) \in S
    BY <1>2, <2>5 DEF Newest
  <2>7. \A t \in S : t \in 0..n
    OBVIOUS
  <2> QED
    BY <2>6, <2>7, Zenon
<1> QED
  BY <1>1, <1>2

\* What is left of the window is its younger end, a tick older.
LEMMA WindowMoves ==
    ASSUME NEW ages \in Seq(Ages), Spaced(ages)
    PROVE  \E g \in 0..Len(ages) :
             /\ Len(OlderWithinHour(ages)) = Len(ages) - g
             /\ \A i \in 1..(Len(ages) - g) : OlderWithinHour(ages)[i] = ages[g + i] + 1
             /\ OlderWithinHour(ages) \in Seq(Ages)
             /\ Spaced(OlderWithinHour(ages))
<1> DEFINE young == {n \in 0..Len(ages) : n < Len(ages) => ages[n + 1] + 1 < Hour}
           g == CHOOSE n \in young : \A k \in young : n <= k
           left == [i \in 1..(Len(ages) - g) |-> ages[g + i] + 1]
<1>0. Hour \in Nat \ {0} /\ MinGap \in Nat \ {0} /\ Len(ages) \in Nat
  BY RuleConstants
<1>1. g \in young
  <2>1. young \in SUBSET Nat /\ Len(ages) \in young
    BY <1>0
  <2>2. \E n \in young : \A k \in young : n <= k
    BY <2>1, SmallestOf
  <2> QED
    BY <2>2
<1>2. g \in 0..Len(ages) /\ (g < Len(ages) => ages[g + 1] + 1 < Hour)
  BY <1>1
<1> HIDE DEF g
<1>3. OlderWithinHour(ages) = left
  BY DEF OlderWithinHour, g
<1>4. Len(left) = Len(ages) - g /\ DOMAIN left = 1..(Len(ages) - g)
  BY <1>0, <1>2
<1>5. \A i \in 1..Len(ages) : ages[i] \in Ages
  BY <1>0
<1>6. \A i \in 1..(Len(ages) - g) : left[i] \in Ages
  <2> SUFFICES ASSUME NEW i \in 1..(Len(ages) - g)
               PROVE  ages[g + i] + 1 \in Ages
    OBVIOUS
  <2>1. g + i \in 1..Len(ages) /\ g + 1 \in 1..Len(ages) /\ g < Len(ages)
    BY <1>0, <1>2
  <2>2. ages[g + i] <= ages[g + 1]
    <3>1. CASE i = 1
      BY <3>1, <2>1, <1>5, <1>0 DEF Ages
    <3>2. CASE i # 1
      <4>1. ages[g + 1] - ages[g + i] >= MinGap
        BY <3>2, <2>1, <1>2, <1>0 DEF Spaced
      <4> QED
        BY <4>1, <2>1, <1>5, <1>0 DEF Ages
    <3> QED
      BY <3>1, <3>2
  <2> QED
    BY <2>1, <2>2, <1>2, <1>5, <1>0, SMTT(30) DEF Ages
<1>7. left \in Seq(Ages)
  BY <1>0, <1>2, <1>6
<1>8. Spaced(left)
  <2> SUFFICES ASSUME NEW i \in 1..(Len(ages) - g), NEW j \in 1..(Len(ages) - g), i < j
               PROVE  left[i] - left[j] >= MinGap
    BY <1>4 DEF Spaced
  <2>1. g + i \in 1..Len(ages) /\ g + j \in 1..Len(ages) /\ g + i < g + j
    BY <1>0, <1>2
  <2>2. ages[g + i] - ages[g + j] >= MinGap
    BY <2>1 DEF Spaced
  <2> QED
    BY <2>1, <2>2, <1>0, <1>5, SMTT(30) DEF Ages
<1> QED
  BY <1>2, <1>3, <1>4, <1>7, <1>8

-----------------------------------------------------------------------------

\* decide touches none of what spaces nudges, but may forget failures; and when it fires, the gap
\* has passed and the hour has room, or a backoff has run out.
LEMMA DecideIs ==
    ASSUME RuleTyped, NEW p, p.newest \in 0..last
    PROVE  LET d == Decide(burst, p) IN
             /\ d.burst \in BurstType /\ d.wait \in Int
             /\ d.burst.lastFire = burst.lastFire
             /\ \/ d.burst.failures = 0
                \/ d.burst.failures = burst.failures /\ d.burst.retryIn = burst.retryIn
             /\ d.wait <= 0 =>
                  IF d.burst.failures > 0 THEN burst.retryIn = 0
                  ELSE MinGap <= burst.lastFire /\ CapLeft(burst) <= 0
<1> USE RuleConstants
<1> DEFINE d == Decide(burst, p)
<1>1. burst \in BurstType /\ last \in Nat
  BY DEF RuleTyped
<1>2. /\ burst.lastFire \in 0..MinGap /\ burst.lastOk \in 0..LastStep /\ burst.retryIn \in 0..Hour
      /\ burst.failures \in 0..Len(Backoff) /\ burst.changed \in None..Quiet
      /\ burst.began \in None..MaxGather /\ burst.renudges \in 0..Len(RenudgeSteps)
      /\ burst.fires = went /\ went \in Seq(Ages)
  BY <1>1 DEF BurstType, RuleTyped
<1>a. 0 \in 0..Len(Backoff) /\ 0 \in 0..Hour /\ None \in None..Quiet /\ None \in None..MaxGather
  OBVIOUS
<1>3. CASE p.count = 0
  <2>1. d = [burst |-> Drained(burst), wait |-> TickWait]
    BY <1>3 DEF Decide
  <2>2. Drained(burst) \in BurstType /\ Drained(burst).lastFire = burst.lastFire
        /\ Drained(burst).failures = 0
    BY <1>1, <1>a DEF BurstType, Drained
  <2> QED
    BY <2>1, <2>2
<1>4. CASE p.count # 0 /\ burst.failures > 0
  <2>1. d = [burst |-> burst, wait |-> burst.retryIn]
    BY <1>4 DEF Decide
  <2> QED
    BY <2>1, <1>1, <1>2, <1>4, SMTT(30)
\* The two that the gap and the cap hold back.
<1>5. ASSUME NEW b \in BurstType, b.lastFire = burst.lastFire, b.fires = burst.fires, NEW left \in Int
      PROVE  /\ HeldBack(b, left) \in Int
             /\ HeldBack(b, left) <= 0 => MinGap <= burst.lastFire /\ CapLeft(burst) <= 0
  <2>1. CapLeft(b) = CapLeft(burst)
    BY <1>5 DEF CapLeft
  <2>2. CapLeft(burst) \in Int
    <3>0. PICK n \in Nat : n = Len(went)
      BY <1>2
    <3>1. Len(went) >= HourlyCap => went[1] \in Ages
      <4>1. n >= HourlyCap => 1 \in 1..n
        OBVIOUS
      <4>2. \A i \in 1..Len(went) : went[i] \in Ages
        BY <1>2
      <4> QED
        BY <3>0, <4>1, <4>2, Zenon
    <3> QED
      BY <3>1, <1>2 DEF CapLeft, Ages
  <2>3. MinGap - b.lastFire \in Int /\ b.lastFire = burst.lastFire
    BY <1>2, <1>5
  <2> QED
    <3> DEFINE first == MostOf(left, MinGap - b.lastFire)
    <3>1. first \in Int /\ first >= MinGap - b.lastFire
      BY <2>3, MostOfIs
    <3>2. HeldBack(b, left) = MostOf(first, CapLeft(b))
      BY DEF HeldBack
    <3> HIDE DEF first
    <3>3. HeldBack(b, left) \in Int /\ HeldBack(b, left) >= first /\ HeldBack(b, left) >= CapLeft(b)
      BY <2>1, <2>2, <3>1, <3>2, MostOfIs
    <3> QED
      <4>1. HeldBack(b, left) \in Int
        BY <3>3
      <4>2. HeldBack(b, left) <= 0 => MinGap - b.lastFire <= 0 /\ CapLeft(b) <= 0
        <5> HIDE DEF CapLeft
        <5>1. PICK h \in Int : h = HeldBack(b, left)
          BY <4>1, Zenon
        <5>2. PICK c \in Int : c = CapLeft(b)
          BY <2>1, <2>2, Zenon
        <5>3. h >= first /\ h >= c
          BY <3>3, <5>1, <5>2, Zenon
        <5>4. h <= 0 => MinGap - b.lastFire <= 0 /\ c <= 0
          BY <3>1, <2>3, <5>3
        <5> QED
          BY <5>1, <5>2, <5>4, Zenon
      <4>3. MinGap - b.lastFire <= 0 => MinGap <= burst.lastFire
        BY <2>3, <1>2
      <4> QED
        BY <2>1, <4>1, <4>2, <4>3
<1>6. CASE p.count # 0 /\ ~(burst.failures > 0) /\ IsNew(burst, p.newest)
  <2> DEFINE g == [Gather(burst, p.newest) EXCEPT !.firingNew = TRUE]
  <2>1. d = [burst |-> g, wait |-> HeldBack(g, GatherLeft(g))]
    BY <1>6 DEF Decide
  <2>2. /\ g \in BurstType /\ g.lastFire = burst.lastFire /\ g.fires = burst.fires
        /\ g.failures = burst.failures
    <3>1. MostOf(burst.began, 0) \in None..MaxGather
      BY <1>2 DEF MostOf
    <3>2. (IF burst.seen = p.newest THEN burst.changed ELSE 0) \in None..Quiet
      BY <1>2
    <3> QED
      BY <1>1, <3>1, <3>2 DEF BurstType, Gather
  <2>3. GatherLeft(g) \in Int
    <3> HIDE DEF g
    <3>1. g.changed \in Int /\ g.began \in Int
      BY <2>2 DEF BurstType
    <3>2. MostOf(g.changed, 0) \in Int
      BY <3>1, MostOfIs
    <3> QED
      BY <3>1, <3>2, LeastOfIs DEF GatherLeft
  <2>4. d.burst = g /\ d.wait = HeldBack(g, GatherLeft(g))
    BY <2>1
  <2>5. d.burst.failures = 0
    <3>1. burst.failures = 0
      BY <1>2, <1>6
    <3> HIDE DEF d, g
    <3> QED
      BY <2>2, <2>4, <3>1, Zenon
  <2> HIDE DEF g
  <2>6. /\ HeldBack(g, GatherLeft(g)) \in Int
        /\ HeldBack(g, GatherLeft(g)) <= 0 => MinGap <= burst.lastFire /\ CapLeft(burst) <= 0
    BY <2>2, <2>3, <1>5, Zenon
  <2>7. d.burst \in BurstType /\ d.burst.lastFire = burst.lastFire
    BY <2>2, <2>4, Zenon
  <2>8. d.wait \in Int /\ (d.wait <= 0 => MinGap <= burst.lastFire /\ CapLeft(burst) <= 0)
    BY <2>4, <2>6, Zenon
  <2>9. ~(d.burst.failures > 0)
    BY <2>5
  <2> HIDE DEF d
  <2> QED
    BY <2>5, <2>7, <2>8, <2>9, Zenon DEF d
<1>7. CASE p.count # 0 /\ ~(burst.failures > 0) /\ ~IsNew(burst, p.newest) /\ p.newest > burst.gaveUp
  <2> DEFINE g == [burst EXCEPT !.firingNew = FALSE]
             left == RenudgeWait(burst) - burst.lastOk
  <2>1. d = [burst |-> g, wait |-> HeldBack(burst, left)]
    BY <1>7 DEF Decide
  <2>2. /\ g \in BurstType /\ g.lastFire = burst.lastFire /\ g.failures = burst.failures
    BY <1>1 DEF BurstType
  <2>3. left \in Int
    <3>1. LeastOf(burst.renudges + 1, Len(RenudgeSteps)) \in 1..Len(RenudgeSteps)
      <4>1. PICK k \in Nat : k = burst.renudges
        BY <1>2
      <4>2. PICK n \in Nat \ {0} : n = Len(RenudgeSteps)
        OBVIOUS
      <4>3. LeastOf(k + 1, n) \in 1..n
        BY <4>1, <4>2 DEF LeastOf
      <4> QED
        BY <4>1, <4>2, <4>3, Zenon
    <3> HIDE DEF LeastOf
    <3>2. RenudgeWait(burst) \in Nat \ {0}
      BY <3>1 DEF RenudgeWait
    <3>3. burst.lastOk \in Int
      BY <1>2
    <3> QED
      BY <3>2, <3>3
  <2>4. d.burst = g /\ d.wait = HeldBack(burst, left)
    BY <2>1
  <2>5. d.burst.failures = 0
    <3>1. burst.failures = 0
      BY <1>2, <1>7
    <3> HIDE DEF d, g
    <3> QED
      BY <2>2, <2>4, <3>1, Zenon
  <2> HIDE DEF g, left
  <2>6. /\ HeldBack(burst, left) \in Int
        /\ HeldBack(burst, left) <= 0 => MinGap <= burst.lastFire /\ CapLeft(burst) <= 0
    BY <1>1, <2>3, <1>5, Zenon
  <2>7. d.burst \in BurstType /\ d.burst.lastFire = burst.lastFire
    BY <2>2, <2>4, Zenon
  <2>8. d.wait \in Int /\ (d.wait <= 0 => MinGap <= burst.lastFire /\ CapLeft(burst) <= 0)
    BY <2>4, <2>6, Zenon
  <2>9. ~(d.burst.failures > 0)
    BY <2>5
  <2> HIDE DEF d
  <2> QED
    BY <2>5, <2>7, <2>8, <2>9, Zenon DEF d
<1>8. CASE p.count # 0 /\ ~(burst.failures > 0) /\ ~IsNew(burst, p.newest) /\ ~(p.newest > burst.gaveUp)
  <2>1. d = [burst |-> burst, wait |-> TickWait]
    BY <1>8 DEF Decide
  <2> QED
    BY <2>1, <1>1, <1>2, <1>8
<1> QED
  BY <1>3, <1>4, <1>6, <1>7, <1>8

LEMMA RuleStart ==
    ASSUME RuleInit
    PROVE  RuleInv
<1> USE RuleConstants
<1>1. burst \in BurstType
  BY DEF RuleInit, BurstType, NewBurst
<1>2. RuleTyped
  <2>1. last \in Nat /\ last <= MaxNews
    BY DEF RuleInit
  <2>2. waiting \subseteq 1..last /\ handed \subseteq 1..last /\ waiting \cap handed = {}
    BY DEF RuleInit
  <2>3. went \in Seq(Ages)
    BY DEF RuleInit
  <2>4. paused \in BOOLEAN /\ rung \in BOOLEAN /\ pc \in {"asleep", "firing"}
    BY DEF RuleInit
  <2>5. timer \in Nat /\ pending \in 0..last /\ toldOf \in 0..last
    BY <2>1 DEF RuleInit
  <2> QED
    BY <1>1, <2>1, <2>2, <2>3, <2>4, <2>5, Zenon DEF RuleTyped
<1>3. GapInv
  BY DEF RuleInit, GapInv, Spaced, NewBurst
<1>4. CapInv
  BY DEF RuleInit, CapInv, NewBurst
<1> QED
  BY <1>2, <1>3, <1>4 DEF RuleInv

\* The room's own steps leave the schedule alone.
LEMMA RoomKeeps ==
    ASSUME RuleInv, RoomStep \/ UNCHANGED ruleVars
    PROVE  RuleInv'
<1> USE RuleConstants
<1>1. RuleTyped /\ last \in Nat
  BY DEF RuleInv, RuleTyped
<1>2. /\ UNCHANGED <<pc, timer, pending, burst, went, toldOf>>
      /\ last' \in Nat /\ last <= last' /\ last' <= MaxNews
      /\ waiting' \subseteq 1..last' /\ handed' \subseteq 1..last' /\ waiting' \cap handed' = {}
      /\ paused' \in BOOLEAN /\ rung' \in BOOLEAN
  <2> USE <1>1 DEF RuleTyped, loop, room
  <2>1. CASE Land
    <3>1. last' = last + 1 /\ last' <= MaxNews
      BY <2>1 DEF Land
    <3>2. waiting' = waiting \cup {last'} /\ handed' = handed /\ last' \notin handed
      BY <2>1, <3>1 DEF Land
    <3>3. 1..last \subseteq 1..last' /\ last' \in 1..last'
      BY <3>1
    <3>4. waiting' \subseteq 1..last' /\ handed' \subseteq 1..last' /\ waiting' \cap handed' = {}
      BY <3>2, <3>3
    <3> QED
      BY <2>1, <3>1, <3>4 DEF Land
  <2>2. CASE Pause
    BY <2>2 DEF Pause
  <2>3. ASSUME NEW s \in News, Take(s) \/ Return(s) \/ Leave(s)
        PROVE  /\ UNCHANGED <<last, paused, loop>>
               /\ waiting' \subseteq 1..last /\ handed' \subseteq 1..last
               /\ waiting' \cap handed' = {}
    BY <2>3 DEF Take, Return, Leave
  <2>4. CASE UNCHANGED ruleVars
    BY <2>4 DEF ruleVars
  <2> QED
    BY <2>1, <2>2, <2>3, <2>4 DEF RoomStep
<1>3. burst' \in BurstType'
  <2>1. burst \in BurstType
    BY <1>1 DEF RuleTyped
  <2>2. 0..last \subseteq 0..last'
    BY <1>1, <1>2
  <2> QED
    BY <1>2, <2>1, <2>2 DEF BurstType
<1>4. RuleTyped'
  BY <1>1, <1>2, <1>3 DEF RuleTyped, Ages
<1>5. GapInv' /\ CapInv'
  BY <1>2 DEF RuleInv, GapInv, CapInv, Spaced
<1> QED
  BY <1>4, <1>5 DEF RuleInv

LEMMA DecidingKeeps ==
    ASSUME RuleInv, WakeAndDecide
    PROVE  RuleInv'
<1> USE RuleConstants
<1> DEFINE p == [count |-> Cardinality(Counted), newest |-> Newest(Counted)]
           d == Decide(burst, p)
<1>1. RuleTyped /\ GapInv /\ CapInv
  BY DEF RuleInv
<1>2. p.newest \in 0..last
  <2>1. Counted \in SUBSET (1..last) /\ last \in Nat
    BY <1>1 DEF RuleTyped, Counted
  <2> QED
    BY <2>1, NewestIn
<1> HIDE DEF p
<1>3. /\ d.burst \in BurstType /\ d.wait \in Int
      /\ d.burst.lastFire = burst.lastFire
      /\ \/ d.burst.failures = 0
         \/ d.burst.failures = burst.failures /\ d.burst.retryIn = burst.retryIn
      /\ d.wait <= 0 => IF d.burst.failures > 0 THEN burst.retryIn = 0
                        ELSE MinGap <= burst.lastFire /\ CapLeft(burst) <= 0
  BY <1>1, <1>2, DecideIs, Zenon
<1>4. /\ rung' = FALSE
      /\ pending' = IF d.wait <= 0 THEN p.newest ELSE 0
      /\ burst' = d.burst
      /\ pc' = IF d.wait <= 0 THEN "firing" ELSE "asleep"
      /\ timer' = IF d.wait <= 0 THEN ExecTimeout ELSE d.wait
      /\ UNCHANGED <<last, waiting, handed, paused, went, toldOf>>
  BY DEF WakeAndDecide, p, room
<1> HIDE DEF d
<1>5. burst' \in BurstType'
  BY <1>3, <1>4 DEF BurstType
<1>6. RuleTyped'
  <2>0. d.wait \in Int /\ ExecTimeout \in Nat
    BY <1>3
  <2>1. timer' \in Nat /\ pc' \in {"asleep", "firing"} /\ rung' \in BOOLEAN
    <3>1. PICK w \in Int : w = d.wait
      BY <2>0
    <3>2. timer' = IF w <= 0 THEN ExecTimeout ELSE w
      BY <1>4, <3>1, Zenon
    <3>3. timer' \in Nat
      BY <2>0, <3>2
    <3> QED
      BY <1>4, <3>3
  <2>2. pending' \in 0..last'
    <3>1. last \in Nat /\ last' = last
      BY <1>1, <1>4 DEF RuleTyped
    <3>2. 0 \in 0..last
      BY <3>1
    <3> QED
      BY <1>2, <1>4, <3>1, <3>2, Zenon
  <2>3. UNCHANGED <<last, waiting, handed, paused, went, toldOf>>
    BY <1>4
  <2> QED
    BY <1>1, <1>5, <2>1, <2>2, <2>3 DEF RuleTyped, Ages
<1>7. /\ burst.lastFire \in 0..MinGap /\ burst.retryIn \in 0..Hour /\ burst.failures \in Nat
      /\ burst.fires = went
  BY <1>1 DEF RuleTyped, BurstType
<1>8. /\ burst'.lastFire = burst.lastFire
      /\ \/ burst'.failures = 0
         \/ burst'.failures = burst.failures /\ burst'.retryIn = burst.retryIn
  BY <1>3, <1>4
<1>9. ASSUME pc' = "firing"
      PROVE  IF burst'.failures > 0 THEN burst.retryIn = 0
             ELSE MinGap <= burst.lastFire /\ CapLeft(burst) <= 0
  BY <1>3, <1>4, <1>9
<1>10. GapInv'
  <2>1. Spaced(went)' /\ (went' # <<>> => burst'.lastFire <= went'[Len(went')])
    BY <1>1, <1>4, <1>8 DEF GapInv, Spaced
  <2>2. burst'.failures > 0 => burst'.retryIn + burst'.lastFire >= MinGap
    BY <1>1, <1>8 DEF GapInv
  <2>3. pc' = "firing" => burst'.lastFire = MinGap
    <3>1. CASE burst'.failures > 0 /\ pc' = "firing"
      <4>1. burst.failures > 0 /\ burst.retryIn = 0
        BY <1>8, <1>9, <3>1
      <4> QED
        BY <1>1, <1>7, <1>8, <4>1 DEF GapInv
    <3>2. CASE ~(burst'.failures > 0) /\ pc' = "firing"
      BY <1>7, <1>8, <1>9, <3>2
    <3> QED
      BY <3>1, <3>2
  <2> QED
    BY <2>1, <2>2, <2>3 DEF GapInv
<1>11. CapInv'
  <2>1. pc' = "firing" /\ burst'.failures = 0 => Len(went) < HourlyCap
    <3> SUFFICES ASSUME pc' = "firing", burst'.failures = 0
                 PROVE  Len(went) < HourlyCap
      OBVIOUS
    <3>1. CapLeft(burst) <= 0
      BY <1>9
    <3>2. went \in Seq(Ages)
      BY <1>1 DEF RuleTyped
    <3>3. Len(went) >= HourlyCap => Hour - went[1] <= 0
      BY <3>1, <1>7 DEF CapLeft
    <3>4. Len(went) >= HourlyCap => went[1] \in Ages
      BY <3>2
    <3> QED
      BY <3>2, <3>3, <3>4 DEF Ages
  <2> QED
    BY <1>1, <1>4, <1>8, <2>1 DEF CapInv
<1> QED
  BY <1>6, <1>10, <1>11 DEF RuleInv

\* A nudge that went out well leaves a burst.
LEMMA NudgedBurst ==
    ASSUME NEW b \in BurstType', NEW again \in 0..Len(RenudgeSteps), NEW n \in 0..last',
           0 \in 0..LastStep, 0 \in 0..Len(Backoff), 0 \in 0..Hour
    PROVE  LET c == [b EXCEPT !.renudges = again, !.lastOk = 0, !.nudged = n,
                              !.failures = 0, !.retryIn = 0]
           IN  c \in BurstType' /\ c.lastFire = b.lastFire /\ c.failures = 0
<1>1. PICK b1 \in BurstType' : b1 = [b EXCEPT !.renudges = again]
  BY DEF BurstType
<1>2. PICK b2 \in BurstType' : b2 = [b1 EXCEPT !.lastOk = 0]
  BY DEF BurstType
<1>3. PICK b3 \in BurstType' : b3 = [b2 EXCEPT !.nudged = n]
  BY DEF BurstType
<1>4. PICK b4 \in BurstType' : b4 = [b3 EXCEPT !.failures = 0]
  BY DEF BurstType
<1>5. PICK b5 \in BurstType' : b5 = [b4 EXCEPT !.retryIn = 0]
  BY DEF BurstType
<1>6. b5.lastFire = b.lastFire /\ b5.failures = 0
  BY <1>1, <1>2, <1>3, <1>4, <1>5 DEF BurstType
<1>7. b5 = [b EXCEPT !.renudges = again, !.lastOk = 0, !.nudged = n, !.failures = 0, !.retryIn = 0]
  BY <1>1, <1>2, <1>3, <1>4, <1>5, Zenon
<1> QED
  BY <1>6, <1>7

LEMMA FiringKeeps ==
    ASSUME RuleInv, NEW ok \in BOOLEAN, Fired(ok)
    PROVE  RuleInv'
<1> USE RuleConstants
<1>1. RuleTyped /\ GapInv /\ CapInv /\ pc = "firing"
  BY DEF RuleInv, Fired
<1>2. /\ went' = Append(went, 0) /\ toldOf' = MostOf(toldOf, pending) /\ pc' = "asleep"
      /\ timer' = 0 /\ pending' = 0
      /\ UNCHANGED <<last, waiting, handed, paused, rung>>
      /\ burst' = IF ok THEN FiredOk(burst, pending) ELSE FiredFailed(burst, pending)
  BY DEF Fired, room
<1>3. /\ burst \in BurstType /\ burst.failures \in 0..Len(Backoff) /\ burst.fires = went
      /\ went \in Seq(Ages) /\ last \in Nat /\ pending \in 0..last /\ toldOf \in 0..last
      /\ burst.renudges \in 0..Len(RenudgeSteps) /\ Len(went) \in Nat
  BY <1>1 DEF RuleTyped, BurstType
<1>4. went' \in Seq(Ages) /\ Len(went') = Len(went) + 1 /\ went'[Len(went')] = 0
      /\ \A i \in 1..Len(went) : went'[i] = went[i]
  BY <1>2, <1>3 DEF Ages
<1>5. Went(burst) \in BurstType' /\ Went(burst).lastFire = 0
  <2>1. Append(burst.fires, 0) = went' /\ last' = last
    BY <1>2, <1>3
  <2>2. 0 \in 0..MinGap /\ None \in None..Quiet /\ None \in None..MaxGather
    OBVIOUS
  <2> QED
    BY <1>3, <2>1, <2>2 DEF Went, BurstType
<1>6. /\ burst' \in BurstType' /\ burst'.lastFire = 0
      /\ \/ burst'.failures = 0
         \/ burst'.failures = burst.failures + 1 /\ burst'.retryIn >= MinGap
  <2>1. CASE ok
    <3>1. burst' = FiredOk(burst, pending)
      BY <1>2, <2>1
    <3>2. (IF burst.firingNew THEN 0 ELSE LeastOf(burst.renudges + 1, Len(RenudgeSteps)))
             \in 0..Len(RenudgeSteps)
      BY <1>3 DEF LeastOf
    <3>3. pending \in 0..last' /\ 0 \in 0..LastStep /\ 0 \in 0..Len(Backoff) /\ 0 \in 0..Hour
      BY <1>2, <1>3
    <3> DEFINE again == IF burst.firingNew THEN 0 ELSE LeastOf(burst.renudges + 1, Len(RenudgeSteps))
    <3>4. burst' = [Went(burst) EXCEPT !.renudges = again, !.lastOk = 0, !.nudged = pending,
                                       !.failures = 0, !.retryIn = 0]
      BY <3>1 DEF FiredOk
    <3>5. again \in 0..Len(RenudgeSteps)
      BY <3>2
    <3> HIDE DEF again
    <3>6. PICK w \in BurstType' : w = Went(burst) /\ w.lastFire = 0
      BY <1>5
    <3>7. burst' = [w EXCEPT !.renudges = again, !.lastOk = 0, !.nudged = pending,
                            !.failures = 0, !.retryIn = 0]
      BY <3>4, <3>6, Zenon
    <3>8. burst' \in BurstType' /\ burst'.lastFire = w.lastFire /\ burst'.failures = 0
      BY <3>3, <3>5, <3>7, NudgedBurst, Zenon
    <3> QED
      BY <3>6, <3>8, Zenon
  <2>2. CASE ~ok /\ burst.failures + 1 > Len(Backoff)
    <3>1. burst' = [Went(burst) EXCEPT !.gaveUp = pending, !.failures = 0, !.retryIn = 0]
      BY <1>2, <2>2 DEF FiredFailed
    <3>2. pending \in 0..last' /\ 0 \in 0..Len(Backoff) /\ 0 \in 0..Hour
      BY <1>2, <1>3
    <3> QED
      BY <1>5, <3>1, <3>2 DEF BurstType
  <2>3. CASE ~ok /\ ~(burst.failures + 1 > Len(Backoff))
    <3>1. burst' = [Went(burst) EXCEPT !.failures = burst.failures + 1,
                                       !.retryIn = Backoff[burst.failures + 1]]
      BY <1>2, <2>3 DEF FiredFailed
    <3>2. burst.failures + 1 \in 0..Len(Backoff) /\ Backoff[burst.failures + 1] \in MinGap..Hour
      <4>1. PICK f \in Nat : f = burst.failures
        BY <1>3, SMTT(30)
      <4>2. f + 1 \in 1..Len(Backoff) /\ f + 1 \in 0..Len(Backoff)
        BY <4>1, <2>3, SMTT(30)
      <4>3. \A i \in 1..Len(Backoff) : Backoff[i] \in MinGap..Hour
        OBVIOUS
      <4> QED
        BY <4>1, <4>2, <4>3, Zenon
    <3>3. Backoff[burst.failures + 1] \in 0..Hour
      BY <3>2
    <3>4. burst' \in BurstType'
      BY <1>5, <3>1, <3>2, <3>3 DEF BurstType
    <3>5. burst'.failures = burst.failures + 1 /\ burst'.retryIn = Backoff[burst.failures + 1]
          /\ burst'.lastFire = 0
      BY <1>5, <3>1 DEF BurstType
    <3> QED
      BY <3>2, <3>4, <3>5
  <2> QED
    BY <2>1, <2>2, <2>3
<1>7. RuleTyped'
  <2>1. toldOf' \in 0..last'
    BY <1>2, <1>3 DEF MostOf
  <2> QED
    BY <1>1, <1>2, <1>4, <1>6, <2>1 DEF RuleTyped, Ages
<1>8. GapInv'
  <2>1. \A i \in 1..Len(went) : went[i] >= MinGap
    <3> SUFFICES ASSUME NEW i \in 1..Len(went)
                 PROVE  went[i] >= MinGap
      OBVIOUS
    <3>1. went # <<>> /\ Len(went) \in 1..Len(went)
      BY <1>3
    <3>2. went[Len(went)] >= MinGap
      BY <1>1, <1>3, <3>1 DEF GapInv
    <3>3. went[i] \in Ages /\ went[Len(went)] \in Ages
      BY <1>3, <3>1
    <3>4. i # Len(went) => went[i] - went[Len(went)] >= MinGap
      BY <1>1, <1>3, <3>1 DEF GapInv, Spaced
    <3> QED
      BY <3>2, <3>3, <3>4 DEF Ages
  <2>2. Spaced(went')
    <3> SUFFICES ASSUME NEW i \in 1..Len(went'), NEW j \in 1..Len(went'), i < j
                 PROVE  went'[i] - went'[j] >= MinGap
      BY DEF Spaced
    <3>1. i \in 1..Len(went) /\ went'[i] = went[i] /\ went[i] \in Ages
      BY <1>3, <1>4
    <3>2. CASE j = Len(went')
      BY <1>4, <2>1, <3>1, <3>2 DEF Ages
    <3>3. CASE j # Len(went')
      <4>1. j \in 1..Len(went) /\ went'[j] = went[j]
        <5>1. PICK n \in Nat : n = Len(went)
          BY <1>3
        <5>2. Len(went') = n + 1
          BY <1>4, <5>1
        <5>3. j \in 1..(n + 1) /\ j # n + 1
          BY <3>3, <5>2, Zenon
        <5>4. j \in 1..n
          BY <5>3
        <5>5. j \in 1..Len(went)
          BY <5>1, <5>4, Zenon
        <5> QED
          BY <1>4, <5>5
      <4> QED
        BY <1>1, <3>1, <4>1 DEF GapInv, Spaced
    <3> QED
      BY <3>2, <3>3
  <2>3. went' # <<>> => burst'.lastFire <= went'[Len(went')]
    BY <1>4, <1>6
  <2>4. burst'.failures > 0 => burst'.retryIn + burst'.lastFire >= MinGap
    <3>1. burst'.retryIn \in Int
      BY <1>6 DEF BurstType
    <3> QED
      BY <1>6, <3>1
  <2>5. Spaced(went)'
    BY <2>2 DEF Spaced
  <2>6. ~(pc' = "firing")
    BY <1>2
  <2> QED
    BY <2>3, <2>4, <2>5, <2>6, Zenon DEF GapInv
<1>9. CapInv'
  <2>1. Len(went) < HourlyCap + burst.failures
    BY <1>1, <1>3 DEF CapInv
  <2> QED
    BY <1>2, <1>3, <1>4, <1>6, <2>1, SMTT(30) DEF CapInv
<1> QED
  BY <1>7, <1>8, <1>9 DEF RuleInv

\* An age that is a second older stays under its ceiling.
LEMMA OlderBounded ==
    ASSUME NEW most \in Nat, NEW age \in 0..most
    PROVE  LeastOf(age + 1, most) \in 0..most
  BY DEF LeastOf

LEMMA TickKeeps ==
    ASSUME RuleInv, Tick
    PROVE  RuleInv'
<1> USE RuleConstants
<1>1. RuleTyped /\ GapInv /\ CapInv /\ Spaced(went) /\ went \in Seq(Ages)
  BY DEF RuleInv, GapInv, RuleTyped
<1>2. /\ timer > 0 /\ timer' = timer - 1 /\ went' = OlderWithinHour(went)
      /\ UNCHANGED <<last, waiting, handed, paused, pc, rung, pending, toldOf>>
  BY DEF Tick, room
<1>3. PICK g \in 0..Len(went) :
         /\ Len(went') = Len(went) - g
         /\ \A i \in 1..(Len(went) - g) : went'[i] = went[g + i] + 1
         /\ went' \in Seq(Ages)
         /\ Spaced(went')
  BY <1>1, <1>2, WindowMoves
<1>4. /\ burst \in BurstType /\ burst.fires = went /\ burst.lastFire \in 0..MinGap
      /\ burst.lastOk \in 0..LastStep /\ burst.retryIn \in 0..Hour
      /\ burst.changed \in None..Quiet /\ burst.began \in None..MaxGather
      /\ burst.failures \in Nat
  BY <1>1 DEF RuleTyped, BurstType
<1>5. /\ LeastOf(burst.lastFire + 1, MinGap) \in 0..MinGap
      /\ LeastOf(burst.lastOk + 1, LastStep) \in 0..LastStep
      /\ Sooner(burst.retryIn) \in 0..Hour
      /\ OlderIfAny(burst.changed, Quiet) \in None..Quiet
      /\ OlderIfAny(burst.began, MaxGather) \in None..MaxGather
  <2>1. LeastOf(burst.lastFire + 1, MinGap) \in 0..MinGap
    <3>1. burst.lastFire \in 0..MinGap /\ MinGap \in Nat
      BY <1>4
    <3> QED
      BY <3>1, OlderBounded, Zenon
  <2>2. LeastOf(burst.lastOk + 1, LastStep) \in 0..LastStep
    <3>1. burst.lastOk \in 0..LastStep /\ LastStep \in Nat
      BY <1>4
    <3> QED
      BY <3>1, OlderBounded, Zenon
  <2>3. Sooner(burst.retryIn) \in 0..Hour
    BY <1>4 DEF Sooner, MostOf
  <2>4. OlderIfAny(burst.changed, Quiet) \in None..Quiet
    <3>1. CASE burst.changed = None
      BY <3>1 DEF OlderIfAny
    <3>2. CASE burst.changed # None
      <4>1. PICK k \in Nat : k = burst.changed
        BY <1>4, <3>2
      <4>2. LeastOf(k + 1, Quiet) \in None..Quiet
        BY DEF LeastOf
      <4> QED
        BY <3>2, <4>1, <4>2, Zenon DEF OlderIfAny
    <3> QED
      BY <3>1, <3>2
  <2>5. OlderIfAny(burst.began, MaxGather) \in None..MaxGather
    <3>1. CASE burst.began = None
      BY <3>1 DEF OlderIfAny
    <3>2. CASE burst.began # None
      <4>1. PICK k \in Nat : k = burst.began
        BY <1>4, <3>2
      <4>2. LeastOf(k + 1, MaxGather) \in None..MaxGather
        BY DEF LeastOf
      <4> QED
        BY <3>2, <4>1, <4>2, Zenon DEF OlderIfAny
    <3> QED
      BY <3>1, <3>2
  <2> QED
    BY <2>1, <2>2, <2>3, <2>4, <2>5, Zenon
<1>6. /\ burst' \in BurstType'
      /\ burst'.lastFire = LeastOf(burst.lastFire + 1, MinGap)
      /\ burst'.retryIn = Sooner(burst.retryIn) /\ burst'.failures = burst.failures
  <2>1. burst' = [burst EXCEPT !.lastFire = LeastOf(burst.lastFire + 1, MinGap),
                              !.lastOk = LeastOf(burst.lastOk + 1, LastStep),
                              !.retryIn = Sooner(burst.retryIn),
                              !.changed = OlderIfAny(burst.changed, Quiet),
                              !.began = OlderIfAny(burst.began, MaxGather),
                              !.fires = went']
    BY <1>2, <1>4 DEF Tick
  <2> QED
    BY <1>2, <1>4, <1>5, <2>1 DEF BurstType
<1>7. RuleTyped'
  BY <1>1, <1>2, <1>3, <1>6 DEF RuleTyped, Ages
<1>8. GapInv'
  <2>1. went' # <<>> => burst'.lastFire <= went'[Len(went')]
    <3> SUFFICES ASSUME went' # <<>>
                 PROVE  burst'.lastFire <= went'[Len(went')]
      OBVIOUS
    <3>1. Len(went) - g \in 1..(Len(went) - g) /\ went # <<>> /\ Len(went) \in 1..Len(went)
      BY <1>1, <1>3
    <3>2. went'[Len(went')] = went[Len(went)] + 1
      <4>1. PICK n \in Nat : n = Len(went)
        BY <1>1
      <4>2. g + (n - g) = n
        BY <4>1
      <4>3. went'[n - g] = went[g + (n - g)] + 1
        BY <1>3, <3>1, <4>1, Zenon
      <4> QED
        BY <1>3, <4>1, <4>2, <4>3
    <3>3. burst.lastFire <= went[Len(went)] /\ went[Len(went)] \in Ages
      BY <1>1, <3>1 DEF GapInv
    <3>4. burst'.lastFire <= burst.lastFire + 1 /\ burst'.lastFire \in Int
      <4>1. PICK f \in Int : f = burst.lastFire
        BY <1>4, SMTT(30)
      <4>2. LeastOf(f + 1, MinGap) <= f + 1 /\ LeastOf(f + 1, MinGap) \in Int
        BY DEF LeastOf
      <4> QED
        BY <1>6, <4>1, <4>2, ZenonT(30)
    <3>5. PICK a \in Int : a = went[Len(went)]
      BY <3>3 DEF Ages
    <3>6. PICK f \in Int : f = burst.lastFire
      BY <1>4, SMTT(30)
    <3>7. PICK h \in Int : h = burst'.lastFire
      BY <3>4
    <3>8. h <= f + 1 /\ f <= a
      BY <3>3, <3>4, <3>5, <3>6, <3>7, Zenon
    <3>9. h <= a + 1
      BY <3>8
    <3> QED
      BY <3>2, <3>5, <3>7, <3>9, Zenon
  <2>2. burst'.failures > 0 => burst'.retryIn + burst'.lastFire >= MinGap
    BY <1>1, <1>4, <1>6, SMTT(30) DEF GapInv, Sooner, MostOf, LeastOf
  <2>3. pc' = "firing" => burst'.lastFire = MinGap
    BY <1>1, <1>2, <1>4, <1>6 DEF GapInv, LeastOf
  <2> QED
    BY <1>3, <2>1, <2>2, <2>3 DEF GapInv, Spaced
<1>9. CapInv'
  <2>1. Len(went') <= Len(went) /\ Len(went') \in Nat /\ Len(went) \in Nat
    BY <1>1, <1>3
  <2>2. burst'.failures = burst.failures /\ pc' = pc
    BY <1>2, <1>6
  <2>3. PICK f \in Nat : f = burst.failures
    BY <1>4
  <2>4. PICK n \in Nat : n = Len(went)
    BY <2>1
  <2>5. PICK m \in Nat : m = Len(went')
    BY <2>1
  <2>6. /\ m <= HourlyCap + Len(Backoff)
        /\ f > 0 => m < HourlyCap + f
        /\ pc = "firing" /\ f = 0 => m < HourlyCap
    BY <1>1, <2>1, <2>3, <2>4, <2>5, SMTT(30) DEF CapInv
  <2> QED
    BY <2>2, <2>3, <2>5, <2>6, ZenonT(30) DEF CapInv
<1> QED
  BY <1>7, <1>8, <1>9 DEF RuleInv

\* The schedule's invariant.
THEOREM RuleIsKept == RuleSpec => []RuleInv
<1>1. RuleInit => RuleInv
  BY RuleStart
<1>2. RuleInv /\ [RuleNext]_ruleVars => RuleInv'
  <2> SUFFICES ASSUME RuleInv, [RuleNext]_ruleVars
               PROVE  RuleInv'
    OBVIOUS
  <2> QED
    BY RoomKeeps, DecidingKeeps, FiringKeeps, TickKeeps DEF RuleNext, LoopStep
<1> QED
  BY <1>1, <1>2, PTL DEF RuleSpec

LEMMA InvSpacesNudges == RuleInv => NudgesAreSpaced
<1> SUFFICES ASSUME RuleInv
             PROVE  GapKept /\ HourBounded
  BY DEF NudgesAreSpaced
<1>1. went \in Seq(Ages) /\ Spaced(went)
  BY DEF RuleInv, RuleTyped, GapInv
<1>2. GapKept
  BY <1>1 DEF GapKept, Spaced
<1> QED
  BY <1>2 DEF RuleInv, CapInv, HourBounded

\* Whatever lands, is read, comes back or fails: two nudges of a rule lie the gap apart, and an
\* hour holds no more of them than the cap and the retries of one.
THEOREM NudgesSpaced == RuleSpec => []NudgesAreSpaced
BY RuleIsKept, InvSpacesNudges, PTL

\* The same of the types.
THEOREM RuleTypes == RuleSpec => []RuleTypeOK
<1>1. RuleInv => RuleTypeOK
  BY DEF RuleInv, RuleTyped, BurstType, RuleTypeOK
<1> QED
  BY <1>1, RuleIsKept, PTL
=============================================================================
