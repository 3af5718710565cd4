--------------------------------- MODULE Doors ---------------------------------
(***************************************************************************)
(* The ways into a helper and who signs what comes in by them: the command *)
(* line, the MCP server (crates/cli/src/mcp.rs), the web page (web.rs);    *)
(* the helper's dispatch, the keys it makes on first use (helper/local.rs, *)
(* helper/mod.rs identity, helper/keys.rs) and what `status` says of keys  *)
(* that can say yes beside keys of agents (approval_risks).                *)
(*                                                                         *)
(* One machine, one open room that lives on it.  A label names a key file; *)
(* a member's kind is not the key's but what its invite said.  An agent    *)
(* that has a shell here runs the same commands as a person.               *)
(***************************************************************************)
EXTENDS Naturals, FiniteSets

CONSTANTS
    Default,  \* the label of the person who installed Diavlos
    Agents,   \* the other labels
    Browsers,
    Sent,     \* bound: the types a caller tries
    Nothing   \* None

Labels == Agents \cup {Default}

VARIABLES
    keys,     \* labels that have a key file
    owner,    \* the label that made the room
    members,  \* the room's members by label
    offers,   \* invites that nobody used yet
    mcp,      \* the label the MCP server runs as
    page,     \* the web page: whose label it signs with, whether its login link still works,
              \* and who holds its session
    ask,      \* the last question: whose, whether for an action, whether it waits, its answer
    last      \* history: what an agent last said or did, by which door and under which label

doorVars == <<keys, owner, members, offers, mcp, page, ask, last>>

Types == {"chat", "task", "question", "reply", "done", "claim", "release",
          "approve", "deny", "control", "system"}
Decisions == {"approve", "deny"}

KindOf(l) == IF l = Default THEN "human" ELSE "agent"

NoMember == [kind |-> Nothing]
MemberRow(kind, role) == [kind |-> kind, role |-> role, revoked |-> FALSE]

NoAsk == [by |-> Nothing, waits |-> FALSE]

NoPage == [as |-> Nothing, login |-> FALSE, session |-> {}]

\* new_room: the room's owner is its first member, of the kind its key is.
DoorInit ==
    /\ owner \in Labels
    /\ keys = {owner}
    /\ members = [l \in Labels |-> IF l = owner THEN MemberRow(KindOf(l), "approver") ELSE NoMember]
    /\ offers = {}
    /\ mcp = Nothing
    /\ page = NoPage
    /\ ask = NoAsk
    /\ last = Nothing

-----------------------------------------------------------------------------
(* Keys and roles.                                                         *)

\* identity: a key is made when its label is first used.
Uses(l) == keys' = keys \cup {l}

IsMember(l) == members[l] # NoMember
Standing(l) == IsMember(l) /\ ~members[l].revoked

\* Role::may_send
RoleSends(role) ==
    LET talk == {"chat", "question", "reply", "done", "claim", "release"}
    IN  CASE role = "observer"   -> {}
          [] role = "chat"       -> talk
          [] role = "task-giver" -> talk \cup {"task"}
          [] role = "approver"   -> talk \cup {"task"} \cup Decisions

\* check_may_send: decisions go by the member's kind, the owner's too.
MaySend(l, type) ==
    /\ Standing(l)
    /\ type \in Decisions => members[l].kind = "human"
    /\ l = owner \/ type \in RoleSends(members[l].role)

-----------------------------------------------------------------------------
(* approval_risks.                                                         *)

\* key_kinds: the keys kept on this machine that are agents'.
KeptAgentKeys == {l \in keys : KindOf(l) = "agent"}

\* With the members that are no persons.
AgentKeys == KeptAgentKeys \cup {l \in Labels : Standing(l) /\ members[l].kind = "agent"}

Approvers == {l \in Labels : Standing(l) /\ members[l].kind = "human" /\ MaySend(l, "approve")}

\* Mutant: the owner's key is not counted, which can let a person in.
RiskOfApproversOnly == IF Approvers = {} THEN {} ELSE AgentKeys \ (Approvers \cup {owner})

\* The agents that `status` warns of: those beside a key that can say yes, but for the ones
\* that hold it.
Risk ==
    LET sayYes == Approvers \cup {owner}
    IN  IF sayYes = {} THEN {} ELSE AgentKeys \ sayYes

-----------------------------------------------------------------------------
(* The doors.  A caller is a person or an agent; both find the same helper.*)

Person  == Default
Callers == {Person} \cup (keys \cap Agents)

\* refuse_human_key, as the server starts: the key's kind, not its label.
McpKeyAllowed(l) == KindOf(l) # "human"

McpStart(l) ==
    /\ mcp = Nothing
    /\ Uses(l)
    /\ mcp' = IF McpKeyAllowed(l) THEN l ELSE Nothing
    /\ UNCHANGED <<owner, members, offers, page, ask, last>>

McpEnd ==
    /\ mcp # Nothing
    /\ mcp' = Nothing
    /\ UNCHANGED <<keys, owner, members, offers, page, ask, last>>

\* Mutant: control goes by the owner's key, so it is let through.
AgentMaySendControl == Types \ (Decisions \cup {"system"})

\* agent_may_send
AgentMaySend == Types \ (Decisions \cup {"control", "system"})

\* `diavlos web`, under any label, prints a link that logs one browser in: a person's.  (An
\* agent that has the page has the command line, which takes the same.)
WebStart(l) ==
    /\ page = NoPage
    /\ page' = [as |-> l, login |-> TRUE, session |-> {}]
    /\ UNCHANGED <<keys, owner, members, offers, mcp, ask, last>>

\* index: the link is opened; another time it is refused.
WebOpen(b) ==
    /\ page.login
    /\ page' = [page EXCEPT !.login = FALSE, !.session = {b}]
    /\ UNCHANGED <<keys, owner, members, offers, mcp, ask, last>>

WebEnd ==
    /\ page # NoPage
    /\ page' = NoPage
    /\ UNCHANGED <<keys, owner, members, offers, mcp, ask, last>>

\* By which door, from which caller and under which label a message may come in.  The command
\* line takes any label and any type.
CliDoor == {[door |-> "cli", by |-> c, as |-> l] : c \in Callers, l \in Labels}

\* api_send, api_approve, api_deny: the page takes any type too, from the one who has its session.
WebDoor == {[door |-> "web", by |-> Person, as |-> page.as] : b \in page.session}

\* diavlos_send: the MCP server has one label, and takes what an agent may send.
McpDoor(type) ==
    IF mcp # Nothing /\ type \in AgentMaySend THEN {[door |-> "mcp", by |-> mcp, as |-> mcp]} ELSE {}

Doors(type) == CliDoor \cup WebDoor \cup McpDoor(type)

\* What is kept of it: what an agent does by the server, or by a shell with a key that is not
\* its own to say yes, and whether `status` had warned of it.
Said(d, type) ==
    IF d.door # "mcp" /\ (d.by \in {Person, d.as} \/ type \notin Decisions \cup {"invite a person"})
    THEN Nothing ELSE
    [mcp |-> d.door = "mcp", by |-> d.by, as |-> d.as, type |-> type, warned |-> d.by \in Risk]

\* send: a message of the type, signed with the label's key, which a first use makes.
Signed(d, type) ==
    /\ IsMember(d.as)
    /\ MaySend(d.as, type)
    /\ Uses(d.as)
    /\ last' = Said(d, type)
    /\ UNCHANGED <<owner, members, offers, mcp, page>>

\* Send, Claim, Release, Control: dispatch turns each into a message of its type.
Send(d, type) ==
    /\ type \notin {"question"} \cup Decisions
    /\ Signed(d, type)
    /\ UNCHANGED ask

\* ask: what answers a question; one that asks for an action is answered by a decision only.
Answers(l, type, re) ==
    /\ re.waits /\ re.by # l
    /\ re.action => type \in Decisions

\* ask: the question is sent, then the call waits.
Ask(d, action) ==
    /\ ~ask.waits
    /\ Signed(d, "question")
    /\ ask' = [by |-> d.as, action |-> action, waits |-> TRUE, reply |-> Nothing]

\* A message about the question; the first that answers it ends the wait.
About(d, type) ==
    /\ ask # NoAsk
    /\ Signed(d, type)
    /\ ask' = IF Answers(d.as, type, ask)
              THEN [ask EXCEPT !.waits = FALSE,
                               !.reply = IF ask.action THEN [type |-> type, kind |-> members[d.as].kind] ELSE Nothing]
              ELSE ask

Reply(d, type) == type \in {"chat", "reply", "done"} /\ About(d, type)

\* Approve, Deny: an approve needs an action to approve (build, check_typed); a deny may be of
\* anything.
Decide(d, type) ==
    \/ type = "approve" /\ ask # NoAsk /\ ask.action /\ About(d, type)
    \/ type = "deny" /\ About(d, type)
    \/ type = "deny" /\ Signed(d, type) /\ UNCHANGED ask

\* wait_for: the call's time is up.
AskEnds ==
    /\ ask.waits
    /\ ask' = [ask EXCEPT !.waits = FALSE]
    /\ UNCHANGED <<keys, owner, members, offers, mcp, page, last>>

\* A person, who is an approver unless told otherwise, and an agent told to be one.
Invited == {[kind |-> k, role |-> "approver"] : k \in {"human", "agent"}}

\* invite: for the owner's key only.  It says what the member will be, person or agent.
InviteBy(d, kind, role) ==
    /\ d.as = owner
    /\ offers = {}
    /\ Uses(d.as)
    /\ offers' = {[kind |-> kind, role |-> role]}
    /\ last' = Said(d, IF kind = "human" THEN "invite a person" ELSE "invite")
    /\ UNCHANGED <<owner, members, mcp, page, ask>>

\* join, of a room that lives here: who is a member already stays what it is.
JoinBy(d) ==
    /\ ~Standing(d.as)
    /\ \E i \in offers :
         /\ offers' = offers \ {i}
         /\ members' = [members EXCEPT ![d.as] = MemberRow(i.kind, i.role)]
    /\ Uses(d.as)
    /\ UNCHANGED <<owner, mcp, page, ask, last>>

\* control: revoke, by the owner's key.  The owner cannot do that to itself.
RevokeBy(d, l) ==
    /\ d.as = owner /\ l # owner
    /\ Standing(l)
    /\ members' = [members EXCEPT ![l].revoked = TRUE]
    /\ Uses(d.as)
    /\ last' = Said(d, "control")
    /\ UNCHANGED <<owner, offers, mcp, page, ask>>

-----------------------------------------------------------------------------

DoorNext ==
    \/ \E l \in Labels : McpStart(l) \/ WebStart(l)
    \/ McpEnd \/ WebEnd \/ AskEnds
    \/ \E b \in Browsers : WebOpen(b)
    \/ \E type \in Sent : \E d \in Doors(type) : Send(d, type) \/ Reply(d, type) \/ Decide(d, type)
    \/ \E d \in Doors("question"), action \in BOOLEAN : Ask(d, action)
    \/ \E d \in CliDoor :
         \/ JoinBy(d)
         \/ \E i \in Invited : InviteBy(d, i.kind, i.role)
         \/ \E l \in Labels : RevokeBy(d, l)

DoorSpec == DoorInit /\ [][DoorNext]_doorVars

-----------------------------------------------------------------------------
(* Properties.                                                             *)

\* What comes in by the MCP server is signed by no person's key and is no decision, no control
\* and no notice, whatever rooms, kinds and roles the agent has been given: an owner or a
\* member marked human, even.  (mcp.rs: agent_may_send, refuse_human_key.)
McpSpeaksForAgents ==
    last # Nothing /\ last.mcp =>
        /\ KindOf(last.as) = "agent"
        /\ last.type \notin Decisions \cup {"control", "system", "invite", "invite a person"}

\* A yes or no to an action comes from a member that is a person.
\* (local.rs: ask, "only a human-signed approve or deny answers it".)
OnlyPersonsDecide ==
    ask # NoAsk /\ ask.reply # Nothing /\ ask.action =>
        ask.reply.type \in Decisions /\ ask.reply.kind = "human"

\* An agent decides nothing: not by the MCP server, and no question for an action is answered
\* by one.
AgentsDecideNothing == McpSpeaksForAgents /\ OnlyPersonsDecide

\* An agent that, by a shell, decides with a key that is not its own, or lets a person in with
\* the owner's, is one that `status` warned of: unless its own key may say yes as well.
\* (local.rs: approval_risks.)
RiskIsShown ==
    /\ last # Nothing /\ last.by \in Agents /\ last.as # last.by
    /\ last.type \in Decisions \cup {"invite a person"}
    => last.warned \/ last.by = owner \/ last.by \in Approvers
=============================================================================
