------------------------------- MODULE Startup -------------------------------
(***************************************************************************)
(* Starting, reaching and stopping the helper of one home directory        *)
(* (crates/client/src/client.rs, crates/cli/src/helper/mod.rs run and      *)
(* run_inner, helper/local.rs bind and serve, net/iroh.rs).                *)
(*                                                                         *)
(* Any command that finds nobody answering on the socket starts a helper   *)
(* and dials until it is there.  A helper's start is a row of steps on     *)
(* shared files, the socket among them, that another helper's start and an *)
(* older helper's stop may interleave with; no lock is held over them.     *)
(***************************************************************************)
EXTENDS Naturals

CONSTANTS Helpers,     \* helper processes that may be started; the bound on starts
          Clients,     \* commands talking to the helper
          None,
          MaxCrashes   \* bound: helpers killed

VARIABLES
    stage,      \* how far each helper's start is, and where it goes after
    file,       \* whose listener the socket's path leads to
    listening,  \* helpers with a listener
    bound,      \* helpers with a network endpoint
    port,       \* each helper's network port, named by the helper that picked it
    conf,       \* the port in config.toml
    key,        \* the node key each helper runs under, named likewise
    nodeKey,    \* the node key on disk
    call,       \* what each command is doing, and the helper it reached
    crashes

socket  == <<file, listening>>
network == <<bound, port, conf>>
keys    == <<key, nodeKey>>
vars    == <<stage, socket, network, keys, call, crashes>>

Idle == [at |-> "idle", to |-> None]

Init ==
    /\ stage = [p \in Helpers |-> "none"]
    /\ file = None /\ listening = {}
    /\ bound = {} /\ port = [p \in Helpers |-> None] /\ conf = None
    /\ key = [p \in Helpers |-> None] /\ nodeKey = None
    /\ call = [c \in Clients |-> Idle]
    /\ crashes = 0

-----------------------------------------------------------------------------
(* A helper starts.                                                        *)

\* A dial gets through: the path leads to a listener of a live process.
Answering == file \in listening

Move(p, to) == stage' = [stage EXCEPT ![p] = to]

\* run: the config is read once, before anything is looked at.
Load(p) ==
    /\ stage[p] = "born"
    /\ Move(p, "loaded")
    /\ port' = [port EXCEPT ![p] = conf]
    /\ UNCHANGED <<socket, bound, conf, keys, call, crashes>>

\* run_inner: a helper that answers ends this start.
Check(p) ==
    /\ stage[p] = "loaded"
    /\ Move(p, IF Answering THEN "gone" ELSE "checked")
    /\ UNCHANGED <<socket, network, keys, call, crashes>>

\* Whatever is at the socket's path is taken for a leftover.
Clear(p) ==
    /\ stage[p] = "checked"
    /\ Move(p, "cleared")
    /\ file' = None
    /\ UNCHANGED <<listening, network, keys, call, crashes>>

\* load_or_create_key: the key on disk, or none yet.
FindKey(p) ==
    /\ stage[p] = "cleared"
    /\ Move(p, IF nodeKey = None THEN "making" ELSE "keyed")
    /\ key' = [key EXCEPT ![p] = nodeKey]
    /\ UNCHANGED <<socket, network, nodeKey, call, crashes>>

MakeKey(p) ==
    /\ stage[p] = "making"
    /\ Move(p, "keyed")
    /\ key' = [key EXCEPT ![p] = p] /\ nodeKey' = p
    /\ UNCHANGED <<socket, network, call, crashes>>

\* Port q is in use on this machine.
InUse(q) == \E r \in bound : port[r] = q

\* IrohTransport::bind: a pinned port that is taken ends the start.
Bind(p) ==
    /\ stage[p] = "keyed"
    /\ IF port[p] # None /\ InUse(port[p])
       THEN Move(p, "gone") /\ UNCHANGED <<bound, port>>
       ELSE /\ Move(p, "bound")
            /\ bound' = bound \cup {p}
            /\ port' = [port EXCEPT ![p] = IF @ = None THEN p ELSE @]
    /\ UNCHANGED <<socket, conf, keys, call, crashes>>

\* A port just picked is saved, as far as the file can be written.
SavePort(p) ==
    /\ stage[p] = "bound"
    /\ Move(p, "saved")
    /\ conf' \in IF port[p] = p THEN {p, conf} ELSE {conf}
    /\ UNCHANGED <<socket, bound, port, keys, call, crashes>>

\* local::bind: a path that exists again ends the process.
Listen(p) ==
    /\ stage[p] = "saved"
    /\ IF file = None
       THEN /\ Move(p, "up")
            /\ file' = p /\ listening' = listening \cup {p}
            /\ UNCHANGED bound
       ELSE Move(p, "gone") /\ bound' = bound \ {p} /\ UNCHANGED socket
    /\ UNCHANGED <<port, conf, keys, call, crashes>>

-----------------------------------------------------------------------------
(* A helper ends.                                                          *)

\* ctrl-c, or a request to stop.
Interrupt(p) ==
    /\ stage[p] = "up"
    /\ Move(p, "stopping")
    /\ UNCHANGED <<socket, network, keys, call, crashes>>

\* The task that accepts is aborted and with it goes the listener, which removes the
\* path it was bound to, whatever is there; meanwhile the endpoint is closed.
DropListener(p) ==
    /\ stage[p] = "stopping" /\ p \in listening
    /\ listening' = listening \ {p}
    /\ file' = None
    /\ UNCHANGED <<stage, network, keys, call, crashes>>

CloseNet(p) ==
    /\ stage[p] = "stopping" /\ p \in bound
    /\ bound' = bound \ {p}
    /\ UNCHANGED <<stage, socket, port, conf, keys, call, crashes>>

Leave(p) ==
    /\ stage[p] = "stopping" /\ p \notin listening \cup bound
    /\ Move(p, "gone")
    /\ UNCHANGED <<socket, network, keys, call, crashes>>

\* A killed helper leaves its path behind.
Crash(p) ==
    /\ stage[p] \notin {"none", "gone"}
    /\ crashes < MaxCrashes
    /\ crashes' = crashes + 1
    /\ Move(p, "gone")
    /\ listening' = listening \ {p} /\ bound' = bound \ {p}
    /\ UNCHANGED <<file, port, conf, keys, call>>

-----------------------------------------------------------------------------
(* Commands.                                                               *)

Goes(c, at, to) == call' = [call EXCEPT ![c] = [at |-> at, to |-> to]]

\* spawn_helper: the helper is a process of its own, and outlives the command.
Spawn(c) ==
    \E p \in Helpers :
        /\ stage[p] = "none"
        /\ Move(p, "born")
        /\ Goes(c, "waiting", None)

\* helper_binary: none is found.
NoBinary(c) == Goes(c, "failed", None) /\ UNCHANGED stage

\* Client::connect, for a command that needs the helper.
Dial(c) ==
    /\ call[c].at \in {"idle", "done", "failed"}
    /\ IF Answering
       THEN Goes(c, "sent", file) /\ UNCHANGED stage
       ELSE Spawn(c) \/ NoBinary(c)
    /\ UNCHANGED <<socket, network, keys, crashes>>

\* It dials again every 100 ms.
DialAgain(c) ==
    /\ call[c].at = "waiting"
    /\ Answering
    /\ Goes(c, "sent", file)
    /\ UNCHANGED <<stage, socket, network, keys, crashes>>

\* START_TIMEOUT.
TimesOut(c) ==
    /\ call[c].at = "waiting"
    /\ ~Answering
    /\ Goes(c, "failed", None)
    /\ UNCHANGED <<stage, socket, network, keys, crashes>>

\* handle: a line that is no request, or a request that fails, is answered as well.
Answer(c) ==
    /\ call[c].at = "sent"
    /\ stage[call[c].to] \in {"up", "stopping"}
    /\ Goes(c, "done", None)
    /\ UNCHANGED <<stage, socket, network, keys, crashes>>

\* `diavlos stop`, which starts nothing.
DialStop(c) ==
    /\ call[c].at \in {"idle", "done", "failed"}
    /\ IF Answering THEN Goes(c, "stop", file) ELSE Goes(c, "done", None)
    /\ UNCHANGED <<stage, socket, network, keys, crashes>>

\* handle: shutdown is requested before the answer is written.
AnswerStop(c) ==
    /\ \/ /\ call[c].at = "stop"
          /\ stage[call[c].to] \in {"up", "stopping"}
          /\ Move(call[c].to, "stopping")
          /\ Goes(c, "told", call[c].to)
       \/ /\ call[c].at = "told"
          /\ stage[call[c].to] # "gone"
          /\ Goes(c, "leaving", None)
          /\ UNCHANGED stage
    /\ UNCHANGED <<socket, network, keys, crashes>>

\* The command polls until nobody answers.
SeesStopped(c) ==
    /\ call[c].at = "leaving"
    /\ ~Answering
    /\ Goes(c, "stopped", None)
    /\ UNCHANGED <<stage, socket, network, keys, crashes>>

\* After 50 polls it is content.
StopsWaiting(c) ==
    /\ call[c].at \in {"leaving", "stopped"}
    /\ Goes(c, "done", None)
    /\ UNCHANGED <<stage, socket, network, keys, crashes>>

\* "helper closed the connection".
HangUp(c) ==
    /\ call[c].at \in {"sent", "stop", "told"}
    /\ stage[call[c].to] # "up"
    /\ Goes(c, "failed", None)
    /\ UNCHANGED <<stage, socket, network, keys, crashes>>

-----------------------------------------------------------------------------

Start(p) == Load(p) \/ Check(p) \/ Clear(p) \/ FindKey(p) \/ MakeKey(p) \/ Bind(p) \/ SavePort(p) \/ Listen(p)
End(p)   == DropListener(p) \/ CloseNet(p) \/ Leave(p)
Command(c) == Dial(c) \/ DialAgain(c) \/ TimesOut(c) \/ Answer(c) \/ DialStop(c) \/ AnswerStop(c)
              \/ SeesStopped(c) \/ StopsWaiting(c) \/ HangUp(c)

Next ==
    \/ \E p \in Helpers : Start(p) \/ Interrupt(p) \/ End(p) \/ Crash(p)
    \/ \E c \in Clients : Command(c)

Spec == Init /\ [][Next]_vars

-----------------------------------------------------------------------------
(* Properties.                                                             *)

\* run_inner: "Refuse to run twice."
NeverTwice == \A p, q \in Helpers : stage[p] = "up" /\ stage[q] = "up" => p = q
=============================================================================
