----------------------------- MODULE Extension -----------------------------
(* The VS Code extension, its JSON-RPC client and the daemon it drives.       *)
EXTENDS Service

CONSTANTS Windows,        \* commands of the extension that may run at once
          UserPlans       \* plans a user asks for

VARIABLES daemon,     \* "off", "up", "hung", "gone", or "failed" to be spawned
          inbox, outbox,          \* its stdin and stdout
          client,     \* the JSON-RPC client
          flow,       \* the chains of requests, each awaiting one promise
          ext         \* what the extension has registered and opened
wire == <<daemon, inbox, outbox>>

ASSUME WindowsAssumption == Windows \cap {"activate", "shutdown"} = {}
ASSUME UserPlansAssumption == \A plan \in UserPlans : IsSequence(plan)
Flows == Windows \cup {"activate", "shutdown"}
NoFlow == [stage |-> "idle", id |-> 0, got |-> Nothing, plan |-> <<>>, proposed |-> FALSE,
           told |-> "nothing", about |-> 0]

-----------------------------------------------------------------------------
(* The daemon (aa-daemon): one request after the other until it is told to    *)
(* shut down.                                                                 *)
Reads(m) == daemon = "up" /\ Free("daemon") /\ inbox # <<>> /\ (Head(inbox).m = "session.shutdown") = m
TakeRequest ==
    /\ Reads(FALSE)
    /\ core' = [core EXCEPT !["daemon"] = Began(@, Head(inbox))]
    /\ inbox' = Tail(inbox)
    /\ UNCHANGED <<disk, daemon, outbox, client, flow, ext>>
WriteResponse ==
    /\ core["daemon"].answer # Nothing
    /\ outbox' = Append(outbox, core["daemon"].answer)
    /\ core' = [core EXCEPT !["daemon"].answer = Nothing]
    /\ UNCHANGED <<disk, daemon, inbox, client, flow, ext>>
Stops(how) ==
    daemon' = how /\ inbox' = <<>> /\ core' = [core EXCEPT !["daemon"] = FreshCore]
TakeShutdown ==
    /\ Reads(TRUE)
    /\ outbox' = Append(outbox, With(Done, "for", Head(inbox).id))
    /\ Stops("gone")
    /\ UNCHANGED <<disk, client, flow, ext>>

\* It may hang or die at any time, in the middle of a call; killed, it dies.
Hangs ==
    /\ daemon = "up" /\ Stops("hung")
    /\ UNCHANGED <<disk, outbox, client, flow, ext>>
Dies ==
    /\ daemon \in {"up", "hung"} /\ Stops("gone")
    /\ UNCHANGED <<disk, outbox, client, flow, ext>>
Terminated == client.proc = "killed" /\ Dies

-----------------------------------------------------------------------------
(* The client (client.js): requests, promises, timers, the child process.     *)
Failed(why) == [k |-> why]

\* w asks for c and awaits the promise in the state f.  A request to a process
\* that has been killed is refused; one to a process that has died or never was
\* is not: it gets a timer and no answer, as does one to a process that hangs.
SendFrom(k, w, f, c) ==
    IF k.proc = "killed"
    THEN /\ flow' = [flow EXCEPT ![w] = [f EXCEPT !.got = Failed("failed")]]
         /\ client' = k /\ UNCHANGED inbox
    ELSE /\ client' = [k EXCEPT !.nextId = @ + 1, !.pending = With(@, k.nextId, w)]
         /\ flow' = [flow EXCEPT ![w] = [f EXCEPT !.id = k.nextId, !.got = Nothing]]
         /\ inbox' = IF daemon = "up" THEN Append(inbox, [c EXCEPT !.id = k.nextId]) ELSE inbox
Send(w, f, c) == client.nextId < budget.requests /\ SendFrom(client, w, f, c)

Settled(S, a) ==
    [w \in Flows |-> IF \E i \in S : client.pending[i] = w THEN [flow[w] EXCEPT !.got = a] ELSE flow[w]]
Without(S) == [client EXCEPT !.pending = [i \in DOMAIN @ \ S |-> @[i]]]

\* An answer whose request has been given up is dropped.
ForOldest(a) == IF client.pending = <<>> THEN {} ELSE {Min(DOMAIN client.pending)}
For(a) == {a.for} \cap DOMAIN client.pending
Receive ==
    /\ outbox # <<>> /\ outbox' = Tail(outbox)
    /\ LET a == Head(outbox)
       IN  flow' = Settled(For(a), a) /\ client' = Without(For(a))
    /\ UNCHANGED <<disk, core, daemon, inbox, ext>>

TimesOutPending(i) ==
    /\ i \in DOMAIN client.pending
    /\ daemon = "up" => client.early < budget.early
    /\ flow' = Settled({i}, Failed("timeout"))
    /\ client' = [client EXCEPT !.early = IF daemon = "up" THEN @ + 1 ELSE @]
    /\ UNCHANGED <<disk, core, wire, ext>>
TimesOut(i) ==
    /\ i \in DOMAIN client.pending
    /\ daemon = "up" => client.early < budget.early
    /\ flow' = Settled({i}, Failed("timeout"))
    /\ client' = [Without({i}) EXCEPT !.early = IF daemon = "up" THEN @ + 1 ELSE @]
    /\ UNCHANGED <<disk, core, wire, ext>>

\* That the child has exited or could not be spawned fails all that is pending;
\* after an exit during the shutdown it is left to the timers.
DropAllPending(S) == UNCHANGED flow
FailAllPending(S) == flow' = Settled(S, Failed("failed"))
Exits ==
    /\ daemon \in {"gone", "failed"} /\ ~client.exited
    /\ LET S == IF client.shutting /\ daemon = "gone" THEN {} ELSE DOMAIN client.pending
       IN  FailAllPending(S) /\ client' = [Without(S) EXCEPT !.exited = TRUE]
    /\ UNCHANGED <<disk, core, wire, ext>>

\* Once: the child is killed when there is an answer or will be none.
Got(w, stage) == flow[w].stage = stage /\ flow[w].got # Nothing
Fulfilled(w) == flow[w].got.k \notin {"timeout", "failed", "error"}
Shutdown ==
    /\ ~client.shutting /\ daemon # "off"
    /\ SendFrom([client EXCEPT !.shutting = TRUE], "shutdown",
                [NoFlow EXCEPT !.stage = "shutdown"], Call("session.shutdown", <<>>))
    /\ UNCHANGED <<disk, core, daemon, outbox, ext>>
ReapsAnswered == Got("shutdown", "shutdown") /\ Fulfilled("shutdown")
Reaps == Got("shutdown", "shutdown")
Kill ==
    /\ Reaps
    /\ client' = [client EXCEPT !.proc = "killed"]
    /\ flow' = [flow EXCEPT !["shutdown"] = NoFlow]
    /\ UNCHANGED <<disk, core, wire, ext>>

-----------------------------------------------------------------------------
(* The extension (extension.js): activation, then the commands of its user.   *)
(* In between two requests the user may take any time.                        *)
End(w, told) ==
    /\ flow' = [flow EXCEPT ![w] = [NoFlow EXCEPT !.told = told, !.about = flow[w].id]]
    /\ UNCHANGED <<client, inbox>>
Ask(w, stage, c) == Send(w, [flow[w] EXCEPT !.stage = stage], c)
ExtOnly == UNCHANGED <<disk, core, daemon, outbox>>
FlowOnly == ExtOnly /\ UNCHANGED ext

Initialized ==
    /\ Got("activate", "init")
    /\ \/ /\ Fulfilled("activate") /\ UNCHANGED ext
          /\ Ask("activate", "open", Call("workspace.open", <<>>))
       \/ /\ Fulfilled("activate") /\ ext' = [ext EXCEPT !.commands = TRUE]   \* no folder
          /\ End("activate", "done")
       \/ ~Fulfilled("activate") /\ UNCHANGED ext /\ End("activate", "failed")
    /\ ExtOnly
Opened ==
    /\ Got("activate", "open")
    /\ IF Fulfilled("activate")
       THEN Ask("activate", "index", Call("workspace.index", <<>>)) /\ ext' = [ext EXCEPT !.workspace = TRUE]
       ELSE End("activate", "done") /\ ext' = [ext EXCEPT !.commands = TRUE]
    /\ ExtOnly
\* A failure to index is not fatal.
Indexed ==
    /\ Got("activate", "index") /\ End("activate", "done")
    /\ ext' = [ext EXCEPT !.commands = TRUE] /\ ExtOnly

\* A command starts with a request; all but one need the workspace.
Start(w, stage, plan, m) ==
    /\ ext.commands /\ ~client.shutting /\ flow[w].stage = "idle"
    /\ ext.workspace \/ m = "session.initialize"
    /\ Send(w, [NoFlow EXCEPT !.stage = stage, !.plan = plan], Call(m, plan))
    /\ FlowOnly
CmdRename(w) == \E plan \in UserPlans : Start(w, "preview", plan, "patch.preview")
CmdProposePatch(w) == Start(w, "query", <<>>, "graph.query")
CmdExplainRename(w) == \E plan \in UserPlans : Start(w, "explain", plan, "explain.patch")
CmdHistory(w) == Start(w, "history", <<>>, "memory.history")
CmdStats(w) == Start(w, "stats", <<>>, "memory.stats")
CmdInfo(w) == Start(w, "info", <<>>, "session.initialize")

\* An await that throws ends its command with a message.
Fails(w) ==
    /\ flow[w].got # Nothing /\ ~Fulfilled(w)
    /\ End(w, IF flow[w].stage = "apply" THEN "failed" ELSE "nothing") /\ FlowOnly
Resolved(w, stage) == Got(w, stage) /\ Fulfilled(w) /\ FlowOnly

RenderVerdict(w) == Resolved(w, "explain") /\ End(w, "nothing")
Prints(w) == (\E stage \in {"history", "stats", "info"} : Resolved(w, stage)) /\ End(w, "nothing")

ListFunctions(w) ==
    /\ Resolved(w, "query")
    /\ IF flow[w].got.names = {} THEN End(w, "nothing")
       ELSE \E mem \in {0, 1} : Ask(w, "propose", [Call("llm.propose_patch", <<>>) EXCEPT !.mem = mem])

\* Only an accepted candidate can be picked, to be explained or applied.
PickCandidate(w) ==
    /\ Resolved(w, "propose")
    /\ \/ End(w, "nothing")
       \/ \E plan \in Accepted(flow[w].got.of), s \in {<<"explain", "explain.patch">>, <<"preview", "patch.preview">>} :
            Send(w, [flow[w] EXCEPT !.stage = s[1], !.plan = plan, !.proposed = TRUE], Call(s[2], plan))

\* Apply or cancel; a preview without replacements ends the command.
OfferedAlways(w) == TRUE
Offered(w) == flow[w].got.some
Confirm(w) ==
    /\ Resolved(w, "preview")
    /\ \/ End(w, "nothing")
       \/ /\ Offered(w)
          /\ Ask(w, "apply", [Call("patch.apply", flow[w].plan) EXCEPT
                  !.seen = [plan |-> flow[w].plan, base |-> flow[w].got.base, proposed |-> flow[w].proposed]])
Reports(w) == Resolved(w, "apply") /\ End(w, IF flow[w].got.applied THEN "applied" ELSE "rejected")

Command(w) ==
    \/ CmdRename(w) \/ CmdProposePatch(w) \/ CmdExplainRename(w)
    \/ CmdHistory(w) \/ CmdStats(w) \/ CmdInfo(w)
    \/ Fails(w) \/ RenderVerdict(w) \/ Prints(w) \/ ListFunctions(w) \/ PickCandidate(w)
    \/ Confirm(w) \/ Reports(w)

\* The child is spawned and asked for its capabilities at once, unless nobody
\* uses the extension.
Activate ==
    /\ daemon \in {"up", "failed"}
    /\ client = [proc |-> "running", exited |-> FALSE, shutting |-> FALSE, nextId |-> 2, early |-> 0,
                 pending |-> With(<<>>, 1, "activate")]
    /\ flow = [w \in Flows |-> IF w = "activate" THEN [NoFlow EXCEPT !.stage = "init", !.id = 1] ELSE NoFlow]
    /\ inbox = IF daemon = "up" THEN <<[Call("session.initialize", <<>>) EXCEPT !.id = 1]>> ELSE <<>>
Unused ==
    /\ daemon = "off" /\ inbox = <<>>
    /\ client = [proc |-> "none", exited |-> FALSE, shutting |-> FALSE, nextId |-> 1, early |-> 0,
                 pending |-> <<>>]
    /\ flow = [w \in Flows |-> NoFlow]
ExtensionInit ==
    /\ IF budget.requests > 0 THEN Activate ELSE Unused
    /\ outbox = <<>> /\ ext = [commands |-> FALSE, workspace |-> FALSE]

DaemonSteps == TakeRequest \/ TakeShutdown \/ WriteResponse
ClientSteps == Receive \/ Exits \/ Kill \/ \E i \in DOMAIN client.pending : TimesOut(i)
ExtensionNext ==
    \/ DaemonSteps \/ Hangs \/ Dies \/ ClientSteps \/ Shutdown
    \/ Initialized \/ Opened \/ Indexed \/ \E w \in Windows : Command(w)
=============================================================================
