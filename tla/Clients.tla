------------------------------ MODULE Clients ------------------------------
(* The extension and command lines on the same workspace.                     *)
(*                                                                            *)
(* A command line (aa-cli) is a process with a core of its own that makes the *)
(* calls of its command's script and ends with an exit code.                  *)
EXTENDS Extension

CONSTANT Shells          \* processes that may run at once

VARIABLES shell
vars == <<disk, core, budget, wire, client, flow, ext, shell>>

-----------------------------------------------------------------------------
(* The script of every command.  refuses: do errors of the preview stop it;   *)
(* checks: may its arguments be refused before it makes a call.               *)
Script(calls, refuses, checks) == [calls |-> calls, refuses |-> refuses, checks |-> checks]
Reading(m) == Script(<<"workspace.open", m>>, FALSE, FALSE)
Indexing(ms) == Script(<<"workspace.open", "workspace.index">> \o ms, FALSE, FALSE)
Ruled(ms) == Script(<<"workspace.open", "rules.load", "rules.evaluate">> \o ms, FALSE, TRUE)
Patching(refuses, checks) == Script(<<"workspace.open", "patch.preview", "patch.apply">>, refuses, checks)

RenameScript == Patching(FALSE, TRUE)
AddDeriveScript == Patching(FALSE, TRUE)
RemoveDeriveScript == Patching(FALSE, TRUE)
InlineScript == Patching(TRUE, FALSE)
ExtractScript == Patching(TRUE, TRUE)
ChangeSignatureScript == Patching(TRUE, TRUE)
MoveItemScript == Patching(TRUE, TRUE)
RollbackScript == Reading("patch.rollback")
ExplainScript == Indexing(<<"explain.patch">>)
ProposeScript == Indexing(<<"llm.propose">>)
RefineScript == Indexing(<<"llm.refine">>)
ProposePatchScript == Indexing(<<"llm.propose_patch">>)   \* explains what is accepted
\* Here with rules and a query.
IndexScript == Indexing(<<"rules.load", "rules.evaluate", "graph.query">>)
RunScript == Ruled(<<>>)
QueryScript == Ruled(<<"graph.query">>)
HistoryScript == Reading("memory.history")
ShowScript == Reading("memory.get")
StatsScript == Reading("memory.stats")
InfoScript == Script(<<"session.initialize">>, FALSE, FALSE)
Scripts ==
    [rename |-> RenameScript, add_derive |-> AddDeriveScript, remove_derive |-> RemoveDeriveScript,
     inline_function |-> InlineScript, extract_function |-> ExtractScript,
     change_signature |-> ChangeSignatureScript, move_item |-> MoveItemScript,
     rollback |-> RollbackScript, explain |-> ExplainScript, propose |-> ProposeScript,
     refine |-> RefineScript, propose_patch |-> ProposePatchScript, index |-> IndexScript,
     run |-> RunScript, query |-> QueryScript, history |-> HistoryScript, show |-> ShowScript,
     stats |-> StatsScript, info |-> InfoScript]

-----------------------------------------------------------------------------
(* A process: it starts, makes its calls and exits.                           *)
NoLine == [cmd |-> "none", plan |-> <<>>, commit |-> 0, apply |-> FALSE, mem |-> 0]
NoShell == [line |-> NoLine, calls |-> <<>>, plans |-> <<>>, run |-> 0, code |-> "none"]
Others == UNCHANGED <<wire, client, flow, ext>>

Run(s) ==
    /\ shell[s].calls = <<>> /\ shell[s].run < budget.runs[s]
    /\ \E l \in budget.lines :
         LET n == [line |-> l, calls |-> Scripts[l.cmd].calls, plans |-> <<l.plan>>,
                   run |-> shell[s].run + 1, code |-> "none"]
         IN  \/ shell' = [shell EXCEPT ![s] = n]
             \/ Scripts[l.cmd].checks /\ shell' = [shell EXCEPT ![s] = [n EXCEPT !.calls = <<>>, !.code = "1"]]
    /\ UNCHANGED <<disk, core>> /\ Others

Makes(s) ==
    /\ shell[s].calls # <<>> /\ Free(s)
    /\ core' = [core EXCEPT ![s] = Began(@, [Call(Head(shell[s].calls), Head(shell[s].plans)) EXCEPT
                  !.id = shell[s].run, !.mem = shell[s].line.mem, !.commit = shell[s].line.commit])]
    /\ UNCHANGED <<disk, shell>> /\ Others

Exit(s, code) ==
    /\ shell' = [shell EXCEPT ![s].calls = <<>>, ![s].plans = <<>>, ![s].code = code]
    /\ core' = [core EXCEPT ![s] = FreshCore]

\* Go on with calls, each explained plan of a proposal with a call of its own.
GoOn(s, calls, plans) ==
    IF calls = <<>> THEN Exit(s, "0")
    ELSE /\ shell' = [shell EXCEPT ![s].calls = calls, ![s].plans = plans]
         /\ core' = [core EXCEPT ![s].answer = Nothing]

PreviewDone(s) ==
    LET h == shell[s]
    IN  IF ~h.line.apply THEN Exit(s, "0")
        ELSE IF Scripts[h.line.cmd].refuses /\ core[s].answer.errors THEN Exit(s, "2")
        ELSE GoOn(s, Tail(h.calls), h.plans)
ApplyDoneSilent(s) == Exit(s, "0")
ApplyDone(s) == Exit(s, IF core[s].answer.applied THEN "0" ELSE "2")
RollbackDone(s) == Exit(s, IF core[s].answer.ok THEN "0" ELSE "2")
ProposalDone(s) ==
    LET plans == SetToSeq(Accepted(core[s].answer.of))
    IN  GoOn(s, [i \in DOMAIN plans |-> "explain.patch"], plans)
CallDone(s) ==
    LET h == shell[s]
    IN  GoOn(s, Tail(h.calls), IF Head(h.calls) = "explain.patch" THEN Tail(h.plans) ELSE h.plans)

Returns(s) ==
    /\ core[s].answer # Nothing
    /\ LET k == core[s].answer.k
       IN  \/ k = "error" /\ Exit(s, "1")
           \/ k = "preview" /\ PreviewDone(s)
           \/ k = "apply" /\ ApplyDone(s)
           \/ k = "rollback" /\ RollbackDone(s)
           \/ k = "candidates" /\ ProposalDone(s)
           \/ k \notin {"error", "preview", "apply", "rollback", "candidates"} /\ CallDone(s)
    /\ UNCHANGED disk /\ Others

\* The user may end it at any time.
Interrupted(s) == shell[s].calls # <<>> /\ Exit(s, "killed") /\ UNCHANGED disk /\ Others

-----------------------------------------------------------------------------
ASSUME ProcsAssumption ==
    Procs = Shells \cup {"daemon"} /\ "daemon" \notin Shells
ASSUME BudgetsAssumption ==
    \A b \in Budgets : b.commits \in Nat /\ b.seconds \in Nat

\* Only a command that previews can be asked to apply.
ASSUME LinesAssumption ==
    \A b \in Budgets : \A l \in b.lines :
       /\ l.cmd \in DOMAIN Scripts /\ l.apply \in BOOLEAN /\ l.mem \in Nat /\ IsSequence(l.plan)
       /\ l.apply => Scripts[l.cmd].calls = <<"workspace.open", "patch.preview", "patch.apply">>

Init == ServiceInit /\ ExtensionInit /\ shell = [s \in Shells |-> NoShell]
Next ==
    /\ UNCHANGED budget
    /\ \/ Tick /\ Others /\ UNCHANGED shell
       \/ ExtensionNext /\ UNCHANGED shell
       \/ \E p \in Procs : Handle(p) /\ Others /\ UNCHANGED shell
       \/ \E s \in Shells : Run(s) \/ Makes(s) \/ Returns(s) \/ Interrupted(s)
Spec == Init /\ [][Next]_vars

\* Node's event loop goes on, and the daemon until it hangs or dies; the user
\* and the command lines need not.
Same == UNCHANGED <<budget, shell>>
Fairness ==
    /\ WF_vars((DaemonSteps \/ Terminated) /\ Same)
    /\ WF_vars(Handle("daemon") /\ Others /\ Same)
    /\ WF_vars(Receive /\ Same) /\ WF_vars(Exits /\ Same) /\ WF_vars(Kill /\ Same)
    /\ WF_vars((\E i \in DOMAIN client.pending : TimesOut(i)) /\ Same)
FairSpec == Spec /\ Fairness

-----------------------------------------------------------------------------
(* Properties.                                                                *)
\* Every variable has its type; a name in the workspace was there at first or is
\* what an operation of a committed plan, a rename or an extraction, was told to
\* bring in, whatever has been rolled back since.
TypeOK ==
    /\ text.names \subseteq FirstText.names \cup UNION {NewNames(made[i].plan) : i \in DOMAIN made}
    /\ clock \in 0..budget.seconds
    /\ Len(made) <= budget.commits /\ journal \subseteq DOMAIN made
    /\ daemon \in {"off", "up", "hung", "gone", "failed"}
    /\ DOMAIN client.pending \subseteq 1..(client.nextId - 1)
    /\ \A i \in DOMAIN client.pending : flow[client.pending[i]].id = i

\* A promise is settled by the answer to its own request, whatever was given
\* up, answered late or failed before.
AnsweredByOwn ==
    \A w \in Flows : "for" \in DOMAIN flow[w].got => flow[w].got.for = flow[w].id

\* No flow awaits a promise for ever: each is settled by the answer, by the
\* death of the daemon or by its timer, which a reply and an exit must not both
\* disarm.
EverySettles == \A w \in Flows : []<>(flow[w].stage = "idle" \/ flow[w].got # Nothing)

\* Once told to shut down the client does not leave the daemon running, even
\* when it has stopped answering.
Reaped == client.shutting ~> daemon \notin {"up", "hung"}

\* What the extension has committed is a plan whose preview its user was shown
\* and confirmed, and it changes something unless the workspace is no longer
\* what was shown, or rust-analyzer is asked and may answer otherwise than before.
OnlyConfirmed ==
    \A i \in DOMAIN made : made[i].by = "daemon" =>
       /\ made[i].seen.plan = made[i].plan
       /\ made[i].before = made[i].after =>
            made[i].seen.base # made[i].before \/ AsksServer(made[i].plan)

\* A plan of the model that is committed, in part even, names nothing that was
\* never in the workspace.
NothingInvented ==
    \A i \in DOMAIN made : made[i].seen.proposed =>
       \A j \in DOMAIN made[i].plan :
          Cites(made[i].plan[j]) \in FirstText.names \cup {""} \cup UNION {made[k].after.names : k \in 1..(i - 1)}

\* Reported as applied there is a commit, reported as rejected there is none;
\* a command line that was not asked to apply makes none.  Of a request that
\* failed nothing is known.
Commits(p, id) == {i \in DOMAIN made : made[i].by = p /\ made[i].req = id}
ReportsAreTrue ==
    /\ \A w \in Windows : /\ flow[w].told = "applied" => Commits("daemon", flow[w].about) # {}
                          /\ flow[w].told = "rejected" => Commits("daemon", flow[w].about) = {}
    /\ \A s \in Shells :
         LET C == Commits(s, shell[s].run)
         IN  /\ shell[s].code = "0" => (C # {}) = shell[s].line.apply
             /\ shell[s].code \in {"1", "2"} => C = {}

\* What a limited history leaves out is no newer, to the second, than what it
\* shows.
NewestShown ==
    \A p \in Procs : core[p].answer.k = "history" =>
       LET a == core[p].answer
       IN  \A i \in a.snap \ ToSet(a.ids), j \in ToSet(a.ids) : made[i].at <= made[j].at
=============================================================================
