------------------------------ MODULE Service ------------------------------
(* The core as its clients see it (handlers.rs): calls on a shared workspace. *)
(*                                                                            *)
(* Every process has a core of its own, which executes one call at a time in  *)
(* two steps: it begins, when it reads the workspace and the journal, and it  *)
(* finishes with an answer.  The workspace is one text: the names of its      *)
(* functions and types, and a rest that no handler reads.  How an operation   *)
(* rewrites a text is module Refactor's, how a commit reaches the disk        *)
(* PatchTxn's, how the gate judges it Validate's.                             *)
EXTENDS Proposals, Memory

CONSTANTS Procs,          \* the processes that have a core
          FirstText,      \* the workspace at first
          Types,          \* the names that are types, and of no function
          Planner(_, _),  \* how far the planner takes an operation on a text
          Rest(_, _),     \* the rest of a text that an operation has rewritten
          ModelAnswers,   \* what the language model may answer
          Budgets         \* the bounds a behaviour may have, see budget

VARIABLES text,       \* the workspace
          clock,      \* the time in seconds, all that a journal entry keeps
          made,       \* every commit, in order
          journal,    \* those that have a journal entry
          core,       \* the core of every process
          budget      \* the bounds of this behaviour: commits, seconds, requests,
                      \* timers that fire early, command lines and how many
disk == <<text, clock, made, journal>>

IsSequence(s) == s \in Seq(ToSet(s))
ASSUME ModelAnswersAssumption ==
    \A a \in ModelAnswers : IsSequence(a.plans) /\ \A plan \in ToSet(a.plans) : IsSequence(plan)

NoText == [names |-> {}, rest |-> "none"]
FnsOf(t) == t.names \ Types
TypesOf(t) == t.names \cap Types

\* A map with one more entry, or another value for the key.
With(f, key, value) == [x \in DOMAIN f \cup {key} |-> IF x = key THEN value ELSE f[x]]

-----------------------------------------------------------------------------
(* Calls and what the handlers compute.                                       *)
\* seen is a note of what the user was shown before, no part of the call.
NotSeen == [plan |-> <<>>, base |-> NoText, proposed |-> FALSE]
Call(m, plan) == [m |-> m, id |-> 0, plan |-> plan, mem |-> 0, commit |-> 0,
                  base |-> NoText, snap |-> {}, seen |-> NotSeen]
NoCall == Call("none", <<>>)

Nothing == [k |-> "nothing"]
Error == [k |-> "error"]
Done == [k |-> "done"]

FreshCore == [open |-> FALSE, fns |-> {}, types |-> {}, rules |-> FALSE,
              cache |-> <<>>, call |-> NoCall, answer |-> Nothing]

\* An operation rewrites the files that its filter and its own checks let it
\* rewrite, all, some or none of those that have what it names, and may report
\* errors beside; where what it names is not there it rewrites none.
Finds(op, t) == op.op = "extract_function" \/ Cites(op) \in t.names
NamesAfter(op, names, scope) ==
    LET kept == IF scope = "all" THEN names \ {Cites(op)} ELSE names
    IN  CASE op.op = "rename_function" -> kept \cup {op.new_name}
          [] op.op = "inline_function" -> kept
          [] op.op = "extract_function" -> names \cup {op.new_name}
          [] OTHER -> names

\* Of a typed rename rust-analyzer decides, each time it is asked: an error, or
\* that a name, or one that is no function's or type's, becomes the new one.
TypedNames(op, names) ==
    {names, names \cup {op.new_name}} \cup {(names \ {n}) \cup {op.new_name} : n \in names}

\* What an operation, and a plan, may make of a text.
Outcome(t, errors) == [text |-> t, errors |-> errors]
Rewritten(op, t, names) == [names |-> names, rest |-> Rest(op, t)]
Edits(op, t) ==
    IF op.op = "rename_function_typed"
    THEN {Outcome(t, e) : e \in BOOLEAN}
         \cup {Outcome(Rewritten(op, t, N), FALSE) : N \in TypedNames(op, t.names)}
    ELSE LET p == Planner(op, t)
         IN  {Outcome(IF p.scope = "none" \/ ~Finds(op, t) THEN t
                      ELSE Rewritten(op, t, NamesAfter(op, t.names, p.scope)), p.errors)}
Then(op, o) == {Outcome(e.text, o.errors \/ e.errors) : e \in Edits(op, o.text)}
Shadows(plan, t) ==
    FoldLeft(LAMBDA S, op : UNION {Then(op, o) : o \in S}, {Outcome(t, FALSE)}, plan)

AsksServer(plan) == \E op \in ToSet(plan) : op.op = "rename_function_typed"
\* The names a plan may bring into a text.
Naming == {"rename_function", "rename_function_typed", "extract_function"}
NewNames(plan) == {op.new_name : op \in {op \in ToSet(plan) : op.op \in Naming}}

\* The entries of some commits as the journal has them.
Entry(i) == [id |-> i, at |-> made[i].at, label |-> "", profile |-> "default",
             tags |-> [j \in DOMAIN made[i].plan |-> made[i].plan[j].op],
             files |-> IF made[i].before = made[i].after THEN {} ELSE {"file"}]
Entries(S) == {Entry(i) : i \in S}
Ids(h) == [i \in DOMAIN h |-> h[i].id]

-----------------------------------------------------------------------------
(* dispatch, and one action per handler.                                      *)
Free(p) == core[p].call = NoCall /\ core[p].answer = Nothing
Began(k, c) == [k EXCEPT !.call = [c EXCEPT !.base = text, !.snap = journal]]

\* The answer, with the id of its request.
Answered(k, a) == [k EXCEPT !.call = NoCall, !.answer = With(a, "for", k.call.id)]
ReplyWith(p, k, a) == core' = [core EXCEPT ![p] = Answered(k, a)]
Reply(p, a) == ReplyWith(p, core[p], a)
Calls(p, m) == core[p].call.m = m

Initialize(p) == Calls(p, "session.initialize") /\ Reply(p, Done) /\ UNCHANGED disk
Open(p) ==
    /\ Calls(p, "workspace.open")
    /\ ReplyWith(p, [core[p] EXCEPT !.open = TRUE], Done) /\ UNCHANGED disk

\* Every other call names a workspace, which must be open.
On(p, m) == Calls(p, m) /\ core[p].open

\* Facts are added for what there is, and none is removed.
Index(p) ==
    /\ On(p, "workspace.index")
    /\ ReplyWith(p, [core[p] EXCEPT !.fns = @ \cup FnsOf(core[p].call.base),
                                    !.types = @ \cup TypesOf(core[p].call.base)], Done)
    /\ UNCHANGED disk
Load(p) ==
    /\ On(p, "rules.load")
    /\ ReplyWith(p, [core[p] EXCEPT !.rules = TRUE], Done) /\ UNCHANGED disk
Evaluate(p) == On(p, "rules.evaluate") /\ Reply(p, Done) /\ UNCHANGED disk
Query(p) ==
    /\ On(p, "graph.query")
    /\ Reply(p, [k |-> "functions", names |-> core[p].fns]) /\ UNCHANGED disk
ProposeFacts(p) ==
    /\ On(p, "llm.propose") \/ On(p, "llm.refine")
    /\ \E a \in {Done, Error} : Reply(p, a)
    /\ UNCHANGED disk

\* The hints are the newest commits, without those whose entry has gone since.
\* The model is asked once for a prompt, and its answer kept before it is read;
\* a provider that fails leaves nothing.
Hints(c) ==
    IF c.mem = 0 THEN {<<>>}
    ELSE {SelectSeq(Ids(h), LAMBDA i : i \in journal) : h \in Histories(Entries(c.snap), All, c.mem)}
ModelAnswer(k, prompt) == IF prompt \in DOMAIN k.cache THEN {k.cache[prompt]} ELSE ModelAnswers
ProposePatch(p) ==
    /\ On(p, "llm.propose_patch")
    /\ \E hints \in Hints(core[p].call) :
         LET k == core[p]
             prompt == <<k.fns, k.types, hints>>
         IN  \/ prompt \notin DOMAIN k.cache /\ Reply(p, Error)
             \/ \E a \in ModelAnswer(k, prompt) :
                  ReplyWith(p, [k EXCEPT !.cache = With(@, prompt, a)],
                            IF ~a.json THEN Error
                            ELSE [k |-> "candidates", of |-> Candidates(a, k.fns, k.types)])
    /\ UNCHANGED disk

Preview(p) ==
    /\ On(p, "patch.preview")
    /\ LET c == core[p].call
       IN  \E o \in Shadows(c.plan, c.base) :
             Reply(p, [k |-> "preview", base |-> c.base, errors |-> o.errors, some |-> o.text # c.base])
    /\ UNCHANGED disk

\* Rejected by the gate, by the preflight when the file is not what was read,
\* or by a write that failed.  A plan that changes nothing writes nothing and
\* is a commit all the same; a journal that cannot be written leaves it one.
ApplyRejected(p) ==
    /\ On(p, "patch.apply")
    /\ Reply(p, [k |-> "apply", applied |-> FALSE]) /\ UNCHANGED disk
ApplyCommitted(p) ==
    /\ On(p, "patch.apply") /\ Len(made) < budget.commits
    /\ LET c == core[p].call
       IN  \E o \in Shadows(c.plan, c.base) :
             /\ o.text # c.base => text = c.base
             /\ text' = IF o.text = c.base THEN text ELSE o.text
             /\ made' = Append(made, [by |-> p, req |-> c.id, at |-> clock, plan |-> c.plan,
                                      before |-> c.base, after |-> o.text, seen |-> c.seen])
    /\ journal' \in {journal, journal \cup {Len(made')}}
    /\ Reply(p, [k |-> "apply", applied |-> TRUE])
    /\ UNCHANGED clock

\* Refused when the entry is not there or the file has drifted since.
RollbackAllowed(c) ==
    /\ c.commit \in c.snap
    /\ made[c.commit].before # made[c.commit].after => text = made[c.commit].after
RolledBack(p) ==
    /\ On(p, "patch.rollback") /\ RollbackAllowed(core[p].call)
    /\ LET i == core[p].call.commit
       IN  /\ text' = IF made[i].before = made[i].after THEN text ELSE made[i].before
           /\ journal' = journal \ {i}
    /\ Reply(p, [k |-> "rollback", ok |-> TRUE]) /\ UNCHANGED <<clock, made>>
RollbackRefused(p) ==
    /\ On(p, "patch.rollback") /\ ~RollbackAllowed(core[p].call)
    /\ Reply(p, [k |-> "rollback", ok |-> FALSE]) /\ UNCHANGED disk

Explain(p) ==
    /\ On(p, "explain.patch")
    /\ \E v \in {"accepted", "rejected", "not_proven"} : Reply(p, [k |-> "verdict", of |-> v])
    /\ UNCHANGED disk

\* The directory is read first, then the entries that are still there.
Listed(c) == Entries(c.snap \cap journal)
History(p) ==
    /\ On(p, "memory.history")
    /\ LET c == core[p].call
       IN  \E h \in Histories(Listed(c), All, c.mem) :
             Reply(p, [k |-> "history", ids |-> Ids(h), snap |-> c.snap \cap journal])
    /\ UNCHANGED disk
Show(p) ==
    /\ On(p, "memory.get")
    /\ Reply(p, IF core[p].call.commit \in journal THEN Done ELSE Error) /\ UNCHANGED disk
Statistics(p) ==
    /\ On(p, "memory.stats")
    /\ Reply(p, [k |-> "stats", of |-> Stats(Listed(core[p].call))]) /\ UNCHANGED disk

Handle(p) ==
    \/ Initialize(p) \/ Open(p) \/ Index(p) \/ Load(p) \/ Evaluate(p) \/ Query(p)
    \/ ProposeFacts(p) \/ ProposePatch(p) \/ Preview(p) \/ ApplyRejected(p) \/ ApplyCommitted(p)
    \/ RolledBack(p) \/ RollbackRefused(p) \/ Explain(p) \/ History(p) \/ Show(p) \/ Statistics(p)

Tick == clock < budget.seconds /\ clock' = clock + 1 /\ UNCHANGED <<text, made, journal, core>>

ServiceInit ==
    /\ text = FirstText /\ clock = 0 /\ made = <<>> /\ journal = {}
    /\ core = [p \in Procs |-> FreshCore]
    /\ budget \in Budgets
=============================================================================
