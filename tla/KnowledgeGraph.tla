--------------------------- MODULE KnowledgeGraph ---------------------------
(***************************************************************************)
(* The knowledge of one workspace: the graph store (aa-graph), the Datalog *)
(* evaluator (aa-rules/src/eval.rs), the handlers that write facts         *)
(* (workspace.index, graph.ingestFact, rules.load, rules.evaluate) and the *)
(* LLM orchestrator's propose and refine loops (aa-llm) with their cache.  *)
(*                                                                         *)
(* with_workspace holds the workspace's mutex through a request, so one    *)
(* request runs at a time; but a request is many insertions, and each of   *)
(* its errors leaves behind what it has inserted so far.                   *)
(*                                                                         *)
(* Identifiers, names and predicates are opaque; the order of a batch is a *)
(* choice; prompts are what they are rendered from.                        *)
(***************************************************************************)
EXTENDS Integers, Sequences

CONSTANTS
  Pred,        \* predicate names
  Entity,      \* those that declare an entity: function, struct_def, ...
  Atom, Var,   \* the constants and the variables of atoms
  Sources,     \* what an analyzer may lower the workspace to: sets of ground atoms
  Ingests,     \* what a client may ingest: sets of facts
  Packs,       \* what a client may load: ground facts and rules
  Garbage,     \* an answer of the LLM that does not parse
  Answers,     \* the others: sets of proposed ground atoms
  Priors,      \* rejections a client may hand to llm.refine: sequences of ground atoms
  Rounds,      \* what a client may give as max_rounds
  Anchor, Hops,  \* where the context of a prompt starts and how far it goes
  MaxRequests, \* bound: requests in a behaviour
  MaxFaults    \* bound: failing calls of the provider

Layer == {"observed", "inferred", "candidate", "validated", "constraint"}
Ground == [pred : Pred, args : Seq(Atom)]
Pattern == [pred : Pred, args : Seq(Atom \cup Var)]
Rule == [head : Pattern, body : SUBSET Pattern]
Fact == [pred : Pred, args : Seq(Atom), layer : Layer]

ASSUME TermAssumption == Atom \cap Var = {}
ASSUME EntityAssumption == Entity \subseteq Pred
ASSUME InputAssumption ==
  /\ \A lowered \in Sources : lowered \subseteq Ground
  /\ \A facts \in Ingests : facts \subseteq Fact
  /\ \A pack \in Packs : pack.facts \subseteq Ground /\ pack.rules \subseteq Rule
  /\ \A answer \in Answers : answer \subseteq Ground
  /\ Garbage \notin Answers
  /\ Priors \subseteq Seq(Ground)
  /\ Rounds \subseteq Nat
ASSUME ContextAssumption == Anchor \in Atom /\ Hops \in Nat
ASSUME BoundAssumption == MaxRequests \in Nat /\ MaxFaults \in Nat

VARIABLES
  graph,   \* GraphStore: each fact, and (history) who first wrote it and in which pass
  rules,   \* WorkspaceState.rules
  cache,   \* ResponseCache: prompt -> answer
  pass,    \* history: passes of the evaluator that derived something
  req,     \* the request in progress: its local variables
  requests, faults  \* how much of each bound is used

vars == <<graph, rules, cache, pass, req, requests, faults>>

Author == {"client", "analyzer", "rule", "llm"}
Kind == {"none", "ingest", "load", "index", "evaluate", "propose", "refine"}
Result == {"none", "ok", "failed", "converged", "exhausted"}

Idle == [pc |-> "idle", kind |-> "none",
         todo |-> {},        \* facts or proposals still to go through
         pack |-> {},        \* the rules of a load
         context |-> {},     \* facts of the prompt
         carried |-> <<>>,   \* rejections rendered into the prompt
         asked |-> {},       \* history: this request's prompts
         known |-> {},       \* known_entity_ids, taken before a round's insertions
         answer |-> {},      \* history: the last answer
         clean |-> TRUE,     \* no rejection in this round
         round |-> 0, cap |-> 0, result |-> "none"]

Facts == DOMAIN graph

GroundOf(f) == [pred |-> f.pred, args |-> f.args]
AtLayer(a, layer) == [pred |-> a.pred, args |-> a.args, layer |-> layer]
Grounds == {GroundOf(f) : f \in Facts}
ArgsOf(a) == {a.args[i] : i \in DOMAIN a.args}

Init ==
  /\ graph = [f \in {} |-> [by |-> "client", at |-> 0]]
  /\ rules = {}
  /\ cache = [p \in {} |-> Garbage]
  /\ pass = 0 /\ req = Idle /\ requests = 0 /\ faults = 0

-----------------------------------------------------------------------------
(* GraphStore::insert. *)

\* The first fact of a predicate has fixed its arity.
Fits(f) == \A g \in Facts : g.pred = f.pred => Len(g.args) = Len(f.args)

AuthorOf(kind) ==
  CASE kind = "index" -> "analyzer"
    [] kind = "evaluate" -> "rule"
    [] kind \in {"propose", "refine"} -> "llm"
    [] OTHER -> "client"

\* The same atom at the same layer is one fact; whoever wrote it first has written it.
Put(f) ==
  graph' = [g \in Facts \cup {f} |->
              IF g \in Facts THEN graph[g]
              ELSE [by |-> AuthorOf(req.kind), at |-> IF req.kind = "evaluate" THEN pass ELSE 0]]

-----------------------------------------------------------------------------
(* Requests. *)

Start(r) ==
  /\ req.pc = "idle" /\ requests < MaxRequests
  /\ requests' = requests + 1
  /\ req' = r
  /\ UNCHANGED <<graph, rules, cache, pass, faults>>

Answer(result) == req' = [req EXCEPT !.pc = "reply", !.result = result, !.todo = {}]

Ingest ==
  \E facts \in Ingests :
    Start([Idle EXCEPT !.pc = "insert", !.kind = "ingest", !.todo = facts])

Load ==
  \E pack \in Packs :
    Start([Idle EXCEPT !.pc = "insert", !.kind = "load", !.pack = pack.rules,
                       !.todo = {AtLayer(a, "observed") : a \in pack.facts}])

Index ==
  \E lowered \in Sources :
    Start([Idle EXCEPT !.pc = "insert", !.kind = "index",
                       !.todo = {AtLayer(a, "observed") : a \in lowered}])

Evaluate == Start([Idle EXCEPT !.pc = "solve", !.kind = "evaluate"])

\* Mutant of InsertFact: the arity is not looked at.
InsertFactUnchecked(f) ==
  /\ req.pc = "insert" /\ f \in req.todo
  /\ Put(f)
  /\ req' = [req EXCEPT !.todo = @ \ {f}]
  /\ UNCHANGED <<rules, cache, pass, requests, faults>>

InsertFact(f) ==
  /\ req.pc = "insert" /\ f \in req.todo /\ Fits(f)
  /\ Put(f)
  /\ req' = [req EXCEPT !.todo = @ \ {f}]
  /\ UNCHANGED <<rules, cache, pass, requests, faults>>

\* An arity error is one line of an index report, and the end of anything else:
\* what has been inserted stays, and the rules of a load are not added.
ArityError(f) ==
  /\ req.pc = "insert" /\ f \in req.todo /\ ~ Fits(f)
  /\ \/ req.kind = "index" /\ req' = [req EXCEPT !.todo = @ \ {f}]
     \/ req.kind # "index" /\ Answer("failed")
  /\ UNCHANGED <<graph, rules, cache, pass, requests, faults>>

\* Mutant of Inserted: the rules are run once.
InsertedOnce ==
  /\ req.pc = "insert" /\ req.todo = {}
  /\ Answer("ok")
  /\ rules' = rules \cup req.pack
  /\ UNCHANGED <<graph, cache, pass, requests, faults>>

Inserted ==
  /\ req.pc = "insert" /\ req.todo = {}
  /\ \/ req.kind = "evaluate" /\ req' = [req EXCEPT !.pc = "solve"]
     \/ req.kind # "evaluate" /\ Answer("ok")
  /\ rules' = rules \cup req.pack
  /\ UNCHANGED <<graph, cache, pass, requests, faults>>

-----------------------------------------------------------------------------
(* rules.evaluate: the naive fixpoint. *)

VarsOf(a) == ArgsOf(a) \cap Var
BodyVars(r) == UNION {VarsOf(b) : b \in r.body}

\* The atom a under the binding s.
Bind(a, s) ==
  [pred |-> a.pred,
   args |-> [i \in DOMAIN a.args |-> IF a.args[i] \in Var THEN s[a.args[i]] ELSE a.args[i]]]

\* Mutant of Solutions: one atom of the body is enough.
SolutionsAny(r, known) ==
  {s \in [BodyVars(r) -> Atom] :
     (\E b \in r.body : Bind(b, s) \in known) \/ r.body = {}}

\* The bindings under which the whole body holds, whatever the layers of its facts.
Solutions(r, known) ==
  {s \in [BodyVars(r) -> Atom] : \A b \in r.body : Bind(b, s) \in known}

\* A variable of the head that the body does not bind.
Unsafe(r) == ~ (VarsOf(r.head) \subseteq BodyVars(r))

Heads(r, known) == {AtLayer(Bind(r.head, s), "inferred") : s \in Solutions(r, known)}

\* Mutant of Solve: what the graph holds already is derived again.
SolveAgain ==
  LET batch == UNION {Heads(r, Grounds) : r \in {x \in rules : ~ Unsafe(x)}} IN
  /\ req.pc = "solve"
  /\ \/ batch = {} /\ Answer("ok") /\ UNCHANGED pass
     \/ /\ batch # {}
        /\ req' = [req EXCEPT !.pc = "insert", !.todo = batch]
        /\ pass' = IF batch \subseteq Facts THEN pass ELSE pass + 1
  /\ UNCHANGED <<graph, rules, cache, requests, faults>>

\* One pass over all rules: an unbound head variable ends the request, a pass that
\* derives nothing new ends the loop.
Solve ==
  LET stuck == \E r \in rules : Unsafe(r) /\ Solutions(r, Grounds) # {}
      batch == (UNION {Heads(r, Grounds) : r \in rules}) \ Facts
  IN
  /\ req.pc = "solve"
  /\ \/ stuck /\ Answer("failed") /\ UNCHANGED pass
     \/ ~ stuck /\ batch = {} /\ Answer("ok") /\ UNCHANGED pass
     \/ /\ ~ stuck /\ batch # {}
        /\ req' = [req EXCEPT !.pc = "insert", !.todo = batch]
        /\ pass' = pass + 1
  /\ UNCHANGED <<graph, rules, cache, requests, faults>>

-----------------------------------------------------------------------------
(* explain.patch: the evidence about the identifiers a plan touches. *)

Touches(a, anchors) == ArgsOf(a) \cap anchors # {}

\* A premise is the atom, and not the fact: the tracer calls every premise observed.
Activation(r, s) ==
  [rule |-> r, head |-> AtLayer(Bind(r.head, s), "inferred"),
   premises |-> {AtLayer(Bind(b, s), "observed") : b \in r.body}]

\* Every rule under every binding that holds now; a rule with an unbound head is skipped.
Activations ==
  UNION {{Activation(r, s) : s \in Solutions(r, Grounds)} : r \in {x \in rules : ~ Unsafe(x)}}

\* Facts cited: candidates come with the request, and not from the graph.
Cited(anchors) == {f \in Facts : f.layer # "candidate" /\ Touches(f, anchors)}

\* Activations cited: of the head or of a premise.
Traced(anchors) ==
  {d \in Activations : \E f \in d.premises \cup {d.head} : Touches(f, anchors)}

-----------------------------------------------------------------------------
(* llm.propose and llm.refine. *)

Trusted == {f \in Facts : f.layer \in {"observed", "inferred"}}

\* ContextSelector::k_hop: the trusted facts within Hops of the anchor.
Context(trusted) ==
  LET touching(ids) == {f \in trusted : ArgsOf(f) \cap ids # {}}
      reach[n \in 0..Hops] ==
        IF n = 0 THEN {Anchor}
        ELSE reach[n - 1] \cup UNION {ArgsOf(f) : f \in touching(reach[n - 1])}
  IN  touching(reach[Hops])

\* Mutant of EntityIds: names count as identifiers.
EntityIdsAndNames == UNION {ArgsOf(f) : f \in {g \in Facts : g.pred \in Entity}}

\* known_entity_ids: the first arguments of entity facts of any layer.
EntityIds == {f.args[1] : f \in {g \in Facts : g.pred \in Entity /\ g.args # <<>>}}

Propose ==
  Start([Idle EXCEPT !.pc = "ask", !.kind = "propose", !.cap = 1,
                     !.context = Context(Trusted)])

\* At least one round. The context is taken once, before the loop.
Refine ==
  \E n \in Rounds, prior \in Priors :
    Start([Idle EXCEPT !.pc = "ask", !.kind = "refine", !.cap = IF n < 1 THEN 1 ELSE n,
                       !.context = Context(Trusted), !.carried = prior])

Prompt == [schema |-> req.kind, context |-> req.context, carried |-> req.carried]

\* The answer a is parsed: an error ends the request.
Read(a) ==
  LET r == [req EXCEPT !.asked = @ \cup {Prompt}, !.round = @ + 1, !.clean = TRUE] IN
  IF a = Garbage
    THEN req' = [r EXCEPT !.pc = "reply", !.result = "failed"]
    ELSE req' = [r EXCEPT !.pc = "resolve", !.todo = a, !.answer = a, !.known = EntityIds]

\* A prompt that was answered before gets the same answer.
Recall ==
  /\ req.pc = "ask" /\ Prompt \in DOMAIN cache
  /\ Read(cache[Prompt])
  /\ UNCHANGED <<graph, rules, cache, pass, requests, faults>>

\* A new one goes to the provider, whose answer is cached before it is parsed.
Ask(a) ==
  /\ req.pc = "ask" /\ Prompt \notin DOMAIN cache
  /\ cache' = [p \in DOMAIN cache \cup {Prompt} |-> IF p = Prompt THEN a ELSE cache[p]]
  /\ Read(a)
  /\ UNCHANGED <<graph, rules, pass, requests, faults>>

ProviderFails ==
  /\ req.pc = "ask" /\ Prompt \notin DOMAIN cache
  /\ faults < MaxFaults
  /\ faults' = faults + 1
  /\ Answer("failed")
  /\ UNCHANGED <<graph, rules, cache, pass, requests>>

\* The proposal p names known entities only.
Resolves(p) == p.args # <<>> /\ ArgsOf(p) \subseteq req.known

\* Mutant of Accept: the proposal is written as an inferred fact.
AcceptInferred(p) ==
  /\ req.pc = "resolve" /\ p \in req.todo
  /\ Resolves(p) /\ Fits(p)
  /\ Put(AtLayer(p, "inferred"))
  /\ req' = [req EXCEPT !.todo = @ \ {p}]
  /\ UNCHANGED <<rules, cache, pass, requests, faults>>

Accept(p) ==
  /\ req.pc = "resolve" /\ p \in req.todo
  /\ Resolves(p) /\ Fits(p)
  /\ Put(AtLayer(p, "candidate"))
  /\ req' = [req EXCEPT !.todo = @ \ {p}]
  /\ UNCHANGED <<rules, cache, pass, requests, faults>>

\* Mutants of Reject: the rejection is not carried; it does not count against the round.
RejectForgotten(p) ==
  /\ req.pc = "resolve" /\ p \in req.todo
  /\ ~ (Resolves(p) /\ Fits(p))
  /\ req' = [req EXCEPT !.todo = @ \ {p}, !.clean = FALSE]
  /\ UNCHANGED <<graph, rules, cache, pass, requests, faults>>

RejectUncounted(p) ==
  /\ req.pc = "resolve" /\ p \in req.todo
  /\ ~ (Resolves(p) /\ Fits(p))
  /\ req' = [req EXCEPT !.todo = @ \ {p}, !.carried = Append(@, p)]
  /\ UNCHANGED <<graph, rules, cache, pass, requests, faults>>

\* A hallucination, or an arity error: carried into the next round's prompt.
Reject(p) ==
  /\ req.pc = "resolve" /\ p \in req.todo
  /\ ~ (Resolves(p) /\ Fits(p))
  /\ req' = [req EXCEPT !.todo = @ \ {p}, !.carried = Append(@, p), !.clean = FALSE]
  /\ UNCHANGED <<graph, rules, cache, pass, requests, faults>>

RoundDone ==
  /\ req.pc = "resolve" /\ req.todo = {}
  /\ \/ req.kind = "propose" /\ Answer("ok")
     \/ req.kind = "refine" /\ req.clean /\ Answer("converged")
     \/ /\ req.kind = "refine" /\ ~ req.clean /\ req.round < req.cap
        /\ req' = [req EXCEPT !.pc = "ask"]
     \/ /\ req.kind = "refine" /\ ~ req.clean /\ req.round >= req.cap
        /\ Answer("exhausted")
  /\ UNCHANGED <<graph, rules, cache, pass, requests, faults>>

Reply ==
  /\ req.pc = "reply"
  /\ req' = Idle
  /\ UNCHANGED <<graph, rules, cache, pass, requests, faults>>

-----------------------------------------------------------------------------

Quiet == req.pc = "idle" /\ requests = MaxRequests /\ UNCHANGED vars

Work ==
  \/ \E f \in req.todo : InsertFact(f) \/ ArityError(f)
  \/ Inserted \/ Solve
  \/ Recall \/ ProviderFails
  \/ \E a \in Answers \cup {Garbage} : Ask(a)
  \/ \E p \in req.todo : Accept(p) \/ Reject(p)
  \/ RoundDone \/ Reply

Next ==
  \/ Ingest \/ Load \/ Index \/ Evaluate \/ Propose \/ Refine
  \/ Work
  \/ Quiet

Spec == Init /\ [][Next]_vars

\* A request is served to its end: nothing in these handlers waits for another
\* request, and a call of the provider returns.
FairSpec == Spec /\ WF_vars(Work)

-----------------------------------------------------------------------------
(* Properties. *)

Origin == [by : Author, at : Nat]

Request == [pc : {"idle", "insert", "solve", "ask", "resolve", "reply"}, kind : Kind,
            todo : SUBSET (Fact \cup Ground), pack : SUBSET Rule, context : SUBSET Fact,
            carried : Seq(Ground), asked : SUBSET [schema : Kind, context : SUBSET Fact,
                                                   carried : Seq(Ground)],
            known : SUBSET Atom, answer : SUBSET Ground, clean : BOOLEAN,
            round : Nat, cap : Nat, result : Result]

\* Every variable has its type, and a predicate has one arity.
TypeOK ==
  /\ Facts \subseteq Fact
  /\ \A f \in Facts : graph[f] \in Origin
  /\ \A f \in Facts : Fits(f)
  /\ rules \subseteq Rule
  /\ \A p \in DOMAIN cache : cache[p] \in Answers \cup {Garbage}
  /\ pass \in Nat
  /\ req \in Request
  /\ requests \in 0..MaxRequests /\ faults \in 0..MaxFaults

\* Some rule derives f from facts of S that were there before the pass that derived f.
DerivedFrom(f, S) ==
  \E r \in {x \in rules : ~ Unsafe(x)} : \E s \in [BodyVars(r) -> Atom] :
    /\ Bind(r.head, s) = GroundOf(f)
    /\ \A b \in r.body : \E g \in S : GroundOf(g) = Bind(b, s) /\ graph[g].at < graph[f].at

\* What the engine wrote is inferred and follows from the loaded rules, step by step
\* down to facts that somebody told, even when evaluations failed half-way through a
\* batch and rules were added in between (eval.rs:20-43; architecture.md:41-42).
InferredIsDerived ==
  \A f \in Facts :
    graph[f].by = "rule" => f.layer = "inferred" /\ DerivedFrom(f, Facts)

\* What somebody other than the engine has put into the graph.
Given == {GroundOf(f) : f \in {g \in Facts : graph[g].by # "rule"}}

\* M has every head of a safe rule whose body is in M.
Closed(M) == \A r \in rules : Unsafe(r) \/ \A s \in Solutions(r, M) : Bind(r.head, s) \in M

EvaluationSucceeded == req.pc = "reply" /\ req.kind = "evaluate" /\ req.result = "ok"

\* An evaluation that succeeds has left nothing to derive.
EvaluatedIsClosed == EvaluationSucceeded => \A r \in rules : Heads(r, Grounds) \subseteq Facts

\* It has computed the least model of the rules over the facts told, whatever earlier
\* evaluations have derived, failed at or were given no rules for: the graph is closed,
\* and nothing less that has the facts told is (eval.rs:22-42).
EvaluatedIsLeast ==
  /\ EvaluatedIsClosed
  /\ EvaluationSucceeded =>
       \A D \in SUBSET (Grounds \ Given) : Closed(Given \cup D) => Given \cup D = Grounds

\* Whatever an explanation cites of the engine's work it can account for, although the
\* tracer looks at the graph and the rules long after the evaluation (builder.rs:54-117,
\* trace.rs:7-14: "attribute every derived fact to a rule + premises").
CitedInferencesAreTraced ==
  \A anchors \in SUBSET Atom :
    \A f \in Cited(anchors) :
      graph[f].by = "rule" =>
        \E d \in Traced(anchors) :
          d.head = f /\ {GroundOf(p) : p \in d.premises} \subseteq Grounds

\* Somebody other than the LLM has told or derived that x is an entity.
Declared(x) ==
  \E g \in Facts : g.pred \in Entity /\ graph[g].by # "llm" /\ g.args # <<>> /\ g.args[1] = x

\* Whatever the LLM got into the graph is a candidate, and names only entities that a
\* client, an analyzer or a rule has declared: candidates never vouch for each other
\* (propose.rs:159-199).
CandidatesAreGrounded ==
  \A f \in Facts :
    graph[f].by = "llm" =>
      f.layer = "candidate" /\ \A x \in ArgsOf(f) : Declared(x)

\* A round never repeats a prompt of its own request: after a rejection the cache
\* cannot answer with the very list that was rejected (refine.rs:84-121, 204-205).
RoundsAskAnew == req.pc = "ask" => Prompt \notin req.asked

\* A refinement that says it has converged has all of its last answer in the graph,
\* and one that gives up has used all of its rounds (refine.rs:94-98, 199-207).
VerdictIsHonest ==
  /\ req.result = "converged" =>
       \A p \in req.answer : AtLayer(p, "candidate") \in Facts
  /\ req.result = "exhausted" => req.round = req.cap
  /\ req.round <= req.cap

\* The context taken before the first round is still the context in every later round,
\* although the rounds write to the graph (refine.rs:82, 120-121).
ContextIsFresh == req.pc \in {"ask", "resolve"} => req.context = Context(Trusted)

\* Every round of a refinement asks something new about the graph as it is: nothing
\* it is sent was computed before an earlier round in a way that has become stale.
RoundsAreFresh == ContextIsFresh /\ RoundsAskAnew

\* Every request is answered: the fixpoint and the refinement end (rules-dsl.md:4-5:
\* "Every program terminates").
RequestsEnd == req.pc # "idle" ~> req.pc = "idle"

-----------------------------------------------------------------------------
(* What the documents say and the code does not do. *)

\* architecture.md:112: accepted proposals "never cross into Inferred [...] without an
\* explicit human promotion step"; so nothing is inferred from candidates.
CandidatesStayOut ==
  \A f \in Facts :
    graph[f].by = "rule" => DerivedFrom(f, {g \in Facts : g.layer # "candidate"})
=============================================================================
