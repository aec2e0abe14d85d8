------------------------ MODULE KnowledgeGraph_proofs ------------------------
(***************************************************************************)
(* Proofs about KnowledgeGraph, for any predicates, atoms, rules, answers  *)
(* of the LLM and any values of the bounds.                                *)
(***************************************************************************)
EXTENDS KnowledgeGraph, TLAPS, WellFoundedInduction

-----------------------------------------------------------------------------
(* What the operators the actions are built from return. *)

\* A ground atom written at a layer is a fact, and has the atom's predicate and terms.
LEMMA AtLayerFact ==
  ASSUME NEW a \in Ground, NEW layer \in Layer
  PROVE  /\ AtLayer(a, layer) \in Fact
         /\ AtLayer(a, layer).pred = a.pred
         /\ AtLayer(a, layer).args = a.args
         /\ AtLayer(a, layer).layer = layer
         /\ GroundOf(AtLayer(a, layer)) = a
BY DEF AtLayer, GroundOf, Ground, Fact

\* A pattern all of whose variables are bound becomes a ground atom.
LEMMA BindGround ==
  ASSUME NEW a \in Pattern, NEW V, VarsOf(a) \subseteq V, NEW s \in [V -> Atom]
  PROVE  Bind(a, s) \in Ground
<1> DEFINE bound == [i \in DOMAIN a.args |->
                       IF a.args[i] \in Var THEN s[a.args[i]] ELSE a.args[i]]
<1>1. a.pred \in Pred /\ a.args \in Seq(Atom \cup Var)
  BY DEF Pattern
<1>2. DOMAIN a.args = 1..Len(a.args) /\ Len(a.args) \in Nat
  BY <1>1
<1>3. ASSUME NEW i \in DOMAIN a.args
      PROVE  bound[i] \in Atom
  <2>1. a.args[i] \in Atom \cup Var
    BY <1>1, <1>2
  <2>2. CASE a.args[i] \in Var
    <3>1. a.args[i] \in V
      BY <2>2 DEF VarsOf, ArgsOf
    <3>2. QED
      BY <2>2, <3>1
  <2>3. CASE a.args[i] \notin Var
    BY <2>1, <2>3
  <2>4. QED
    BY <2>2, <2>3
<1>4. bound \in [1..Len(a.args) -> Atom]
  BY <1>2, <1>3
<1>5. bound \in Seq(Atom)
  BY <1>2, <1>4
<1>6. QED
  BY <1>1, <1>5 DEF Bind, Ground

\* The heads a safe rule derives are inferred facts.
LEMMA HeadsAreFacts ==
  ASSUME NEW r \in Rule, ~ Unsafe(r), NEW known, NEW f \in Heads(r, known)
  PROVE  f \in Fact /\ f.layer = "inferred"
<1>1. PICK s \in Solutions(r, known) : f = AtLayer(Bind(r.head, s), "inferred")
  BY DEF Heads
<1>2. s \in [BodyVars(r) -> Atom] /\ r.head \in Pattern
  BY DEF Solutions, Rule
<1>3. Bind(r.head, s) \in Ground
  BY <1>2, BindGround DEF Unsafe
<1>4. QED
  BY <1>1, <1>3, AtLayerFact DEF Layer

\* A selected context holds trusted facts only.
LEMMA ContextIsTrusted ==
  ASSUME NEW T
  PROVE  Context(T) \subseteq T
BY DEF Context

\* The identifiers of the declared entities are atoms.
LEMMA EntityIdsAreAtoms == Facts \subseteq Fact => EntityIds \subseteq Atom
<1> SUFFICES ASSUME Facts \subseteq Fact, NEW f \in Facts, f.args # <<>>
             PROVE  f.args[1] \in Atom
  BY DEF EntityIds
<1>1. f.args \in Seq(Atom)
  BY DEF Fact
<1>2. QED
  BY <1>1

-----------------------------------------------------------------------------
(* Type correctness, and what each phase of a request is for. *)

Phased(r) ==
  /\ r.pc = "insert" =>
       r.kind \in {"ingest", "load", "index", "evaluate"} /\ r.todo \subseteq Fact
  /\ r.pc = "solve" => r.kind = "evaluate"
  /\ r.pc \in {"ask", "resolve"} => r.kind \in {"propose", "refine"}
  /\ r.pc = "resolve" => r.todo \subseteq Ground
  /\ r.pc # "reply" => r.result = "none"

Well(r) == r \in Request /\ Phased(r)

Typed == TypeOK /\ Phased(req)

\* Between two requests there is no request.
LEMMA IdleWell == Well(Idle) /\ Idle.result = "none" /\ Idle.pc = "idle"
BY DEF Well, Phased, Idle, Request, Kind, Result

\* The initial state has the types.
LEMMA TypedInit == Init => Typed
<1> SUFFICES ASSUME Init
             PROVE  Typed
  OBVIOUS
<1>1. Well(req)
  BY IdleWell DEF Init
<1>2. Facts = {} /\ DOMAIN cache = {}
  BY DEF Init, Facts
<1>3. QED
  BY <1>1, <1>2, BoundAssumption DEF Init, Typed, TypeOK, Well

\* A written fact joins the graph; the facts that were there keep their history.
LEMMA PutGraph ==
  ASSUME NEW f, Put(f)
  PROVE  /\ Facts' = Facts \cup {f}
         /\ \A g \in Facts : graph'[g] = graph[g]
         /\ f \notin Facts =>
              graph'[f] = [by |-> AuthorOf(req.kind),
                           at |-> IF req.kind = "evaluate" THEN pass ELSE 0]
BY DEF Put, Facts

\* It has the right types, if its arity fits.
LEMMA PutTyped ==
  ASSUME TypeOK, NEW f \in Fact, Fits(f), Put(f)
  PROVE  /\ (Facts \subseteq Fact)'
         /\ (\A g \in Facts : graph[g] \in Origin)'
         /\ (\A g \in Facts : Fits(g))'
<1>1. Facts' = Facts \cup {f}
  BY PutGraph
<1>2. (Facts \subseteq Fact)'
  BY <1>1 DEF TypeOK
<1>3. AuthorOf(req.kind) \in Author
  BY DEF AuthorOf, Author
<1>4. (\A g \in Facts : graph[g] \in Origin)'
  BY <1>1, <1>3, PutGraph DEF TypeOK, Origin
<1>5. (\A g \in Facts : Fits(g))'
  BY <1>1 DEF TypeOK, Fits
<1>6. QED
  BY <1>2, <1>4, <1>5

\* A step that only moves the request on keeps the types.
LEMMA LocalTyped ==
  ASSUME TypeOK, Well(req'), UNCHANGED <<graph, rules, cache>>,
         pass' \in Nat, requests' \in 0..MaxRequests, faults' \in 0..MaxFaults
  PROVE  Typed'
<1>1. Facts' = Facts
  BY DEF Facts
<1>2. (\A f \in Facts : Fits(f))'
  BY <1>1 DEF TypeOK, Fits
<1>3. QED
  BY <1>1, <1>2 DEF TypeOK, Typed, Well

\* A request arrives: it counts against the bound.
LEMMA StartTyped ==
  ASSUME TypeOK, NEW r, Well(r), Start(r)
  PROVE  Typed'
<1>1. requests' \in 0..MaxRequests
  BY BoundAssumption DEF Start, TypeOK
<1>2. QED
  BY <1>1, LocalTyped DEF Start, TypeOK

\* A request is answered.
LEMMA AnswerWell ==
  ASSUME req \in Request, NEW result \in Result, Answer(result)
  PROVE  Well(req')
BY DEF Answer, Well, Phased, Request

\* The answer of the LLM is read into the request.
LEMMA ReadWell ==
  ASSUME TypeOK, Phased(req), req.pc = "ask", NEW a \in Answers \cup {Garbage}, Read(a)
  PROVE  Well(req')
<1>1. req \in Request /\ req.kind \in {"propose", "refine"} /\ req.result = "none"
  BY DEF TypeOK, Phased
<1>2. Prompt \in [schema : Kind, context : SUBSET Fact, carried : Seq(Ground)]
  BY <1>1 DEF Prompt, Request
<1>3. EntityIds \subseteq Atom
  BY EntityIdsAreAtoms DEF TypeOK
<1>4. DEFINE r == [req EXCEPT !.asked = @ \cup {Prompt}, !.round = @ + 1, !.clean = TRUE]
<1>5. /\ r \in Request /\ r.kind = req.kind /\ r.result = "none"
  <2>1. /\ req.asked \cup {Prompt} \in
            SUBSET [schema : Kind, context : SUBSET Fact, carried : Seq(Ground)]
        /\ req.round + 1 \in Nat
    BY <1>1, <1>2 DEF Request
  <2>2. \A A \in SUBSET [schema : Kind, context : SUBSET Fact, carried : Seq(Ground)] :
        \A n \in Nat :
          LET q == [req EXCEPT !.asked = A, !.round = n, !.clean = TRUE] IN
          q \in Request /\ q.kind = req.kind /\ q.result = "none"
    BY <1>1 DEF Request
  <2>3. QED
    BY <2>1, <2>2, Zenon
<1>6. CASE a = Garbage
  <2>1. req' = [r EXCEPT !.pc = "reply", !.result = "failed"]
    BY <1>6 DEF Read
  <2> HIDE DEF r
  <2>2. QED
    BY <1>5, <2>1 DEF Well, Phased, Request, Result
<1>7. CASE a # Garbage
  <2>1. req' = [r EXCEPT !.pc = "resolve", !.todo = a, !.answer = a, !.known = EntityIds]
    BY <1>7 DEF Read
  <2>2. a \subseteq Ground
    BY <1>7, InputAssumption
  <2> HIDE DEF r
  <2>3. QED
    BY <1>1, <1>3, <1>5, <2>1, <2>2 DEF Well, Phased, Request
<1>8. QED
  BY <1>6, <1>7

\* Every request of a client starts in its phase.
LEMMA RequestsTyped ==
  ASSUME TypeOK, Ingest \/ Load \/ Index \/ Evaluate \/ Propose \/ Refine
  PROVE  Typed'
<1>1. CASE Ingest
  <2>1. PICK facts \in Ingests :
          Start([Idle EXCEPT !.pc = "insert", !.kind = "ingest", !.todo = facts])
    BY <1>1 DEF Ingest
  <2>2. facts \subseteq Fact
    BY InputAssumption
  <2>3. Well([Idle EXCEPT !.pc = "insert", !.kind = "ingest", !.todo = facts])
    BY IdleWell, <2>2 DEF Well, Phased, Request, Kind
  <2>4. QED
    BY <2>1, <2>3, StartTyped
<1>2. CASE Load
  <2>1. PICK pack \in Packs :
          Start([Idle EXCEPT !.pc = "insert", !.kind = "load", !.pack = pack.rules,
                             !.todo = {AtLayer(a, "observed") : a \in pack.facts}])
    BY <1>2 DEF Load
  <2>2. pack.rules \subseteq Rule /\ pack.facts \subseteq Ground
    BY InputAssumption
  <2>3. {AtLayer(a, "observed") : a \in pack.facts} \subseteq Fact
    BY <2>2, AtLayerFact DEF Layer
  <2>4. Well([Idle EXCEPT !.pc = "insert", !.kind = "load", !.pack = pack.rules,
                          !.todo = {AtLayer(a, "observed") : a \in pack.facts}])
    BY IdleWell, <2>2, <2>3 DEF Well, Phased, Request, Kind
  <2>5. QED
    BY <2>1, <2>4, StartTyped
<1>3. CASE Index
  <2>1. PICK lowered \in Sources :
          Start([Idle EXCEPT !.pc = "insert", !.kind = "index",
                             !.todo = {AtLayer(a, "observed") : a \in lowered}])
    BY <1>3 DEF Index
  <2>2. lowered \subseteq Ground
    BY InputAssumption
  <2>3. {AtLayer(a, "observed") : a \in lowered} \subseteq Fact
    BY <2>2, AtLayerFact DEF Layer
  <2>4. Well([Idle EXCEPT !.pc = "insert", !.kind = "index",
                          !.todo = {AtLayer(a, "observed") : a \in lowered}])
    BY IdleWell, <2>3 DEF Well, Phased, Request, Kind
  <2>5. QED
    BY <2>1, <2>4, StartTyped
<1>4. CASE Evaluate
  <2>1. Well([Idle EXCEPT !.pc = "solve", !.kind = "evaluate"])
    BY IdleWell DEF Well, Phased, Request, Kind
  <2>2. QED
    BY <1>4, <2>1, StartTyped DEF Evaluate
<1>5. Context(Trusted) \subseteq Fact
  BY ContextIsTrusted DEF Trusted, TypeOK
<1>6. CASE Propose
  <2>1. Well([Idle EXCEPT !.pc = "ask", !.kind = "propose", !.cap = 1,
                          !.context = Context(Trusted)])
    BY IdleWell, <1>5 DEF Well, Phased, Request, Kind
  <2>2. QED
    BY <1>6, <2>1, StartTyped DEF Propose
<1>7. CASE Refine
  <2>1. PICK n \in Rounds, prior \in Priors :
          Start([Idle EXCEPT !.pc = "ask", !.kind = "refine", !.cap = IF n < 1 THEN 1 ELSE n,
                             !.context = Context(Trusted), !.carried = prior])
    BY <1>7 DEF Refine
  <2>2. n \in Nat /\ prior \in Seq(Ground)
    BY InputAssumption
  <2>3. Well([Idle EXCEPT !.pc = "ask", !.kind = "refine", !.cap = IF n < 1 THEN 1 ELSE n,
                          !.context = Context(Trusted), !.carried = prior])
    BY IdleWell, <1>5, <2>2 DEF Well, Phased, Request, Kind
  <2>4. QED
    BY <2>1, <2>3, StartTyped
<1>8. QED
  BY <1>1, <1>2, <1>3, <1>4, <1>6, <1>7

\* A fact is written and leaves the batch.
LEMMA PutStep ==
  ASSUME Typed, NEW f \in Fact, Fits(f), Put(f),
         NEW T \in SUBSET req.todo, req' = [req EXCEPT !.todo = T],
         UNCHANGED <<rules, cache, pass, requests, faults>>
  PROVE  Typed'
<1>1. Well(req')
  BY DEF Typed, TypeOK, Well, Phased, Request
<1>2. QED
  BY <1>1, PutTyped DEF Typed, TypeOK, Well

\* Every step of a request keeps the types.
LEMMA WorkTyped == Typed /\ Work => Typed'
<1> SUFFICES ASSUME Typed, Work
             PROVE  Typed'
  OBVIOUS
<1>a. TypeOK /\ Phased(req) /\ req \in Request
  BY DEF Typed, TypeOK
<1>1. ASSUME NEW f \in req.todo, InsertFact(f)
      PROVE  Typed'
  <2>1. f \in Fact /\ Fits(f) /\ Put(f)
    BY <1>a, <1>1 DEF InsertFact, Phased
  <2>2. QED
    BY <1>1, <2>1, PutStep DEF InsertFact
<1>2. ASSUME NEW f \in req.todo, ArityError(f)
      PROVE  Typed'
  <2>1. CASE Answer("failed")
    BY <1>a, <1>2, <2>1, AnswerWell, LocalTyped DEF ArityError, Result, TypeOK
  <2>2. CASE req' = [req EXCEPT !.todo = @ \ {f}]
    <3>1. Well(req')
      BY <1>a, <1>2, <2>2 DEF ArityError, Well, Phased, Request
    <3>2. QED
      BY <1>a, <1>2, <3>1, LocalTyped DEF ArityError, TypeOK
  <2>3. QED
    BY <1>2, <2>1, <2>2 DEF ArityError
<1>3. CASE Inserted
  <2>1. Well(req')
    <3>1. CASE Answer("ok")
      BY <1>a, <3>1, AnswerWell DEF Result
    <3>2. CASE req.kind = "evaluate" /\ req' = [req EXCEPT !.pc = "solve"]
      BY <1>a, <1>3, <3>2 DEF Inserted, Well, Phased, Request
    <3>3. QED
      BY <1>3, <3>1, <3>2 DEF Inserted
  <2>2. rules' \subseteq Rule
    BY <1>a, <1>3 DEF Inserted, TypeOK, Request
  <2>3. Facts' = Facts /\ (\A f \in Facts : Fits(f))'
    BY <1>a, <1>3 DEF Inserted, TypeOK, Facts, Fits
  <2>4. QED
    BY <1>a, <1>3, <2>1, <2>2, <2>3 DEF Inserted, Typed, TypeOK, Well
<1>4. CASE Solve
  <2> DEFINE stuck == \E r \in rules : Unsafe(r) /\ Solutions(r, Grounds) # {}
             batch == (UNION {Heads(r, Grounds) : r \in rules}) \ Facts
  <2>1. pass' \in Nat
    BY <1>a, <1>4 DEF Solve, TypeOK
  <2>2. Well(req')
    <3>1. ASSUME NEW result \in {"ok", "failed"}, Answer(result)
          PROVE  Well(req')
      BY <1>a, <3>1, AnswerWell DEF Result
    <3>2. CASE ~ stuck /\ req' = [req EXCEPT !.pc = "insert", !.todo = batch]
      <4>1. batch \subseteq Fact
        <5>1. ASSUME NEW r \in rules, NEW f \in Heads(r, Grounds)
              PROVE  f \in Fact
          <6>1. Solutions(r, Grounds) # {}
            BY <5>1 DEF Heads
          <6>2. ~ Unsafe(r) /\ r \in Rule
            BY <1>a, <3>2, <6>1 DEF TypeOK
          <6>3. QED
            BY <5>1, <6>2, HeadsAreFacts
        <5>2. QED
          BY <5>1
      <4> HIDE DEF batch
      <4>2. QED
        BY <1>a, <1>4, <3>2, <4>1 DEF Solve, Well, Phased, Request
    <3>3. QED
      BY <1>4, <3>1, <3>2 DEF Solve
  <2>3. QED
    BY <1>a, <1>4, <2>1, <2>2, LocalTyped DEF Solve, TypeOK
<1>5. CASE Recall
  <2>1. req.pc = "ask" /\ cache[Prompt] \in Answers \cup {Garbage} /\ Read(cache[Prompt])
    BY <1>a, <1>5 DEF Recall, TypeOK
  <2>2. Well(req')
    BY <1>a, <2>1, ReadWell
  <2>3. QED
    BY <1>a, <1>5, <2>2, LocalTyped DEF Recall, TypeOK
<1>6. CASE ProviderFails
  <2>1. Well(req')
    BY <1>a, <1>6, AnswerWell DEF ProviderFails, Result
  <2>2. faults' \in 0..MaxFaults
    BY <1>a, <1>6, BoundAssumption DEF ProviderFails, TypeOK
  <2>3. QED
    BY <1>a, <1>6, <2>1, <2>2, LocalTyped DEF ProviderFails, TypeOK
<1>7. ASSUME NEW a \in Answers \cup {Garbage}, Ask(a)
      PROVE  Typed'
  <2>1. Well(req')
    BY <1>a, <1>7, ReadWell DEF Ask
  <2>2. \A p \in DOMAIN cache' : cache'[p] \in Answers \cup {Garbage}
    BY <1>a, <1>7 DEF Ask, TypeOK
  <2>3. Facts' = Facts /\ (\A f \in Facts : Fits(f))'
    BY <1>a, <1>7 DEF Ask, TypeOK, Facts, Fits
  <2>4. QED
    BY <1>a, <1>7, <2>1, <2>2, <2>3 DEF Ask, Typed, TypeOK, Well
<1>8. ASSUME NEW p \in req.todo, Accept(p)
      PROVE  Typed'
  <2>1. p \in Ground
    BY <1>a, <1>8 DEF Accept, Phased
  <2>2. AtLayer(p, "candidate") \in Fact /\ Fits(AtLayer(p, "candidate"))
    BY <1>8, <2>1, AtLayerFact DEF Accept, Layer, Fits
  <2>3. QED
    BY <1>8, <2>2, PutStep DEF Accept
<1>9. ASSUME NEW p \in req.todo, Reject(p)
      PROVE  Typed'
  <2>1. p \in Ground
    BY <1>a, <1>9 DEF Reject, Phased
  <2>2. Append(req.carried, p) \in Seq(Ground)
    BY <1>a, <2>1 DEF Request
  <2>3. Well(req')
    BY <1>a, <1>9, <2>2 DEF Reject, Well, Phased, Request
  <2>4. QED
    BY <1>a, <1>9, <2>3, LocalTyped DEF Reject, TypeOK
<1>10. CASE RoundDone
  <2>1. Well(req')
    <3>1. ASSUME NEW result \in Result, Answer(result)
          PROVE  Well(req')
      BY <1>a, <3>1, AnswerWell
    <3>2. CASE req' = [req EXCEPT !.pc = "ask"]
      BY <1>a, <1>10, <3>2 DEF RoundDone, Well, Phased, Request
    <3>3. QED
      BY <1>10, <3>1, <3>2 DEF RoundDone, Result
  <2>2. QED
    BY <1>a, <1>10, <2>1, LocalTyped DEF RoundDone, TypeOK
<1>11. CASE Reply
  BY <1>a, <1>11, IdleWell, LocalTyped DEF Reply, TypeOK
<1>12. QED
  BY <1>1, <1>2, <1>3, <1>4, <1>5, <1>6, <1>7, <1>8, <1>9, <1>10, <1>11 DEF Work

LEMMA TypedStep == Typed /\ [Next]_vars => Typed'
<1> SUFFICES ASSUME Typed, [Next]_vars
             PROVE  Typed'
  OBVIOUS
<1>1. CASE Ingest \/ Load \/ Index \/ Evaluate \/ Propose \/ Refine
  BY <1>1, RequestsTyped DEF Typed
<1>2. CASE Work
  BY <1>2, WorkTyped
<1>3. CASE UNCHANGED vars
  BY <1>3 DEF vars, Typed, TypeOK, Phased, Facts, Fits
<1>4. QED
  BY <1>1, <1>2, <1>3 DEF Next, Quiet

\* Every variable keeps its type and a predicate its arity, in every behaviour.
THEOREM TypeCorrect == Spec => []TypeOK
<1>1. Spec => []Typed
  BY TypedInit, TypedStep, PTL DEF Spec
<1>2. Typed => TypeOK
  BY DEF Typed
<1>3. QED
  BY <1>1, <1>2, PTL

-----------------------------------------------------------------------------
(* Which steps write to the graph, and which move the LLM's loop. *)

\* What an answer changes in the request.
LEMMA Answered ==
  ASSUME req \in Request, NEW result, Answer(result)
  PROVE  /\ req'.pc = "reply" /\ req'.kind = req.kind /\ req'.result = result
         /\ req'.answer = req.answer /\ req'.round = req.round /\ req'.cap = req.cap
BY DEF Answer, Request

\* Only an insertion and an accepted proposal write to the graph.
LEMMA GraphSteps ==
  ASSUME [Next]_vars
  PROVE  \/ UNCHANGED graph
         \/ \E f \in req.todo : InsertFact(f) \/ Accept(f)
BY DEF vars, Next, Work, Quiet, Ingest, Load, Index, Evaluate, Propose, Refine, Start,
       ArityError, Inserted, Solve, Recall, ProviderFails, Ask, Reject, RoundDone, Reply

\* A request of a client starts with its own fields and nothing in the others.
LEMMA Starts ==
  ASSUME Ingest \/ Load \/ Index \/ Evaluate \/ Propose \/ Refine
  PROVE  /\ UNCHANGED <<graph, rules, cache, pass>>
         /\ req'.asked = {} /\ req'.clean = TRUE /\ req'.round = 0 /\ req'.result = "none"
         /\ Ingest \/ Load \/ Index => req'.pc = "insert" /\ req'.kind # "evaluate"
         /\ Evaluate => req'.pc = "solve"
         /\ Propose \/ Refine =>
              /\ req'.pc = "ask" /\ req'.context = Context(Trusted)
              /\ req'.kind \in {"propose", "refine"}
              /\ req'.cap \in Nat /\ req'.cap >= 1
<1>a. /\ Idle \in Request
      /\ Idle.asked = {} /\ Idle.clean = TRUE /\ Idle.round = 0 /\ Idle.result = "none"
  BY IdleWell DEF Well, Idle
<1>b. \A n \in Rounds : (IF n < 1 THEN 1 ELSE n) \in Nat /\ (IF n < 1 THEN 1 ELSE n) >= 1
  BY InputAssumption
<1> DEFINE Empty == /\ req'.asked = {} /\ req'.clean = TRUE /\ req'.round = 0
                    /\ req'.result = "none"
<1>1. ASSUME Ingest
      PROVE  Empty /\ req'.pc = "insert" /\ req'.kind = "ingest"
  BY <1>a, <1>1 DEF Ingest, Start, Request
<1>2. ASSUME Load
      PROVE  Empty /\ req'.pc = "insert" /\ req'.kind = "load"
  BY <1>a, <1>2 DEF Load, Start, Request
<1>3. ASSUME Index
      PROVE  Empty /\ req'.pc = "insert" /\ req'.kind = "index"
  BY <1>a, <1>3 DEF Index, Start, Request
<1>4. ASSUME Evaluate
      PROVE  Empty /\ req'.pc = "solve" /\ req'.kind = "evaluate"
  BY <1>a, <1>4 DEF Evaluate, Start, Request
<1>5. ASSUME Propose
      PROVE  /\ Empty /\ req'.pc = "ask" /\ req'.kind = "propose"
             /\ req'.context = Context(Trusted) /\ req'.cap \in Nat /\ req'.cap >= 1
  BY <1>a, <1>5 DEF Propose, Start, Request
<1>6. ASSUME Refine
      PROVE  /\ Empty /\ req'.pc = "ask" /\ req'.kind = "refine"
             /\ req'.context = Context(Trusted) /\ req'.cap \in Nat /\ req'.cap >= 1
  <2>1. PICK n \in Rounds, prior \in Priors :
          req' = [Idle EXCEPT !.pc = "ask", !.kind = "refine", !.cap = IF n < 1 THEN 1 ELSE n,
                              !.context = Context(Trusted), !.carried = prior]
    BY <1>6 DEF Refine, Start
  <2>2. Empty
    <3>1. DOMAIN Idle = {"pc", "kind", "todo", "pack", "context", "carried", "asked", "known",
                         "answer", "clean", "round", "cap", "result"}
      BY <1>a DEF Request
    <3>2. /\ req'.asked = Idle.asked /\ req'.clean = Idle.clean /\ req'.round = Idle.round
          /\ req'.result = Idle.result
      BY <2>1, <3>1
    <3>3. QED
      BY <1>a, <3>2
  <2> DEFINE m == IF n < 1 THEN 1 ELSE n
  <2>3. m \in Nat /\ m >= 1
    BY <1>b
  <2> HIDE DEF m
  <2>4. req'.pc = "ask" /\ req'.kind = "refine" /\ req'.context = Context(Trusted) /\ req'.cap = m
    BY <1>a, <2>1 DEF Request, m
  <2>5. QED
    BY <2>2, <2>3, <2>4
<1>7. UNCHANGED <<graph, rules, cache, pass>>
  BY DEF Ingest, Load, Index, Evaluate, Propose, Refine, Start
<1> HIDE DEF Empty
<1>8. Empty
  BY <1>1, <1>2, <1>3, <1>4, <1>5, <1>6
<1>9. QED
  <2>1. Ingest \/ Load \/ Index => req'.pc = "insert" /\ req'.kind # "evaluate"
    BY <1>1, <1>2, <1>3
  <2>2. Evaluate => req'.pc = "solve"
    BY <1>4
  <2>3. Propose \/ Refine =>
          /\ req'.pc = "ask" /\ req'.context = Context(Trusted)
          /\ req'.kind \in {"propose", "refine"}
          /\ req'.cap \in Nat /\ req'.cap >= 1
    BY <1>5, <1>6
  <2>4. QED
    BY <1>7, <1>8, <2>1, <2>2, <2>3 DEF Empty

\* The loop of the LLM goes on by the steps of propose and refine only.
LEMMA LoopSteps ==
  ASSUME Typed, [Next]_vars, req'.pc \in {"ask", "resolve"}
  PROVE  \/ Propose \/ Refine
         \/ \E a \in Answers \cup {Garbage} : req.pc = "ask" /\ Read(a) /\ UNCHANGED graph
         \/ \E p \in req.todo : Accept(p) \/ Reject(p)
         \/ RoundDone /\ req.pc = "resolve" /\ req' = [req EXCEPT !.pc = "ask"]
         \/ UNCHANGED <<graph, req>>
<1>a. req \in Request
  BY DEF Typed, TypeOK
<1>1. CASE Ingest \/ Load \/ Index \/ Evaluate \/ Propose \/ Refine
  BY <1>1, Starts
<1>2. CASE Work
  <2>1. ASSUME NEW f \in req.todo, InsertFact(f) \/ ArityError(f)
        PROVE  req'.pc \in {"insert", "reply"}
    BY <1>a, <2>1 DEF InsertFact, ArityError, Answer, Request
  <2>2. ASSUME Inserted \/ Solve
        PROVE  req'.pc \in {"solve", "insert", "reply"}
    BY <1>a, <2>2 DEF Inserted, Solve, Answer, Request
  <2>3. ASSUME ProviderFails \/ Reply
        PROVE  req'.pc \in {"reply", "idle"}
    BY <1>a, <2>3, Answered, IdleWell DEF ProviderFails, Reply
  <2>4. ASSUME Recall
        PROVE  \E a \in Answers \cup {Garbage} : req.pc = "ask" /\ Read(a) /\ UNCHANGED graph
    BY <2>4 DEF Recall, Typed, TypeOK
  <2>5. ASSUME NEW a \in Answers \cup {Garbage}, Ask(a)
        PROVE  req.pc = "ask" /\ Read(a) /\ UNCHANGED graph
    BY <2>5 DEF Ask
  <2>6. ASSUME RoundDone
        PROVE  req.pc = "resolve" /\ req' = [req EXCEPT !.pc = "ask"]
    BY <1>a, <2>6, Answered DEF RoundDone
  <2>7. QED
    BY <1>2, <2>1, <2>2, <2>3, <2>4, <2>5, <2>6 DEF Work
<1>3. CASE UNCHANGED vars
  BY <1>3 DEF vars
<1>4. QED
  BY <1>1, <1>2, <1>3 DEF Next, Quiet

\* What a step of the loop makes of the request.
LEMMA ReadFields ==
  ASSUME Typed, NEW a \in Answers \cup {Garbage}, req.pc = "ask", Read(a)
  PROVE  /\ req'.kind = req.kind /\ req'.cap = req.cap /\ req'.context = req.context
         /\ req'.carried = req.carried /\ req'.asked = req.asked \cup {Prompt}
         /\ req'.round = req.round + 1 /\ req'.clean = TRUE
         /\ \/ req'.pc = "reply" /\ req'.result = "failed"
            \/ /\ req'.pc = "resolve" /\ req'.todo = a /\ req'.answer = a
               /\ req'.known = EntityIds /\ req'.result = "none"
<1>1. req \in Request /\ req.result = "none"
  BY DEF Typed, TypeOK, Phased
<1>2. req.asked \cup {Prompt} = req.asked \cup {Prompt}
  OBVIOUS
<1> DEFINE r == [req EXCEPT !.asked = @ \cup {Prompt}, !.round = @ + 1, !.clean = TRUE]
<1>3. /\ r.kind = req.kind /\ r.cap = req.cap /\ r.context = req.context
      /\ r.carried = req.carried /\ r.asked = req.asked \cup {Prompt}
      /\ r.round = req.round + 1 /\ r.clean = TRUE /\ r.result = "none"
      /\ DOMAIN r = DOMAIN req
  BY <1>1 DEF Request
<1>4. \/ req' = [r EXCEPT !.pc = "reply", !.result = "failed"]
      \/ req' = [r EXCEPT !.pc = "resolve", !.todo = a, !.answer = a, !.known = EntityIds]
  BY DEF Read
<1>5. DOMAIN r = {"pc", "kind", "todo", "pack", "context", "carried", "asked", "known",
                  "answer", "clean", "round", "cap", "result"}
  BY <1>1, <1>3 DEF Request
<1> HIDE DEF r
<1>6. CASE req' = [r EXCEPT !.pc = "reply", !.result = "failed"]
  <2>1. /\ req'.kind = r.kind /\ req'.cap = r.cap /\ req'.context = r.context
        /\ req'.carried = r.carried /\ req'.asked = r.asked /\ req'.round = r.round
        /\ req'.clean = r.clean /\ req'.pc = "reply" /\ req'.result = "failed"
    BY <1>5, <1>6
  <2>2. QED
    BY <1>3, <2>1
<1>7. CASE req' = [r EXCEPT !.pc = "resolve", !.todo = a, !.answer = a, !.known = EntityIds]
  <2>1. /\ req'.kind = r.kind /\ req'.cap = r.cap /\ req'.context = r.context
        /\ req'.carried = r.carried /\ req'.asked = r.asked /\ req'.round = r.round
        /\ req'.clean = r.clean /\ req'.result = r.result
    BY <1>5, <1>7
  <2>2. req'.pc = "resolve" /\ req'.todo = a /\ req'.answer = a /\ req'.known = EntityIds
    BY <1>5, <1>7
  <2>3. QED
    BY <1>3, <2>1, <2>2
<1>8. QED
  BY <1>4, <1>6, <1>7

LEMMA ResolveFields ==
  ASSUME Typed, NEW p \in req.todo, Accept(p) \/ Reject(p)
  PROVE  /\ req.pc = "resolve" /\ req'.pc = "resolve"
         /\ req'.kind = req.kind /\ req'.cap = req.cap /\ req'.context = req.context
         /\ req'.round = req.round /\ req'.known = req.known /\ req'.asked = req.asked
         /\ req'.answer = req.answer /\ req'.todo = req.todo \ {p}
         /\ req'.result = req.result
         /\ Accept(p) => req'.carried = req.carried /\ req'.clean = req.clean
         /\ Reject(p) => req'.carried = Append(req.carried, p) /\ req'.clean = FALSE
<1>1. req \in Request
  BY DEF Typed, TypeOK
<1>2. DOMAIN req = {"pc", "kind", "todo", "pack", "context", "carried", "asked", "known",
                    "answer", "clean", "round", "cap", "result"}
  BY <1>1 DEF Request
<1>3. ~ (Accept(p) /\ Reject(p))
  BY DEF Accept, Reject
<1>4. CASE Accept(p)
  BY <1>2, <1>3, <1>4 DEF Accept
<1>5. CASE Reject(p)
  BY <1>2, <1>3, <1>5 DEF Reject
<1>6. QED
  BY <1>4, <1>5

-----------------------------------------------------------------------------
(* The candidates of the LLM. *)

\* A declaration stays in the graph.
LEMMA DeclaredStays ==
  ASSUME NEW f, Put(f), NEW x, Declared(x)
  PROVE  Declared(x)'
BY PutGraph DEF Declared

\* Candidates that name declared entities only declare no new ones.
LEMMA EntityIdsDeclared ==
  ASSUME TypeOK, CandidatesAreGrounded, NEW x \in EntityIds
  PROVE  Declared(x)
<1>1. PICK f \in Facts : f.pred \in Entity /\ f.args # <<>> /\ x = f.args[1]
  BY DEF EntityIds
<1>2. f.args \in Seq(Atom)
  BY DEF TypeOK, Fact
<1>3. x \in ArgsOf(f)
  BY <1>1, <1>2 DEF ArgsOf
<1>4. QED
  BY <1>1, <1>3 DEF CandidatesAreGrounded, Declared

\* The entities a round resolves its proposals against are declared.
Grounding ==
  /\ CandidatesAreGrounded
  /\ req.pc = "resolve" => \A x \in req.known : Declared(x)

LEMMA GroundingStep == Typed /\ Grounding /\ [Next]_vars => Grounding'
<1> SUFFICES ASSUME Typed, Grounding, [Next]_vars
             PROVE  Grounding'
  OBVIOUS
<1>a. TypeOK /\ Phased(req) /\ CandidatesAreGrounded
  BY DEF Typed, Grounding
<1>1. ASSUME NEW x, Declared(x)
      PROVE  Declared(x)'
  <2>1. CASE UNCHANGED graph
    BY <1>1, <2>1 DEF Declared, Facts
  <2>2. ASSUME NEW f, Put(f)
        PROVE  Declared(x)'
    BY <1>1, <2>2, DeclaredStays
  <2>3. QED
    BY <2>1, <2>2, GraphSteps DEF InsertFact, Accept
<1>2. CandidatesAreGrounded'
  <2>1. CASE UNCHANGED graph
    BY <1>a, <2>1 DEF CandidatesAreGrounded, Declared, Facts
  <2>2. ASSUME NEW f \in req.todo, InsertFact(f)
        PROVE  CandidatesAreGrounded'
    <3>1. Put(f) /\ AuthorOf(req.kind) # "llm"
      BY <1>a, <2>2 DEF InsertFact, Phased, AuthorOf
    <3>2. ASSUME NEW g \in Facts', graph'[g].by = "llm"
          PROVE  g \in Facts /\ graph[g].by = "llm"
      BY <3>1, <3>2, PutGraph
    <3>3. QED
      BY <1>a, <1>1, <3>2 DEF CandidatesAreGrounded
  <2>3. ASSUME NEW p \in req.todo, Accept(p)
        PROVE  CandidatesAreGrounded'
    <3> DEFINE f == AtLayer(p, "candidate")
    <3>1. f.layer = "candidate" /\ ArgsOf(f) = ArgsOf(p) /\ Put(f)
      BY <2>3 DEF Accept, AtLayer, ArgsOf
    <3>2. \A x \in ArgsOf(f) : Declared(x)
      BY <2>3, <3>1 DEF Accept, Resolves, Grounding
    <3> HIDE DEF f
    <3>3. ASSUME NEW g \in Facts', graph'[g].by = "llm"
          PROVE  g = f \/ (g \in Facts /\ graph[g].by = "llm")
      BY <3>1, <3>3, PutGraph
    <3>4. QED
      BY <1>a, <1>1, <3>1, <3>2, <3>3 DEF CandidatesAreGrounded
  <2>4. QED
    BY <2>1, <2>2, <2>3, GraphSteps
<1>3. ASSUME req'.pc = "resolve"
      PROVE  \A x \in req'.known : Declared(x)'
  <2>1. CASE Propose \/ Refine
    BY <1>3, <2>1, Starts
  <2>2. ASSUME NEW a \in Answers \cup {Garbage}, req.pc = "ask", Read(a)
        PROVE  \A x \in req'.known : Declared(x)'
    <3>1. req'.known = EntityIds
      BY <1>3, <2>2, ReadFields
    <3>2. QED
      BY <1>a, <1>1, <3>1, EntityIdsDeclared
  <2>3. ASSUME NEW p \in req.todo, Accept(p) \/ Reject(p)
        PROVE  \A x \in req'.known : Declared(x)'
    BY <1>1, <2>3, ResolveFields DEF Grounding
  <2>4. CASE req.pc = "resolve" /\ req' = [req EXCEPT !.pc = "ask"]
    BY <1>a, <1>3, <2>4 DEF TypeOK, Request
  <2>5. CASE UNCHANGED req
    BY <1>1, <1>3, <2>5 DEF Grounding
  <2>6. QED
    BY <1>3, <2>1, <2>2, <2>3, <2>4, <2>5, LoopSteps
<1>4. QED
  BY <1>2, <1>3 DEF Grounding

\* Whatever the LLM writes stays a candidate about entities that others have declared,
\* whichever way its answers, the caches and the other requests fall (propose.rs:159-199).
THEOREM CandidatesStayGrounded == Spec => []CandidatesAreGrounded
<1>1. Init => Typed /\ Grounding
  BY TypedInit DEF Init, Grounding, CandidatesAreGrounded, Facts, Idle
<1>2. Typed /\ Grounding /\ [Next]_vars => (Typed /\ Grounding)'
  BY TypedStep, GroundingStep
<1>3. Typed /\ Grounding => CandidatesAreGrounded
  BY DEF Grounding
<1>4. QED
  BY <1>1, <1>2, <1>3, PTL DEF Spec

-----------------------------------------------------------------------------
(* The context and the prompts of a refinement. *)

\* An accepted proposal is no trusted fact.
LEMMA AcceptKeepsTrusted ==
  ASSUME NEW p, Accept(p)
  PROVE  Trusted' = Trusted
<1>1. Put(AtLayer(p, "candidate")) /\ AtLayer(p, "candidate").layer = "candidate"
  BY DEF Accept, AtLayer
<1>2. Facts' = Facts \cup {AtLayer(p, "candidate")}
  BY <1>1, PutGraph
<1>3. QED
  BY <1>1, <1>2 DEF Trusted

LEMMA FreshStep == Typed /\ ContextIsFresh /\ [Next]_vars => ContextIsFresh'
<1> SUFFICES ASSUME Typed, ContextIsFresh, [Next]_vars, req'.pc \in {"ask", "resolve"}
             PROVE  req'.context = Context(Trusted')
  BY DEF ContextIsFresh
<1>a. req \in Request
  BY DEF Typed, TypeOK
<1>1. UNCHANGED graph => Trusted' = Trusted
  BY DEF Trusted, Facts
<1>2. CASE Propose \/ Refine
  BY <1>1, <1>2, Starts
<1>3. ASSUME NEW a \in Answers \cup {Garbage}, req.pc = "ask", Read(a), UNCHANGED graph
      PROVE  req'.context = Context(Trusted')
  BY <1>1, <1>3, ReadFields DEF ContextIsFresh
<1>4. ASSUME NEW p \in req.todo, Accept(p) \/ Reject(p)
      PROVE  req'.context = Context(Trusted')
  <2>1. Trusted' = Trusted
    BY <1>1, <1>4, AcceptKeepsTrusted DEF Reject
  <2>2. QED
    BY <1>4, <2>1, ResolveFields DEF ContextIsFresh
<1>5. CASE RoundDone /\ req.pc = "resolve" /\ req' = [req EXCEPT !.pc = "ask"]
  BY <1>a, <1>1, <1>5 DEF ContextIsFresh, RoundDone, Request
<1>6. CASE UNCHANGED <<graph, req>>
  BY <1>1, <1>6 DEF ContextIsFresh
<1>7. QED
  BY <1>2, <1>3, <1>4, <1>5, <1>6, LoopSteps

\* The context selected before the first round is never out of date in a later one.
THEOREM ContextStaysFresh == Spec => []ContextIsFresh
<1>1. Init => Typed /\ ContextIsFresh
  BY TypedInit DEF Init, ContextIsFresh, Idle
<1>2. Typed /\ ContextIsFresh /\ [Next]_vars => (Typed /\ ContextIsFresh)'
  BY TypedStep, FreshStep
<1>3. QED
  BY <1>1, <1>2, PTL DEF Spec

\* The rejections only grow, and a round that is not clean has added one.
Anew ==
  /\ req.pc \in {"ask", "resolve"} =>
       \A q \in req.asked : Len(q.carried) <= Len(req.carried)
  /\ req.pc = "ask" \/ (req.pc = "resolve" /\ ~ req.clean) =>
       \A q \in req.asked : Len(q.carried) < Len(req.carried)

LEMMA AnewStep == Typed /\ Anew /\ [Next]_vars => Anew'
<1> SUFFICES ASSUME Typed, Anew, [Next]_vars, req'.pc \in {"ask", "resolve"}
             PROVE  Anew'
  BY DEF Anew
<1>a. req \in Request /\ req.carried \in Seq(Ground) /\ Len(req.carried) \in Nat
  BY DEF Typed, TypeOK, Request
<1>b. \A q \in req.asked : q.carried \in Seq(Ground) /\ Len(q.carried) \in Nat
  BY <1>a DEF Request
<1>1. CASE Propose \/ Refine
  BY <1>1, Starts DEF Anew
<1>2. ASSUME NEW a \in Answers \cup {Garbage}, req.pc = "ask", Read(a)
      PROVE  Anew'
  <2>1. Prompt.carried = req.carried
    BY DEF Prompt
  <2>2. /\ req'.carried = req.carried /\ req'.asked = req.asked \cup {Prompt}
        /\ req'.clean = TRUE /\ req'.pc \in {"reply", "resolve"}
    BY <1>2, ReadFields
  <2>3. \A q \in req'.asked : Len(q.carried) <= Len(req.carried)
    BY <1>a, <1>b, <1>2, <2>1, <2>2 DEF Anew
  <2>4. QED
    BY <2>2, <2>3 DEF Anew
<1>3. ASSUME NEW p \in req.todo, Accept(p)
      PROVE  Anew'
  BY <1>3, ResolveFields DEF Anew
<1>4. ASSUME NEW p \in req.todo, Reject(p)
      PROVE  Anew'
  <2>1. p \in Ground
    BY <1>4 DEF Typed, Phased, Reject
  <2>2. /\ req.pc = "resolve" /\ req'.asked = req.asked
        /\ req'.carried = Append(req.carried, p)
    BY <1>4, ResolveFields
  <2>3. Len(req'.carried) = Len(req.carried) + 1
    BY <1>a, <2>1, <2>2
  <2>4. QED
    BY <1>a, <1>b, <2>2, <2>3 DEF Anew
<1>5. CASE RoundDone /\ req.pc = "resolve" /\ req' = [req EXCEPT !.pc = "ask"]
  <2>1. ~ req.clean
    <3>1. ASSUME NEW result \in Result, Answer(result)
          PROVE  FALSE
      BY <1>a, <3>1, Answered
    <3>2. QED
      BY <1>5, <3>1 DEF RoundDone, Result
  <2>2. req'.asked = req.asked /\ req'.carried = req.carried
    BY <1>a, <1>5 DEF Request
  <2>3. QED
    BY <1>5, <2>1, <2>2 DEF Anew
<1>6. CASE UNCHANGED <<graph, req>>
  BY <1>6 DEF Anew
<1>7. QED
  BY <1>1, <1>2, <1>3, <1>4, <1>5, <1>6, LoopSteps

\* A refinement never repeats a prompt, so the cache never hands it its own rejected
\* answer again, for any answers of the provider and any rejections a client starts with.
THEOREM RoundsAlwaysAskAnew == Spec => []RoundsAskAnew
<1>1. Init => Typed /\ Anew
  BY TypedInit DEF Init, Anew, Idle
<1>2. Typed /\ Anew /\ [Next]_vars => (Typed /\ Anew)'
  BY TypedStep, AnewStep
<1>3. Typed /\ Anew => RoundsAskAnew
  <2> SUFFICES ASSUME Typed, Anew, req.pc = "ask", Prompt \in req.asked
               PROVE  FALSE
    BY DEF RoundsAskAnew
  <2>1. Len(Prompt.carried) < Len(req.carried)
    BY DEF Anew
  <2>2. Prompt.carried = req.carried /\ Len(req.carried) \in Nat
    BY DEF Prompt, Typed, TypeOK, Request
  <2>3. QED
    BY <2>1, <2>2
<1>4. QED
  BY <1>1, <1>2, <1>3, PTL DEF Spec

\* Every round asks something new about the graph as it is.
THEOREM RoundsStayFresh == Spec => []RoundsAreFresh
  BY ContextStaysFresh, RoundsAlwaysAskAnew, PTL DEF RoundsAreFresh

\* What a clean round has gone through is in the graph, and a round that can be asked
\* for has not been used.
Honest ==
  /\ req.pc = "ask" => req.round < req.cap
  /\ req.pc = "resolve" => req.round <= req.cap
  /\ req.pc = "resolve" /\ req.clean =>
       \A p \in req.answer \ req.todo : AtLayer(p, "candidate") \in Facts
  /\ VerdictIsHonest

LEMMA HonestStep == Typed /\ Honest /\ [Next]_vars => Honest'
<1> SUFFICES ASSUME Typed, Honest, [Next]_vars
             PROVE  Honest'
  OBVIOUS
<1>a. /\ req \in Request /\ req.round \in Nat /\ req.cap \in Nat
      /\ req.pc # "reply" => req.result = "none"
  BY DEF Typed, TypeOK, Request, Phased
<1>b. VerdictIsHonest
  BY DEF Honest
<1>1. CASE Ingest \/ Load \/ Index \/ Evaluate \/ Propose \/ Refine
  <2>1. req' \in Request
    BY <1>1, RequestsTyped DEF Typed, TypeOK
  <2>2. req'.round = 0 /\ req'.cap \in Nat /\ req'.result = "none"
    BY <1>1, <2>1, Starts DEF Request
  <2>3. req'.pc \in {"insert", "solve"} \/ (req'.pc = "ask" /\ req'.cap >= 1)
    BY <1>1, Starts
  <2>4. QED
    BY <2>2, <2>3 DEF Honest, VerdictIsHonest
<1>2. ASSUME req'.pc \in {"insert", "solve", "idle"}, req'.result = "none",
             req'.round = req.round /\ req'.cap = req.cap
      PROVE  Honest'
  BY <1>2, <1>b DEF Honest, VerdictIsHonest
<1>3. ASSUME NEW result \in {"ok", "failed"}, Answer(result)
      PROVE  Honest'
  BY <1>3, <1>a, <1>b, Answered DEF Honest, VerdictIsHonest
<1>4. ASSUME NEW f \in req.todo, InsertFact(f) \/ ArityError(f)
      PROVE  Honest'
  <2>1. CASE Answer("failed")
    BY <1>3, <2>1
  <2>2. CASE req' = [req EXCEPT !.todo = @ \ {f}]
    BY <1>a, <1>2, <1>4, <2>2 DEF InsertFact, ArityError, Request
  <2>3. QED
    BY <1>4, <2>1, <2>2 DEF InsertFact, ArityError
<1>5. CASE Inserted \/ Solve
  <2>1. CASE Answer("ok") \/ Answer("failed")
    BY <1>3, <2>1
  <2>2. CASE req' = [req EXCEPT !.pc = "solve"]
    BY <1>a, <1>2, <1>5, <2>2 DEF Inserted, Solve, Request
  <2>3. ASSUME NEW T, req' = [req EXCEPT !.pc = "insert", !.todo = T]
        PROVE  Honest'
    BY <1>a, <1>2, <1>5, <2>3 DEF Inserted, Solve, Request
  <2>4. QED
    BY <1>5, <2>1, <2>2, <2>3 DEF Inserted, Solve
<1>6. ASSUME NEW a \in Answers \cup {Garbage}, req.pc = "ask", Read(a)
      PROVE  Honest'
  <2>1. /\ req'.round = req.round + 1 /\ req'.cap = req.cap
        /\ \/ req'.pc = "reply" /\ req'.result = "failed"
           \/ req'.pc = "resolve" /\ req'.todo = a /\ req'.answer = a /\ req'.result = "none"
    BY <1>6, ReadFields
  <2>2. req'.round <= req'.cap
    BY <1>a, <1>6, <2>1 DEF Honest
  <2>3. QED
    BY <2>1, <2>2 DEF Honest, VerdictIsHonest
<1>7. ASSUME NEW p \in req.todo, Accept(p)
      PROVE  Honest'
  <2>1. Facts' = Facts \cup {AtLayer(p, "candidate")}
    BY <1>7, PutGraph DEF Accept
  <2>2. QED
    BY <1>a, <1>b, <1>7, <2>1, ResolveFields DEF Honest, VerdictIsHonest
<1>8. ASSUME NEW p \in req.todo, Reject(p)
      PROVE  Honest'
  BY <1>a, <1>b, <1>8, ResolveFields DEF Honest, VerdictIsHonest
<1>9. CASE RoundDone
  <2>1. UNCHANGED Facts
    BY <1>9 DEF RoundDone, Facts
  <2>2. CASE Answer("ok")
    BY <1>3, <2>2
  <2>3. CASE req.clean /\ Answer("converged")
    <3>1. \A p \in req.answer : AtLayer(p, "candidate") \in Facts
      BY <1>9, <2>3 DEF RoundDone, Honest
    <3>2. QED
      BY <1>a, <1>b, <2>1, <2>3, <3>1, Answered DEF Honest, VerdictIsHonest
  <2>4. CASE req.round < req.cap /\ req' = [req EXCEPT !.pc = "ask"]
    <3>1. /\ req'.pc = "ask" /\ req'.round = req.round /\ req'.cap = req.cap
          /\ req'.result = "none"
      BY <1>a, <1>9, <2>4 DEF RoundDone, Request
    <3>2. QED
      BY <1>a, <2>4, <3>1 DEF Honest, VerdictIsHonest
  <2>5. CASE req.round >= req.cap /\ Answer("exhausted")
    <3>1. req.round = req.cap
      BY <1>a, <1>b, <2>5 DEF VerdictIsHonest
    <3>2. QED
      BY <1>a, <2>5, <3>1, Answered DEF Honest, VerdictIsHonest
  <2>6. QED
    BY <1>9, <2>2, <2>3, <2>4, <2>5 DEF RoundDone
<1>10. CASE ProviderFails
  BY <1>3, <1>10 DEF ProviderFails
<1>11. CASE Reply
  BY <1>11 DEF Reply, Idle, Honest, VerdictIsHonest
<1>12. CASE UNCHANGED vars
  BY <1>12 DEF vars, Honest, VerdictIsHonest, Facts
<1>13. CASE Recall
  BY <1>6, <1>13 DEF Recall, Typed, TypeOK
<1>14. CASE Work
  BY <1>4, <1>5, <1>6, <1>7, <1>8, <1>9, <1>10, <1>11, <1>13, <1>14 DEF Work, Ask
<1>15. QED
  BY <1>1, <1>12, <1>14 DEF Next, Quiet

\* A refinement converges on what it has written and gives up only when its rounds are
\* used up (refine.rs:199-207).
THEOREM VerdictsAreHonest == Spec => []VerdictIsHonest
<1>1. Init => Typed /\ Honest
  BY TypedInit DEF Init, Honest, VerdictIsHonest, Idle
<1>2. Typed /\ Honest /\ [Next]_vars => (Typed /\ Honest)'
  BY TypedStep, HonestStep
<1>3. Honest => VerdictIsHonest
  BY DEF Honest
<1>4. QED
  BY <1>1, <1>2, <1>3, PTL DEF Spec

-----------------------------------------------------------------------------
(* The evaluator. *)

\* The evaluator answers from its own loop, and a good answer is the end of it.
LEMMA EvaluateEnds ==
  ASSUME Typed, [Next]_vars, req'.pc = "reply", req'.kind = "evaluate", req'.result = "ok"
  PROVE  \/ Solve /\ Answer("ok") /\ UNCHANGED pass
         \/ UNCHANGED vars
<1>a. req \in Request /\ Phased(req)
  BY DEF Typed, TypeOK
<1>1. CASE Ingest \/ Load \/ Index \/ Evaluate \/ Propose \/ Refine
  BY <1>1, Starts
<1>2. ASSUME NEW f \in req.todo, InsertFact(f) \/ ArityError(f)
      PROVE  FALSE
  <2>1. CASE Answer("failed")
    BY <1>a, <2>1, Answered
  <2>2. CASE req' = [req EXCEPT !.todo = @ \ {f}]
    BY <1>a, <1>2, <2>2 DEF InsertFact, ArityError, Request
  <2>3. QED
    BY <1>2, <2>1, <2>2 DEF InsertFact, ArityError
<1>3. ASSUME Inserted
      PROVE  FALSE
  <2>1. CASE req.kind # "evaluate" /\ Answer("ok")
    BY <1>a, <2>1, Answered
  <2>2. CASE req' = [req EXCEPT !.pc = "solve"]
    BY <1>a, <2>2 DEF Request
  <2>3. QED
    BY <1>3, <2>1, <2>2 DEF Inserted
<1>4. CASE Solve
  <2>1. CASE Answer("failed")
    BY <1>a, <2>1, Answered
  <2>2. ASSUME NEW T, req' = [req EXCEPT !.pc = "insert", !.todo = T]
        PROVE  FALSE
    BY <1>a, <2>2 DEF Request
  <2>3. QED
    BY <1>4, <2>1, <2>2 DEF Solve
<1>5. ASSUME NEW a \in Answers \cup {Garbage}, req.pc = "ask", Read(a)
      PROVE  FALSE
  BY <1>a, <1>5, ReadFields DEF Phased
<1>6. ASSUME NEW p \in req.todo, Accept(p) \/ Reject(p)
      PROVE  FALSE
  BY <1>6, ResolveFields
<1>7. ASSUME RoundDone
      PROVE  FALSE
  <2>1. req.kind # "evaluate"
    BY <1>a, <1>7 DEF RoundDone
  <2>2. ASSUME NEW result, Answer(result)
        PROVE  FALSE
    BY <1>a, <2>1, <2>2, Answered
  <2>3. CASE req' = [req EXCEPT !.pc = "ask"]
    BY <1>a, <2>3 DEF Request
  <2>4. QED
    BY <1>7, <2>2, <2>3 DEF RoundDone
<1>8. ASSUME ProviderFails \/ Reply
      PROVE  FALSE
  BY <1>a, <1>8, Answered, IdleWell DEF ProviderFails, Reply
<1>9. CASE Recall
  BY <1>5, <1>9 DEF Recall, Typed, TypeOK
<1>10. CASE Work
  BY <1>2, <1>3, <1>4, <1>5, <1>6, <1>7, <1>8, <1>9, <1>10 DEF Work, Ask
<1>11. QED
  BY <1>1, <1>10 DEF Next, Quiet

LEMMA ClosedStep == Typed /\ EvaluatedIsClosed /\ [Next]_vars => EvaluatedIsClosed'
<1> SUFFICES ASSUME Typed, EvaluatedIsClosed, [Next]_vars,
                    req'.pc = "reply", req'.kind = "evaluate", req'.result = "ok"
             PROVE  (\A r \in rules : Heads(r, Grounds) \subseteq Facts)'
  BY DEF EvaluatedIsClosed, EvaluationSucceeded
<1>1. CASE Solve /\ Answer("ok") /\ UNCHANGED pass
  <2>1. UNCHANGED <<graph, rules>> /\ (UNION {Heads(r, Grounds) : r \in rules}) \ Facts = {}
    <3>1. req \in Request /\ pass \in Nat
      BY DEF Typed, TypeOK
    <3>2. ~ Answer("failed") /\ pass' # pass + 1
      BY <1>1, <3>1, Answered
    <3>3. QED
      BY <1>1, <3>2 DEF Solve
  <2>2. ASSUME NEW r \in rules, NEW f \in Heads(r, Grounds)
        PROVE  f \in Facts
    <3>1. f \in UNION {Heads(x, Grounds) : x \in rules}
      BY <2>2, Zenon
    <3> DEFINE derived == UNION {Heads(x, Grounds) : x \in rules}
    <3>2. derived \ Facts = {} /\ f \in derived
      BY <2>1, <3>1, Zenon
    <3> HIDE DEF derived
    <3>3. QED
      BY <3>2
  <2>3. Facts' = Facts /\ Grounds' = Grounds
    BY <2>1 DEF Facts, Grounds
  <2>4. QED
    BY <2>1, <2>2, <2>3
<1>2. CASE UNCHANGED vars
  BY <1>2 DEF EvaluatedIsClosed, EvaluationSucceeded, vars, Grounds, Facts
<1>3. QED
  BY <1>1, <1>2, EvaluateEnds

\* An evaluation that says ok has left no rule anything to derive.
THEOREM EvaluationsClose == Spec => []EvaluatedIsClosed
<1>1. Init => Typed /\ EvaluatedIsClosed
  BY TypedInit DEF Init, EvaluatedIsClosed, EvaluationSucceeded, Idle
<1>2. Typed /\ EvaluatedIsClosed /\ [Next]_vars => (Typed /\ EvaluatedIsClosed)'
  BY TypedStep, ClosedStep
<1>3. QED
  BY <1>1, <1>2, PTL DEF Spec

\* A derivation of f, at the pass n, from the facts there are.
Supported(f, n) ==
  \E r \in {x \in rules : ~ Unsafe(x)} : \E s \in [BodyVars(r) -> Atom] :
    /\ Bind(r.head, s) = GroundOf(f)
    /\ \A b \in r.body : \E g \in Facts : GroundOf(g) = Bind(b, s) /\ graph[g].at < n

\* What waits to be inserted follows from earlier passes.
Deriving ==
  /\ InferredIsDerived
  /\ \A f \in Facts : graph[f].at <= pass
  /\ req.pc = "insert" /\ req.kind = "evaluate" =>
       \A f \in req.todo : f.layer = "inferred" /\ Supported(f, pass)

LEMMA SupportedIsDerived ==
  ASSUME NEW f, NEW n, n = graph[f].at
  PROVE  Supported(f, n) <=> DerivedFrom(f, Facts)
BY DEF Supported, DerivedFrom

LEMMA SupportedIsDerivedNext ==
  ASSUME NEW f, NEW n, n = graph'[f].at
  PROVE  Supported(f, n)' <=> DerivedFrom(f, Facts)'
BY DEF Supported, DerivedFrom

\* A derivation stays one while facts and rules are added.
LEMMA SupportedStays ==
  ASSUME NEW f, NEW n, Supported(f, n), rules \subseteq rules',
         Facts \subseteq Facts', \A g \in Facts : graph'[g] = graph[g]
  PROVE  Supported(f, n)'
<1>1. PICK r \in {x \in rules : ~ Unsafe(x)} : \E s \in [BodyVars(r) -> Atom] :
        /\ Bind(r.head, s) = GroundOf(f)
        /\ \A b \in r.body : \E g \in Facts : GroundOf(g) = Bind(b, s) /\ graph[g].at < n
  BY DEF Supported
<1>2. PICK s \in [BodyVars(r) -> Atom] :
        /\ Bind(r.head, s) = GroundOf(f)
        /\ \A b \in r.body : \E g \in Facts : GroundOf(g) = Bind(b, s) /\ graph[g].at < n
  BY <1>1
<1>3. \A b \in r.body : \E g \in Facts' : GroundOf(g) = Bind(b, s) /\ graph'[g].at < n
  BY <1>2
<1>4. r \in {x \in rules' : ~ Unsafe(x)}
  BY <1>1
<1>5. QED
  BY <1>2, <1>3, <1>4 DEF Supported

\* A pass derives its heads from the facts of the passes before.
LEMMA SolveSupports ==
  ASSUME Typed, Deriving, NEW r \in rules, ~ Unsafe(r), NEW f \in Heads(r, Grounds)
  PROVE  f.layer = "inferred" /\ Supported(f, pass + 1)
<1>1. r \in Rule /\ pass \in Nat /\ \A g \in Facts : graph[g].at \in Nat
  BY DEF Typed, TypeOK, Origin
<1>2. f.layer = "inferred"
  BY <1>1, HeadsAreFacts
<1>3. PICK s \in Solutions(r, Grounds) : f = AtLayer(Bind(r.head, s), "inferred")
  BY DEF Heads
<1>4. s \in [BodyVars(r) -> Atom] /\ r.head \in Pattern
  BY <1>1, <1>3 DEF Solutions, Rule
<1>5. Bind(r.head, s) = GroundOf(f)
  BY <1>3, <1>4, BindGround, AtLayerFact DEF Unsafe, Layer
<1>6. ASSUME NEW b \in r.body
      PROVE  \E g \in Facts : GroundOf(g) = Bind(b, s) /\ graph[g].at < pass + 1
  <2>1. Bind(b, s) \in Grounds
    BY <1>3 DEF Solutions
  <2>2. PICK g \in Facts : Bind(b, s) = GroundOf(g)
    BY <2>1 DEF Grounds
  <2>3. graph[g].at < pass + 1
    BY <1>1 DEF Deriving
  <2>4. QED
    BY <2>2, <2>3
<1>7. QED
  BY <1>2, <1>4, <1>5, <1>6 DEF Supported

LEMMA DerivingStep == Typed /\ Deriving /\ [Next]_vars => Deriving'
<1> SUFFICES ASSUME Typed, Deriving, [Next]_vars
             PROVE  Deriving'
  OBVIOUS
<1>a. req \in Request /\ Phased(req) /\ pass \in Nat /\ \A g \in Facts : graph[g].at \in Nat
  BY DEF Typed, TypeOK, Origin
<1>1. ASSUME UNCHANGED graph, rules \subseteq rules', pass' \in {pass, pass + 1}
      PROVE  InferredIsDerived' /\ (\A f \in Facts : graph[f].at <= pass)'
  <2>1. Facts' = Facts
    BY <1>1 DEF Facts
  <2>2. ASSUME NEW f \in Facts', graph'[f].by = "rule"
        PROVE  f.layer = "inferred" /\ DerivedFrom(f, Facts)'
    <3>1. PICK n : n = graph[f].at
      OBVIOUS
    <3>2. f.layer = "inferred" /\ DerivedFrom(f, Facts)
      BY <1>1, <2>1, <2>2 DEF Deriving, InferredIsDerived
    <3>3. Supported(f, n)
      BY <3>1, <3>2, SupportedIsDerived
    <3>4. Supported(f, n)'
      BY <1>1, <2>1, <3>3, SupportedStays
    <3>5. QED
      BY <1>1, <3>1, <3>2, <3>4, SupportedIsDerivedNext
  <2>3. QED
    BY <1>1, <1>a, <2>1, <2>2 DEF InferredIsDerived, Deriving
<1>2. ASSUME UNCHANGED graph, rules \subseteq rules', UNCHANGED pass,
             req'.pc = "insert" /\ req'.kind = "evaluate" =>
               /\ req.pc = "insert" /\ req.kind = "evaluate"
               /\ req'.todo \subseteq req.todo
      PROVE  Deriving'
  <2>1. Facts' = Facts
    BY <1>2 DEF Facts
  <2>2. \A f : Supported(f, pass) => Supported(f, pass)'
    BY <1>2, <2>1, SupportedStays
  <2>3. QED
    BY <1>1, <1>2, <2>2 DEF Deriving
<1>3. CASE Ingest \/ Load \/ Index \/ Evaluate \/ Propose \/ Refine
  BY <1>2, <1>3, Starts
<1>4. ASSUME NEW f \in req.todo, InsertFact(f)
      PROVE  Deriving'
  <2>1. /\ Facts' = Facts \cup {f} /\ \A g \in Facts : graph'[g] = graph[g]
        /\ f \notin Facts =>
              graph'[f] = [by |-> AuthorOf(req.kind),
                           at |-> IF req.kind = "evaluate" THEN pass ELSE 0]
    BY <1>4, PutGraph DEF InsertFact
  <2>2. req'.kind = req.kind /\ req'.todo \subseteq req.todo /\ req.pc = "insert"
        /\ UNCHANGED <<rules, pass>>
    BY <1>a, <1>4 DEF InsertFact, Request
  <2>3. \A g, n : Supported(g, n) => Supported(g, n)'
    BY <2>1, <2>2, SupportedStays
  <2>4. ASSUME NEW g \in Facts', graph'[g].by = "rule"
        PROVE  g.layer = "inferred" /\ DerivedFrom(g, Facts)'
    <3>1. PICK n : n = graph'[g].at
      OBVIOUS
    <3>2. g.layer = "inferred" /\ Supported(g, n)'
      <4>1. CASE g \in Facts
        <5>1. g.layer = "inferred" /\ DerivedFrom(g, Facts) /\ n = graph[g].at
          BY <2>1, <2>4, <3>1, <4>1 DEF Deriving, InferredIsDerived
        <5>2. Supported(g, n)
          BY <5>1, SupportedIsDerived
        <5>3. QED
          BY <2>3, <5>1, <5>2
      <4>2. CASE g \notin Facts
        <5>1. g = f /\ graph'[f] = [by |-> AuthorOf(req.kind),
                                    at |-> IF req.kind = "evaluate" THEN pass ELSE 0]
          BY <2>1, <4>2
        <5>2. req.kind = "evaluate"
          BY <2>4, <5>1 DEF AuthorOf
        <5>3. f.layer = "inferred" /\ Supported(f, pass) /\ graph'[f].at = pass
          BY <2>2, <5>1, <5>2 DEF Deriving
        <5>4. QED
          BY <2>3, <3>1, <5>1, <5>3
      <4>3. QED
        BY <4>1, <4>2
    <3>3. QED
      BY <3>1, <3>2, SupportedIsDerivedNext
  <2>5. \A g \in Facts' : graph'[g].at <= pass
    BY <1>a, <2>1 DEF Deriving
  <2>6. QED
    BY <2>2, <2>3, <2>4, <2>5 DEF Deriving, InferredIsDerived
<1>5. ASSUME NEW p \in req.todo, Accept(p)
      PROVE  Deriving'
  <2> DEFINE f == AtLayer(p, "candidate")
  <2>1. Put(f) /\ req.pc = "resolve" /\ AuthorOf(req.kind) = "llm" /\ req.kind # "evaluate"
    BY <1>a, <1>5 DEF Accept, Phased, AuthorOf
  <2>2. req'.pc = "resolve" /\ UNCHANGED <<rules, pass>>
    BY <1>5, ResolveFields DEF Accept
  <2> HIDE DEF f
  <2>3. /\ Facts' = Facts \cup {f} /\ \A g \in Facts : graph'[g] = graph[g]
        /\ f \notin Facts => graph'[f] = [by |-> "llm", at |-> 0]
    BY <2>1, PutGraph
  <2>4. \A g, n : Supported(g, n) => Supported(g, n)'
    BY <2>2, <2>3, SupportedStays
  <2>5. ASSUME NEW g \in Facts', graph'[g].by = "rule"
        PROVE  g.layer = "inferred" /\ DerivedFrom(g, Facts)'
    <3>1. PICK n : n = graph'[g].at
      OBVIOUS
    <3>2. g \in Facts /\ n = graph[g].at /\ graph[g].by = "rule"
      BY <2>3, <2>5, <3>1
    <3>3. g.layer = "inferred" /\ DerivedFrom(g, Facts)
      BY <3>2 DEF Deriving, InferredIsDerived
    <3>4. Supported(g, n)'
      BY <2>4, <3>2, <3>3, SupportedIsDerived
    <3>5. QED
      BY <3>1, <3>3, <3>4, SupportedIsDerivedNext
  <2>6. \A g \in Facts' : graph'[g].at <= pass
    BY <1>a, <2>3 DEF Deriving
  <2>7. QED
    BY <2>2, <2>5, <2>6 DEF Deriving, InferredIsDerived
<1>6. CASE Solve
  <2> DEFINE stuck == \E r \in rules : Unsafe(r) /\ Solutions(r, Grounds) # {}
             batch == (UNION {Heads(r, Grounds) : r \in rules}) \ Facts
  <2>1. CASE (Answer("ok") \/ Answer("failed")) /\ UNCHANGED pass
    BY <1>a, <1>2, <1>6, <2>1, Answered DEF Solve
  <2>2. CASE ~ stuck /\ req' = [req EXCEPT !.pc = "insert", !.todo = batch] /\ pass' = pass + 1
    <3>1. ASSUME NEW f \in batch
          PROVE  f.layer = "inferred" /\ Supported(f, pass + 1)
      <4>1. PICK r \in rules : f \in Heads(r, Grounds)
        BY <3>1
      <4>2. ~ Unsafe(r)
        BY <2>2, <4>1 DEF Heads
      <4>3. QED
        BY <4>1, <4>2, SolveSupports
    <3> HIDE DEF batch, stuck
    <3>2. UNCHANGED <<graph, rules>> /\ req'.todo = batch
      BY <1>a, <1>6, <2>2 DEF Solve, Request
    <3>3. \A f, n : Supported(f, n) => Supported(f, n)'
      BY <3>2, SupportedStays DEF Facts
    <3>4. QED
      BY <1>1, <2>2, <3>1, <3>2, <3>3 DEF Deriving
  <2>3. QED
    BY <1>6, <2>1, <2>2 DEF Solve
<1>7. ASSUME NEW f \in req.todo, ArityError(f)
      PROVE  Deriving'
  <2>1. CASE Answer("failed")
    BY <1>a, <1>2, <1>7, <2>1, Answered DEF ArityError
  <2>2. CASE req' = [req EXCEPT !.todo = @ \ {f}]
    BY <1>a, <1>2, <1>7, <2>2 DEF ArityError, Request
  <2>3. QED
    BY <1>7, <2>1, <2>2 DEF ArityError
<1>8. CASE Inserted
  <2>1. req'.pc \in {"solve", "reply"}
    <3>1. CASE Answer("ok")
      BY <1>a, <3>1, Answered
    <3>2. CASE req' = [req EXCEPT !.pc = "solve"]
      BY <1>a, <3>2 DEF Request
    <3>3. QED
      BY <1>8, <3>1, <3>2 DEF Inserted
  <2>2. QED
    BY <1>2, <1>8, <2>1 DEF Inserted
<1>9. ASSUME NEW a \in Answers \cup {Garbage}, req.pc = "ask", Read(a),
             UNCHANGED <<graph, rules, pass>>
      PROVE  Deriving'
  BY <1>2, <1>9, ReadFields
<1>10. ASSUME NEW p \in req.todo, Reject(p)
       PROVE  Deriving'
  BY <1>2, <1>10, ResolveFields DEF Reject
<1>11. CASE RoundDone
  <2>1. req'.kind # "evaluate"
    <3>1. req.kind # "evaluate"
      BY <1>a, <1>11 DEF RoundDone
    <3>2. ASSUME NEW result, Answer(result)
          PROVE  req'.kind = req.kind
      BY <1>a, <3>2, Answered
    <3>3. CASE req' = [req EXCEPT !.pc = "ask"]
      BY <1>a, <3>1, <3>3 DEF Request
    <3>4. QED
      BY <1>11, <3>1, <3>2, <3>3 DEF RoundDone
  <2>2. QED
    BY <1>2, <1>11, <2>1 DEF RoundDone
<1>12. CASE ProviderFails \/ Reply
  BY <1>a, <1>2, <1>12, Answered, IdleWell DEF ProviderFails, Reply
<1>13. CASE UNCHANGED vars
  BY <1>2, <1>13 DEF vars
<1>14. CASE Recall
  BY <1>9, <1>14 DEF Recall, Typed, TypeOK
<1>15. CASE Work
  BY <1>4, <1>5, <1>6, <1>7, <1>8, <1>9, <1>10, <1>11, <1>12, <1>14, <1>15 DEF Work, Ask
<1>16. QED
  BY <1>3, <1>13, <1>15 DEF Next, Quiet

\* Whatever the engine has written is inferred and follows from the rules by a derivation
\* that ends in facts somebody told, also after evaluations that failed half-way through
\* a batch and rules that were loaded since (eval.rs:20-43).
THEOREM InferredStaysDerived == Spec => []InferredIsDerived
<1>1. Init => Typed /\ Deriving
  BY TypedInit DEF Init, Deriving, InferredIsDerived, Facts, Idle
<1>2. Typed /\ Deriving /\ [Next]_vars => (Typed /\ Deriving)'
  BY TypedStep, DerivingStep
<1>3. Deriving => InferredIsDerived
  BY DEF Deriving
<1>4. QED
  BY <1>1, <1>2, <1>3, PTL DEF Spec

\* Induction on passes is by a least counterexample.
LEMMA Least ==
  ASSUME NEW Q, Q \subseteq Nat, Q # {}
  PROVE  \E n \in Q : \A m \in Q : n <= m
<1> DEFINE R == OpToRel(<, Nat)
<1>1. IsWellFoundedOn(R, Nat)
  BY NatLessThanWellFounded, Zenon
<1>2. \A x, y \in Nat : x < y => <<x, y>> \in R
  BY DEF OpToRel
<1> HIDE DEF R
<1>3. PICK n \in Q : \A m \in Q : <<m, n>> \notin R
  BY <1>1, WFMin
<1>4. \A m \in Q : m \in Nat /\ n \in Nat /\ ~(m < n)
  BY <1>2, <1>3
<1>5. \A m \in Q : n <= m
  BY <1>4
<1>6. QED
  BY <1>3, <1>5

\* Any closed set with the facts given has all the engine has written so far.
LEMMA NothingSmaller ==
  ASSUME Typed, InferredIsDerived, NEW M, Given \subseteq M, Closed(M)
  PROVE  Grounds \subseteq M
<1> DEFINE Missing == {f \in Facts : GroundOf(f) \notin M}
           Passes == {graph[f].at : f \in Missing}
<1>1. Missing = {} => Grounds \subseteq M
  BY DEF Grounds
<1>2. SUFFICES ASSUME Missing # {} PROVE FALSE
  BY <1>1
<1>3. \A f \in Facts : graph[f].at \in Nat
  BY DEF Typed, TypeOK, Origin
<1>4. PICK n \in Passes : \A m \in Passes : n <= m
  <2>1. Passes \subseteq Nat
    BY <1>3
  <2>2. Passes # {}
    BY <1>2
  <2> HIDE DEF Passes
  <2>3. QED
    BY <2>1, <2>2, Least
<1>5. PICK f \in Missing : graph[f].at = n
  OBVIOUS
<1>6. f \in Facts /\ GroundOf(f) \notin M /\ n \in Nat
  BY <1>3, <1>5
<1>7. graph[f].by = "rule"
  BY <1>6 DEF Given
<1>8. DerivedFrom(f, Facts)
  BY <1>6, <1>7 DEF InferredIsDerived
<1>9. PICK r \in {x \in rules : ~ Unsafe(x)} : \E s \in [BodyVars(r) -> Atom] :
        /\ Bind(r.head, s) = GroundOf(f)
        /\ \A b \in r.body : \E g \in Facts : GroundOf(g) = Bind(b, s) /\ graph[g].at < graph[f].at
  BY <1>8 DEF DerivedFrom
<1>10. PICK s \in [BodyVars(r) -> Atom] :
        /\ Bind(r.head, s) = GroundOf(f)
        /\ \A b \in r.body : \E g \in Facts : GroundOf(g) = Bind(b, s) /\ graph[g].at < graph[f].at
  BY <1>9
<1>11. ASSUME NEW b \in r.body PROVE Bind(b, s) \in M
  <2>1. PICK g \in Facts : GroundOf(g) = Bind(b, s) /\ graph[g].at < graph[f].at
    BY <1>10
  <2>2. g \notin Missing
    <3>1. SUFFICES ASSUME g \in Missing PROVE FALSE
      OBVIOUS
    <3>2. graph[g].at \in Passes
      BY <3>1
    <3>3. n <= graph[g].at /\ graph[g].at \in Nat
      BY <1>3, <1>4, <3>2
    <3>4. QED
      BY <1>5, <1>6, <2>1, <3>3
  <2>3. QED
    BY <2>1, <2>2
<1>12. s \in Solutions(r, M)
  BY <1>11 DEF Solutions
<1>13. Bind(r.head, s) \in M
  BY <1>12 DEF Closed
<1>14. QED
  BY <1>6, <1>10, <1>13

\* An evaluation that succeeds has computed the least model of the rules over the facts
\* given: the graph is closed under them, and each set of atoms that has the facts given
\* and is closed has the whole graph, whatever order the facts and the rules came in and
\* whichever evaluations failed half-way before (eval.rs:20-43).
THEOREM EvaluationsAreLeast ==
  Spec => []/\ EvaluatedIsLeast
            /\ EvaluationSucceeded => Closed(Grounds)
            /\ \A M \in SUBSET Ground : Given \subseteq M /\ Closed(M) => Grounds \subseteq M
<1> DEFINE Exact == /\ EvaluatedIsLeast
                    /\ EvaluationSucceeded => Closed(Grounds)
                    /\ \A M \in SUBSET Ground : Given \subseteq M /\ Closed(M) => Grounds \subseteq M
<1>1. Typed /\ EvaluatedIsClosed /\ InferredIsDerived => Exact
  <2> SUFFICES ASSUME Typed, EvaluatedIsClosed, InferredIsDerived PROVE Exact
    OBVIOUS
  <2>1. EvaluationSucceeded => Closed(Grounds)
    <3> SUFFICES ASSUME EvaluationSucceeded, NEW r \in rules, NEW s \in Solutions(r, Grounds)
                 PROVE  Bind(r.head, s) \in Grounds
      BY DEF Closed
    <3>1. AtLayer(Bind(r.head, s), "inferred") \in Facts
      BY DEF EvaluatedIsClosed, Heads
    <3>2. GroundOf(AtLayer(Bind(r.head, s), "inferred")) = Bind(r.head, s)
      BY DEF GroundOf, AtLayer, Bind
    <3>3. QED
      BY <3>1, <3>2 DEF Grounds
  <2>2. ASSUME NEW M, Given \subseteq M, Closed(M) PROVE Grounds \subseteq M
    BY <2>2, NothingSmaller
  <2>3. ASSUME NEW D \in SUBSET (Grounds \ Given), Closed(Given \cup D) PROVE Given \cup D = Grounds
    <3>1. Given \subseteq Grounds
      BY DEF Given, Grounds
    <3>2. Grounds \subseteq Given \cup D
      BY <2>2, <2>3
    <3>3. QED
      BY <3>1, <3>2
  <2>4. QED
    BY <2>1, <2>2, <2>3 DEF EvaluatedIsLeast
<1>2. Init => Typed
  BY TypedInit
<1>3. Typed /\ [Next]_vars => Typed'
  BY TypedStep
<1>4. QED
  BY <1>1, <1>2, <1>3, InferredStaysDerived, EvaluationsClose, PTL DEF Spec

\* An explanation cites no inferred fact of the engine's without an activation of a rule
\* that has it as head and facts of the graph as premises, even when the graph and the
\* rules have grown since the evaluation (builder.rs:54-117, trace.rs:40-64).
THEOREM ExplanationsAreTraced == Spec => []CitedInferencesAreTraced
<1>1. Typed /\ InferredIsDerived => CitedInferencesAreTraced
  <2> SUFFICES ASSUME Typed, InferredIsDerived,
                      NEW anchors \in SUBSET Atom, NEW f \in Cited(anchors), graph[f].by = "rule"
               PROVE  \E d \in Traced(anchors) :
                        d.head = f /\ {GroundOf(p) : p \in d.premises} \subseteq Grounds
    BY DEF CitedInferencesAreTraced
  <2>1. f \in Facts /\ f \in Fact /\ Touches(f, anchors)
    BY DEF Cited, Typed, TypeOK
  <2>2. f.layer = "inferred" /\ DerivedFrom(f, Facts)
    BY <2>1 DEF InferredIsDerived
  <2>10. PICK r \in {x \in rules : ~ Unsafe(x)} : \E s \in [BodyVars(r) -> Atom] :
           /\ Bind(r.head, s) = GroundOf(f)
           /\ \A b \in r.body : \E g \in Facts : GroundOf(g) = Bind(b, s)
    BY <2>2 DEF DerivedFrom
  <2>3. PICK s \in [BodyVars(r) -> Atom] :
          /\ Bind(r.head, s) = GroundOf(f)
          /\ \A b \in r.body : \E g \in Facts : GroundOf(g) = Bind(b, s)
    BY <2>10
  <2> DEFINE d == Activation(r, s)
  <2>4. \A b \in r.body : Bind(b, s) \in Grounds
    BY <2>3 DEF Grounds
  <2>5. d \in Activations
    <3>1. s \in Solutions(r, Grounds)
      BY <2>3, <2>4 DEF Solutions
    <3>2. QED
      BY <3>1 DEF Activations
  <2>6. d.head = f
    BY <2>1, <2>2, <2>3 DEF Activation, AtLayer, GroundOf, Fact
  <2>7. d \in Traced(anchors)
    BY <2>1, <2>5, <2>6 DEF Traced
  <2>8. {GroundOf(p) : p \in d.premises} \subseteq Grounds
    <3>1. \A b \in r.body : GroundOf(AtLayer(Bind(b, s), "observed")) = Bind(b, s)
      BY DEF GroundOf, AtLayer, Bind
    <3>2. QED
      BY <2>4, <3>1 DEF Activation
  <2>9. QED
    BY <2>6, <2>7, <2>8
<1>2. Init => Typed
  BY TypedInit
<1>3. Typed /\ [Next]_vars => Typed'
  BY TypedStep
<1>4. QED
  BY <1>1, <1>2, <1>3, InferredStaysDerived, PTL DEF Spec
=============================================================================
