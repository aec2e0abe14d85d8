--------------------------- MODULE Clients_proofs ---------------------------
(* What the requests of Clients keep: a promise is settled by its own answer, *)
(* what is committed is what was shown, confirmed and names what there was,   *)
(* what the users are told of it is true, and a history shows the newest.     *)
EXTENDS Clients, Service_proofs

-----------------------------------------------------------------------------
(* The records of a state have their fields.                                  *)
CallFields == {"m", "id", "plan", "mem", "commit", "base", "snap", "seen"}
CoreFields == {"open", "fns", "types", "rules", "cache", "call", "answer"}
FlowFields == {"stage", "id", "got", "plan", "proposed", "told", "about"}
ClientFields == {"proc", "exited", "shutting", "nextId", "early", "pending"}
ShellFields == {"line", "calls", "plans", "run", "code"}

\* What a core keeps of the model is what it answered.
Cached(k) == \A x \in DOMAIN k.cache : k.cache[x] \in ModelAnswers
Formed ==
  /\ DOMAIN core = Procs
  /\ \A p \in Procs : DOMAIN core[p] = CoreFields /\ DOMAIN core[p].call = CallFields /\ Cached(core[p])
  /\ DOMAIN flow = Flows
  /\ \A w \in Flows : DOMAIN flow[w] = FlowFields
  /\ DOMAIN client = ClientFields /\ client.nextId \in Nat \ {0}
  /\ ASeq(inbox) /\ ASeq(outbox) /\ ASeq(made)
  /\ \A c \in ToSet(inbox) : DOMAIN c = CallFields

LEMMA Literals ==
  /\ DOMAIN NoCall = CallFields /\ NoCall.id = 0 /\ NoCall.m = "none" /\ NoCall.mem = 0
  /\ NoCall.base = NoText /\ NoText.names = {}
  /\ NoCall.snap = {} /\ NoCall.seen = NotSeen /\ NoCall.plan = <<>>
  /\ DOMAIN FreshCore = CoreFields /\ FreshCore.call = NoCall /\ FreshCore.answer = Nothing
  /\ FreshCore.fns = {} /\ FreshCore.types = {} /\ Cached(FreshCore)
  /\ DOMAIN NoFlow = FlowFields /\ NoFlow.stage = "idle" /\ NoFlow.id = 0 /\ NoFlow.got = Nothing
  /\ NoFlow.plan = <<>> /\ NoFlow.proposed = FALSE /\ NoFlow.told = "nothing"
  /\ NotSeen.plan = <<>> /\ NotSeen.proposed = FALSE
  /\ "for" \notin DOMAIN Nothing /\ Nothing.k = "nothing"
<1>1. DOMAIN <<>> = {}
  BY NoElements DEF ToSet
<1>2. Cached(FreshCore)
  BY <1>1 DEF Cached, FreshCore
<1>3. QED
  BY <1>2 DEF NoCall, Call, FreshCore, NoFlow, NotSeen, NoText, Nothing, CallFields, CoreFields, FlowFields

LEMMA CallFormed ==
  ASSUME NEW m, NEW plan
  PROVE  /\ DOMAIN Call(m, plan) = CallFields /\ Call(m, plan).m = m
         /\ Call(m, plan).plan = plan /\ Call(m, plan).seen = NotSeen /\ Call(m, plan).base = NoText
         /\ Call(m, plan).snap = {} /\ Call(m, plan).mem = 0
BY DEF Call, CallFields

-----------------------------------------------------------------------------
(* What the handlers have in common.                                          *)

\* b says whether what a plan makes of a text is another one.
Tells(plan, t, b) == \E o \in Shadows(plan, t) : b = (o.text # t)

\* What a call is answered with, by its method.
Replied(k, c, a) ==
  /\ c.m = "patch.preview" =>
       a.k = "preview" /\ a.base = c.base /\ Tells(c.plan, c.base, a.some)
  /\ c.m = "llm.propose_patch" =>
       \/ a.k = "error"
       \/ a.k = "candidates" /\ \E b \in ModelAnswers : a.of = Candidates(b, k.fns, k.types)
  /\ c.m = "patch.apply" <=> a.k = "apply"
  /\ a.k = "preview" => c.m = "patch.preview"
  /\ a.k = "candidates" => c.m = "llm.propose_patch"
  /\ a.k = "rollback" => c.m = "patch.rollback"

\* A history is of the entries that were listed and are there.
Listing(c, a) ==
  a.k = "history" =>
    /\ a.snap = c.snap \cap journal
    /\ \E h \in Histories(Entries(a.snap), All, c.mem) : a.ids = Ids(h)

\* What a call does to the workspace: nothing, a commit or a rollback.
Committed(p, c, a) ==
  /\ c.m = "patch.apply" /\ a.applied = TRUE
  /\ \E e : /\ made' = Append(made, e) /\ e.by = p /\ e.req = c.id /\ e.plan = c.plan
            /\ e.before = c.base /\ e.seen = c.seen
            /\ \E o \in Shadows(c.plan, c.base) : e.after = o.text
            /\ text' \in {text, e.after} /\ e.at = clock
  /\ journal' \subseteq journal \cup {Len(made')}
Undone(c) ==
  /\ c.m = "patch.rollback" /\ c.commit \in c.snap
  /\ UNCHANGED made /\ journal' \subseteq journal
  /\ text' \in {text, made[c.commit].before}
Untouched(a) == UNCHANGED disk /\ (a.k = "apply" => a.applied = FALSE)

Handled(p) ==
  LET c == core[p].call  a == core'[p].answer
  IN  /\ DOMAIN core' = Procs /\ \A q \in Procs \ {p} : core'[q] = core[q]
      /\ DOMAIN core'[p] = CoreFields /\ core'[p].call = NoCall
      /\ core'[p].fns \subseteq core[p].fns \cup c.base.names
      /\ core'[p].types \subseteq core[p].types \cup c.base.names
      /\ Cached(core'[p])
      /\ c.m # "none" /\ a # Nothing /\ "for" \in DOMAIN a /\ a.for = c.id
      /\ Replied(core[p], c, a) /\ Listing(c, a)
      /\ Untouched(a) \/ Committed(p, c, a) \/ Undone(c)

LEMMA ReplyEffect ==
  ASSUME Formed, NEW p \in Procs, NEW k, DOMAIN k = CoreFields, k.call = core[p].call,
         NEW a, "for" \notin DOMAIN a, ReplyWith(p, k, a)
  PROVE  /\ DOMAIN core' = Procs /\ \A q \in Procs \ {p} : core'[q] = core[q]
         /\ DOMAIN core'[p] = CoreFields /\ core'[p].call = NoCall
         /\ core'[p].fns = k.fns /\ core'[p].types = k.types /\ core'[p].cache = k.cache
         /\ (Cached(core[p]) /\ k.cache = core[p].cache) => Cached(core'[p])
         /\ core'[p].answer # Nothing /\ core'[p].answer.for = core[p].call.id
         /\ "for" \in DOMAIN core'[p].answer
         /\ \A x \in DOMAIN a : core'[p].answer[x] = a[x]
<1> DEFINE b == With(a, "for", k.call.id)
<1>1. core' = [core EXCEPT ![p] = [k EXCEPT !.call = NoCall, !.answer = b]]
  BY DEF ReplyWith, Answered
<1>2. b.for = core[p].call.id /\ "for" \in DOMAIN b /\ \A x \in DOMAIN a : b[x] = a[x]
  <2>1. DOMAIN b = DOMAIN a \cup {"for"} /\ b.for = k.call.id
    BY DEF With
  <2>2. ASSUME NEW x \in DOMAIN a PROVE b[x] = a[x]
    BY DEF With
  <2> HIDE DEF b
  <2>3. QED
    BY <2>1, <2>2
<1>3. b # Nothing
  BY <1>2, Literals
<1> HIDE DEF b
<1>4. core'[p] = [k EXCEPT !.call = NoCall, !.answer = b]
      /\ DOMAIN core' = Procs /\ \A q \in Procs \ {p} : core'[q] = core[q]
  BY <1>1 DEF Formed
<1>5. /\ DOMAIN core'[p] = CoreFields /\ core'[p].call = NoCall /\ core'[p].answer = b
      /\ core'[p].fns = k.fns /\ core'[p].types = k.types /\ core'[p].cache = k.cache
  BY <1>4 DEF CoreFields
<1>6. (Cached(core[p]) /\ k.cache = core[p].cache) => Cached(core'[p])
  BY <1>5 DEF Cached
<1>7. QED
  BY <1>2, <1>3, <1>4, <1>5, <1>6

\* A call that changes nothing and is no preview, proposal or apply.
LEMMA PlainHandled ==
  ASSUME Formed, NEW p \in Procs, NEW k, DOMAIN k = CoreFields, k.call = core[p].call,
         k.cache = core[p].cache,
         k.fns \subseteq core[p].fns \cup core[p].call.base.names,
         k.types \subseteq core[p].types \cup core[p].call.base.names,
         NEW a, "for" \notin DOMAIN a, "k" \in DOMAIN a, a.k \notin {"apply", "preview", "candidates", "history"},
         a.k = "rollback" => core[p].call.m = "patch.rollback", ReplyWith(p, k, a),
         core[p].call.m \notin {"patch.preview", "llm.propose_patch", "patch.apply", "none"},
         UNCHANGED disk
  PROVE  Handled(p)
<1> DEFINE b == core'[p].answer
<1>1. /\ DOMAIN core' = Procs /\ \A q \in Procs \ {p} : core'[q] = core[q]
      /\ DOMAIN core'[p] = CoreFields /\ core'[p].call = NoCall
      /\ core'[p].fns = k.fns /\ core'[p].types = k.types
      /\ core'[p].cache = k.cache
      /\ b # Nothing /\ "for" \in DOMAIN b /\ b.for = core[p].call.id /\ b.k = a.k
  BY ReplyEffect
<1>2. Replied(core[p], core[p].call, b) /\ Listing(core[p].call, b)
  BY <1>1 DEF Replied, Listing
<1>3. Untouched(b)
  BY <1>1 DEF Untouched
<1>4. Cached(core'[p])
  BY <1>1 DEF Formed, Cached
<1> HIDE DEF b
<1>5. QED
  BY <1>1, <1>2, <1>3, <1>4 DEF Handled, b

LEMMA PlainCalls ==
  ASSUME Formed, NEW p \in Procs,
         \/ Initialize(p) \/ Open(p) \/ Index(p) \/ Load(p) \/ Evaluate(p) \/ Query(p)
         \/ ProposeFacts(p) \/ Explain(p) \/ Show(p) \/ Statistics(p) \/ RollbackRefused(p)
  PROVE  Handled(p)
<1>0. DOMAIN core[p] = CoreFields
  BY DEF Formed
<1>a. /\ "for" \notin DOMAIN Done /\ "k" \in DOMAIN Done /\ Done.k = "done"
      /\ "for" \notin DOMAIN Error /\ "k" \in DOMAIN Error /\ Error.k = "error"
  BY DEF Done, Error
<1>1. CASE Initialize(p) \/ Evaluate(p) \/ ProposeFacts(p) \/ Show(p)
  <2>1. PICK a \in {Done, Error} : ReplyWith(p, core[p], a)
    BY <1>1 DEF Initialize, Evaluate, ProposeFacts, Show, Reply
  <2>2. /\ core[p].call.m \notin {"patch.preview", "llm.propose_patch", "patch.apply", "none"}
        /\ UNCHANGED disk
    BY <1>1 DEF Initialize, Evaluate, ProposeFacts, Show, On, Calls
  <2>3. QED
    BY <1>0, <1>a, <2>1, <2>2, PlainHandled
<1>2. CASE Open(p)
  <2> DEFINE k == [core[p] EXCEPT !.open = TRUE]
  <2>1. /\ ReplyWith(p, k, Done) /\ UNCHANGED disk
        /\ core[p].call.m \notin {"patch.preview", "llm.propose_patch", "patch.apply", "none"}
    BY <1>2 DEF Open, Calls
  <2>2. DOMAIN k = CoreFields /\ k.call = core[p].call /\ k.cache = core[p].cache /\ k.fns = core[p].fns /\ k.types = core[p].types
    BY <1>0 DEF CoreFields
  <2> HIDE DEF k
  <2>3. QED
    BY <1>a, <2>1, <2>2, PlainHandled
<1>3. CASE Load(p)
  <2> DEFINE k == [core[p] EXCEPT !.rules = TRUE]
  <2>1. /\ ReplyWith(p, k, Done) /\ UNCHANGED disk
        /\ core[p].call.m \notin {"patch.preview", "llm.propose_patch", "patch.apply", "none"}
    BY <1>3 DEF Load, On, Calls
  <2>2. DOMAIN k = CoreFields /\ k.call = core[p].call /\ k.cache = core[p].cache /\ k.fns = core[p].fns /\ k.types = core[p].types
    BY <1>0 DEF CoreFields
  <2> HIDE DEF k
  <2>3. QED
    BY <1>a, <2>1, <2>2, PlainHandled
<1>4. CASE Index(p)
  <2> DEFINE k == [core[p] EXCEPT !.fns = @ \cup FnsOf(core[p].call.base),
                                  !.types = @ \cup TypesOf(core[p].call.base)]
  <2>1. /\ ReplyWith(p, k, Done) /\ UNCHANGED disk
        /\ core[p].call.m \notin {"patch.preview", "llm.propose_patch", "patch.apply", "none"}
    BY <1>4 DEF Index, On, Calls
  <2>2. /\ DOMAIN k = CoreFields /\ k.call = core[p].call /\ k.cache = core[p].cache
        /\ k.fns = core[p].fns \cup FnsOf(core[p].call.base)
        /\ k.types = core[p].types \cup TypesOf(core[p].call.base)
    BY <1>0 DEF CoreFields
  <2> HIDE DEF k
  <2>3. QED
    BY <1>a, <2>1, <2>2, PlainHandled DEF FnsOf, TypesOf
<1>5. CASE Query(p)
  <2> DEFINE a == [k |-> "functions", names |-> core[p].fns]
  <2>1. /\ ReplyWith(p, core[p], a) /\ UNCHANGED disk
        /\ core[p].call.m \notin {"patch.preview", "llm.propose_patch", "patch.apply", "none"}
    BY <1>5 DEF Query, Reply, On, Calls
  <2>2. "for" \notin DOMAIN a /\ "k" \in DOMAIN a /\ a.k = "functions"
    OBVIOUS
  <2> HIDE DEF a
  <2>3. QED
    BY <1>0, <2>1, <2>2, PlainHandled
<1>6. CASE Explain(p)
  <2>1. PICK v \in {"accepted", "rejected", "not_proven"} : Reply(p, [k |-> "verdict", of |-> v])
    BY <1>6 DEF Explain
  <2> DEFINE a == [k |-> "verdict", of |-> v]
  <2>2. /\ ReplyWith(p, core[p], a) /\ UNCHANGED disk
        /\ core[p].call.m \notin {"patch.preview", "llm.propose_patch", "patch.apply", "none"}
    BY <1>6, <2>1 DEF Explain, Reply, On, Calls
  <2>3. "for" \notin DOMAIN a /\ "k" \in DOMAIN a /\ a.k = "verdict"
    OBVIOUS
  <2> HIDE DEF a
  <2>4. QED
    BY <1>0, <2>2, <2>3, PlainHandled
<1>7. CASE Statistics(p)
  <2> DEFINE a == [k |-> "stats", of |-> Stats(Listed(core[p].call))]
  <2>1. /\ ReplyWith(p, core[p], a) /\ UNCHANGED disk
        /\ core[p].call.m \notin {"patch.preview", "llm.propose_patch", "patch.apply", "none"}
    BY <1>7 DEF Statistics, Reply, On, Calls
  <2>2. "for" \notin DOMAIN a /\ "k" \in DOMAIN a /\ a.k = "stats"
    OBVIOUS
  <2> HIDE DEF a
  <2>3. QED
    BY <1>0, <2>1, <2>2, PlainHandled
<1>8. CASE RollbackRefused(p)
  <2> DEFINE a == [k |-> "rollback", ok |-> FALSE]
  <2>1. /\ ReplyWith(p, core[p], a) /\ UNCHANGED disk
        /\ core[p].call.m = "patch.rollback"
    BY <1>8 DEF RollbackRefused, Reply, On, Calls
  <2>2. "for" \notin DOMAIN a /\ "k" \in DOMAIN a /\ a.k = "rollback"
    OBVIOUS
  <2> HIDE DEF a
  <2>3. QED
    BY <1>0, <2>1, <2>2, PlainHandled
<1>9. QED
  BY <1>1, <1>2, <1>3, <1>4, <1>5, <1>6, <1>7, <1>8

LEMMA HistoryHandled ==
  ASSUME Formed, NEW p \in Procs, History(p)
  PROVE  Handled(p)
<1> DEFINE c == core[p].call  b == core'[p].answer
           a(h) == [k |-> "history", ids |-> Ids(h), snap |-> c.snap \cap journal]
<1>0. /\ DOMAIN core[p] = CoreFields /\ Cached(core[p]) /\ UNCHANGED disk
      /\ c.m \notin {"patch.preview", "llm.propose_patch", "patch.apply", "patch.rollback", "none"}
  BY DEF Formed, History, On, Calls
<1>1. PICK h \in Histories(Entries(c.snap \cap journal), All, c.mem) : ReplyWith(p, core[p], a(h))
  BY DEF History, Listed, Reply
<1>2. /\ "for" \notin DOMAIN a(h) /\ {"k", "ids", "snap"} \subseteq DOMAIN a(h) /\ a(h).k = "history"
      /\ a(h).ids = Ids(h) /\ a(h).snap = c.snap \cap journal
  OBVIOUS
<1> HIDE DEF a
<1>3. /\ DOMAIN core' = Procs /\ \A q \in Procs \ {p} : core'[q] = core[q]
      /\ DOMAIN core'[p] = CoreFields /\ core'[p].call = NoCall
      /\ core'[p].fns = core[p].fns /\ core'[p].types = core[p].types /\ Cached(core'[p])
      /\ b # Nothing /\ "for" \in DOMAIN b /\ b.for = core[p].call.id
      /\ \A x \in DOMAIN a(h) : b[x] = a(h)[x]
  BY <1>0, <1>1, <1>2, ReplyEffect
<1>4. b.k = "history" /\ b.ids = Ids(h) /\ b.snap = c.snap \cap journal
  BY <1>2, <1>3
<1>5. Replied(core[p], c, b) /\ Listing(c, b) /\ Untouched(b)
  BY <1>0, <1>1, <1>4 DEF Replied, Listing, Untouched
<1> HIDE DEF b
<1>6. QED
  BY <1>0, <1>3, <1>5 DEF Handled, b, c

LEMMA PreviewHandled ==
  ASSUME Formed, NEW p \in Procs, Preview(p)
  PROVE  Handled(p)
<1> DEFINE c == core[p].call
           b == core'[p].answer
           reply(o) == [k |-> "preview", base |-> c.base, errors |-> o.errors, some |-> o.text # c.base]
<1>0. PICK o \in Shadows(c.plan, c.base) : Reply(p, reply(o))
  BY DEF Preview
<1> DEFINE a == reply(o)
<1>1. ReplyWith(p, core[p], a) /\ UNCHANGED disk /\ c.m = "patch.preview"
  BY <1>0 DEF Preview, Reply, On, Calls
<1>2. /\ "for" \notin DOMAIN a /\ DOMAIN core[p] = CoreFields /\ Cached(core[p])
      /\ a.k = "preview" /\ a.base = c.base /\ a.some = (o.text # c.base)
      /\ {"k", "base", "some"} \subseteq DOMAIN a
  BY DEF Formed
<1> HIDE DEF a
<1>3. /\ DOMAIN core' = Procs /\ \A q \in Procs \ {p} : core'[q] = core[q]
      /\ DOMAIN core'[p] = CoreFields /\ core'[p].call = NoCall
      /\ core'[p].fns = core[p].fns /\ core'[p].types = core[p].types /\ Cached(core'[p])
      /\ b # Nothing /\ "for" \in DOMAIN b /\ b.for = core[p].call.id
      /\ \A x \in DOMAIN a : b[x] = a[x]
  BY <1>1, <1>2, ReplyEffect
<1>t. Tells(c.plan, c.base, a.some)
  BY <1>0, <1>2 DEF Tells
<1>4. Replied(core[p], c, b) /\ Listing(c, b)
  BY <1>1, <1>2, <1>3, <1>t DEF Replied, Listing
<1>5. Untouched(b)
  BY <1>1, <1>2, <1>3 DEF Untouched
<1> HIDE DEF b
<1>6. QED
  BY <1>1, <1>3, <1>4, <1>5 DEF Handled, b, c

LEMMA ProposalHandled ==
  ASSUME Formed, NEW p \in Procs, ProposePatch(p)
  PROVE  Handled(p)
<1> DEFINE c == core[p].call  b == core'[p].answer
<1>0. DOMAIN core[p] = CoreFields /\ c.m = "llm.propose_patch" /\ UNCHANGED disk
  BY DEF Formed, ProposePatch, On, Calls
<1>1. ASSUME NEW k, NEW a, ReplyWith(p, k, a), DOMAIN k = CoreFields, k.call = c,
             k.fns = core[p].fns, k.types = core[p].types, Cached(k),
             \/ a = Error
             \/ \E d \in ModelAnswers : a = [k |-> "candidates", of |-> Candidates(d, core[p].fns, core[p].types)]
      PROVE  Handled(p)
  <2>1. /\ "for" \notin DOMAIN a /\ "k" \in DOMAIN a /\ a.k \in {"error", "candidates"}
        /\ a.k = "candidates" =>
             "of" \in DOMAIN a /\ \E d \in ModelAnswers : a.of = Candidates(d, core[p].fns, core[p].types)
    BY <1>1 DEF Error
  <2>2. /\ DOMAIN core' = Procs /\ \A q \in Procs \ {p} : core'[q] = core[q]
        /\ DOMAIN core'[p] = CoreFields /\ core'[p].call = NoCall
        /\ core'[p].fns = k.fns /\ core'[p].types = k.types /\ core'[p].cache = k.cache
        /\ b # Nothing /\ "for" \in DOMAIN b /\ b.for = core[p].call.id
        /\ \A x \in DOMAIN a : b[x] = a[x]
    BY <1>1, <2>1, ReplyEffect
  <2>3. Replied(core[p], c, b) /\ Listing(c, b)
    BY <1>0, <2>1, <2>2 DEF Replied, Listing
  <2>4. Untouched(b)
    BY <1>0, <2>1, <2>2 DEF Untouched
  <2>5. Cached(core'[p])
    BY <1>1, <2>2 DEF Cached
  <2> HIDE DEF b
  <2>6. QED
    BY <1>0, <1>1, <2>2, <2>3, <2>4, <2>5 DEF Handled, b, c
<1>2. PICK hints \in Hints(core[p].call) :
        LET k == core[p]
            prompt == <<k.fns, k.types, hints>>
        IN  \/ prompt \notin DOMAIN k.cache /\ Reply(p, Error)
            \/ \E a \in ModelAnswer(k, prompt) :
                 ReplyWith(p, [k EXCEPT !.cache = With(@, prompt, a)],
                           IF ~a.json THEN Error
                           ELSE [k |-> "candidates", of |-> Candidates(a, k.fns, k.types)])
  BY DEF ProposePatch
<1>3. CASE Reply(p, Error)
  <2>1. Cached(core[p])
    BY DEF Formed
  <2>2. QED
    BY <1>0, <1>1, <1>3, <2>1 DEF Reply
<1>4. ASSUME NEW d \in ModelAnswers, NEW prompt,
             ReplyWith(p, [core[p] EXCEPT !.cache = With(@, prompt, d)],
                       IF ~d.json THEN Error
                       ELSE [k |-> "candidates", of |-> Candidates(d, core[p].fns, core[p].types)])
      PROVE  Handled(p)
  <2> DEFINE k == [core[p] EXCEPT !.cache = With(@, prompt, d)]
             a == IF ~d.json THEN Error
                  ELSE [k |-> "candidates", of |-> Candidates(d, core[p].fns, core[p].types)]
  <2>1. /\ DOMAIN k = CoreFields /\ k.call = c /\ k.fns = core[p].fns /\ k.types = core[p].types
        /\ ReplyWith(p, k, a)
    BY <1>0, <1>4 DEF CoreFields
  <2>a. Cached(k)
    <3>1. k.cache = With(core[p].cache, prompt, d)
      BY <1>0 DEF CoreFields
    <3>2. Cached(core[p])
      BY DEF Formed
    <3>3. \A x \in DOMAIN k.cache : k.cache[x] \in ModelAnswers
      BY <3>1, <3>2 DEF With, Cached
    <3>4. QED
      BY <3>3 DEF Cached
  <2>2. \/ a = Error
        \/ \E e \in ModelAnswers : a = [k |-> "candidates", of |-> Candidates(e, core[p].fns, core[p].types)]
    OBVIOUS
  <2> HIDE DEF k, a
  <2>3. QED
    BY <1>1, <2>1, <2>a, <2>2
<1>5. ASSUME NEW prompt, NEW a, a \in ModelAnswer(core[p], prompt) PROVE a \in ModelAnswers
  BY <1>5 DEF ModelAnswer, Formed, Cached
<1>6. QED
  BY <1>2, <1>3, <1>4, <1>5

LEMMA ApplyHandled ==
  ASSUME Formed, NEW p \in Procs, ApplyRejected(p) \/ ApplyCommitted(p)
  PROVE  Handled(p)
<1> DEFINE c == core[p].call  b == core'[p].answer
           a(x) == [k |-> "apply", applied |-> x]
<1>0. DOMAIN core[p] = CoreFields /\ Cached(core[p]) /\ c.m = "patch.apply"
  BY DEF Formed, ApplyRejected, ApplyCommitted, On, Calls
<1>1. ASSUME NEW x, ReplyWith(p, core[p], a(x))
      PROVE  /\ DOMAIN core' = Procs /\ \A q \in Procs \ {p} : core'[q] = core[q]
             /\ DOMAIN core'[p] = CoreFields /\ core'[p].call = NoCall
             /\ core'[p].fns = core[p].fns /\ core'[p].types = core[p].types /\ Cached(core'[p])
             /\ b # Nothing /\ "for" \in DOMAIN b /\ b.for = core[p].call.id /\ b.k = "apply" /\ b.applied = x
             /\ Replied(core[p], c, b) /\ Listing(c, b)
  <2>1. "for" \notin DOMAIN a(x) /\ {"k", "applied"} \subseteq DOMAIN a(x)
        /\ a(x).k = "apply" /\ a(x).applied = x
    OBVIOUS
  <2> HIDE DEF a
  <2>2. /\ DOMAIN core' = Procs /\ \A q \in Procs \ {p} : core'[q] = core[q]
        /\ DOMAIN core'[p] = CoreFields /\ core'[p].call = NoCall
        /\ core'[p].fns = core[p].fns /\ core'[p].types = core[p].types /\ Cached(core'[p])
        /\ b # Nothing /\ "for" \in DOMAIN b /\ b.for = core[p].call.id
        /\ \A y \in DOMAIN a(x) : b[y] = a(x)[y]
    BY <1>0, <1>1, <2>1, ReplyEffect
  <2>3. b.k = "apply" /\ b.applied = x
    BY <2>1, <2>2
  <2>4. Replied(core[p], c, b) /\ Listing(c, b)
    BY <1>0, <2>3 DEF Replied, Listing
  <2>5. QED
    BY <2>2, <2>3, <2>4
<1>2. CASE ApplyRejected(p)
  <2>1. ReplyWith(p, core[p], a(FALSE)) /\ UNCHANGED disk
    BY <1>2 DEF ApplyRejected, Reply
  <2>2. Untouched(b)
    BY <1>1, <2>1 DEF Untouched
  <2>3. QED
    BY <1>0, <1>1, <2>1, <2>2 DEF Handled
<1>3. CASE ApplyCommitted(p)
  <2>0. PICK o \in Shadows(c.plan, c.base) :
          /\ text' = IF o.text = c.base THEN text ELSE o.text
          /\ made' = Append(made, [by |-> p, req |-> c.id, at |-> clock, plan |-> c.plan,
                                   before |-> c.base, after |-> o.text, seen |-> c.seen])
    BY <1>3 DEF ApplyCommitted
  <2> DEFINE after == o.text
             e == [by |-> p, req |-> c.id, at |-> clock, plan |-> c.plan,
                   before |-> c.base, after |-> after, seen |-> c.seen]
  <2>1. /\ ReplyWith(p, core[p], a(TRUE)) /\ made' = Append(made, e)
        /\ text' \in {text, after} /\ journal' \subseteq journal \cup {Len(made')}
    BY <1>3, <2>0 DEF ApplyCommitted, Reply
  <2>2. /\ e.by = p /\ e.req = c.id /\ e.plan = c.plan /\ e.at = clock
        /\ e.before = c.base /\ e.after = after /\ e.seen = c.seen
    OBVIOUS
  <2>3. b.applied = TRUE
    BY <1>1, <2>1
  <2> HIDE DEF e, after, b
  <2>4. Committed(p, c, b)
    BY <1>0, <2>1, <2>2, <2>3 DEF Committed, after
  <2>5. QED
    BY <1>0, <1>1, <2>1, <2>4 DEF Handled, b
<1>4. QED
  BY <1>2, <1>3

LEMMA RollbackHandled ==
  ASSUME Formed, NEW p \in Procs, RolledBack(p)
  PROVE  Handled(p)
<1> DEFINE c == core[p].call  b == core'[p].answer  a == [k |-> "rollback", ok |-> TRUE]
<1>0. DOMAIN core[p] = CoreFields /\ Cached(core[p]) /\ c.m = "patch.rollback" /\ ReplyWith(p, core[p], a)
  BY DEF Formed, RolledBack, On, Calls, Reply
<1>1. "for" \notin DOMAIN a /\ "k" \in DOMAIN a /\ a.k = "rollback"
  OBVIOUS
<1> HIDE DEF a
<1>2. /\ DOMAIN core' = Procs /\ \A q \in Procs \ {p} : core'[q] = core[q]
      /\ DOMAIN core'[p] = CoreFields /\ core'[p].call = NoCall
      /\ core'[p].fns = core[p].fns /\ core'[p].types = core[p].types /\ Cached(core'[p])
      /\ b # Nothing /\ "for" \in DOMAIN b /\ b.for = core[p].call.id /\ b.k = "rollback"
  BY <1>0, <1>1, ReplyEffect
<1>3. Replied(core[p], c, b) /\ Listing(c, b)
  BY <1>0, <1>2 DEF Replied, Listing
<1>4. Undone(c)
  BY <1>0 DEF Undone, RolledBack, RollbackAllowed
<1>5. QED
  BY <1>0, <1>2, <1>3, <1>4 DEF Handled

LEMMA HandleEffect == ASSUME Formed, NEW p \in Procs, Handle(p) PROVE Handled(p)
BY PlainCalls, HistoryHandled, PreviewHandled, ProposalHandled, ApplyHandled, RollbackHandled DEF Handle
-----------------------------------------------------------------------------
(* What the steps of the client and of the extension have in common.          *)

\* Some requests are settled with a: the promises that await them.
Answers(S, a) ==
  /\ S \subseteq DOMAIN client.pending
  /\ DOMAIN flow' = Flows
  /\ \A w \in Flows :
       \/ flow'[w] = flow[w] /\ \A i \in S : client.pending[i] # w
       \/ /\ \E i \in S : client.pending[i] = w
          /\ DOMAIN flow'[w] = FlowFields /\ flow'[w].got = a
          /\ \A x \in FlowFields \ {"got"} : flow'[w][x] = flow[w][x]
  /\ DOMAIN client' = ClientFields /\ client'.nextId = client.nextId
  /\ client'.shutting = client.shutting
  /\ DOMAIN client'.pending = DOMAIN client.pending \ S
  /\ \A i \in DOMAIN client'.pending : client'.pending[i] = client.pending[i]

LEMMA SettledEffect ==
  ASSUME Formed, NEW S, S \subseteq DOMAIN client.pending, NEW a,
         flow' = Settled(S, a),
         \/ client' = Without(S)
         \/ \E x : client' = [Without(S) EXCEPT !.early = x]
         \/ \E x : client' = [Without(S) EXCEPT !.exited = x]
  PROVE  Answers(S, a)
<1>1. /\ DOMAIN flow' = Flows
      /\ \A w \in Flows : flow'[w] = IF \E i \in S : client.pending[i] = w
                                       THEN [flow[w] EXCEPT !.got = a] ELSE flow[w]
  BY DEF Settled
<1>2. ASSUME NEW w \in Flows
      PROVE  \/ flow'[w] = flow[w] /\ \A i \in S : client.pending[i] # w
             \/ /\ \E i \in S : client.pending[i] = w
                /\ DOMAIN flow'[w] = FlowFields /\ flow'[w].got = a
                /\ \A x \in FlowFields \ {"got"} : flow'[w][x] = flow[w][x]
  <2>1. CASE \E i \in S : client.pending[i] = w
    <3>1. flow'[w] = [flow[w] EXCEPT !.got = a] /\ DOMAIN flow[w] = FlowFields
      BY <1>1, <2>1 DEF Formed
    <3>2. DOMAIN flow'[w] = FlowFields /\ flow'[w].got = a
          /\ \A x \in FlowFields \ {"got"} : flow'[w][x] = flow[w][x]
      BY <3>1 DEF FlowFields
    <3>3. QED
      BY <2>1, <3>2
  <2>2. CASE ~ \E i \in S : client.pending[i] = w
    BY <1>1, <2>2
  <2>3. QED
    BY <2>1, <2>2
<1> DEFINE rest == [i \in DOMAIN client.pending \ S |-> client.pending[i]]
<1>3. /\ DOMAIN client' = ClientFields /\ client'.nextId = client.nextId
      /\ client'.shutting = client.shutting /\ client'.pending = rest
  <2>1. Without(S) = [client EXCEPT !.pending = rest] /\ DOMAIN client = ClientFields
    BY DEF Without, Formed
  <2> HIDE DEF rest
  <2>2. QED
    BY <2>1 DEF ClientFields
<1>4. QED
  BY <1>1, <1>2, <1>3 DEF Answers

\* m is the request c under the id i.
Carries(m, i, c) ==
  /\ DOMAIN m = CallFields /\ m.id = i /\ m.mem = c.mem
  /\ m.m = c.m /\ m.plan = c.plan /\ m.seen = c.seen /\ m.base = c.base /\ m.snap = c.snap

\* The flow w asks for c, or is refused, in the state f.
SentBy(w, f, c) ==
  /\ DOMAIN flow' = Flows /\ \A v \in Flows \ {w} : flow'[v] = flow[v]
  /\ DOMAIN flow'[w] = FlowFields
  /\ flow'[w].stage = f.stage /\ flow'[w].plan = f.plan /\ flow'[w].proposed = f.proposed
  /\ flow'[w].told = f.told /\ flow'[w].about = f.about
  /\ DOMAIN client' = ClientFields
  /\ \/ /\ flow'[w].got = Failed("failed") /\ flow'[w].id = f.id
        /\ client'.nextId = client.nextId /\ client'.pending = client.pending
        /\ inbox' = inbox
     \/ /\ flow'[w].got = Nothing /\ flow'[w].id = client.nextId
        /\ client'.nextId = client.nextId + 1
        /\ client'.pending = With(client.pending, client.nextId, w)
        /\ inbox' = inbox \/ \E m : inbox' = Append(inbox, m) /\ Carries(m, client.nextId, c)

LEMMA SendEffect ==
  ASSUME Formed, NEW w \in Flows, NEW k, DOMAIN k = ClientFields,
         k.pending = client.pending, k.nextId = client.nextId,
         NEW f, DOMAIN f = FlowFields, NEW c, DOMAIN c = CallFields, SendFrom(k, w, f, c)
  PROVE  SentBy(w, f, c) /\ client'.shutting = k.shutting
<1>1. CASE k.proc = "killed"
  <2>1. /\ flow' = [flow EXCEPT ![w] = [f EXCEPT !.got = Failed("failed")]]
        /\ client' = k /\ inbox' = inbox
    BY <1>1 DEF SendFrom
  <2>2. /\ DOMAIN flow' = Flows /\ flow'[w] = [f EXCEPT !.got = Failed("failed")]
        /\ \A v \in Flows \ {w} : flow'[v] = flow[v]
    BY <2>1 DEF Formed
  <2>3. /\ DOMAIN flow'[w] = FlowFields /\ flow'[w].got = Failed("failed") /\ flow'[w].id = f.id
        /\ flow'[w].stage = f.stage /\ flow'[w].plan = f.plan /\ flow'[w].proposed = f.proposed
        /\ flow'[w].told = f.told /\ flow'[w].about = f.about
    BY <2>2 DEF FlowFields
  <2>4. QED
    BY <2>1, <2>2, <2>3 DEF SentBy
<1>2. CASE k.proc # "killed"
  <2> DEFINE more == With(k.pending, k.nextId, w)  m == [c EXCEPT !.id = k.nextId]
  <2>1. /\ flow' = [flow EXCEPT ![w] = [f EXCEPT !.id = k.nextId, !.got = Nothing]]
        /\ client' = [k EXCEPT !.nextId = @ + 1, !.pending = more]
        /\ inbox' = inbox \/ inbox' = Append(inbox, m)
    BY <1>2 DEF SendFrom
  <2>2. /\ DOMAIN flow' = Flows /\ flow'[w] = [f EXCEPT !.id = k.nextId, !.got = Nothing]
        /\ \A v \in Flows \ {w} : flow'[v] = flow[v]
    BY <2>1 DEF Formed
  <2>3. /\ DOMAIN flow'[w] = FlowFields /\ flow'[w].got = Nothing /\ flow'[w].id = k.nextId
        /\ flow'[w].stage = f.stage /\ flow'[w].plan = f.plan /\ flow'[w].proposed = f.proposed
        /\ flow'[w].told = f.told /\ flow'[w].about = f.about
    BY <2>2 DEF FlowFields
  <2>4. Carries(m, k.nextId, c)
    BY DEF Carries, CallFields
  <2> HIDE DEF m
  <2> HIDE DEF more
  <2>5. /\ DOMAIN client' = ClientFields /\ client'.nextId = k.nextId + 1
        /\ client'.pending = more /\ client'.shutting = k.shutting
    BY <2>1 DEF ClientFields
  <2>6. QED
    BY <2>1, <2>2, <2>3, <2>4, <2>5 DEF SentBy, more
<1>3. QED
  BY <1>1, <1>2
\* c is the request of a flow in the state f.
Suits(c, f) ==
  /\ f.stage \in {"preview", "apply"} => c.plan = f.plan
  /\ f.stage = "preview" => c.m = "patch.preview"
  /\ f.stage = "propose" => c.m = "llm.propose_patch"
  /\ f.stage = "apply" <=> c.m = "patch.apply"

\* No promise is awaited by w.
Unpromised(w) == flow[w].stage = "idle" \/ flow[w].got # Nothing
Holds(w, stage) == Got(w, stage) /\ Fulfilled(w)

\* w may go on to f and ask for c: the plan is the one it has or one it was proposed, and
\* what is applied is what was previewed, with replacements.
Proper(w, f, c) ==
  /\ Unpromised(w)
  /\ DOMAIN f = FlowFields /\ DOMAIN c = CallFields
  /\ f.stage # "idle" /\ f.id \in {0, flow[w].id} /\ (f.told = "nothing" \/ (f.told = flow[w].told /\ f.about = flow[w].about))
  /\ c.m # "none" /\ c.base = NoText /\ c.snap = {} /\ c.mem \in Nat /\ Suits(c, f)
  /\ \/ f.proposed = FALSE /\ ASeq(f.plan)
     \/ f.proposed = flow[w].proposed /\ f.plan = flow[w].plan
     \/ Holds(w, "propose") /\ f.plan \in Accepted(flow[w].got.of)
  /\ c.m # "patch.apply" => c.seen = NotSeen
  /\ c.m = "patch.apply" =>
       /\ Holds(w, "preview") /\ flow[w].got.some
       /\ f.plan = flow[w].plan /\ f.proposed = flow[w].proposed
       /\ c.seen.plan = f.plan /\ c.seen.base = flow[w].got.base /\ c.seen.proposed = f.proposed

\* What w is told at the end is the truth about what it got.
Told(w, told) ==
  told \in {"applied", "rejected"} =>
    Holds(w, "apply") /\ told = IF flow[w].got.applied THEN "applied" ELSE "rejected"

EndBy(w, told) ==
  /\ DOMAIN flow' = Flows /\ \A v \in Flows \ {w} : flow'[v] = flow[v]
  /\ DOMAIN flow'[w] = FlowFields
  /\ flow'[w].stage = "idle" /\ flow'[w].plan = <<>> /\ flow'[w].proposed = FALSE
  /\ flow'[w].got = Nothing /\ flow'[w].id = 0
  /\ flow'[w].told = told /\ (told \in {"applied", "rejected"} => flow'[w].about = flow[w].id)
  /\ UNCHANGED inbox
  /\ DOMAIN client' = ClientFields /\ client'.nextId = client.nextId
  /\ client'.pending = client.pending

FlowMove(w) ==
  \/ Unpromised(w) /\ \E told : EndBy(w, told) /\ Told(w, told)
  \/ \E f, c : SentBy(w, f, c) /\ Proper(w, f, c)

LEMMA SendMoves ==
  ASSUME Formed, NEW w \in Flows, NEW f, NEW c, Proper(w, f, c), Send(w, f, c)
  PROVE  FlowMove(w) /\ client'.shutting = client.shutting
<1>1. DOMAIN client = ClientFields /\ DOMAIN f = FlowFields /\ DOMAIN c = CallFields
  BY DEF Formed, Proper
<1>2. SentBy(w, f, c) /\ client'.shutting = client.shutting
  BY <1>1, SendEffect DEF Send
<1>3. QED
  BY <1>2 DEF FlowMove

LEMMA EndMoves ==
  ASSUME Formed, NEW w \in Flows, flow[w].got # Nothing, NEW told, Told(w, told), End(w, told)
  PROVE  FlowMove(w) /\ client'.shutting = client.shutting
<1>1. flow' = [flow EXCEPT ![w] = [NoFlow EXCEPT !.told = told, !.about = flow[w].id]]
      /\ UNCHANGED <<client, inbox>>
  BY DEF End
<1>2. /\ DOMAIN flow' = Flows /\ \A v \in Flows \ {w} : flow'[v] = flow[v]
      /\ flow'[w] = [NoFlow EXCEPT !.told = told, !.about = flow[w].id]
  BY <1>1 DEF Formed
<1>3. /\ DOMAIN flow'[w] = FlowFields
      /\ flow'[w].stage = "idle" /\ flow'[w].plan = <<>> /\ flow'[w].proposed = FALSE
      /\ flow'[w].got = Nothing /\ flow'[w].id = 0
      /\ flow'[w].told = told /\ flow'[w].about = flow[w].id
  BY <1>2 DEF NoFlow, FlowFields
<1>4. EndBy(w, told)
  BY <1>1, <1>2, <1>3 DEF EndBy, Formed
<1>5. QED
  BY <1>1, <1>4 DEF FlowMove, Unpromised

LEMMA EndQuietly ==
  ASSUME Formed, NEW w \in Flows, flow[w].got # Nothing, NEW told,
         told \notin {"applied", "rejected"}, End(w, told)
  PROVE  FlowMove(w) /\ client'.shutting = client.shutting
BY EndMoves DEF Told

\* A request that keeps the plan and is no apply.
LEMMA AskMoves ==
  ASSUME Formed, NEW w \in Flows, flow[w].got # Nothing, NEW stage, stage \notin {"idle", "preview", "apply"},
         NEW c, DOMAIN c = CallFields, c.m \notin {"none", "patch.apply"}, c.base = NoText, c.snap = {},
         c.seen = NotSeen, c.mem \in Nat,
         stage = "propose" => c.m = "llm.propose_patch", Ask(w, stage, c)
  PROVE  FlowMove(w) /\ client'.shutting = client.shutting
<1> DEFINE f == [flow[w] EXCEPT !.stage = stage]
<1>1. /\ DOMAIN f = FlowFields /\ f.stage = stage /\ f.id = flow[w].id /\ f.told = flow[w].told /\ f.about = flow[w].about
      /\ f.plan = flow[w].plan /\ f.proposed = flow[w].proposed
  BY DEF Formed, FlowFields
<1>2. Send(w, f, c)
  BY DEF Ask
<1> HIDE DEF f
<1>3. Proper(w, f, c)
  BY <1>1 DEF Proper, Unpromised, Suits
<1>4. QED
  BY <1>2, <1>3, SendMoves

LEMMA StartMoves ==
  ASSUME Formed, NEW w \in Flows, NEW stage, stage \notin {"idle", "propose", "apply"}, NEW plan, ASeq(plan),
         NEW m, m \notin {"none", "patch.apply"}, stage = "preview" => m = "patch.preview",
         Start(w, stage, plan, m)
  PROVE  FlowMove(w) /\ client'.shutting = client.shutting
<1> DEFINE f == [NoFlow EXCEPT !.stage = stage, !.plan = plan]  c == Call(m, plan)
<1>1. /\ DOMAIN f = FlowFields /\ f.stage = stage /\ f.id = 0 /\ f.told = "nothing"
      /\ f.plan = plan /\ f.proposed = FALSE
  BY DEF NoFlow, FlowFields
<1>2. /\ DOMAIN c = CallFields /\ c.m = m /\ c.plan = plan /\ c.seen = NotSeen /\ c.base = NoText /\ c.snap = {}
      /\ c.mem = 0
  BY CallFormed
<1>3. Send(w, f, c) /\ flow[w].stage = "idle"
  BY DEF Start
<1> HIDE DEF f, c
<1>4. Proper(w, f, c)
  BY <1>1, <1>2, <1>3 DEF Proper, Unpromised, Suits
<1>5. QED
  BY <1>3, <1>4, SendMoves

LEMMA ActivationMoves ==
  ASSUME Formed, Initialized \/ Opened \/ Indexed
  PROVE  FlowMove("activate") /\ client'.shutting = client.shutting
<1> DEFINE w == "activate"
<1>0. w \in Flows
  BY DEF Flows
<1>1. ASSUME NEW m, m \in {"workspace.open", "workspace.index"}, flow[w].got # Nothing,
             NEW stage, stage \in {"open", "index"}, Ask(w, stage, Call(m, <<>>))
      PROVE  FlowMove(w) /\ client'.shutting = client.shutting
  BY <1>0, <1>1, CallFormed, AskMoves
<1>2. ASSUME NEW told \in {"done", "failed"}, flow[w].got # Nothing, End(w, told)
      PROVE  FlowMove(w) /\ client'.shutting = client.shutting
  BY <1>0, <1>2, EndQuietly
<1> HIDE DEF w
<1>3. CASE Initialized
  BY <1>1, <1>2, <1>3 DEF Initialized, Got, w
<1>4. CASE Opened
  BY <1>1, <1>2, <1>4 DEF Opened, Got, w
<1>5. CASE Indexed
  BY <1>2, <1>5 DEF Indexed, Got, w
<1>6. QED
  BY <1>3, <1>4, <1>5 DEF w

LEMMA StartedMoves ==
  ASSUME Formed, NEW w \in Flows,
         \/ CmdRename(w) \/ CmdProposePatch(w) \/ CmdExplainRename(w)
         \/ CmdHistory(w) \/ CmdStats(w) \/ CmdInfo(w)
  PROVE  FlowMove(w) /\ client'.shutting = client.shutting
<1>0. ASeq(<<>>) /\ \A plan \in UserPlans : ASeq(plan)
  BY NoElements, UserPlansAssumption DEF IsSequence, ASeq
<1>1. CASE CmdRename(w)
  BY <1>0, <1>1, StartMoves DEF CmdRename
<1>2. CASE CmdProposePatch(w)
  BY <1>0, <1>2, StartMoves DEF CmdProposePatch
<1>3. CASE CmdExplainRename(w)
  BY <1>0, <1>3, StartMoves DEF CmdExplainRename
<1>4. CASE CmdHistory(w) \/ CmdStats(w) \/ CmdInfo(w)
  BY <1>0, <1>4, StartMoves DEF CmdHistory, CmdStats, CmdInfo
<1>5. QED
  BY <1>1, <1>2, <1>3, <1>4

LEMMA EndedMoves ==
  ASSUME Formed, NEW w \in Flows, Fails(w) \/ RenderVerdict(w) \/ Prints(w) \/ Reports(w)
  PROVE  FlowMove(w) /\ client'.shutting = client.shutting
<1>1. CASE Fails(w)
  BY <1>1, EndQuietly DEF Fails
<1>2. CASE RenderVerdict(w) \/ Prints(w)
  BY <1>2, EndQuietly DEF RenderVerdict, Prints, Resolved, Got
<1>3. CASE Reports(w)
  <2> DEFINE told == IF flow[w].got.applied THEN "applied" ELSE "rejected"
  <2>1. Holds(w, "apply") /\ End(w, told) /\ flow[w].got # Nothing
    BY <1>3 DEF Reports, Resolved, Holds, Got
  <2>2. Told(w, told)
    BY <2>1 DEF Told
  <2>3. QED
    BY <2>1, <2>2, EndMoves
<1>4. QED
  BY <1>1, <1>2, <1>3

LEMMA ListMoves ==
  ASSUME Formed, NEW w \in Flows, ListFunctions(w)
  PROVE  FlowMove(w) /\ client'.shutting = client.shutting
<1>1. flow[w].got # Nothing
  BY DEF ListFunctions, Resolved, Got
<1>2. CASE End(w, "nothing")
  BY <1>1, <1>2, EndQuietly
<1>3. ASSUME NEW mem \in {0, 1}, Ask(w, "propose", [Call("llm.propose_patch", <<>>) EXCEPT !.mem = mem])
      PROVE  FlowMove(w) /\ client'.shutting = client.shutting
  <2> DEFINE c == [Call("llm.propose_patch", <<>>) EXCEPT !.mem = mem]
  <2>1. /\ DOMAIN c = CallFields /\ c.m = "llm.propose_patch" /\ c.seen = NotSeen
        /\ c.base = NoText /\ c.snap = {} /\ c.mem \in Nat
    BY DEF Call, CallFields
  <2>2. Ask(w, "propose", c)
    BY <1>3
  <2> HIDE DEF c
  <2>3. QED
    BY <1>1, <2>1, <2>2, AskMoves
<1>4. QED
  BY <1>2, <1>3 DEF ListFunctions

LEMMA PickMoves ==
  ASSUME Formed, NEW w \in Flows, PickCandidate(w)
  PROVE  FlowMove(w) /\ client'.shutting = client.shutting
<1>1. flow[w].got # Nothing /\ Holds(w, "propose")
  BY DEF PickCandidate, Resolved, Got, Holds
<1>2. CASE End(w, "nothing")
  BY <1>1, <1>2, EndQuietly
<1> DEFINE Goes(plan, stage, m) ==
             Send(w, [flow[w] EXCEPT !.stage = stage, !.plan = plan, !.proposed = TRUE], Call(m, plan))
<1>3. ASSUME NEW plan \in Accepted(flow[w].got.of), NEW stage, NEW m,
             \/ stage = "explain" /\ m = "explain.patch"
             \/ stage = "preview" /\ m = "patch.preview",
             Goes(plan, stage, m)
      PROVE  FlowMove(w) /\ client'.shutting = client.shutting
  <2> DEFINE f == [flow[w] EXCEPT !.stage = stage, !.plan = plan, !.proposed = TRUE]
             c == Call(m, plan)
  <2>1. /\ DOMAIN f = FlowFields /\ f.stage = stage /\ f.id = flow[w].id /\ f.told = flow[w].told /\ f.about = flow[w].about
        /\ f.plan = plan
    BY DEF Formed, FlowFields
  <2>2. /\ DOMAIN c = CallFields /\ c.m = m /\ c.plan = plan /\ c.seen = NotSeen /\ c.base = NoText /\ c.snap = {}
        /\ c.mem = 0
    BY CallFormed
  <2>3. Send(w, f, c)
    BY <1>3
  <2> HIDE DEF f, c
  <2>4. Proper(w, f, c)
    BY <1>1, <1>3, <2>1, <2>2 DEF Proper, Unpromised, Suits
  <2>5. QED
    BY <2>3, <2>4, SendMoves
<1> DEFINE pairs == {<<"explain", "explain.patch">>, <<"preview", "patch.preview">>}
<1>4. CASE ~End(w, "nothing")
  <2>1. PICK plan \in Accepted(flow[w].got.of), s \in pairs : Goes(plan, s[1], s[2])
    BY <1>4 DEF PickCandidate
  <2> HIDE DEF Goes
  <2>2. \/ s[1] = "explain" /\ s[2] = "explain.patch"
        \/ s[1] = "preview" /\ s[2] = "patch.preview"
    <3>1. s \in pairs
      BY <2>1
    <3>2. s = <<"explain", "explain.patch">> \/ s = <<"preview", "patch.preview">>
      BY <3>1
    <3>3. QED
      BY <3>2
  <2>3. QED
    BY <1>3, <2>1, <2>2
<1>5. QED
  BY <1>2, <1>4

LEMMA ConfirmMoves ==
  ASSUME Formed, NEW w \in Flows, Confirm(w)
  PROVE  FlowMove(w) /\ client'.shutting = client.shutting
<1>1. flow[w].got # Nothing /\ Holds(w, "preview")
  BY DEF Confirm, Resolved, Got, Holds
<1>2. CASE End(w, "nothing")
  BY <1>1, <1>2, EndQuietly
<1>3. CASE ~End(w, "nothing")
  <2> DEFINE seen == [plan |-> flow[w].plan, base |-> flow[w].got.base, proposed |-> flow[w].proposed]
             c == [Call("patch.apply", flow[w].plan) EXCEPT !.seen = seen]
             f == [flow[w] EXCEPT !.stage = "apply"]
  <2>1. flow[w].got.some /\ Send(w, f, c)
    BY <1>3 DEF Confirm, Offered, Ask
  <2>2. /\ DOMAIN f = FlowFields /\ f.stage = "apply" /\ f.id = flow[w].id /\ f.told = flow[w].told /\ f.about = flow[w].about
        /\ f.plan = flow[w].plan /\ f.proposed = flow[w].proposed
    BY DEF Formed, FlowFields
  <2>3. seen.plan = flow[w].plan /\ seen.base = flow[w].got.base /\ seen.proposed = flow[w].proposed
    OBVIOUS
  <2> HIDE DEF seen
  <2>4. /\ DOMAIN c = CallFields /\ c.m = "patch.apply" /\ c.plan = flow[w].plan /\ c.seen = seen
        /\ c.base = NoText /\ c.snap = {} /\ c.mem = 0
    BY DEF Call, CallFields
  <2> HIDE DEF f, c
  <2>5. Proper(w, f, c)
    BY <1>1, <2>1, <2>2, <2>3, <2>4 DEF Proper, Unpromised, Suits
  <2>6. QED
    BY <2>1, <2>5, SendMoves
<1>4. QED
  BY <1>2, <1>3

LEMMA CommandMoves ==
  ASSUME Formed, NEW w \in Windows, Command(w)
  PROVE  FlowMove(w) /\ client'.shutting = client.shutting
<1>1. w \in Flows
  BY DEF Flows
<1>2. QED
  BY <1>1, StartedMoves, EndedMoves, ListMoves, PickMoves, ConfirmMoves DEF Command

LEMMA ShutdownMoves ==
  ASSUME Formed, flow["shutdown"].stage = "idle", Shutdown
  PROVE  FlowMove("shutdown") /\ client'.shutting = TRUE
<1> DEFINE w == "shutdown"  f == [NoFlow EXCEPT !.stage = "shutdown"]
           c == Call("session.shutdown", <<>>)  k == [client EXCEPT !.shutting = TRUE]
<1>1. w \in Flows
  BY DEF Flows
<1>2. /\ DOMAIN f = FlowFields /\ f.stage = "shutdown" /\ f.id = 0 /\ f.told = "nothing"
      /\ f.proposed = FALSE /\ ASeq(f.plan)
  BY NoElements DEF NoFlow, FlowFields
<1>3. /\ DOMAIN c = CallFields /\ c.m = "session.shutdown" /\ c.seen = NotSeen /\ c.base = NoText /\ c.snap = {}
      /\ c.mem = 0
  BY CallFormed
<1>4. /\ DOMAIN k = ClientFields /\ k.pending = client.pending /\ k.nextId = client.nextId
      /\ k.shutting = TRUE
  BY DEF Formed, ClientFields
<1>5. SendFrom(k, w, f, c)
  BY DEF Shutdown
<1> HIDE DEF f, c, k
<1>6. SentBy(w, f, c) /\ client'.shutting = TRUE
  BY <1>1, <1>2, <1>3, <1>4, <1>5, SendEffect
<1>7. Proper(w, f, c)
  BY <1>2, <1>3 DEF Proper, Unpromised, Suits
<1>8. QED
  BY <1>6, <1>7 DEF FlowMove

LEMMA KillMoves ==
  ASSUME Formed, Kill
  PROVE  /\ FlowMove("shutdown") /\ client'.shutting = client.shutting
         /\ flow'["shutdown"].stage = "idle"
<1> DEFINE w == "shutdown"
<1>1. /\ flow' = [flow EXCEPT ![w] = NoFlow] /\ client' = [client EXCEPT !.proc = "killed"]
      /\ UNCHANGED inbox /\ flow[w].got # Nothing
  BY DEF Kill, Reaps, Got, wire
<1>2. DOMAIN flow' = Flows /\ flow'[w] = NoFlow /\ \A v \in Flows \ {w} : flow'[v] = flow[v]
  BY <1>1 DEF Formed, Flows
<1>3. /\ DOMAIN client' = ClientFields /\ client'.nextId = client.nextId
      /\ client'.pending = client.pending /\ client'.shutting = client.shutting
  BY <1>1 DEF Formed, ClientFields
<1>4. EndBy(w, "nothing")
  BY <1>1, <1>2, <1>3, Literals DEF EndBy
<1>5. QED
  BY <1>1, <1>2, <1>3, <1>4, Literals DEF FlowMove, Unpromised, Told

-----------------------------------------------------------------------------
(* The kinds of steps there are.                                              *)

\* The core of p begins the call m, forgets everything, or only its answer.
OthersStay(p) == DOMAIN core' = Procs /\ \A q \in Procs \ {p} : core'[q] = core[q]
Begun(p, m) ==
  /\ OthersStay(p) /\ DOMAIN core'[p] = CoreFields /\ DOMAIN core'[p].call = CallFields
  /\ core'[p].fns = core[p].fns /\ core'[p].types = core[p].types /\ core'[p].cache = core[p].cache
  /\ core'[p].answer = core[p].answer
  /\ core'[p].call.m = m.m /\ core'[p].call.id = m.id /\ core'[p].call.plan = m.plan
  /\ core'[p].call.mem = m.mem /\ core'[p].call.seen = m.seen /\ core'[p].call.base = text /\ core'[p].call.snap = journal
Renewed(p) == OthersStay(p) /\ core'[p] = FreshCore
Emptied(p) ==
  /\ OthersStay(p) /\ DOMAIN core'[p] = CoreFields
  /\ core'[p].fns = core[p].fns /\ core'[p].types = core[p].types /\ core'[p].cache = core[p].cache
  /\ core'[p].answer = Nothing /\ core'[p].call = core[p].call

Serves(p) == Handled(p) /\ UNCHANGED <<inbox, outbox, client, flow, shell>>
Takes ==
  /\ inbox # <<>> /\ inbox' = Tail(inbox) /\ Free("daemon") /\ Begun("daemon", Head(inbox))
  /\ UNCHANGED <<disk, outbox, client, flow, shell>>
Writes ==
  /\ core["daemon"].answer # Nothing /\ outbox' = Append(outbox, core["daemon"].answer)
  /\ Emptied("daemon") /\ UNCHANGED <<disk, inbox, client, flow, shell>>
Halts ==
  /\ Renewed("daemon") /\ inbox' = <<>> /\ UNCHANGED <<disk, client, flow, shell>>
  /\ \/ outbox' = outbox
     \/ \E c \in ToSet(inbox) : \E a :
          /\ c.m = "session.shutdown" /\ a.k = "done"
          /\ "for" \in DOMAIN a /\ a.for = c.id
          /\ outbox' = Append(outbox, a)
Hears ==
  /\ UNCHANGED <<disk, core, inbox, shell>>
  /\ \E S, a : /\ Answers(S, a)
               /\ \/ /\ outbox # <<>> /\ outbox' = Tail(outbox)
                     /\ a = Head(outbox) /\ S \subseteq {a.for}
                  \/ UNCHANGED outbox /\ a \in {Failed("timeout"), Failed("failed")}
Moves(w) ==
  /\ FlowMove(w) /\ UNCHANGED <<disk, core, outbox, shell>>
  /\ \/ client'.shutting = client.shutting /\ (w = "shutdown" => flow'[w].stage = "idle")
     \/ w = "shutdown" /\ client'.shutting = TRUE
Works(s) ==
  /\ UNCHANGED <<disk, inbox, outbox, client, flow>>
  /\ \/ UNCHANGED core \/ Renewed(s) \/ Emptied(s)
     \/ \E m : Begun(s, m) /\ DOMAIN m = CallFields /\ m.seen = NotSeen /\ m.mem = shell[s].line.mem
Rests == UNCHANGED <<text, made, journal, core, inbox, outbox, client, flow, shell>>

LEMMA CoreEffects ==
  ASSUME Formed, NEW p \in Procs
  PROVE  /\ \A m : DOMAIN m = CallFields /\ core' = [core EXCEPT ![p] = Began(@, m)] => Begun(p, m)
         /\ core' = [core EXCEPT ![p] = FreshCore] => Renewed(p)
         /\ core' = [core EXCEPT ![p].answer = Nothing] => Emptied(p)
<1>0. DOMAIN core = Procs /\ DOMAIN core[p] = CoreFields
  BY DEF Formed
<1>1. ASSUME NEW m, DOMAIN m = CallFields, core' = [core EXCEPT ![p] = Began(@, m)]
      PROVE  Begun(p, m)
  <2> DEFINE c == [m EXCEPT !.base = text, !.snap = journal]
  <2>1. /\ DOMAIN c = CallFields /\ c.m = m.m /\ c.id = m.id /\ c.plan = m.plan /\ c.seen = m.seen
        /\ c.mem = m.mem /\ c.base = text /\ c.snap = journal
    BY <1>1 DEF CallFields
  <2>2. core' = [core EXCEPT ![p] = [core[p] EXCEPT !.call = c]]
    BY <1>1 DEF Began
  <2> HIDE DEF c
  <2>3. OthersStay(p) /\ core'[p] = [core[p] EXCEPT !.call = c]
    BY <1>0, <2>2 DEF OthersStay
  <2>4. /\ DOMAIN core'[p] = CoreFields /\ core'[p].call = c
        /\ core'[p].fns = core[p].fns /\ core'[p].types = core[p].types /\ core'[p].cache = core[p].cache
        /\ core'[p].answer = core[p].answer
    BY <1>0, <2>3 DEF CoreFields
  <2>5. QED
    BY <2>1, <2>3, <2>4 DEF Begun
<1>2. ASSUME core' = [core EXCEPT ![p] = FreshCore] PROVE Renewed(p)
  BY <1>0, <1>2 DEF Renewed, OthersStay
<1>3. ASSUME core' = [core EXCEPT ![p].answer = Nothing] PROVE Emptied(p)
  <2>1. OthersStay(p) /\ core'[p] = [core[p] EXCEPT !.answer = Nothing]
    BY <1>0, <1>3 DEF OthersStay
  <2>2. /\ DOMAIN core'[p] = CoreFields /\ core'[p].call = core[p].call
        /\ core'[p].fns = core[p].fns /\ core'[p].types = core[p].types /\ core'[p].cache = core[p].cache
        /\ core'[p].answer = Nothing
    BY <1>0, <2>1 DEF CoreFields
  <2>3. QED
    BY <2>1, <2>2 DEF Emptied
<1>4. QED
  BY <1>1, <1>2, <1>3

LEMMA DaemonKinds ==
  ASSUME Formed, UNCHANGED shell, TakeRequest \/ TakeShutdown \/ WriteResponse \/ Hangs \/ Dies
  PROVE  Takes \/ Writes \/ Halts
<1>0. "daemon" \in Procs
  BY ProcsAssumption
<1>1. CASE TakeRequest
  <2>1. DOMAIN Head(inbox) = CallFields
    BY <1>1, TailFacts DEF TakeRequest, Reads, Formed
  <2>2. core' = [core EXCEPT !["daemon"] = Began(@, Head(inbox))]
    BY <1>1 DEF TakeRequest
  <2>3. Begun("daemon", Head(inbox))
    BY <1>0, <2>1, <2>2, CoreEffects
  <2>4. QED
    BY <1>1, <2>3 DEF TakeRequest, Reads, Takes
<1>2. CASE WriteResponse
  <2>1. core' = [core EXCEPT !["daemon"].answer = Nothing]
    BY <1>2 DEF WriteResponse
  <2>2. Emptied("daemon")
    BY <1>0, <2>1, CoreEffects
  <2>3. QED
    BY <1>2, <2>2 DEF WriteResponse, Writes
<1>3. ASSUME NEW how, Stops(how) PROVE Renewed("daemon") /\ inbox' = <<>>
  BY <1>0, <1>3, CoreEffects DEF Stops
<1>4. CASE TakeShutdown
  <2> DEFINE c == Head(inbox)  a == With(Done, "for", c.id)
  <2>1. c \in ToSet(inbox) /\ c.m = "session.shutdown"
    BY <1>4, TailFacts DEF TakeShutdown, Reads, Formed
  <2>2. outbox' = Append(outbox, a)
    BY <1>4 DEF TakeShutdown
  <2>3. "for" \in DOMAIN a /\ a.for = c.id /\ a.k = "done"
    BY DEF With, Done
  <2> HIDE DEF a, c
  <2>4. QED
    BY <1>3, <1>4, <2>1, <2>2, <2>3 DEF TakeShutdown, Halts
<1>5. CASE Hangs \/ Dies
  BY <1>3, <1>5 DEF Hangs, Dies, Halts
<1>6. QED
  BY <1>1, <1>2, <1>4, <1>5

LEMMA HearsKinds ==
  ASSUME Formed, UNCHANGED shell, Receive \/ Exits \/ \E i \in DOMAIN client.pending : TimesOut(i)
  PROVE  Hears
<1>1. CASE Receive
  <2> DEFINE a == Head(outbox)  S == For(a)
  <2>1. /\ outbox # <<>> /\ outbox' = Tail(outbox) /\ flow' = Settled(S, a) /\ client' = Without(S)
        /\ UNCHANGED <<disk, core, inbox>>
    BY <1>1 DEF Receive
  <2>2. S \subseteq DOMAIN client.pending /\ S \subseteq {a.for}
    BY DEF For
  <2> HIDE DEF a, S
  <2>3. Answers(S, a)
    BY <2>1, <2>2, SettledEffect
  <2>4. QED
    BY <2>1, <2>2, <2>3 DEF Hears, a
<1>2. CASE Exits
  <2> DEFINE S == IF client.shutting /\ daemon = "gone" THEN {} ELSE DOMAIN client.pending
  <2>1. /\ S \subseteq DOMAIN client.pending /\ flow' = Settled(S, Failed("failed"))
        /\ client' = [Without(S) EXCEPT !.exited = TRUE] /\ UNCHANGED <<disk, core, inbox, outbox>>
    BY <1>2 DEF Exits, FailAllPending, wire
  <2> HIDE DEF S
  <2>2. \E x : client' = [Without(S) EXCEPT !.exited = x]
    BY <2>1
  <2>3. Answers(S, Failed("failed"))
    BY <2>1, <2>2, SettledEffect
  <2>4. QED
    BY <2>1, <2>3 DEF Hears
<1>3. ASSUME NEW i \in DOMAIN client.pending, TimesOut(i) PROVE Hears
  <2> DEFINE S == {i}  x == IF daemon = "up" THEN client.early + 1 ELSE client.early
  <2>1. S \subseteq DOMAIN client.pending
    BY <1>3
  <2>2. flow' = Settled(S, Failed("timeout")) /\ UNCHANGED <<disk, core, inbox, outbox>>
    BY <1>3 DEF TimesOut, wire
  <2>3. client' = [Without(S) EXCEPT !.early = x]
    <3>1. client' = [Without({i}) EXCEPT !.early = IF daemon = "up" THEN @ + 1 ELSE @]
      BY <1>3 DEF TimesOut
    <3>2. Without({i}).early = client.early
      BY DEF Without, Formed, ClientFields
    <3>3. QED
      BY <3>1, <3>2
  <2> HIDE DEF S
  <2>4. Answers(S, Failed("timeout"))
    BY <2>1, <2>2, <2>3, SettledEffect
  <2>5. QED
    BY <2>2, <2>4 DEF Hears
<1>4. QED
  BY <1>1, <1>2, <1>3

LEMMA ShellKinds ==
  ASSUME Formed, NEW s \in Shells, Run(s) \/ Makes(s) \/ Returns(s) \/ Interrupted(s)
  PROVE  Works(s)
<1>0. s \in Procs
  BY ProcsAssumption
<1>1. CASE Run(s)
  BY <1>1 DEF Run, Others, wire, Works
<1>2. CASE Makes(s)
  <2> DEFINE d == Call(Head(shell[s].calls), Head(shell[s].plans))
             m == [d EXCEPT !.id = shell[s].run, !.mem = shell[s].line.mem, !.commit = shell[s].line.commit]
  <2>1. core' = [core EXCEPT ![s] = Began(@, m)] /\ UNCHANGED <<disk, inbox, outbox, client, flow>>
    BY <1>2 DEF Makes, Others, wire
  <2>2. DOMAIN d = CallFields /\ d.seen = NotSeen
    BY CallFormed
  <2> HIDE DEF d
  <2>3. DOMAIN m = CallFields /\ m.seen = NotSeen /\ m.mem = shell[s].line.mem
    BY <2>2 DEF CallFields
  <2> HIDE DEF m
  <2>4. Begun(s, m)
    BY <1>0, <2>1, <2>3, CoreEffects
  <2>5. QED
    BY <2>1, <2>3, <2>4 DEF Works
<1>3. ASSUME NEW code, Exit(s, code) PROVE Renewed(s)
  BY <1>0, <1>3, CoreEffects DEF Exit
<1>4. ASSUME NEW calls, NEW plans, GoOn(s, calls, plans) PROVE Renewed(s) \/ Emptied(s)
  BY <1>0, <1>3, <1>4, CoreEffects DEF GoOn
<1>5. CASE Returns(s)
  <2>1. UNCHANGED <<disk, inbox, outbox, client, flow>>
    BY <1>5 DEF Returns, Others, wire
  <2>2. Renewed(s) \/ Emptied(s)
    <3>1. PreviewDone(s) => Renewed(s) \/ Emptied(s)
      BY <1>3, <1>4 DEF PreviewDone
    <3>2. ApplyDone(s) \/ RollbackDone(s) => Renewed(s)
      BY <1>3 DEF ApplyDone, RollbackDone
    <3>3. ProposalDone(s) => Renewed(s) \/ Emptied(s)
      BY <1>4 DEF ProposalDone
    <3>4. CallDone(s) => Renewed(s) \/ Emptied(s)
      BY <1>4 DEF CallDone
    <3>5. QED
      BY <1>3, <1>5, <3>1, <3>2, <3>3, <3>4 DEF Returns
  <2>3. QED
    BY <2>1, <2>2 DEF Works
<1>6. CASE Interrupted(s)
  BY <1>3, <1>6 DEF Interrupted, Others, wire, Works
<1>7. QED
  BY <1>1, <1>2, <1>5, <1>6

AStep ==
  \/ \E p \in Procs : Serves(p)
  \/ Takes \/ Writes \/ Halts \/ Hears
  \/ \E w \in Flows : Moves(w)
  \/ \E s \in Shells : Works(s)
  \/ Rests

LEMMA StepKinds ==
  ASSUME Formed, ~client.shutting => flow["shutdown"].stage = "idle", [Next]_vars
  PROVE  AStep
<1>1. CASE UNCHANGED vars
  BY <1>1 DEF vars, disk, wire, AStep, Rests
<1>2. CASE Tick /\ Others /\ UNCHANGED shell
  BY <1>2 DEF Tick, Others, wire, AStep, Rests
<1>3. CASE ExtensionNext /\ UNCHANGED shell
  <2>1. CASE DaemonSteps \/ Hangs \/ Dies
    BY <1>3, <2>1, DaemonKinds DEF DaemonSteps, AStep
  <2>2. CASE Receive \/ Exits \/ \E i \in DOMAIN client.pending : TimesOut(i)
    BY <1>3, <2>2, HearsKinds DEF AStep
  <2>3. "activate" \in Flows /\ "shutdown" \in Flows /\ Windows \subseteq Flows
    BY DEF Flows
  <2>4. CASE Kill
    <3>1. UNCHANGED <<disk, core, outbox, shell>>
      BY <1>3, <2>4 DEF Kill, wire
    <3>2. Moves("shutdown")
      BY <2>4, <3>1, KillMoves DEF Moves
    <3>3. QED
      BY <2>3, <3>2 DEF AStep
  <2>5. CASE Shutdown
    <3>1. UNCHANGED <<disk, core, outbox, shell>> /\ flow["shutdown"].stage = "idle"
      BY <1>3, <2>5 DEF Shutdown
    <3>2. Moves("shutdown")
      BY <2>5, <3>1, ShutdownMoves DEF Moves
    <3>3. QED
      BY <2>3, <3>2 DEF AStep
  <2>6. CASE Initialized \/ Opened \/ Indexed
    <3>1. UNCHANGED <<disk, core, outbox, shell>>
      BY <1>3, <2>6 DEF Initialized, Opened, Indexed, ExtOnly
    <3>2. Moves("activate")
      BY <2>6, <3>1, ActivationMoves DEF Moves
    <3>3. QED
      BY <2>3, <3>2 DEF AStep
  <2>7. ASSUME NEW w \in Windows, Command(w) PROVE AStep
    <3>1. UNCHANGED <<disk, core, outbox>>
      BY <2>7 DEF Command, CmdRename, CmdProposePatch, CmdExplainRename, CmdHistory, CmdStats, CmdInfo,
                  Start, Fails, RenderVerdict, Prints, ListFunctions, PickCandidate, Confirm, Reports,
                  Resolved, FlowOnly, ExtOnly
    <3>2. Moves(w)
      BY <1>3, <2>7, <3>1, CommandMoves, WindowsAssumption DEF Moves
    <3>3. QED
      BY <2>3, <3>2 DEF AStep
  <2>8. QED
    BY <1>3, <2>1, <2>2, <2>4, <2>5, <2>6, <2>7 DEF ExtensionNext, ClientSteps
<1>4. ASSUME NEW p \in Procs, Handle(p), Others, UNCHANGED shell PROVE AStep
  <2>1. Handled(p)
    BY <1>4, HandleEffect
  <2>2. Serves(p)
    BY <1>4, <2>1 DEF Serves, Others, wire
  <2>3. QED
    BY <2>2 DEF AStep
<1>5. ASSUME NEW s \in Shells, Run(s) \/ Makes(s) \/ Returns(s) \/ Interrupted(s) PROVE AStep
  BY <1>5, ShellKinds DEF AStep
<1>6. QED
  BY <1>1, <1>2, <1>3, <1>4, <1>5 DEF Next

-----------------------------------------------------------------------------
(* The records stay well formed.                                              *)
LEMMA FormedKept == ASSUME Formed, AStep PROVE Formed'
<1> USE DEF OthersStay
<1>0. "daemon" \in Procs /\ Shells \subseteq Procs
  BY ProcsAssumption
<1>1. ASSUME NEW p \in Procs, Serves(p) PROVE Formed'
  <2>1. /\ DOMAIN core' = Procs /\ \A q \in Procs \ {p} : core'[q] = core[q]
        /\ DOMAIN core'[p] = CoreFields /\ core'[p].call = NoCall /\ Cached(core'[p])
    BY <1>1 DEF Serves, Handled
  <2>2. ASeq(made')
    <3>1. made' = made \/ \E e : made' = Append(made, e)
      BY <1>1 DEF Serves, Handled, Untouched, Committed, Undone, disk
    <3>2. QED
      <4>1. ASeq(made)
        BY DEF Formed
      <4>2. QED
        BY <3>1, <4>1, PipeFacts, Zenon
  <2>3. QED
    BY <1>1, <2>1, <2>2, Literals DEF Serves, Formed
<1>2. CASE Takes
  BY <1>0, <1>2, TailFacts DEF Takes, Begun, disk, Formed, Cached
<1>3. CASE Writes
  BY <1>0, <1>3, AppendFacts DEF Writes, Emptied, disk, Formed, Cached
<1>4. CASE Halts
  <2>1. ASeq(outbox') /\ inbox' = <<>>
    <3>1. ASeq(outbox) /\ inbox' = <<>> /\ (outbox' = outbox \/ \E a : outbox' = Append(outbox, a))
      BY <1>4 DEF Halts, Formed
    <3>2. QED
      BY <3>1, PipeFacts, Zenon
  <2>2. /\ core'["daemon"] = FreshCore /\ DOMAIN core' = Procs
        /\ \A q \in Procs \ {"daemon"} : core'[q] = core[q]
    BY <1>4 DEF Halts, Renewed
  <2>3. UNCHANGED <<made, client, flow>>
    BY <1>4 DEF Halts, disk
  <2>4. /\ DOMAIN core' = Procs
        /\ \A p \in Procs : DOMAIN core'[p] = CoreFields /\ DOMAIN core'[p].call = CallFields /\ Cached(core'[p])
    BY <2>2, Literals DEF Formed
  <2>5. QED
    BY <2>1, <2>3, <2>4, NoElements DEF Formed
<1>5. CASE Hears
  <2>1. PICK S, a : Answers(S, a)
    BY <1>5 DEF Hears
  <2>2. outbox' \in {outbox, Tail(outbox)} /\ (outbox' # outbox => outbox # <<>>)
    BY <1>5 DEF Hears
  <2>3. ASeq(outbox')
    BY <2>2, TailFacts DEF Formed
  <2>4. \A w \in Flows : DOMAIN flow'[w] = FlowFields
    BY <2>1 DEF Answers, Formed
  <2>5. QED
    BY <1>5, <2>1, <2>3, <2>4 DEF Hears, Answers, disk, Formed
<1>6. ASSUME NEW w \in Flows, Moves(w) PROVE Formed'
  <2>1. /\ DOMAIN flow' = Flows /\ \A v \in Flows \ {w} : flow'[v] = flow[v]
        /\ DOMAIN flow'[w] = FlowFields /\ DOMAIN client' = ClientFields
        /\ client'.nextId \in {client.nextId, client.nextId + 1}
        /\ inbox' = inbox \/ \E m : inbox' = Append(inbox, m) /\ DOMAIN m = CallFields
    BY <1>6 DEF Moves, FlowMove, EndBy, SentBy, Carries
  <2>2. ASeq(inbox') /\ \A c \in ToSet(inbox') : DOMAIN c = CallFields
    <3>1. ASeq(inbox) /\ \A c \in ToSet(inbox) : DOMAIN c = CallFields
      BY DEF Formed
    <3>2. CASE inbox' = inbox
      BY <3>1, <3>2
    <3>3. CASE \E m : inbox' = Append(inbox, m) /\ DOMAIN m = CallFields
      <4>1. PICK m : inbox' = Append(inbox, m) /\ DOMAIN m = CallFields
        BY <3>3
      <4>2. ASeq(inbox') /\ ToSet(inbox') = ToSet(inbox) \cup {m}
        BY <3>1, <4>1, PipeFacts, Zenon
      <4>3. QED
        BY <3>1, <4>1, <4>2
    <3>4. QED
      BY <2>1, <3>2, <3>3
  <2>3. QED
    BY <1>6, <2>1, <2>2 DEF Moves, disk, Formed
<1>7. ASSUME NEW s \in Shells, Works(s) PROVE Formed'
  BY <1>0, <1>7, Literals DEF Works, Begun, Renewed, Emptied, disk, Formed, Cached
<1>8. CASE Rests
  BY <1>8 DEF Rests, Formed
<1>9. QED
  BY <1>1, <1>2, <1>3, <1>4, <1>5, <1>6, <1>7, <1>8 DEF AStep

-----------------------------------------------------------------------------
(* Requests and the flows that await them.                                    *)

\* A request that is pending is the last one of its flow, which has no answer to it.
Awaits(w, i) == w \in Flows /\ flow[w].id = i /\ flow[w].got = Nothing /\ flow[w].stage # "idle"
Waiting ==
  /\ DOMAIN client.pending \subseteq 1..(client.nextId - 1)
  /\ \A i \in DOMAIN client.pending : Awaits(client.pending[i], i)
  /\ ~client.shutting => flow["shutdown"].stage = "idle"

LEMMA HearsAnswer ==
  ASSUME Formed, Waiting, AnsweredByOwn, Hears
  PROVE  Waiting' /\ AnsweredByOwn'
<1>1. PICK S, a : /\ Answers(S, a)
                  /\ \/ S \subseteq {a.for}
                     \/ a \in {Failed("timeout"), Failed("failed")}
  BY DEF Hears
<1>2. ASSUME NEW i \in DOMAIN client'.pending
      PROVE  Awaits(client.pending[i], i)'
  <2>1. i \in DOMAIN client.pending /\ i \notin S /\ client'.pending[i] = client.pending[i]
    BY <1>1 DEF Answers
  <2> DEFINE w == client.pending[i]
  <2>2. w \in Flows /\ flow[w].id = i /\ flow[w].got = Nothing /\ flow[w].stage # "idle"
    BY <2>1 DEF Waiting, Awaits
  <2>3. \A j \in S : client.pending[j] # w
    BY <1>1, <2>1, <2>2 DEF Answers, Waiting, Awaits
  <2>4. flow'[w] = flow[w]
    BY <1>1, <2>2, <2>3 DEF Answers
  <2>5. QED
    BY <2>1, <2>2, <2>4 DEF Awaits
<1>3. "shutdown" \in Flows
  BY DEF Flows
<1>4. flow'["shutdown"].stage = flow["shutdown"].stage
  BY <1>1, <1>3 DEF Answers, FlowFields
<1>5. Waiting'
  BY <1>1, <1>2, <1>4 DEF Answers, Waiting
<1>6. ASSUME NEW w \in Flows, "for" \in DOMAIN flow'[w].got
      PROVE  flow'[w].got.for = flow'[w].id
  <2>1. CASE flow'[w] = flow[w]
    BY <1>6, <2>1 DEF AnsweredByOwn
  <2>2. CASE flow'[w] # flow[w]
    <3>1. PICK i \in S : client.pending[i] = w
      BY <1>1, <2>2 DEF Answers
    <3>2. flow'[w].got = a /\ flow'[w].id = flow[w].id
      BY <1>1, <2>2 DEF Answers, FlowFields
    <3>3. flow[w].id = i
      BY <1>1, <3>1 DEF Answers, Waiting, Awaits
    <3>4. "for" \notin DOMAIN Failed("timeout") /\ "for" \notin DOMAIN Failed("failed")
      BY DEF Failed
    <3>5. a.for = i
      BY <1>1, <1>6, <3>1, <3>2, <3>4
    <3>6. QED
      BY <3>2, <3>3, <3>5
  <2>3. QED
    BY <2>1, <2>2
<1>7. QED
  BY <1>5, <1>6 DEF AnsweredByOwn

LEMMA MovesAnswer ==
  ASSUME Formed, Waiting, AnsweredByOwn, NEW w \in Flows, Moves(w)
  PROVE  Waiting' /\ AnsweredByOwn'
<1>1. /\ Unpromised(w) /\ client.nextId \in Nat \ {0}
      /\ DOMAIN flow' = Flows /\ \A v \in Flows \ {w} : flow'[v] = flow[v]
  BY DEF Moves, FlowMove, SentBy, EndBy, Proper, Formed
<1>2. \A i \in DOMAIN client.pending : client.pending[i] # w
  BY <1>1 DEF Waiting, Awaits, Unpromised
<1>3. "for" \notin DOMAIN Nothing /\ "for" \notin DOMAIN Failed("failed")
  BY DEF Nothing, Failed
<1>4. /\ flow'[w].got \in {Nothing, Failed("failed")}
      /\ \/ client'.nextId = client.nextId /\ client'.pending = client.pending
         \/ /\ client'.nextId = client.nextId + 1 /\ flow'[w].stage # "idle"
            /\ flow'[w].got = Nothing /\ flow'[w].id = client.nextId
            /\ client'.pending = With(client.pending, client.nextId, w)
  BY DEF Moves, FlowMove, SentBy, EndBy, Proper
<1>5. AnsweredByOwn'
  BY <1>1, <1>3, <1>4 DEF AnsweredByOwn
<1>6. ~client'.shutting => flow'["shutdown"].stage = "idle"
  BY <1>1 DEF Moves, Waiting, Flows
<1>7. CASE client'.nextId = client.nextId /\ client'.pending = client.pending
  <2>1. ASSUME NEW i \in DOMAIN client'.pending PROVE Awaits(client.pending[i], i)'
    BY <1>1, <1>2, <1>7 DEF Waiting, Awaits
  <2>2. QED
    BY <1>5, <1>6, <1>7, <2>1 DEF Waiting
<1>8. CASE /\ client'.nextId = client.nextId + 1 /\ flow'[w].stage # "idle"
           /\ flow'[w].got = Nothing /\ flow'[w].id = client.nextId
           /\ client'.pending = With(client.pending, client.nextId, w)
  <2> DEFINE n == client.nextId
  <2>1. /\ DOMAIN client'.pending = DOMAIN client.pending \cup {n} /\ client'.pending[n] = w
        /\ \A i \in DOMAIN client.pending : i # n => client'.pending[i] = client.pending[i]
    <3>1. client'.pending = With(client.pending, n, w)
      BY <1>8
    <3> DEFINE f == client.pending  g == With(f, n, w)
    <3> HIDE DEF n, f
    <3>2. /\ DOMAIN g = DOMAIN f \cup {n} /\ g[n] = w
          /\ \A i \in DOMAIN f : i # n => g[i] = f[i]
      BY DEF With
    <3>3. client'.pending = g
      BY <3>1 DEF f
    <3> HIDE DEF g
    <3>4. QED
      BY <3>2, <3>3 DEF f
  <2>2. n \notin DOMAIN client.pending /\ DOMAIN client'.pending \subseteq 1..(client'.nextId - 1)
    <3>1. DOMAIN client.pending \subseteq 1..(n - 1) /\ n \in Nat \ {0} /\ client'.nextId = n + 1
      BY <1>1, <1>8 DEF Waiting
    <3> HIDE DEF n
    <3>2. QED
      BY <2>1, <3>1
  <2>3. ASSUME NEW i \in DOMAIN client'.pending
        PROVE  Awaits(client.pending[i], i)'
    <3>1. CASE i = n
      BY <1>8, <2>1, <3>1 DEF Awaits
    <3>2. CASE i # n
      BY <1>1, <1>2, <2>1, <2>3, <3>2 DEF Waiting, Awaits
    <3>3. QED
      BY <3>1, <3>2
  <2>4. QED
    BY <1>5, <1>6, <2>2, <2>3 DEF Waiting
<1>9. QED
  BY <1>4, <1>5, <1>7, <1>8

Wired == Formed /\ Waiting /\ AnsweredByOwn

LEMMA WiredKept == Wired /\ [Next]_vars => Wired'
<1> SUFFICES ASSUME Wired, [Next]_vars PROVE Wired'
  OBVIOUS
<1>1. AStep /\ Formed /\ Waiting /\ AnsweredByOwn
  BY StepKinds DEF Wired, Waiting
<1>2. Formed'
  BY <1>1, FormedKept
<1>3. ASSUME UNCHANGED <<client, flow>> PROVE Waiting' /\ AnsweredByOwn'
  BY <1>1, <1>3 DEF Waiting, Awaits, AnsweredByOwn
<1>4. ASSUME Hears PROVE Waiting' /\ AnsweredByOwn'
  BY <1>1, <1>4, HearsAnswer
<1>5. ASSUME NEW w \in Flows, Moves(w) PROVE Waiting' /\ AnsweredByOwn'
  BY <1>1, <1>5, MovesAnswer
<1>6. Waiting' /\ AnsweredByOwn'
  BY <1>1, <1>3, <1>4, <1>5 DEF AStep, Serves, Takes, Writes, Halts, Works, Rests
<1>7. QED
  BY <1>2, <1>6 DEF Wired

LEMMA InitWired == Init => Wired
<1> SUFFICES ASSUME Init PROVE Wired
  OBVIOUS
<1>0. /\ DOMAIN core = Procs /\ \A p \in Procs : core[p] = FreshCore
      /\ made = <<>> /\ outbox = <<>>
  BY DEF Init, ServiceInit, ExtensionInit
<1>1. /\ DOMAIN flow = Flows
      /\ \A w \in Flows : DOMAIN flow[w] = FlowFields /\ flow[w].got = Nothing
      /\ flow["shutdown"].stage = "idle"
  <2>1. CASE Activate
    <3> DEFINE f == [NoFlow EXCEPT !.stage = "init", !.id = 1]
    <3>1. DOMAIN f = FlowFields /\ f.got = Nothing
      BY DEF NoFlow, FlowFields
    <3>2. flow = [w \in Flows |-> IF w = "activate" THEN f ELSE NoFlow]
      BY <2>1 DEF Activate
    <3> HIDE DEF f
    <3>3. QED
      BY <3>1, <3>2, Literals DEF Flows
  <2>2. CASE Unused
    BY <2>2, Literals DEF Unused, Flows
  <2>3. QED
    BY <2>1, <2>2 DEF Init, ExtensionInit
<1>2. /\ DOMAIN client = ClientFields /\ client.nextId \in Nat \ {0}
      /\ ASeq(inbox) /\ \A c \in ToSet(inbox) : DOMAIN c = CallFields
  <2>1. CASE Activate
    <3> DEFINE c == [Call("session.initialize", <<>>) EXCEPT !.id = 1]
    <3>1. DOMAIN c = CallFields
      BY DEF Call, CallFields
    <3>2. DOMAIN client = ClientFields /\ client.nextId = 2
      BY <2>1 DEF Activate, ClientFields
    <3>3. inbox = <<c>> \/ inbox = <<>>
      BY <2>1 DEF Activate
    <3> HIDE DEF c
    <3>4. <<c>> \in Seq({c}) /\ ToSet(<<c>>) = {c}
      BY DEF ToSet
    <3>5. ASeq(<<c>>)
      BY <3>4 DEF ASeq
    <3>6. QED
      BY <3>1, <3>2, <3>3, <3>4, <3>5, NoElements
  <2>2. CASE Unused
    BY <2>2, NoElements DEF Unused, ClientFields
  <2>3. QED
    BY <2>1, <2>2 DEF Init, ExtensionInit
<1>3. Formed
  BY <1>0, <1>1, <1>2, NoElements, Literals DEF Formed
<1>4. Waiting
  <2>1. CASE Activate
    <3>1. client.pending = With(<<>>, 1, "activate") /\ client.nextId = 2
      BY <2>1 DEF Activate
    <3>2. DOMAIN <<>> = {}
      BY NoElements DEF ToSet
    <3>3. DOMAIN client.pending = {1} /\ client.pending[1] = "activate"
      BY <3>1, <3>2 DEF With
    <3>4. "activate" \in Flows /\ flow["activate"].id = 1 /\ flow["activate"].stage = "init"
      <4>1. flow["activate"] = [NoFlow EXCEPT !.stage = "init", !.id = 1]
        BY <2>1 DEF Activate, Flows
      <4>2. QED
        BY <4>1 DEF NoFlow, Flows
    <3>5. QED
      BY <1>1, <3>1, <3>3, <3>4 DEF Waiting, Awaits
  <2>2. CASE Unused
    <3>1. DOMAIN client.pending = {}
      BY <2>2 DEF Unused
    <3>2. QED
      BY <1>1, <3>1 DEF Waiting
  <2>3. QED
    BY <2>1, <2>2 DEF Init, ExtensionInit
<1>5. AnsweredByOwn
  BY <1>1, Literals DEF AnsweredByOwn
<1>6. QED
  BY <1>3, <1>4, <1>5 DEF Wired

\* A promise is settled by the answer to its own request (client.js, _handleLine).
THEOREM AnswersMeetRequests == Spec => []AnsweredByOwn
<1>1. Init => Wired
  BY InitWired
<1>2. Wired /\ [Next]_vars => Wired'
  BY WiredKept
<1>3. Wired => AnsweredByOwn
  BY DEF Wired
<1>4. QED
  BY <1>1, <1>2, <1>3, PTL DEF Spec

-----------------------------------------------------------------------------
(* The names that have been in the workspace.                                 *)
Names == FirstText.names \cup {""} \cup UNION {made[k].after.names : k \in DOMAIN made}
Grounded(plan) == \A j \in DOMAIN plan : Cites(plan[j]) \in Names

\* What is read, remembered or restored has been there.
Known ==
  /\ text.names \subseteq Names /\ journal \subseteq DOMAIN made
  /\ \A k \in DOMAIN made : made[k].before.names \subseteq Names
  /\ \A p \in Procs : /\ core[p].fns \subseteq Names /\ core[p].types \subseteq Names
                      /\ core[p].call.base.names \subseteq Names /\ core[p].call.snap \subseteq DOMAIN made

\* What an accepted operation names is one of the names the graph knows.
LEMMA GroundedCites ==
  ASSUME NEW op, NEW fns, NEW types, OpGrounded(op, fns, types)
  PROVE  Cites(op) \in fns \cup types \cup {""}
<1>1. CASE op.op = "rename_function" /\ RenameGrounded(op, fns)
  BY <1>1 DEF RenameGrounded, Cites
<1>2. CASE op.op = "rename_function_typed"
  BY <1>2 DEF Cites
<1>3. CASE op.op \in {"add_derive_to_struct", "remove_derive_from_struct"} /\ DeriveGrounded(op, types)
  BY <1>3 DEF DeriveGrounded, Cites
<1>4. CASE op.op = "inline_function" /\ InlineGrounded(op, fns)
  BY <1>4 DEF InlineGrounded, Cites
<1>5. CASE op.op = "extract_function"
  BY <1>5 DEF Cites
<1>6. CASE op.op = "change_signature" /\ SignatureGrounded(op, fns)
  <2>1. op.function \in fns
    BY <1>6 DEF SignatureGrounded
  <2>2. QED
    BY <1>6, <2>1 DEF Cites
<1>7. CASE op.op = "move_item" /\ MoveGrounded(op, fns, types)
  BY <1>7 DEF MoveGrounded, Cites
<1>8. QED
  BY <1>1, <1>2, <1>3, <1>4, <1>5, <1>6, <1>7 DEF OpGrounded

LEMMA AcceptedCites ==
  ASSUME NEW b, NEW fns, NEW types, NEW plan \in Accepted(Candidates(b, fns, types)),
         NEW j \in DOMAIN plan
  PROVE  Cites(plan[j]) \in fns \cup types \cup {""}
<1> DEFINE cs == Candidates(b, fns, types)
<1>1. PICK c \in ToSet(cs) : c.accepted /\ c.plan = plan
  BY DEF Accepted
<1>2. PICK i \in DOMAIN cs : c = cs[i]
  BY <1>1 DEF ToSet
<1>3. c.plan = b.plans[i] /\ c.accepted = ValidatePlan(b.plans[i], fns, types)
  BY <1>2 DEF Candidates
<1> HIDE DEF cs
<1>4. OpGrounded(plan[j], fns, types)
  BY <1>1, <1>3 DEF ValidatePlan
<1>5. QED
  BY <1>4, GroundedCites

LEMMA AcceptedSequence ==
  ASSUME NEW b \in ModelAnswers, NEW fns, NEW types, NEW plan \in Accepted(Candidates(b, fns, types))
  PROVE  ASeq(plan)
<1> DEFINE cs == Candidates(b, fns, types)
<1>1. PICK c \in ToSet(cs) : c.plan = plan
  BY DEF Accepted
<1>2. PICK i \in DOMAIN b.plans : plan = b.plans[i]
  BY <1>1 DEF ToSet, Candidates
<1>3. plan \in ToSet(b.plans)
  BY <1>2 DEF ToSet
<1>4. QED
  BY <1>3, ModelAnswersAssumption DEF IsSequence, ASeq

LEMMA MadeKept ==
  ASSUME Formed, AStep
  PROVE  /\ \A i \in DOMAIN made : i \in DOMAIN made' /\ made'[i] = made[i]
         /\ Names \subseteq Names'
<1>1. made' = made \/ \E e : made' = Append(made, e)
  <2>1. ASSUME NEW p \in Procs, Serves(p) PROVE made' = made \/ \E e : made' = Append(made, e)
    BY <2>1 DEF Serves, Handled, Untouched, Committed, Undone, disk
  <2>2. QED
    BY <2>1 DEF AStep, Takes, Writes, Halts, Hears, Moves, Works, Rests, disk
<1>2. \A i \in DOMAIN made : i \in DOMAIN made' /\ made'[i] = made[i]
  <2>1. CASE made' = made
    BY <2>1
  <2>2. CASE \E e : made' = Append(made, e)
    <3>1. PICK e : made' = Append(made, e)
      BY <2>2
    <3>2. ASeq(made)
      BY DEF Formed
    <3>3. PICK S : made \in Seq(S)
      BY <3>2 DEF ASeq
    <3>4. made \in Seq(S \cup {e})
      BY <3>3
    <3>5. QED
      BY <3>1, <3>3, <3>4
  <2>3. QED
    BY <1>1, <2>1, <2>2
<1>3. QED
  BY <1>2 DEF Names

LEMMA KnownServes ==
  ASSUME Formed, Known, NEW p \in Procs, Serves(p)
  PROVE  Known'
<1> DEFINE c == core[p].call
<1>0. /\ c.base.names \subseteq Names /\ c.snap \subseteq DOMAIN made
      /\ core[p].fns \subseteq Names /\ core[p].types \subseteq Names
      /\ text.names \subseteq Names /\ journal \subseteq DOMAIN made
      /\ \A k \in DOMAIN made : made[k].before.names \subseteq Names
  BY DEF Known
<1>1. /\ \A i \in DOMAIN made : i \in DOMAIN made' /\ made'[i] = made[i]
      /\ Names \subseteq Names'
  BY MadeKept DEF AStep
<1>2. /\ \A q \in Procs \ {p} : core'[q] = core[q]
      /\ core'[p].call = NoCall
      /\ core'[p].fns \subseteq core[p].fns \cup c.base.names
      /\ core'[p].types \subseteq core[p].types \cup c.base.names
  BY DEF Serves, Handled
<1>3. ASSUME NEW q \in Procs
      PROVE  /\ core'[q].fns \subseteq Names' /\ core'[q].types \subseteq Names'
             /\ core'[q].call.base.names \subseteq Names' /\ core'[q].call.snap \subseteq DOMAIN made'
  <2>1. CASE q = p
    BY <1>0, <1>1, <1>2, <2>1, Literals
  <2>2. CASE q # p
    <3>1. /\ core[q].fns \subseteq Names /\ core[q].types \subseteq Names
          /\ core[q].call.base.names \subseteq Names /\ core[q].call.snap \subseteq DOMAIN made
      BY DEF Known
    <3>2. core'[q] = core[q]
      BY <1>2, <2>2
    <3>3. QED
      BY <1>1, <3>1, <3>2
  <2>3. QED
    BY <2>1, <2>2
<1>4. /\ text'.names \subseteq Names' /\ journal' \subseteq DOMAIN made'
      /\ \A k \in DOMAIN made' : made'[k].before.names \subseteq Names'
  <2>1. CASE UNCHANGED disk
    BY <1>0, <1>1, <2>1 DEF disk
  <2>2. CASE Undone(c)
    <3>1. c.commit \in DOMAIN made /\ UNCHANGED made /\ journal' \subseteq journal
          /\ text' \in {text, made[c.commit].before}
      BY <1>0, <2>2 DEF Undone
    <3>2. QED
      BY <1>0, <1>1, <3>1
  <2>3. CASE Committed(p, c, core'[p].answer)
    <3>1. PICK e : /\ made' = Append(made, e) /\ e.before = c.base /\ text' \in {text, e.after}
      BY <2>3 DEF Committed
    <3>2. journal' \subseteq journal \cup {Len(made')}
      BY <2>3 DEF Committed
    <3>3. PICK S : made \in Seq(S)
      BY DEF Formed, ASeq
    <3>4. /\ DOMAIN made' = DOMAIN made \cup {Len(made) + 1} /\ Len(made') = Len(made) + 1
          /\ made'[Len(made) + 1] = e
      <4>1. made \in Seq(S \cup {e})
        BY <3>3
      <4>2. QED
        BY <3>1, <3>3, <4>1
    <3>5. e.after.names \subseteq Names'
      BY <3>4 DEF Names
    <3>6. QED
      BY <1>0, <1>1, <3>1, <3>2, <3>4, <3>5
  <2>4. QED
    BY <2>1, <2>2, <2>3 DEF Serves, Handled, Untouched
<1>5. QED
  BY <1>3, <1>4 DEF Known

LEMMA KnownKept ==
  ASSUME Formed, Known, AStep
  PROVE  Known'
<1>1. ASSUME UNCHANGED <<text, made, journal>>,
             \A p \in Procs : \/ core'[p] = FreshCore
                              \/ /\ core'[p].fns = core[p].fns /\ core'[p].types = core[p].types
                                 /\ \/ core'[p].call = core[p].call
                                    \/ core'[p].call.base = text /\ core'[p].call.snap = journal
      PROVE  Known'
  <2>1. Names' = Names /\ DOMAIN made' = DOMAIN made
    BY <1>1 DEF Names
  <2>2. ASSUME NEW p \in Procs
        PROVE  /\ core'[p].fns \subseteq Names /\ core'[p].types \subseteq Names
               /\ core'[p].call.base.names \subseteq Names /\ core'[p].call.snap \subseteq DOMAIN made
    BY <1>1, Literals DEF Known
  <2>3. QED
    BY <1>1, <2>1, <2>2 DEF Known
<1>2. "daemon" \in Procs /\ Shells \subseteq Procs
  BY ProcsAssumption
<1>3. ASSUME NEW p \in Procs, Renewed(p) \/ Emptied(p) \/ \E m : Begun(p, m)
      PROVE  \A q \in Procs : \/ core'[q] = FreshCore
                              \/ /\ core'[q].fns = core[q].fns /\ core'[q].types = core[q].types
                                 /\ \/ core'[q].call = core[q].call
                                    \/ core'[q].call.base = text /\ core'[q].call.snap = journal
  BY <1>3 DEF Renewed, Emptied, Begun, OthersStay
<1>4. CASE Takes \/ Writes \/ Halts
  <2>1. Renewed("daemon") \/ Emptied("daemon") \/ \E m : Begun("daemon", m)
    BY <1>4 DEF Takes, Writes, Halts
  <2>2. UNCHANGED <<text, made, journal>>
    BY <1>4 DEF Takes, Writes, Halts, disk
  <2>3. QED
    BY <1>1, <1>2, <1>3, <2>1, <2>2
<1>5. ASSUME NEW s \in Shells, Works(s) PROVE Known'
  <2>1. UNCHANGED <<text, made, journal>>
    BY <1>5 DEF Works, disk
  <2>2. CASE UNCHANGED core
    BY <1>1, <2>1, <2>2
  <2>3. CASE Renewed(s) \/ Emptied(s) \/ \E m : Begun(s, m)
    BY <1>1, <1>2, <1>3, <2>1, <2>3
  <2>4. QED
    BY <1>5, <2>2, <2>3 DEF Works
<1>6. CASE UNCHANGED <<text, made, journal, core>>
  BY <1>1, <1>6
<1>7. QED
  BY <1>4, <1>5, <1>6, KnownServes DEF AStep, Hears, Moves, Rests, disk

-----------------------------------------------------------------------------
(* Requests under way, answers under way and the flows they are for.          *)
CallsOf == ToSet(inbox) \cup {core["daemon"].call}
AnswersOf == (ToSet(outbox) \cup {core["daemon"].answer}) \ {Nothing}

\* a is an answer to the call c, or what a flow in the state f has asked for.
Shown(a, plan) == a.k = "preview" /\ Tells(plan, a.base, a.some)
Proposed(a) == a.k = "error" \/ (a.k = "candidates" /\ \A plan \in Accepted(a.of) : Grounded(plan) /\ ASeq(plan))
Replies(a, c) ==
  /\ c.m = "patch.preview" => Shown(a, c.plan)
  /\ c.m = "llm.propose_patch" => Proposed(a)
  /\ c.m = "patch.apply" <=> a.k = "apply"
Fits(a, f) ==
  /\ f.stage = "preview" => Shown(a, f.plan)
  /\ f.stage = "propose" => Proposed(a)
  /\ f.stage = "apply" <=> a.k = "apply"

\* What is to be applied is what was shown, with replacements, and names what there was.
Sound(c) ==
  c.m = "patch.apply" =>
    /\ c.seen.plan = c.plan /\ Tells(c.plan, c.seen.base, TRUE)
    /\ c.seen.proposed => Grounded(c.plan)
    /\ ASeq(c.plan)

Lost(a) == a \in {Nothing, Failed("failed"), Failed("timeout")}
CallPaired(c) ==
  /\ c.id \in 0..(client.nextId - 1) /\ Sound(c)
  /\ c.id \in DOMAIN client.pending => Suits(c, flow[client.pending[c.id]])
AnswerPaired(a) ==
  /\ "for" \in DOMAIN a /\ a.for \in 0..(client.nextId - 1)
  /\ a.for \in DOMAIN client.pending => Fits(a, flow[client.pending[a.for]])
FlowPaired(w) ==
  /\ Lost(flow[w].got) \/ Fits(flow[w].got, flow[w])
  /\ flow[w].proposed => Grounded(flow[w].plan)
  /\ ASeq(flow[w].plan)
Paired ==
  /\ \A c \in CallsOf : CallPaired(c)
  /\ \A a \in AnswersOf : AnswerPaired(a)
  /\ \A w \in Flows : FlowPaired(w)

LEMMA FitsReply ==
  ASSUME NEW a, NEW c, NEW f, Suits(c, f), Replies(a, c)
  PROVE  Fits(a, f)
BY DEF Suits, Replies, Fits

LEMMA GroundedGrows ==
  ASSUME Names \subseteq Names'
  PROVE  /\ \A plan : Grounded(plan) => Grounded(plan)'
         /\ \A a : Proposed(a) => Proposed(a)'
         /\ \A a, f : Fits(a, f) => Fits(a, f)'
         /\ \A c : Sound(c) => Sound(c)'
<1>1. \A plan : Grounded(plan) => Grounded(plan)'
  BY DEF Grounded
<1>2. \A a : Proposed(a) => Proposed(a)'
  BY <1>1 DEF Proposed
<1>3. \A a, f : Fits(a, f) => Fits(a, f)'
  BY <1>2 DEF Fits, Shown
<1>4. \A c : Sound(c) => Sound(c)'
  BY <1>1 DEF Sound
<1>5. QED
  BY <1>1, <1>2, <1>3, <1>4

\* A step of the daemon: a request keeps what it asks, an answer is to a request.
SameCall(c, d) == c.m = d.m /\ c.id = d.id /\ c.plan = d.plan /\ c.seen = d.seen
LEMMA PairedDaemon ==
  ASSUME Formed, Waiting, Paired, UNCHANGED <<client, flow>>, Names \subseteq Names',
         \A c \in CallsOf' : \E d \in CallsOf \cup {NoCall} : SameCall(c, d),
         \A a \in AnswersOf' : \/ a \in AnswersOf
                               \/ "for" \in DOMAIN a /\ \E c \in CallsOf : a.for = c.id /\ Replies(a, c)'
  PROVE  Paired'
<1>0. client.nextId \in Nat \ {0} /\ DOMAIN client.pending \subseteq 1..(client.nextId - 1)
  BY DEF Formed, Waiting
<1>1. CallPaired(NoCall)
  BY <1>0, Literals DEF CallPaired, Sound
<1>2. ASSUME NEW c \in CallsOf' PROVE CallPaired(c)'
  <2>1. PICK d \in CallsOf \cup {NoCall} : SameCall(c, d)
    BY <1>2
  <2>2. CallPaired(d)
    BY <1>1, <2>1 DEF Paired
  <2>3. CallPaired(c)
    BY <2>1, <2>2 DEF CallPaired, SameCall, Sound, Suits
  <2>4. QED
    BY <2>3, GroundedGrows DEF CallPaired
<1>3. ASSUME NEW a \in AnswersOf' PROVE AnswerPaired(a)'
  <2>1. CASE a \in AnswersOf
    <3>1. AnswerPaired(a)
      BY <2>1 DEF Paired
    <3>2. QED
      BY <3>1, GroundedGrows DEF AnswerPaired
  <2>2. CASE "for" \in DOMAIN a /\ \E c \in CallsOf : a.for = c.id /\ Replies(a, c)'
    <3>1. PICK c \in CallsOf : a.for = c.id /\ Replies(a, c)'
      BY <2>2
    <3>2. CallPaired(c)
      BY DEF Paired
    <3>3. a.for \in DOMAIN client.pending => Fits(a, flow[client.pending[a.for]])'
      BY <3>1, <3>2 DEF CallPaired, Suits, Replies, Fits
    <3>4. QED
      BY <2>2, <3>1, <3>2, <3>3 DEF AnswerPaired, CallPaired
  <2>3. QED
    BY <1>3, <2>1, <2>2
<1>4. ASSUME NEW w \in Flows PROVE FlowPaired(w)'
  <2>1. FlowPaired(w)
    BY DEF Paired
  <2>2. QED
    BY <2>1, GroundedGrows DEF FlowPaired, Lost
<1>5. QED
  BY <1>2, <1>3, <1>4 DEF Paired

LEMMA HandledReplies ==
  ASSUME Formed, Known, NEW p \in Procs, Serves(p),
         NEW a, a = core'[p].answer, NEW c, c = core[p].call
  PROVE  Replies(a, c)'
<1>1. Replied(core[p], c, a)
  BY DEF Serves, Handled
<1>2. c.m = "patch.preview" => Shown(a, c.plan)
  BY <1>1 DEF Replied, Shown
<1>3. ASSUME c.m = "llm.propose_patch" PROVE Proposed(a)'
  <2>1. CASE a.k = "error"
    BY <2>1 DEF Proposed
  <2>2. CASE a.k # "error"
    <3>1. PICK b \in ModelAnswers : a.k = "candidates" /\ a.of = Candidates(b, core[p].fns, core[p].types)
      BY <1>1, <1>3, <2>2 DEF Replied
    <3>2. core[p].fns \subseteq Names /\ core[p].types \subseteq Names /\ Names \subseteq Names'
      BY MadeKept DEF Known, AStep
    <3>3. ASSUME NEW plan \in Accepted(a.of) PROVE Grounded(plan)'
      <4>1. ASSUME NEW j \in DOMAIN plan PROVE Cites(plan[j]) \in Names'
        <5>0. plan \in Accepted(Candidates(b, core[p].fns, core[p].types))
          BY <3>1
        <5>1. Cites(plan[j]) \in core[p].fns \cup core[p].types \cup {""}
          BY <5>0, AcceptedCites, Zenon
        <5>2. "" \in Names
          BY DEF Names
        <5>3. QED
          BY <3>2, <5>1, <5>2
      <4>2. QED
        BY <4>1 DEF Grounded
    <3>4. \A plan \in Accepted(a.of) : ASeq(plan)
      BY <3>1, AcceptedSequence
    <3>5. QED
      BY <3>1, <3>3, <3>4 DEF Proposed
  <2>3. QED
    BY <2>1, <2>2
<1>4. c.m = "patch.apply" <=> a.k = "apply"
  BY <1>1 DEF Replied
<1>5. QED
  BY <1>2, <1>3, <1>4 DEF Replies, Shown

LEMMA PairedStays ==
  ASSUME Formed, Waiting, Known, Paired,
         \/ \E p \in Procs : Serves(p)
         \/ Takes \/ Writes \/ Halts \/ Rests \/ \E s \in Shells : Works(s)
  PROVE  Paired'
<1>0. /\ UNCHANGED <<client, flow>> /\ Names \subseteq Names'
      /\ "daemon" \in Procs /\ "daemon" \notin Shells
  BY MadeKept, ProcsAssumption DEF AStep, Serves, Takes, Writes, Halts, Works, Rests
<1>1. ASSUME CallsOf' \subseteq CallsOf \cup {NoCall}, AnswersOf' \subseteq AnswersOf PROVE Paired'
  <2>1. \A c \in CallsOf' : \E d \in CallsOf \cup {NoCall} : SameCall(c, d)
    BY <1>1 DEF SameCall
  <2>2. QED
    BY <1>0, <1>1, <2>1, PairedDaemon
<1>2. ASSUME core'["daemon"] = core["daemon"], inbox' = inbox, outbox' = outbox PROVE Paired'
  BY <1>1, <1>2 DEF CallsOf, AnswersOf
<1>3. ASSUME NEW p \in Procs, Serves(p) PROVE Paired'
  <2>0. inbox' = inbox /\ outbox' = outbox
    BY <1>3 DEF Serves
  <2>1. CASE p # "daemon"
    <3>1. core'["daemon"] = core["daemon"]
      BY <1>0, <1>3, <2>1 DEF Serves, Handled
    <3>2. QED
      BY <1>2, <2>0, <3>1
  <2>2. CASE p = "daemon"
    <3> DEFINE c == core["daemon"].call  a == core'["daemon"].answer
    <3>1. core'["daemon"].call = NoCall /\ "for" \in DOMAIN a /\ a.for = c.id
      BY <1>3, <2>2 DEF Serves, Handled
    <3>2. CallsOf' \subseteq CallsOf \cup {NoCall} /\ AnswersOf' \subseteq AnswersOf \cup {a} /\ c \in CallsOf
      BY <2>0, <3>1 DEF CallsOf, AnswersOf
    <3>3. \A d \in CallsOf' : \E e \in CallsOf \cup {NoCall} : SameCall(d, e)
      BY <3>2 DEF SameCall
    <3>4. ASSUME NEW b \in AnswersOf', b \notin AnswersOf
          PROVE  "for" \in DOMAIN b /\ \E d \in CallsOf : b.for = d.id /\ Replies(b, d)'
      <4>1. b = core'[p].answer
        BY <2>2, <3>2, <3>4
      <4>2. PICK d : d = core[p].call
        OBVIOUS
      <4>3. Replies(b, d)'
        BY <1>3, <4>1, <4>2, HandledReplies
      <4>4. QED
        BY <2>2, <3>1, <3>2, <4>1, <4>2, <4>3
    <3>5. QED
      BY <1>0, <3>3, <3>4, PairedDaemon
  <2>3. QED
    BY <2>1, <2>2
<1>4. CASE Takes
  <2>1. /\ Head(inbox) \in ToSet(inbox) /\ ToSet(inbox') \subseteq ToSet(inbox)
    BY <1>4, TailFacts DEF Takes, Formed
  <2>2. /\ outbox' = outbox /\ core'["daemon"].answer = core["daemon"].answer
        /\ SameCall(core'["daemon"].call, Head(inbox))
    BY <1>4 DEF Takes, Begun, SameCall
  <2>3. AnswersOf' = AnswersOf
    BY <2>2 DEF AnswersOf
  <2>4. \A c \in CallsOf' : \E d \in CallsOf \cup {NoCall} : SameCall(c, d)
    <3>1. ASSUME NEW c \in CallsOf' PROVE \E d \in CallsOf \cup {NoCall} : SameCall(c, d)
      <4>1. CASE c \in ToSet(inbox)
        BY <4>1 DEF CallsOf, SameCall
      <4>2. CASE c = core'["daemon"].call
        BY <2>1, <2>2, <4>2 DEF CallsOf
      <4>3. QED
        BY <2>1, <4>1, <4>2 DEF CallsOf
    <3>2. QED
      BY <3>1
  <2>5. QED
    BY <1>0, <2>3, <2>4, PairedDaemon
<1>5. CASE Writes
  <2>1. /\ inbox' = inbox /\ core'["daemon"].call = core["daemon"].call
        /\ core'["daemon"].answer = Nothing
        /\ ToSet(outbox') = ToSet(outbox) \cup {core["daemon"].answer}
    BY <1>5, AppendFacts DEF Writes, Emptied, Formed
  <2>2. QED
    BY <1>1, <2>1 DEF CallsOf, AnswersOf
<1>6. CASE Halts
  <2>1. core'["daemon"].call = NoCall /\ core'["daemon"].answer = Nothing /\ ToSet(inbox') = {}
    BY <1>6, Literals, NoElements DEF Halts, Renewed
  <2>2. CallsOf' \subseteq CallsOf \cup {NoCall}
    BY <2>1 DEF CallsOf
  <2>3. CASE outbox' = outbox
    BY <1>1, <2>1, <2>2, <2>3 DEF AnswersOf
  <2>4. CASE outbox' # outbox
    <3>1. PICK c \in ToSet(inbox) : \E a : /\ c.m = "session.shutdown" /\ a.k = "done"
                                          /\ "for" \in DOMAIN a /\ a.for = c.id
                                          /\ outbox' = Append(outbox, a)
      BY <1>6, <2>4 DEF Halts
    <3>2. PICK a : /\ c.m = "session.shutdown" /\ a.k = "done"
                   /\ "for" \in DOMAIN a /\ a.for = c.id /\ outbox' = Append(outbox, a)
      BY <3>1
    <3>3. ToSet(outbox') = ToSet(outbox) \cup {a}
      BY <3>2, AppendFacts DEF Formed
    <3>4. AnswersOf' \subseteq AnswersOf \cup {a} /\ c \in CallsOf
      BY <2>1, <3>3 DEF AnswersOf, CallsOf
    <3>5. Replies(a, c)'
      BY <3>2 DEF Replies
    <3>6. \A d \in CallsOf' : \E e \in CallsOf \cup {NoCall} : SameCall(d, e)
      BY <2>2 DEF SameCall
    <3>7. QED
      BY <1>0, <3>2, <3>4, <3>5, <3>6, PairedDaemon
  <2>5. QED
    BY <2>3, <2>4
<1>7. CASE Rests
  BY <1>2, <1>7 DEF Rests
<1>8. ASSUME NEW s \in Shells, Works(s) PROVE Paired'
  <2>1. core'["daemon"] = core["daemon"] /\ inbox' = inbox /\ outbox' = outbox
    BY <1>0, <1>8 DEF Works, Renewed, Emptied, Begun, OthersStay
  <2>2. QED
    BY <1>2, <2>1
<1>9. QED
  BY <1>3, <1>4, <1>5, <1>6, <1>7, <1>8

LEMMA PairedHears ==
  ASSUME Formed, Waiting, Paired, Hears
  PROVE  Paired'
<1>1. PICK S, a : /\ Answers(S, a)
                  /\ \/ /\ outbox # <<>> /\ outbox' = Tail(outbox)
                        /\ a = Head(outbox) /\ S \subseteq {a.for}
                     \/ UNCHANGED outbox /\ a \in {Failed("timeout"), Failed("failed")}
  BY DEF Hears
<1>2. Names' = Names /\ CallsOf' = CallsOf
  BY DEF Hears, Names, CallsOf, disk
<1>3. AnswersOf' \subseteq AnswersOf
  <2>1. ToSet(outbox') \subseteq ToSet(outbox)
    BY <1>1, TailFacts DEF Formed
  <2>2. core'["daemon"].answer = core["daemon"].answer
    BY DEF Hears
  <2>3. QED
    BY <2>1, <2>2 DEF AnswersOf
<1>4. \A w \in Flows : /\ flow'[w].stage = flow[w].stage /\ flow'[w].plan = flow[w].plan
                       /\ flow'[w].proposed = flow[w].proposed
  BY <1>1 DEF Answers, FlowFields
<1>5. /\ client'.nextId = client.nextId
      /\ \A i \in DOMAIN client'.pending : /\ i \in DOMAIN client.pending
                                           /\ client'.pending[i] = client.pending[i]
                                           /\ client.pending[i] \in Flows
  BY <1>1 DEF Answers, Waiting, Awaits
<1>6. ASSUME NEW c \in CallsOf' PROVE CallPaired(c)'
  <2>1. CallPaired(c)
    BY <1>2, <1>6 DEF Paired
  <2>2. Sound(c)'
    BY <1>2, <2>1, GroundedGrows DEF CallPaired
  <2>3. c.id \in DOMAIN client'.pending => Suits(c, flow'[client'.pending[c.id]])
    BY <1>4, <1>5, <2>1 DEF CallPaired, Suits
  <2>4. QED
    BY <1>5, <2>1, <2>2, <2>3 DEF CallPaired, Suits
<1>7. \A b, w : w \in Flows /\ Fits(b, flow[w]) => Fits(b, flow[w])'
  BY <1>2, <1>4 DEF Fits, Shown, Proposed, Grounded
<1>8. ASSUME NEW b \in AnswersOf' PROVE AnswerPaired(b)'
  <2>1. AnswerPaired(b)
    BY <1>3, <1>8 DEF Paired
  <2>2. ASSUME b.for \in DOMAIN client'.pending PROVE Fits(b, flow[client.pending[b.for]])'
    <3>1. PICK w : w = client.pending[b.for]
      OBVIOUS
    <3>2. w \in Flows /\ Fits(b, flow[w]) /\ client'.pending[b.for] = w
      BY <1>5, <2>1, <2>2, <3>1 DEF AnswerPaired
    <3>3. QED
      BY <1>7, <3>2
  <2>3. QED
    BY <1>5, <2>1, <2>2 DEF AnswerPaired
<1>9. ASSUME NEW w \in Flows PROVE FlowPaired(w)'
  <2>1. FlowPaired(w)
    BY DEF Paired
  <2>2. (flow[w].proposed => Grounded(flow[w].plan))' /\ ASeq(flow[w].plan)'
    BY <1>2, <1>4, <2>1 DEF FlowPaired, Grounded
  <2>3. CASE flow'[w].got = flow[w].got
    <3>1. CASE Lost(flow[w].got)
      BY <2>2, <2>3, <3>1 DEF FlowPaired, Lost
    <3>2. CASE Fits(flow[w].got, flow[w])
      <4>1. PICK b : b = flow[w].got
        OBVIOUS
      <4>2. Fits(b, flow[w])'
        BY <1>7, <3>2, <4>1
      <4>3. QED
        BY <2>2, <2>3, <4>1, <4>2 DEF FlowPaired
    <3>3. QED
      BY <2>1, <3>1, <3>2 DEF FlowPaired
  <2>4. CASE flow'[w].got # flow[w].got
    <3>1. flow'[w].got = a /\ \E i \in S : client.pending[i] = w
      BY <1>1, <2>4 DEF Answers
    <3>2. CASE Lost(a)
      BY <2>2, <3>1, <3>2 DEF FlowPaired, Lost
    <3>3. CASE ~Lost(a)
      <4>1. a = Head(outbox) /\ outbox # <<>> /\ a # Nothing
        BY <1>1, <3>3 DEF Lost
      <4>2. a \in AnswersOf
        BY <4>1, TailFacts DEF AnswersOf, Formed
      <4>3. a.for \in DOMAIN client.pending /\ client.pending[a.for] = w
        BY <1>1, <3>1, <3>3 DEF Lost, Answers
      <4>4. Fits(a, flow[w])
        BY <4>2, <4>3 DEF Paired, AnswerPaired
      <4>5. Fits(a, flow[w])'
        BY <1>7, <4>4
      <4>6. QED
        BY <2>2, <3>1, <4>5 DEF FlowPaired
    <3>4. QED
      BY <3>2, <3>3
  <2>5. QED
    BY <2>3, <2>4
<1>10. QED
  BY <1>6, <1>8, <1>9 DEF Paired

\* What a flow asks for is sound, and so is the plan it goes on with.
LEMMA ProperSound ==
  ASSUME NEW w \in Flows, FlowPaired(w), NEW f, NEW c, Proper(w, f, c)
  PROVE  Sound(c) /\ (f.proposed => Grounded(f.plan)) /\ ASeq(f.plan)
<1>1. \A stage : Holds(w, stage) => flow[w].stage = stage /\ Fits(flow[w].got, flow[w])
                                    /\ flow[w].got.k # "error"
  BY DEF Holds, Got, Fulfilled, FlowPaired, Lost, Failed
<1>2. ASSUME c.m = "patch.apply"
      PROVE  /\ c.seen.plan = c.plan /\ Tells(c.plan, c.seen.base, TRUE)
             /\ c.seen.proposed => Grounded(c.plan)
             /\ ASeq(c.plan)
  <2>1. /\ Holds(w, "preview") /\ flow[w].got.some
        /\ f.plan = flow[w].plan /\ f.proposed = flow[w].proposed
        /\ c.seen.plan = f.plan /\ c.seen.base = flow[w].got.base /\ c.seen.proposed = f.proposed
    BY <1>2 DEF Proper
  <2>2. c.plan = f.plan
    BY <1>2 DEF Proper, Suits
  <2>3. Shown(flow[w].got, flow[w].plan)
    BY <1>1, <2>1 DEF Fits
  <2>4. Tells(c.plan, c.seen.base, TRUE)
    BY <2>1, <2>2, <2>3 DEF Shown, Tells
  <2>5. QED
    BY <2>1, <2>2, <2>4 DEF FlowPaired
<1>3. ASSUME f.proposed PROVE Grounded(f.plan)
  <2>1. CASE Holds(w, "propose") /\ f.plan \in Accepted(flow[w].got.of)
    BY <1>1, <2>1 DEF Fits, Proposed
  <2>2. CASE f.proposed = flow[w].proposed /\ f.plan = flow[w].plan
    BY <1>3, <2>2 DEF FlowPaired
  <2>3. QED
    BY <1>3, <2>1, <2>2 DEF Proper
<1>4. ASeq(f.plan)
  <2>1. CASE Holds(w, "propose") /\ f.plan \in Accepted(flow[w].got.of)
    BY <1>1, <2>1 DEF Fits, Proposed
  <2>2. CASE f.plan = flow[w].plan
    BY <2>2 DEF FlowPaired
  <2>3. QED
    BY <2>1, <2>2 DEF Proper
<1>5. QED
  BY <1>2, <1>3, <1>4 DEF Sound

LEMMA PairedMoves ==
  ASSUME Formed, Waiting, Paired, NEW w \in Flows, Moves(w)
  PROVE  Paired'
<1>0. client.nextId \in Nat \ {0} /\ DOMAIN client.pending \subseteq 1..(client.nextId - 1)
      /\ FlowPaired(w)
  BY DEF Formed, Waiting, Paired
<1>1. Names' = Names /\ AnswersOf' = AnswersOf /\ core' = core
  BY DEF Moves, Names, AnswersOf, disk
<1>2. Unpromised(w) /\ \A v \in Flows \ {w} : flow'[v] = flow[v]
  BY DEF Moves, FlowMove, SentBy, EndBy, Proper
<1>3. /\ client'.nextId \in {client.nextId, client.nextId + 1}
      /\ \A i \in DOMAIN client'.pending :
           i \in 0..(client.nextId - 1) => /\ i \in DOMAIN client.pending
                                           /\ client'.pending[i] = client.pending[i]
  <2>1. CASE client'.nextId = client.nextId /\ client'.pending = client.pending
    BY <2>1
  <2>2. CASE /\ client'.nextId = client.nextId + 1
             /\ client'.pending = With(client.pending, client.nextId, w)
    BY <1>0, <2>2 DEF With
  <2>3. QED
    BY <2>1, <2>2 DEF Moves, FlowMove, SentBy, EndBy
<1>4. \A i \in DOMAIN client.pending : /\ client.pending[i] \in Flows
                                       /\ flow'[client.pending[i]] = flow[client.pending[i]]
  BY <1>2 DEF Waiting, Awaits, Unpromised
<1>5. ASSUME NEW c, CallPaired(c) PROVE CallPaired(c)'
  <2>1. Sound(c)'
    BY <1>1, <1>5, GroundedGrows DEF CallPaired
  <2>2. c.id \in 0..(client.nextId - 1) /\ c.id \in 0..(client'.nextId - 1)
    BY <1>0, <1>3, <1>5 DEF CallPaired
  <2>3. c.id \in DOMAIN client'.pending => Suits(c, flow'[client'.pending[c.id]])
    BY <1>3, <1>4, <1>5, <2>2 DEF CallPaired
  <2>4. QED
    BY <2>1, <2>2, <2>3 DEF CallPaired, Suits
<1>6. ASSUME NEW a \in AnswersOf' PROVE AnswerPaired(a)'
  <2>1. AnswerPaired(a)
    BY <1>1, <1>6 DEF Paired
  <2>2. a.for \in 0..(client.nextId - 1) /\ a.for \in 0..(client'.nextId - 1)
    BY <1>0, <1>3, <2>1 DEF AnswerPaired
  <2>3. ASSUME a.for \in DOMAIN client'.pending PROVE Fits(a, flow[client.pending[a.for]])'
    <3>1. a.for \in DOMAIN client.pending /\ client'.pending[a.for] = client.pending[a.for]
      BY <1>3, <2>2, <2>3
    <3>2. PICK f : f = flow[client.pending[a.for]]
      OBVIOUS
    <3>3. Fits(a, f) /\ f = flow'[client'.pending[a.for]]
      BY <1>4, <2>1, <3>1, <3>2 DEF AnswerPaired
    <3>4. Fits(a, f)'
      BY <1>1, <3>3, GroundedGrows
    <3>5. QED
      BY <3>3, <3>4
  <2>4. QED
    BY <2>1, <2>2, <2>3 DEF AnswerPaired
<1>7. ASSUME NEW v \in Flows, v # w PROVE FlowPaired(v)'
  <2>1. FlowPaired(v) /\ flow'[v] = flow[v]
    BY <1>2, <1>7 DEF Paired
  <2>2. QED
    BY <1>1, <2>1, GroundedGrows DEF FlowPaired, Lost
<1>8. CASE \E told : EndBy(w, told)
  <2>1. /\ flow'[w].got = Nothing /\ flow'[w].proposed = FALSE /\ inbox' = inbox /\ ASeq(flow'[w].plan)
    BY <1>8, NoElements DEF EndBy
  <2>2. FlowPaired(w)'
    BY <2>1 DEF FlowPaired, Lost
  <2>3. CallsOf' = CallsOf
    BY <1>1, <2>1 DEF CallsOf
  <2>4. QED
    BY <1>5, <1>6, <1>7, <2>2, <2>3 DEF Paired
<1>9. CASE \E f, c : SentBy(w, f, c) /\ Proper(w, f, c)
  <2>1. PICK f, c : SentBy(w, f, c) /\ Proper(w, f, c)
    BY <1>9
  <2>2. Sound(c) /\ (f.proposed => Grounded(f.plan)) /\ ASeq(f.plan)
    BY <1>0, <2>1, ProperSound
  <2>3. /\ flow'[w].got \in {Nothing, Failed("failed")} /\ flow'[w].stage = f.stage
        /\ flow'[w].plan = f.plan /\ flow'[w].proposed = f.proposed
    BY <2>1 DEF SentBy
  <2>4. FlowPaired(w)'
    BY <1>1, <2>2, <2>3 DEF FlowPaired, Lost, Grounded
  <2>5. CASE inbox' = inbox
    <3>1. CallsOf' = CallsOf
      BY <1>1, <2>5 DEF CallsOf
    <3>2. QED
      BY <1>5, <1>6, <1>7, <2>4, <3>1 DEF Paired
  <2>6. CASE inbox' # inbox
    <3>1. PICK m : inbox' = Append(inbox, m) /\ Carries(m, client.nextId, c)
      BY <2>1, <2>6 DEF SentBy
    <3>2. CallsOf' = CallsOf \cup {m}
      BY <1>1, <3>1, AppendFacts DEF CallsOf, Formed
    <3>3. /\ client'.nextId = client.nextId + 1
          /\ client'.pending = With(client.pending, client.nextId, w)
      BY <2>1, <2>6 DEF SentBy
    <3>4. client'.pending[client.nextId] = w /\ m.id = client.nextId
      BY <3>1, <3>3 DEF With, Carries
    <3>5. Suits(m, flow'[w])
      BY <2>1, <2>3, <3>1 DEF Proper, Suits, Carries
    <3>6. Sound(m)'
      <4>1. Sound(m)
        BY <2>2, <3>1 DEF Sound, Carries
      <4>2. QED
        BY <1>1, <4>1, GroundedGrows
    <3>7. CallPaired(m)'
      BY <1>0, <3>3, <3>4, <3>5, <3>6 DEF CallPaired, Suits
    <3>8. QED
      BY <1>5, <1>6, <1>7, <2>4, <3>2, <3>7 DEF Paired
  <2>7. QED
    BY <2>5, <2>6
<1>10. QED
  BY <1>8, <1>9 DEF Moves, FlowMove

-----------------------------------------------------------------------------
(* What is committed.                                                         *)

\* A command line shows nothing.
Unshown == \A s \in Shells : core[s].call.seen = NotSeen

LEMMA UnshownKept ==
  ASSUME Unshown, AStep
  PROVE  Unshown'
<1>0. Shells \subseteq Procs /\ "daemon" \in Procs /\ "daemon" \notin Shells
  BY ProcsAssumption
<1>1. ASSUME NEW s \in Shells PROVE core'[s].call.seen = NotSeen
  <2>1. ASSUME NEW p \in Procs, Serves(p) PROVE core'[s].call.seen = NotSeen
    BY <1>0, <2>1, Literals DEF Serves, Handled, Unshown
  <2>2. ASSUME Takes \/ Writes \/ Halts PROVE core'[s].call.seen = NotSeen
    BY <1>0, <2>2 DEF Takes, Writes, Halts, Begun, Emptied, Renewed, OthersStay, Unshown
  <2>3. ASSUME NEW r \in Shells, Works(r) PROVE core'[s].call.seen = NotSeen
    BY <1>0, <2>3, Literals DEF Works, Begun, Emptied, Renewed, OthersStay, Unshown
  <2>4. ASSUME core' = core PROVE core'[s].call.seen = NotSeen
    BY <2>4 DEF Unshown
  <2>5. QED
    BY <2>1, <2>2, <2>3, <2>4 DEF AStep, Hears, Moves, Rests
<1>2. QED
  BY <1>1 DEF Unshown

\* What one commit has to be.
Confirmed(e) ==
  e.by = "daemon" =>
    /\ e.seen.plan = e.plan
    /\ e.before = e.after => e.seen.base # e.before \/ AsksServer(e.plan)

LEMMA CommitIsRight ==
  ASSUME Formed, Known, Paired, Unshown, OnlyConfirmed, NothingInvented, AStep
  PROVE  OnlyConfirmed' /\ NothingInvented'
<1>1. CASE made' = made
  <2>1. OnlyConfirmed'
    BY <1>1 DEF OnlyConfirmed
  <2>2. NothingInvented'
    <3>1. ASSUME NEW i \in DOMAIN made', made'[i].seen.proposed, NEW j \in DOMAIN made'[i].plan
          PROVE  Cites(made'[i].plan[j]) \in
                   FirstText.names \cup {""} \cup UNION {made'[k].after.names : k \in 1..(i - 1)}
      <4>1. {made'[k].after.names : k \in 1..(i - 1)} = {made[k].after.names : k \in 1..(i - 1)}
        BY <1>1
      <4>2. QED
        BY <1>1, <3>1, <4>1 DEF NothingInvented
    <3>2. QED
      BY <3>1 DEF NothingInvented
  <2>3. QED
    BY <2>1, <2>2
<1>2. ASSUME NEW p \in Procs, Serves(p), Committed(p, core[p].call, core'[p].answer)
      PROVE  OnlyConfirmed' /\ NothingInvented'
  <2> DEFINE c == core[p].call  n == Len(made) + 1
  <2>1. PICK e : /\ made' = Append(made, e) /\ e.by = p /\ e.plan = c.plan /\ e.seen = c.seen
                 /\ e.before = c.base /\ \E o \in Shadows(c.plan, c.base) : e.after = o.text
    BY <1>2 DEF Committed
  <2>2. c.m = "patch.apply"
    BY <1>2 DEF Committed
  <2>3. PICK S : made \in Seq(S)
    BY DEF Formed, ASeq
  <2>4. /\ Len(made) \in Nat /\ DOMAIN made = 1..Len(made) /\ DOMAIN made' = 1..n /\ made'[n] = e
        /\ \A k \in 1..Len(made) : made'[k] = made[k]
    <3>1. made \in Seq(S \cup {e})
      BY <2>3
    <3>2. QED
      BY <2>1, <2>3, <3>1
  <2>5. p = "daemon" => Sound(c)
    BY DEF Paired, CallPaired, CallsOf
  <2>6. p # "daemon" => c.seen.proposed = FALSE
    BY ProcsAssumption, Literals DEF Unshown
  <2> HIDE DEF c, n
  <2>7. Confirmed(e)
    <3>1. SUFFICES ASSUME e.by = "daemon"
                   PROVE  /\ e.seen.plan = e.plan
                          /\ e.before = e.after => e.seen.base # e.before \/ AsksServer(e.plan)
      BY DEF Confirmed
    <3>2. e.seen.plan = e.plan /\ Tells(c.plan, c.seen.base, TRUE) /\ ASeq(c.plan)
      BY <2>1, <2>2, <2>5, <3>1 DEF Sound
    <3>3. ASSUME e.before = e.after, e.seen.base = e.before, ~AsksServer(e.plan) PROVE FALSE
      <4>1. PICK o \in Shadows(c.plan, c.base) : e.after = o.text
        BY <2>1
      <4>2. PICK u \in Shadows(c.plan, c.base) : u.text # c.base
        BY <2>1, <3>2, <3>3 DEF Tells
      <4>3. o = u
        BY <2>1, <3>2, <3>3, <4>1, <4>2, ShadowIsOne
      <4>4. QED
        BY <2>1, <3>3, <4>1, <4>2, <4>3
    <3>4. QED
      BY <3>2, <3>3
  <2>8. e.seen.proposed => Grounded(e.plan)
    BY <2>1, <2>2, <2>5, <2>6 DEF Sound
  <2>9. OnlyConfirmed'
    <3>1. ASSUME NEW i \in DOMAIN made' PROVE Confirmed(made'[i])
      BY <2>4, <2>7 DEF OnlyConfirmed, Confirmed, n
    <3>2. QED
      BY <3>1 DEF OnlyConfirmed, Confirmed
  <2>10. ASSUME NEW i \in DOMAIN made', made'[i].seen.proposed, NEW j \in DOMAIN made'[i].plan
         PROVE  Cites(made'[i].plan[j]) \in
                  FirstText.names \cup {""} \cup UNION {made'[k].after.names : k \in 1..(i - 1)}
    <3>1. {made[k].after.names : k \in 1..(i - 1)} = {made'[k].after.names : k \in 1..(i - 1)}
      <4>1. \A k \in 1..(i - 1) : k \in 1..Len(made) /\ made'[k] = made[k]
        BY <2>4 DEF n
      <4>2. QED
        BY <4>1
    <3>2. CASE i = n
      <4>1. Cites(e.plan[j]) \in Names
        BY <2>4, <2>8, <2>10, <3>2 DEF Grounded
      <4>2. 1..(i - 1) = DOMAIN made
        BY <2>4, <3>2 DEF n
      <4>3. made'[i] = e
        BY <2>4, <3>2
      <4>4. Names = FirstText.names \cup {""} \cup UNION {made[k].after.names : k \in 1..(i - 1)}
        BY <4>2 DEF Names
      <4>5. QED
        BY <3>1, <4>1, <4>3, <4>4
    <3>3. CASE i # n
      <4>1. i \in DOMAIN made /\ made'[i] = made[i]
        BY <2>4, <3>3 DEF n
      <4>2. QED
        BY <2>10, <3>1, <4>1 DEF NothingInvented
    <3>4. QED
      BY <3>2, <3>3
  <2>11. QED
    BY <2>9, <2>10 DEF NothingInvented
<1>3. ASSUME NEW p \in Procs, Serves(p) PROVE OnlyConfirmed' /\ NothingInvented'
  BY <1>1, <1>2, <1>3 DEF Serves, Handled, Untouched, Undone, disk
<1>4. QED
  BY <1>1, <1>3 DEF AStep, Takes, Writes, Halts, Hears, Moves, Works, Rests, disk

Promised == Wired /\ Known /\ Paired /\ Unshown /\ OnlyConfirmed /\ NothingInvented

LEMMA PromisedKept == Promised /\ [Next]_vars => Promised'
<1> SUFFICES ASSUME Promised, [Next]_vars PROVE Promised'
  OBVIOUS
<1>1. Wired /\ Formed /\ Waiting /\ AnsweredByOwn /\ Known /\ Paired /\ Unshown
      /\ OnlyConfirmed /\ NothingInvented
  BY DEF Promised, Wired
<1>2. AStep
  BY <1>1, StepKinds DEF Waiting
<1>3. Wired'
  BY <1>1, WiredKept
<1>4. Known'
  BY <1>1, <1>2, KnownKept
<1>5. Paired'
  BY <1>1, <1>2, PairedStays, PairedHears, PairedMoves DEF AStep
<1>6. Unshown'
  BY <1>1, <1>2, UnshownKept
<1>7. OnlyConfirmed' /\ NothingInvented'
  BY <1>1, <1>2, CommitIsRight
<1>8. QED
  BY <1>3, <1>4, <1>5, <1>6, <1>7 DEF Promised

LEMMA InitPromised == Init => Promised
<1> SUFFICES ASSUME Init PROVE Promised
  OBVIOUS
<1>1. Wired
  BY InitWired
<1>2. /\ \A p \in Procs : core[p] = FreshCore
      /\ made = <<>> /\ DOMAIN made = {} /\ journal = {} /\ text = FirstText /\ outbox = <<>>
  <2>1. DOMAIN <<>> = {}
    BY NoElements DEF ToSet
  <2>2. QED
    BY <2>1 DEF Init, ServiceInit, ExtensionInit
<1>3. Known
  BY <1>2, Literals DEF Known, Names
<1>4. Unshown
  BY <1>2, Literals, ProcsAssumption DEF Unshown
<1>5. OnlyConfirmed /\ NothingInvented
  BY <1>2 DEF OnlyConfirmed, NothingInvented
<1>6. AnswersOf = {}
  BY <1>2, NoElements, Literals, ProcsAssumption DEF AnswersOf
<1>7. \A w \in Flows : flow[w].got = Nothing /\ flow[w].proposed = FALSE /\ flow[w].plan = <<>>
  <2>1. CASE Activate
    <3> DEFINE f == [NoFlow EXCEPT !.stage = "init", !.id = 1]
    <3>1. f.proposed = FALSE /\ f.got = Nothing /\ f.plan = <<>>
      BY DEF NoFlow
    <3>2. flow = [w \in Flows |-> IF w = "activate" THEN f ELSE NoFlow]
      BY <2>1 DEF Activate
    <3> HIDE DEF f
    <3>3. QED
      BY <3>1, <3>2, Literals DEF Flows
  <2>2. CASE Unused
    BY <2>2, Literals DEF Unused, Flows
  <2>3. QED
    BY <2>1, <2>2 DEF Init, ExtensionInit
<1>8. \A w \in Flows : FlowPaired(w)
  BY <1>7, NoElements DEF FlowPaired, Lost
<1>9. ASSUME NEW c \in CallsOf PROVE CallPaired(c)
  <2>1. CASE c = NoCall
    BY <1>1, <2>1, Literals DEF CallPaired, Sound, Wired, Formed, Waiting
  <2>2. CASE c # NoCall
    <3> DEFINE d == [Call("session.initialize", <<>>) EXCEPT !.id = 1]
               f == [NoFlow EXCEPT !.stage = "init", !.id = 1]
    <3>0. core["daemon"].call = NoCall
      BY <1>2, Literals, ProcsAssumption
    <3>1. c \in ToSet(inbox)
      BY <2>2, <3>0 DEF CallsOf
    <3>2. inbox = <<>> \/ (Activate /\ inbox = <<d>>)
      BY DEF Init, ExtensionInit, Activate, Unused
    <3>3. DOMAIN d = CallFields /\ d.id = 1 /\ d.m = "session.initialize"
      BY DEF Call, CallFields
    <3>4. flow["activate"].stage = "init" /\ client.nextId = 2 /\ client.pending[1] = "activate"
      <4>1. ASSUME Activate PROVE flow["activate"] = f /\ client.nextId = 2 /\ client.pending[1] = "activate"
        BY <4>1 DEF Activate, Flows, With
      <4>2. Activate
        BY <3>1, <3>2, NoElements
      <4>3. f.stage = "init"
        BY DEF NoFlow
      <4>4. QED
        BY <4>1, <4>2, <4>3
    <3> HIDE DEF d, f
    <3>5. ToSet(<<d>>) = {d}
      BY DEF ToSet
    <3>6. c = d
      BY <3>1, <3>2, <3>5, NoElements
    <3>7. Sound(c)
      BY <3>3, <3>6 DEF Sound
    <3>8. c.id \in 0..(client.nextId - 1)
      BY <3>3, <3>4, <3>6
    <3>9. c.id \in DOMAIN client.pending => Suits(c, flow[client.pending[c.id]])
      BY <3>3, <3>4, <3>6 DEF Suits
    <3>10. QED
      BY <3>7, <3>8, <3>9 DEF CallPaired
  <2>3. QED
    BY <2>1, <2>2
<1>10. QED
  BY <1>1, <1>3, <1>4, <1>5, <1>6, <1>8, <1>9 DEF Promised, Paired

\* What the extension commits was shown to its user and confirmed (extension.js,
\* cmdRename and cmdProposePatch), and changes something unless the workspace has
\* changed or rust-analyzer is asked; and a plan of the model that is committed
\* names nothing that was never in the workspace (propose_patch.rs).
THEOREM ConfirmedIsShown == Spec => []OnlyConfirmed
<1>1. Promised => OnlyConfirmed
  BY DEF Promised
<1>2. QED
  BY <1>1, InitPromised, PromisedKept, PTL DEF Spec

THEOREM InventsNothing == Spec => []NothingInvented
<1>1. Promised => NothingInvented
  BY DEF Promised
<1>2. QED
  BY <1>1, InitPromised, PromisedKept, PTL DEF Spec

-----------------------------------------------------------------------------
(* What is reported of a request is what has become of it.                    *)

LEMMA ApplyOutcome ==
  ASSUME Formed, NEW p \in Procs, Serves(p)
  PROVE  \/ core'[p].answer.k # "apply" /\ made' = made
         \/ core'[p].answer.k = "apply" /\ core'[p].answer.applied = FALSE /\ made' = made
         \/ /\ core'[p].answer.k = "apply" /\ core'[p].answer.applied = TRUE
            /\ Committed(p, core[p].call, core'[p].answer)
<1>1. CASE Untouched(core'[p].answer)
  BY <1>1 DEF Untouched, disk
<1>2. CASE Committed(p, core[p].call, core'[p].answer)
  BY <1>2 DEF Serves, Handled, Replied, Committed
<1>3. CASE Undone(core[p].call)
  BY <1>3 DEF Serves, Handled, Replied, Undone
<1>4. QED
  BY <1>1, <1>2, <1>3 DEF Serves, Handled

\* Only an apply that is answered as applied adds to the commits of its request.
LEMMA CommitsMove ==
  ASSUME Formed, AStep, NEW q \in Procs, NEW i
  PROVE  \/ Commits(q, i)' = Commits(q, i)
         \/ /\ Serves(q) /\ core[q].call.id = i
            /\ core'[q].answer.k = "apply" /\ core'[q].answer.applied = TRUE
<1>1. CASE made' = made
  BY <1>1 DEF Commits
<1>2. ASSUME NEW p \in Procs, Serves(p), Committed(p, core[p].call, core'[p].answer),
             p # q \/ core[p].call.id # i
      PROVE  Commits(q, i)' = Commits(q, i)
  <2>1. PICK e : made' = Append(made, e) /\ e.by = p /\ e.req = core[p].call.id
    BY <1>2 DEF Committed
  <2>2. PICK S : made \in Seq(S)
    BY DEF Formed, ASeq
  <2>3. /\ DOMAIN made' = DOMAIN made \cup {Len(made) + 1} /\ made'[Len(made) + 1] = e
        /\ \A k \in DOMAIN made : made'[k] = made[k]
    <3>1. made \in Seq(S \cup {e})
      BY <2>2
    <3>2. QED
      BY <2>1, <2>2, <3>1
  <2>4. QED
    BY <1>2, <2>1, <2>3 DEF Commits
<1>3. ASSUME NEW p \in Procs, Serves(p)
      PROVE  \/ Commits(q, i)' = Commits(q, i)
             \/ /\ Serves(q) /\ core[q].call.id = i
                /\ core'[q].answer.k = "apply" /\ core'[q].answer.applied = TRUE
  BY <1>1, <1>2, <1>3, ApplyOutcome
<1>4. QED
  BY <1>1, <1>3 DEF AStep, Takes, Writes, Halts, Hears, Moves, Works, Rests, disk

LEMMA AppliedCommits ==
  ASSUME Formed, NEW p \in Procs, NEW c, NEW a, Committed(p, c, a)
  PROVE  Commits(p, c.id)' # {}
<1>1. PICK e : made' = Append(made, e) /\ e.by = p /\ e.req = c.id
  BY DEF Committed
<1>2. PICK S : made \in Seq(S)
  BY DEF Formed, ASeq
<1>3. Len(made) + 1 \in DOMAIN made' /\ made'[Len(made) + 1] = e
  <2>1. made \in Seq(S \cup {e})
    BY <1>2
  <2>2. QED
    BY <1>1, <1>2, <2>1
<1>4. QED
  BY <1>1, <1>3 DEF Commits

\* Requests that wait or are executed have ids of their own.
Distinct ==
  /\ \A i, j \in DOMAIN inbox : i # j => inbox[i].id # inbox[j].id
  /\ core["daemon"].call.m # "none" => \A i \in DOMAIN inbox : inbox[i].id # core["daemon"].call.id

LEMMA DistinctKept ==
  ASSUME Formed, Waiting, Paired, Distinct, AStep
  PROVE  Distinct'
<1>0. "daemon" \in Procs /\ "daemon" \notin Shells
  BY ProcsAssumption
<1>1. ASSUME inbox' = inbox, core'["daemon"].call \in {core["daemon"].call, NoCall}
      PROVE  Distinct'
  BY <1>1, Literals DEF Distinct
<1>2. ASSUME NEW p \in Procs, Serves(p) PROVE Distinct'
  BY <1>0, <1>1, <1>2 DEF Serves, Handled
<1>3. CASE Writes
  BY <1>1, <1>3 DEF Writes, Emptied
<1>4. CASE Hears \/ Rests
  BY <1>1, <1>4 DEF Hears, Rests
<1>5. ASSUME NEW s \in Shells, Works(s) PROVE Distinct'
  BY <1>0, <1>1, <1>5 DEF Works, Begun, Renewed, Emptied, OthersStay
<1>6. CASE Halts
  <2>1. inbox' = <<>> /\ DOMAIN inbox' = {}
    BY <1>6, NoElements DEF Halts, ToSet
  <2>2. QED
    BY <2>1 DEF Distinct
<1>7. CASE Takes
  <2>1. PICK S : inbox \in Seq(S)
    BY DEF Formed, ASeq
  <2>2. inbox # <<>> /\ inbox' = Tail(inbox) /\ core'["daemon"].call.id = Head(inbox).id
    BY <1>7 DEF Takes, Begun
  <2>3. /\ DOMAIN inbox' = 1..(Len(inbox) - 1) /\ DOMAIN inbox = 1..Len(inbox)
        /\ Len(inbox) \in Nat \ {0} /\ Head(inbox) = inbox[1]
        /\ \A i \in 1..(Len(inbox) - 1) : inbox'[i] = inbox[i + 1]
    BY <2>1, <2>2
  <2>4. \A i \in DOMAIN inbox' : /\ i + 1 \in DOMAIN inbox /\ i + 1 # 1 /\ i \in Nat
                                 /\ inbox'[i].id = inbox[i + 1].id
    BY <2>3
  <2>5. 1 \in DOMAIN inbox /\ core'["daemon"].call.id = inbox[1].id
    BY <2>2, <2>3
  <2>6. \A i, j \in DOMAIN inbox' : i # j => inbox'[i].id # inbox'[j].id
    BY <2>4 DEF Distinct
  <2>7. \A i \in DOMAIN inbox' : inbox'[i].id # core'["daemon"].call.id
    BY <2>4, <2>5 DEF Distinct
  <2>8. QED
    BY <2>6, <2>7 DEF Distinct
<1>8. ASSUME NEW w \in Flows, Moves(w) PROVE Distinct'
  <2>1. core'["daemon"].call = core["daemon"].call
    BY <1>8 DEF Moves
  <2>2. CASE inbox' = inbox
    BY <1>1, <2>1, <2>2
  <2>3. CASE inbox' # inbox
    <3>1. PICK m : inbox' = Append(inbox, m) /\ m.id = client.nextId
      BY <1>8, <2>3 DEF Moves, FlowMove, EndBy, SentBy, Carries
    <3>2. PICK S : inbox \in Seq(S)
      BY DEF Formed, ASeq
    <3>3. /\ DOMAIN inbox' = DOMAIN inbox \cup {Len(inbox) + 1} /\ inbox'[Len(inbox) + 1] = m
          /\ \A i \in DOMAIN inbox : inbox'[i] = inbox[i]
      <4>1. inbox \in Seq(S \cup {m})
        BY <3>2
      <4>2. QED
        BY <3>1, <3>2, <4>1
    <3>4. \A c \in CallsOf : c.id # client.nextId
      BY DEF Paired, CallPaired, Formed
    <3>5. \A i \in DOMAIN inbox : inbox[i] \in CallsOf
      BY DEF CallsOf, ToSet
    <3>6. core["daemon"].call \in CallsOf
      BY DEF CallsOf
    <3>7. QED
      BY <2>1, <3>1, <3>3, <3>4, <3>5, <3>6 DEF Distinct
  <2>4. QED
    BY <2>2, <2>3
<1>9. QED
  BY <1>2, <1>3, <1>4, <1>5, <1>6, <1>7, <1>8 DEF AStep

\* i is the id of a request that has been answered.
Closed(i) ==
  \/ \E a \in AnswersOf : a.for = i
  \/ \E w \in Flows : "for" \in DOMAIN flow[w].got /\ flow[w].got.for = i
  \/ \E w \in Flows : flow[w].told \in {"applied", "rejected"} /\ flow[w].about = i
  \/ Commits("daemon", i) # {}
Honest(a) ==
  a.k = "apply" => \/ a.applied = TRUE /\ Commits("daemon", a.for) # {}
                   \/ a.applied = FALSE /\ Commits("daemon", a.for) = {}
FlowHonest(w) ==
  /\ Lost(flow[w].got) \/ ("for" \in DOMAIN flow[w].got /\ Honest(flow[w].got))
  /\ flow[w].told = "applied" => Commits("daemon", flow[w].about) # {}
  /\ flow[w].told = "rejected" => Commits("daemon", flow[w].about) = {}
Ledger ==
  /\ \A i : Closed(i) => i \in 0..(client.nextId - 1)
  /\ \A c \in CallsOf : c.m # "none" => ~Closed(c.id)
  /\ \A a \in AnswersOf : Honest(a)
  /\ \A w \in Flows : FlowHonest(w)

\* A step that answers nothing keeps the ledger.
LEMMA LedgerStays ==
  ASSUME Ledger, UNCHANGED <<client, flow>>, \A i : Commits("daemon", i)' = Commits("daemon", i),
         \A c \in CallsOf' : c.m # "none" => \E d \in CallsOf : d.m # "none" /\ d.id = c.id,
         AnswersOf' \subseteq AnswersOf
  PROVE  Ledger'
<1>1. \A i : Closed(i)' => Closed(i)
  BY DEF Closed
<1>2. \A i : Closed(i)' => i \in 0..(client'.nextId - 1)
  BY <1>1 DEF Ledger
<1>3. \A c \in CallsOf' : c.m # "none" => ~Closed(c.id)'
  BY <1>1 DEF Ledger
<1>4. \A a : Honest(a) => Honest(a)'
  BY DEF Honest
<1>5. \A w \in Flows : FlowHonest(w)'
  BY <1>4 DEF Ledger, FlowHonest, Honest, Lost
<1>6. QED
  BY <1>2, <1>3, <1>4, <1>5 DEF Ledger

LEMMA LedgerElsewhere ==
  ASSUME Formed, Ledger, AStep, UNCHANGED <<client, flow, inbox, outbox>>,
         core'["daemon"] = core["daemon"]
  PROVE  Ledger'
<1>0. "daemon" \in Procs
  BY ProcsAssumption
<1>1. ~Serves("daemon")
  <2>1. SUFFICES ASSUME Serves("daemon") PROVE FALSE
    OBVIOUS
  <2>2. core'["daemon"].call = NoCall /\ core["daemon"].call.m # "none"
    BY <2>1 DEF Serves, Handled
  <2>3. QED
    BY <2>2, Literals
<1>2. \A i : Commits("daemon", i)' = Commits("daemon", i)
  BY <1>0, <1>1, CommitsMove
<1>3. CallsOf' = CallsOf /\ AnswersOf' = AnswersOf
  BY DEF CallsOf, AnswersOf
<1>4. QED
  BY <1>2, <1>3, LedgerStays

LEMMA LedgerAnswers ==
  ASSUME Formed, Paired, Distinct, Ledger, Serves("daemon"),
         NEW c, c = core["daemon"].call, NEW a, a = core'["daemon"].answer
  PROVE  Ledger'
<1>0. "daemon" \in Procs /\ AStep
  BY ProcsAssumption DEF AStep
<1>1. /\ c.m # "none" /\ "for" \in DOMAIN a /\ a.for = c.id
      /\ UNCHANGED <<client, flow, inbox, outbox>> /\ core'["daemon"].call = NoCall
  BY DEF Serves, Handled
<1>2. c \in CallsOf /\ CallPaired(c)
  BY DEF CallsOf, Paired
<1>3. ~Closed(c.id) /\ c.id \in 0..(client.nextId - 1)
  BY <1>1, <1>2 DEF Ledger, CallPaired
<1>4. AnswersOf' \subseteq AnswersOf \cup {a} /\ CallsOf' = ToSet(inbox) \cup {NoCall}
  BY <1>1 DEF AnswersOf, CallsOf
<1>5. \A i : i # c.id => Commits("daemon", i)' = Commits("daemon", i)
  BY <1>0, CommitsMove
<1>6. Commits("daemon", c.id) = {}
  BY <1>3 DEF Closed
<1>7. Honest(a)'
  <2>1. CASE a.k = "apply" /\ a.applied = FALSE /\ made' = made
    BY <1>1, <1>6, <2>1 DEF Honest, Commits
  <2>2. CASE a.k = "apply" /\ a.applied = TRUE /\ Committed("daemon", c, a)
    <3>1. Commits("daemon", c.id)' # {}
      BY <1>0, <2>2, AppliedCommits
    <3>2. QED
      BY <1>1, <2>2, <3>1 DEF Honest
  <2>3. CASE a.k # "apply"
    BY <2>3 DEF Honest
  <2>4. QED
    BY <1>0, <2>1, <2>2, <2>3, ApplyOutcome
<1>8. ASSUME NEW i, Closed(i)' PROVE i = c.id \/ Closed(i)
  BY <1>1, <1>4, <1>5, <1>8 DEF Closed
<1>9. ASSUME NEW d \in CallsOf', d.m # "none" PROVE ~Closed(d.id)'
  <2>1. d \in ToSet(inbox) /\ d \in CallsOf
    BY <1>4, <1>9, Literals DEF CallsOf
  <2>2. d.id # c.id
    BY <1>1, <2>1 DEF Distinct, ToSet
  <2>3. QED
    BY <1>8, <1>9, <2>1, <2>2 DEF Ledger
<1>10. ASSUME NEW b, Honest(b), b.for # c.id PROVE Honest(b)'
  BY <1>5, <1>10 DEF Honest
<1>11. ASSUME NEW b \in AnswersOf' PROVE Honest(b)'
  <2>1. CASE b = a
    BY <1>7, <2>1
  <2>2. CASE b \in AnswersOf
    <3>1. b.for # c.id
      BY <1>3, <2>2 DEF Closed
    <3>2. QED
      BY <1>10, <2>2, <3>1 DEF Ledger
  <2>3. QED
    BY <1>4, <1>11, <2>1, <2>2
<1>12. ASSUME NEW w \in Flows PROVE FlowHonest(w)'
  <2>1. FlowHonest(w) /\ flow'[w] = flow[w]
    BY <1>1 DEF Ledger
  <2>2. PICK i, b : i = flow[w].about /\ b = flow[w].got
    OBVIOUS
  <2>3. ASSUME flow[w].told \in {"applied", "rejected"}
        PROVE  Commits("daemon", i)' = Commits("daemon", i)
    <3>1. i # c.id
      BY <1>3, <2>2, <2>3 DEF Closed
    <3>2. QED
      BY <1>5, <3>1
  <2>4. ASSUME ~Lost(b) PROVE "for" \in DOMAIN b /\ Honest(b)'
    <3>1. "for" \in DOMAIN b /\ Honest(b)
      BY <2>1, <2>2, <2>4 DEF FlowHonest
    <3>2. b.for # c.id
      BY <1>3, <2>2, <3>1 DEF Closed
    <3>3. QED
      BY <1>10, <3>1, <3>2
  <2>5. Lost(b) <=> Lost(b)'
    BY DEF Lost
  <2>6. QED
    BY <2>1, <2>2, <2>3, <2>4, <2>5 DEF FlowHonest
<1>13. \A i : Closed(i)' => i \in 0..(client'.nextId - 1)
  BY <1>1, <1>3, <1>8 DEF Ledger
<1>14. QED
  BY <1>9, <1>11, <1>12, <1>13 DEF Ledger

LEMMA LedgerDaemon ==
  ASSUME Formed, Paired, Ledger, Takes \/ Writes \/ Halts
  PROVE  Ledger'
<1>0. UNCHANGED <<client, flow>> /\ \A i : Commits("daemon", i)' = Commits("daemon", i)
  BY DEF Takes, Writes, Halts, disk, Commits
<1>1. CASE Takes
  <2>1. /\ inbox # <<>> /\ inbox' = Tail(inbox) /\ outbox' = outbox
        /\ core'["daemon"].answer = core["daemon"].answer
        /\ core'["daemon"].call.m = Head(inbox).m /\ core'["daemon"].call.id = Head(inbox).id
    BY <1>1 DEF Takes, Begun
  <2>2. Head(inbox) \in ToSet(inbox) /\ ToSet(inbox') \subseteq ToSet(inbox)
    BY <2>1, TailFacts DEF Formed
  <2>3. AnswersOf' = AnswersOf
    BY <2>1 DEF AnswersOf
  <2>4. ASSUME NEW c \in CallsOf', c.m # "none"
        PROVE  \E d \in CallsOf : d.m # "none" /\ d.id = c.id
    <3>1. CASE c \in ToSet(inbox)
      BY <2>4, <3>1 DEF CallsOf
    <3>2. CASE c = core'["daemon"].call
      BY <2>1, <2>2, <2>4, <3>2 DEF CallsOf
    <3>3. QED
      BY <2>2, <2>4, <3>1, <3>2 DEF CallsOf
  <2>5. QED
    BY <1>0, <2>3, <2>4, LedgerStays
<1>2. CASE Writes
  <2>1. /\ inbox' = inbox /\ core'["daemon"].call = core["daemon"].call
        /\ core'["daemon"].answer = Nothing
        /\ ToSet(outbox') = ToSet(outbox) \cup {core["daemon"].answer}
    BY <1>2, AppendFacts DEF Writes, Emptied, Formed
  <2>2. CallsOf' = CallsOf /\ AnswersOf' \subseteq AnswersOf
    BY <2>1 DEF CallsOf, AnswersOf
  <2>3. QED
    BY <1>0, <2>2, LedgerStays
<1>3. CASE Halts
  <2>1. core'["daemon"].call = NoCall /\ core'["daemon"].answer = Nothing /\ ToSet(inbox') = {}
    BY <1>3, Literals, NoElements DEF Halts, Renewed
  <2>2. \A c \in CallsOf' : c.m = "none"
    BY <2>1, Literals DEF CallsOf
  <2>3. CASE outbox' = outbox
    <3>1. AnswersOf' \subseteq AnswersOf
      BY <2>1, <2>3 DEF AnswersOf
    <3>2. QED
      BY <1>0, <2>2, <3>1, LedgerStays
  <2>4. CASE outbox' # outbox
    <3>1. PICK c \in ToSet(inbox) : \E a : /\ c.m = "session.shutdown" /\ a.k = "done"
                                          /\ "for" \in DOMAIN a /\ a.for = c.id
                                          /\ outbox' = Append(outbox, a)
      BY <1>3, <2>4 DEF Halts
    <3>2. PICK a : a.k = "done" /\ a.for = c.id /\ outbox' = Append(outbox, a)
      BY <3>1
    <3>3. ToSet(outbox') = ToSet(outbox) \cup {a}
      BY <3>2, AppendFacts DEF Formed
    <3>4. AnswersOf' \subseteq AnswersOf \cup {a}
      BY <2>1, <3>3 DEF AnswersOf
    <3>5. c.id \in 0..(client.nextId - 1)
      BY DEF Paired, CallPaired, CallsOf
    <3>6. \A i : Closed(i)' => i = c.id \/ Closed(i)
      BY <1>0, <3>2, <3>4 DEF Closed
    <3>7. \A i : Closed(i)' => i \in 0..(client'.nextId - 1)
      BY <1>0, <3>5, <3>6 DEF Ledger
    <3>8. \A b : Honest(b) => Honest(b)'
      BY <1>0 DEF Honest
    <3>9. Honest(a)'
      BY <3>2 DEF Honest
    <3>10. \A b \in AnswersOf' : Honest(b)'
      BY <3>4, <3>8, <3>9 DEF Ledger
    <3>11. \A w \in Flows : FlowHonest(w)'
      BY <1>0, <3>8 DEF Ledger, FlowHonest, Honest, Lost
    <3>12. QED
      BY <2>2, <3>7, <3>10, <3>11 DEF Ledger
  <2>5. QED
    BY <2>3, <2>4
<1>4. QED
  BY <1>1, <1>2, <1>3

LEMMA LedgerHears ==
  ASSUME Formed, Paired, Ledger, Hears
  PROVE  Ledger'
<1>1. PICK S, a : /\ Answers(S, a)
                  /\ \/ /\ outbox # <<>> /\ outbox' = Tail(outbox)
                        /\ a = Head(outbox) /\ S \subseteq {a.for}
                     \/ UNCHANGED outbox /\ a \in {Failed("timeout"), Failed("failed")}
  BY DEF Hears
<1>2. /\ UNCHANGED <<core, inbox>> /\ client'.nextId = client.nextId
      /\ \A i : Commits("daemon", i)' = Commits("daemon", i)
  BY <1>1 DEF Hears, disk, Commits, Answers
<1>3. CallsOf' = CallsOf /\ AnswersOf' \subseteq AnswersOf
  <2>1. ToSet(outbox') \subseteq ToSet(outbox)
    BY <1>1, TailFacts DEF Formed
  <2>2. QED
    BY <1>2, <2>1 DEF CallsOf, AnswersOf
<1>4. Lost(a) \/ a \in AnswersOf
  <2>1. CASE a = Head(outbox) /\ outbox # <<>>
    BY <2>1, TailFacts DEF AnswersOf, Lost, Formed
  <2>2. QED
    BY <1>1, <2>1 DEF Lost
<1>5. \A b : Lost(b) => "for" \notin DOMAIN b
  BY DEF Lost, Nothing, Failed
<1>6. ASSUME NEW w \in Flows
      PROVE  /\ flow'[w].told = flow[w].told /\ flow'[w].about = flow[w].about
             /\ flow'[w].got = flow[w].got \/ Lost(flow'[w].got) \/ flow'[w].got \in AnswersOf
  BY <1>1, <1>4 DEF Answers, FlowFields
<1>7. ASSUME NEW i, Closed(i)' PROVE Closed(i)
  BY <1>2, <1>3, <1>5, <1>6, <1>7 DEF Closed
<1>8. \A b : Honest(b) => Honest(b)'
  BY <1>2 DEF Honest
<1>9. ASSUME NEW w \in Flows PROVE FlowHonest(w)'
  <2>1. PICK b, i : b = flow'[w].got /\ i = flow'[w].about
    OBVIOUS
  <2>2. Lost(b) \/ ("for" \in DOMAIN b /\ Honest(b))
    BY <1>6, <2>1 DEF Ledger, FlowHonest, Paired, AnswerPaired
  <2>3. Commits("daemon", i)' = Commits("daemon", i)
    BY <1>2
  <2>4. /\ flow[w].told = "applied" => Commits("daemon", i) # {}
        /\ flow[w].told = "rejected" => Commits("daemon", i) = {}
    BY <1>6, <2>1 DEF Ledger, FlowHonest
  <2>5. QED
    BY <1>6, <1>8, <2>1, <2>2, <2>3, <2>4 DEF FlowHonest, Lost
<1>10. \A i : Closed(i)' => i \in 0..(client'.nextId - 1)
  BY <1>2, <1>7 DEF Ledger
<1>11. \A c \in CallsOf' : c.m # "none" => ~Closed(c.id)'
  BY <1>3, <1>7 DEF Ledger
<1>12. \A b \in AnswersOf' : Honest(b)'
  BY <1>3, <1>8 DEF Ledger
<1>13. QED
  BY <1>9, <1>10, <1>11, <1>12 DEF Ledger

LEMMA LedgerMoves ==
  ASSUME Formed, Paired, AnsweredByOwn, Ledger, NEW w \in Flows, Moves(w)
  PROVE  Ledger'
<1>0. /\ UNCHANGED <<core, outbox>> /\ AnswersOf' = AnswersOf
      /\ \A i : Commits("daemon", i)' = Commits("daemon", i)
      /\ client.nextId \in Nat \ {0} /\ client'.nextId \in {client.nextId, client.nextId + 1}
      /\ \A v \in Flows \ {w} : flow'[v] = flow[v]
  BY DEF Moves, FlowMove, SentBy, EndBy, disk, Commits, AnswersOf, Formed
<1>1. \A b : Lost(b) => "for" \notin DOMAIN b
  BY DEF Lost, Nothing, Failed
\* What w ends with is what it got, and that was the answer to its own request.
<1>2. ASSUME NEW i, i = flow'[w].about, flow'[w].told \in {"applied", "rejected"}
      PROVE  /\ Closed(i)
             /\ flow'[w].told = "applied" => Commits("daemon", i) # {}
             /\ flow'[w].told = "rejected" => Commits("daemon", i) = {}
  <2>1. CASE flow'[w].told = flow[w].told /\ flow'[w].about = flow[w].about
    BY <1>2, <2>1 DEF Closed, Ledger, FlowHonest
  <2>2. ASSUME NEW told, EndBy(w, told), Told(w, told)
        PROVE  /\ Closed(i)
               /\ flow'[w].told = "applied" => Commits("daemon", i) # {}
               /\ flow'[w].told = "rejected" => Commits("daemon", i) = {}
    <3>1. /\ flow'[w].told = told /\ i = flow[w].id /\ Holds(w, "apply")
          /\ told = IF flow[w].got.applied THEN "applied" ELSE "rejected"
      BY <1>2, <2>2 DEF EndBy, Told
    <3>2. PICK b : b = flow[w].got
      OBVIOUS
    <3>3. ~Lost(b) /\ flow[w].stage = "apply"
      BY <3>1, <3>2 DEF Holds, Got, Fulfilled, Lost, Failed
    <3>4. "for" \in DOMAIN b /\ Honest(b) /\ b.k = "apply" /\ b.for = i
      BY <3>1, <3>2, <3>3 DEF Ledger, FlowHonest, Paired, FlowPaired, Fits, AnsweredByOwn
    <3>5. Closed(i)
      BY <3>2, <3>4 DEF Closed
    <3>6. QED
      BY <3>1, <3>2, <3>4, <3>5 DEF Honest
  <2>3. QED
    BY <1>2, <2>1, <2>2 DEF Moves, FlowMove, SentBy, Proper
<1>3. flow'[w].got \in {Nothing, Failed("failed")}
  BY DEF Moves, FlowMove, SentBy, EndBy
<1>4. ASSUME NEW i, Closed(i)' PROVE Closed(i)
  <2>1. CASE \E a \in AnswersOf' : a.for = i
    BY <1>0, <2>1 DEF Closed
  <2>2. CASE \E v \in Flows : "for" \in DOMAIN flow'[v].got /\ flow'[v].got.for = i
    <3>1. PICK v \in Flows : "for" \in DOMAIN flow'[v].got /\ flow'[v].got.for = i
      BY <2>2
    <3>2. v # w
      BY <1>1, <1>3, <3>1 DEF Lost
    <3>3. QED
      BY <1>0, <3>1, <3>2 DEF Closed
  <2>3. CASE \E v \in Flows : flow'[v].told \in {"applied", "rejected"} /\ flow'[v].about = i
    BY <1>0, <1>2, <2>3 DEF Closed
  <2>4. CASE (Commits("daemon", i) # {})'
    BY <1>0, <2>4 DEF Closed
  <2>5. QED
    BY <1>4, <2>1, <2>2, <2>3, <2>4 DEF Closed
<1>5. \A b : Honest(b) => Honest(b)'
  BY <1>0 DEF Honest
<1>6. ASSUME NEW v \in Flows PROVE FlowHonest(v)'
  <2>1. CASE v # w
    <3>1. PICK b, i : b = flow[v].got /\ i = flow[v].about
      OBVIOUS
    <3>2. FlowHonest(v) /\ flow'[v] = flow[v] /\ Commits("daemon", i)' = Commits("daemon", i)
      BY <1>0, <2>1 DEF Ledger
    <3>3. Lost(b) <=> Lost(b)'
      BY DEF Lost
    <3>4. QED
      BY <1>5, <3>1, <3>2, <3>3 DEF FlowHonest
  <2>2. CASE v = w
    <3>1. PICK i : i = flow'[w].about
      OBVIOUS
    <3>2. Commits("daemon", i)' = Commits("daemon", i)
      BY <1>0
    <3>3. Lost(flow[w].got)'
      BY <1>3 DEF Lost
    <3>4. QED
      BY <1>2, <2>2, <3>1, <3>2, <3>3 DEF FlowHonest
  <2>3. QED
    BY <2>1, <2>2
<1>7. \A i : Closed(i)' => i \in 0..(client'.nextId - 1)
  BY <1>0, <1>4 DEF Ledger
<1>8. ASSUME NEW c \in CallsOf', c.m # "none" PROVE ~Closed(c.id)'
  <2>1. c \in CallsOf \/ c.id = client.nextId
    <3>1. CASE inbox' = inbox
      BY <1>0, <3>1 DEF CallsOf
    <3>2. CASE inbox' # inbox
      <4>1. PICK m : inbox' = Append(inbox, m) /\ m.id = client.nextId
        BY <3>2 DEF Moves, FlowMove, EndBy, SentBy, Carries
      <4>2. ToSet(inbox') = ToSet(inbox) \cup {m}
        BY <4>1, AppendFacts DEF Formed
      <4>3. QED
        BY <1>0, <4>1, <4>2 DEF CallsOf
    <3>3. QED
      BY <3>1, <3>2
  <2>2. ~Closed(c.id)
    <3>1. client.nextId \notin 0..(client.nextId - 1)
      BY <1>0
    <3>2. QED
      BY <1>8, <2>1, <3>1 DEF Ledger
  <2>3. QED
    BY <1>4, <2>2
<1>9. \A b \in AnswersOf' : Honest(b)'
  BY <1>0, <1>5 DEF Ledger
<1>10. QED
  BY <1>6, <1>7, <1>8, <1>9 DEF Ledger

LEMMA LedgerKept ==
  ASSUME Formed, Paired, AnsweredByOwn, Distinct, Ledger, AStep
  PROVE  Ledger'
<1>0. "daemon" \in Procs /\ "daemon" \notin Shells
  BY ProcsAssumption
<1>1. ASSUME NEW p \in Procs, Serves(p) PROVE Ledger'
  <2>0. UNCHANGED <<client, flow, inbox, outbox>>
    BY <1>1 DEF Serves
  <2>1. CASE p # "daemon"
    <3>1. core'["daemon"] = core["daemon"]
      BY <1>0, <1>1, <2>1 DEF Serves, Handled
    <3>2. QED
      BY <2>0, <3>1, LedgerElsewhere
  <2>2. CASE p = "daemon"
    BY <1>1, <2>2, LedgerAnswers
  <2>3. QED
    BY <2>1, <2>2
<1>2. ASSUME NEW s \in Shells, Works(s) PROVE Ledger'
  <2>1. UNCHANGED <<client, flow, inbox, outbox>> /\ core'["daemon"] = core["daemon"]
    BY <1>0, <1>2 DEF Works, Begun, Renewed, Emptied, OthersStay
  <2>2. QED
    BY <2>1, LedgerElsewhere
<1>3. CASE Rests
  BY <1>3, LedgerElsewhere DEF Rests
<1>4. QED
  BY <1>1, <1>2, <1>3, LedgerDaemon, LedgerHears, LedgerMoves DEF AStep

-----------------------------------------------------------------------------
(* Command lines.                                                             *)

\* What a script makes but for previews and applies.
Plain == {"workspace.open", "workspace.index", "rules.load", "rules.evaluate", "graph.query",
          "patch.rollback", "explain.patch", "llm.propose", "llm.refine", "llm.propose_patch",
          "memory.history", "memory.get", "memory.stats", "session.initialize"}
Patches == <<"workspace.open", "patch.preview", "patch.apply">>
Previewed == <<"patch.preview", "patch.apply">>
Course(apply, calls) ==
  \/ calls \in {Patches, Previewed}
  \/ apply /\ calls = <<"patch.apply">>
  \/ ~apply /\ calls \in Seq(Plain)

LEMMA PatchesFacts ==
  /\ Patches # <<>> /\ Head(Patches) = "workspace.open" /\ Tail(Patches) = Previewed
  /\ Previewed # <<>> /\ Head(Previewed) = "patch.preview" /\ Tail(Previewed) = <<"patch.apply">>
  /\ <<"patch.apply">> # <<>> /\ Head(<<"patch.apply">>) = "patch.apply"
BY DEF Patches, Previewed

LEMMA ConcatFacts ==
  ASSUME NEW S, NEW a \in Seq(S), NEW b \in Seq(S)
  PROVE  a \o b \in Seq(S) /\ Len(a \o b) = Len(a) + Len(b) /\ Len(b) \in Nat
OBVIOUS

LEMMA PlainScripts ==
  /\ \A m \in Plain : Reading(m).calls \in Seq(Plain) \ {<<>>}
  /\ \A ms \in Seq(Plain) : /\ Indexing(ms).calls \in Seq(Plain) \ {<<>>}
                            /\ Ruled(ms).calls \in Seq(Plain) \ {<<>>}
  /\ InfoScript.calls \in Seq(Plain) \ {<<>>}
<1>1. ASSUME NEW m \in Plain PROVE Reading(m).calls \in Seq(Plain) \ {<<>>}
  BY <1>1 DEF Reading, Script, Plain
<1>2. ASSUME NEW ms \in Seq(Plain)
      PROVE  Indexing(ms).calls \in Seq(Plain) \ {<<>>} /\ Ruled(ms).calls \in Seq(Plain) \ {<<>>}
  <2> DEFINE i == <<"workspace.open", "workspace.index">>
             r == <<"workspace.open", "rules.load", "rules.evaluate">>
  <2>1. i \in Seq(Plain) /\ Len(i) = 2 /\ r \in Seq(Plain) /\ Len(r) = 3
    BY DEF Plain
  <2>2. Indexing(ms).calls = i \o ms /\ Ruled(ms).calls = r \o ms
    BY DEF Indexing, Ruled, Script
  <2> HIDE DEF i, r
  <2>3. i \o ms \in Seq(Plain) /\ Len(i \o ms) = Len(i) + Len(ms) /\ Len(ms) \in Nat
    BY <1>2, <2>1, ConcatFacts, Zenon
  <2>4. r \o ms \in Seq(Plain) /\ Len(r \o ms) = Len(r) + Len(ms)
    BY <1>2, <2>1, ConcatFacts, Zenon
  <2>5. QED
    BY <2>1, <2>2, <2>3, <2>4, NoElements
<1>3. InfoScript.calls \in Seq(Plain) \ {<<>>}
  BY DEF InfoScript, Script, Plain
<1>4. QED
  BY <1>1, <1>2, <1>3

LEMMA ScriptCourse ==
  ASSUME NEW cmd \in DOMAIN Scripts
  PROVE  /\ Scripts[cmd].calls # <<>>
         /\ Scripts[cmd].calls = Patches \/ Scripts[cmd].calls \in Seq(Plain)
<1> DEFINE Right(calls) == calls # <<>> /\ (calls = Patches \/ calls \in Seq(Plain))
<1>1. \A refuses, checks : Right(Patching(refuses, checks).calls)
  BY PatchesFacts DEF Patching, Script, Patches
<1>2. \A m \in Plain : Right(Reading(m).calls) /\ <<m>> \in Seq(Plain)
  BY PlainScripts
<1>3. \A ms \in Seq(Plain) : Right(Indexing(ms).calls) /\ Right(Ruled(ms).calls)
  BY PlainScripts
<1>4. <<>> \in Seq(Plain) /\ <<"rules.load", "rules.evaluate", "graph.query">> \in Seq(Plain)
  BY DEF Plain
<1>5. /\ "patch.rollback" \in Plain /\ "memory.history" \in Plain /\ "memory.get" \in Plain
      /\ "memory.stats" \in Plain /\ "explain.patch" \in Plain /\ "llm.propose" \in Plain
      /\ "llm.refine" \in Plain /\ "llm.propose_patch" \in Plain /\ "graph.query" \in Plain
  BY DEF Plain
<1>6. Right(InfoScript.calls)
  BY PlainScripts
<1> HIDE DEF Right
<1>7. /\ Right(RenameScript.calls) /\ Right(AddDeriveScript.calls) /\ Right(RemoveDeriveScript.calls)
      /\ Right(InlineScript.calls) /\ Right(ExtractScript.calls) /\ Right(ChangeSignatureScript.calls)
      /\ Right(MoveItemScript.calls)
  BY <1>1, Zenon DEF RenameScript, AddDeriveScript, RemoveDeriveScript, InlineScript, ExtractScript,
     ChangeSignatureScript, MoveItemScript
<1>8. /\ Right(RollbackScript.calls) /\ Right(HistoryScript.calls) /\ Right(ShowScript.calls)
      /\ Right(StatsScript.calls)
  BY <1>2, <1>5, Zenon DEF RollbackScript, HistoryScript, ShowScript, StatsScript
<1>9. /\ Right(ExplainScript.calls) /\ Right(ProposeScript.calls) /\ Right(RefineScript.calls)
      /\ Right(ProposePatchScript.calls) /\ Right(IndexScript.calls)
      /\ Right(RunScript.calls) /\ Right(QueryScript.calls)
  BY <1>2, <1>3, <1>4, <1>5, Zenon DEF ExplainScript, ProposeScript, RefineScript, ProposePatchScript,
     IndexScript, RunScript, QueryScript
<1>10. Right(Scripts[cmd].calls)
  BY <1>6, <1>7, <1>8, <1>9 DEF Scripts
<1>11. QED
  BY <1>10 DEF Right

\* a is an answer to a call of the method m.
AnswerTo(a, m) ==
  /\ m = "patch.apply" <=> a.k = "apply"
  /\ m = "patch.preview" <=> a.k = "preview"
  /\ a.k = "apply" => a.applied \in BOOLEAN
  /\ a.k = "rollback" => m = "patch.rollback"
  /\ a.k = "candidates" => m = "llm.propose_patch" /\ IsFiniteSet(Accepted(a.of))
Applied(a) == a.k = "apply" /\ a.applied = TRUE

\* Where the process h stands, its core k, when its commits are C.
Story(h, k, C) ==
  /\ DOMAIN h = ShellFields /\ h.run \in Nat /\ h.line.apply \in BOOLEAN /\ h.line.mem \in Nat
  /\ k.call.m # "none" =>
       h.calls # <<>> /\ k.call.m = Head(h.calls) /\ k.call.id = h.run /\ k.answer = Nothing
  /\ ASeq(h.line.plan) /\ (k.call.m = "patch.apply" => ASeq(k.call.plan))
  /\ h.calls # <<>> /\ h.line.apply => h.plans = <<h.line.plan>>
  /\ k.answer # Nothing => h.calls # <<>> /\ AnswerTo(k.answer, Head(h.calls))
  /\ h.calls # <<>> => Course(h.line.apply, h.calls) /\ h.code = "none" /\ (C # {} <=> Applied(k.answer))
  /\ h.calls = <<>> => /\ h.code = "0" => (C # {} <=> h.line.apply)
                       /\ h.code \in {"1", "2"} => C = {}
StoryOf(s) ==
  /\ Story(shell[s], core[s], Commits(s, shell[s].run))
  /\ \A i \in Nat : i > shell[s].run => Commits(s, i) = {}

LEMMA StoryElsewhere ==
  ASSUME Formed, AStep, NEW s \in Shells, StoryOf(s), shell'[s] = shell[s], core'[s] = core[s]
  PROVE  StoryOf(s)'
<1>0. s \in Procs
  BY ProcsAssumption
<1>1. ~Serves(s)
  <2>1. SUFFICES ASSUME Serves(s) PROVE FALSE
    OBVIOUS
  <2>2. core'[s].call = NoCall /\ core[s].call.m # "none"
    BY <2>1 DEF Serves, Handled
  <2>3. QED
    BY <2>2, Literals
<1>2. \A i : Commits(s, i)' = Commits(s, i)
  BY <1>0, <1>1, CommitsMove
<1>3. PICK h, k, C : h = shell[s] /\ k = core[s] /\ C = Commits(s, h.run)
  OBVIOUS
<1>4. Commits(s, h.run)' = C
  BY <1>2, <1>3
<1>5. Story(h, k, C)
  BY <1>3 DEF StoryOf
<1>6. \A i \in Nat : i > h.run => Commits(s, i)' = {}
  BY <1>2, <1>3 DEF StoryOf
<1>7. QED
  BY <1>3, <1>4, <1>5, <1>6 DEF StoryOf

\* The answer of a model has finitely many plans.
LEMMA AcceptedFinite ==
  ASSUME NEW b \in ModelAnswers, NEW fns, NEW types
  PROVE  IsFiniteSet(Accepted(Candidates(b, fns, types)))
<1> DEFINE T == {b.plans[i] : i \in DOMAIN b.plans}
           f == [i \in DOMAIN b.plans |-> b.plans[i]]
           cs == Candidates(b, fns, types)
<1>1. DOMAIN b.plans = 1..Len(b.plans) /\ Len(b.plans) \in Nat
  BY ModelAnswersAssumption DEF IsSequence
<1>2. f \in Surjection(DOMAIN b.plans, T)
  BY DEF Surjection
<1>3. IsFiniteSet(DOMAIN b.plans)
  <2>1. PICK n \in Nat : DOMAIN b.plans = 1..n
    BY <1>1
  <2>2. 1 \in Int /\ n \in Int
    OBVIOUS
  <2>3. IsFiniteSet(1..n)
    BY <2>2, FS_Interval
  <2>4. QED
    BY <2>1, <2>3
<1>4. IsFiniteSet(T)
  BY <1>2, <1>3, FS_Surjection
<1>5. Accepted(cs) \subseteq T
  <2>1. ASSUME NEW plan \in Accepted(cs) PROVE plan \in T
    <3>1. PICK c \in ToSet(cs) : c.plan = plan
      BY <2>1 DEF Accepted
    <3>2. PICK i \in DOMAIN b.plans : c.plan = b.plans[i]
      BY <3>1 DEF ToSet, Candidates
    <3>3. QED
      BY <3>1, <3>2
  <2>2. QED
    BY <2>1
<1>6. QED
  BY <1>4, <1>5, FS_Subset

LEMMA StoryServes ==
  ASSUME Formed, NEW s \in Shells, StoryOf(s), Serves(s)
  PROVE  StoryOf(s)'
<1>0. s \in Procs /\ AStep
  BY ProcsAssumption DEF AStep
<1>1. PICK h, k, c, a : h = shell[s] /\ k = core[s] /\ c = k.call /\ a = core'[s].answer
  OBVIOUS
<1>2. /\ shell' = shell /\ core'[s].call = NoCall /\ NoCall.m = "none"
      /\ c.m # "none" /\ a # Nothing /\ Replied(k, c, a)
  BY <1>1, Literals DEF Serves, Handled
<1>3. /\ DOMAIN h = ShellFields /\ h.run \in Nat /\ h.line.apply \in BOOLEAN /\ h.line.mem \in Nat
      /\ h.calls # <<>> /\ c.m = Head(h.calls) /\ c.id = h.run /\ k.answer = Nothing
      /\ Course(h.line.apply, h.calls) /\ h.code = "none" /\ ASeq(h.line.plan)
      /\ h.line.apply => h.plans = <<h.line.plan>>
      /\ \A i \in Nat : i > h.run => Commits(s, i) = {}
  BY <1>1, <1>2 DEF StoryOf, Story
<1>4. Commits(s, h.run) = {}
  BY <1>1, <1>3, Literals DEF StoryOf, Story, Applied
<1>5. a.k = "apply" => a.applied \in BOOLEAN
  BY <1>0, <1>1, ApplyOutcome
<1>6. Commits(s, h.run)' # {} <=> Applied(a)
  <2>1. CASE Applied(a)
    <3>1. Committed(s, c, a)
      BY <1>0, <1>1, <2>1, ApplyOutcome DEF Applied
    <3>2. Commits(s, c.id)' # {}
      BY <1>0, <3>1, AppliedCommits
    <3>3. QED
      BY <1>3, <2>1, <3>2
  <2>2. CASE ~Applied(a)
    <3>1. Commits(s, h.run)' = Commits(s, h.run)
      BY <1>0, <1>1, <2>2, CommitsMove DEF Applied
    <3>2. QED
      BY <1>4, <2>2, <3>1
  <2>3. QED
    BY <2>1, <2>2
<1>7. AnswerTo(a, Head(h.calls))
  <2>1. a.k = "candidates" => IsFiniteSet(Accepted(a.of))
    <3>1. SUFFICES ASSUME a.k = "candidates" PROVE IsFiniteSet(Accepted(a.of))
      OBVIOUS
    <3>2. PICK b \in ModelAnswers : a.of = Candidates(b, k.fns, k.types)
      BY <1>2, <3>1 DEF Replied
    <3>3. QED
      BY <3>2, AcceptedFinite
  <2>2. QED
    BY <1>2, <1>3, <1>5, <2>1 DEF AnswerTo, Replied
<1>8. PICK D : D = Commits(s, h.run)'
  OBVIOUS
<1>9. Story(h, core'[s], D)
  BY <1>1, <1>2, <1>3, <1>6, <1>7, <1>8 DEF Story
<1>10. ASSUME NEW i \in Nat, i > h.run PROVE Commits(s, i)' = {}
  <2>1. i # c.id
    BY <1>3, <1>10
  <2>2. Commits(s, i)' = Commits(s, i)
    BY <1>0, <1>1, <2>1, CommitsMove
  <2>3. QED
    BY <1>3, <1>10, <2>2
<1>11. QED
  BY <1>1, <1>2, <1>8, <1>9, <1>10 DEF StoryOf

LEMMA ExitStory ==
  ASSUME Formed, DOMAIN shell = Shells, NEW s \in Shells, StoryOf(s), UNCHANGED made,
         NEW code, Exit(s, code),
         code = "0" => (Commits(s, shell[s].run) # {} <=> shell[s].line.apply),
         code \in {"1", "2"} => Commits(s, shell[s].run) = {}
  PROVE  StoryOf(s)'
<1>1. PICK h, C : h = shell[s] /\ C = Commits(s, h.run)
  OBVIOUS
<1>2. /\ DOMAIN h = ShellFields /\ h.run \in Nat /\ h.line.apply \in BOOLEAN /\ h.line.mem \in Nat
      /\ ASeq(h.line.plan)
  BY <1>1 DEF StoryOf, Story
<1>3. shell'[s] = [h EXCEPT !.calls = <<>>, !.plans = <<>>, !.code = code]
  BY <1>1 DEF Exit
<1>4. /\ DOMAIN shell'[s] = ShellFields /\ shell'[s].run = h.run /\ shell'[s].line = h.line
      /\ shell'[s].calls = <<>> /\ shell'[s].code = code
  BY <1>2, <1>3 DEF ShellFields
<1>5. core'[s] = FreshCore
  BY ProcsAssumption DEF Exit, Formed
<1>6. \A i : Commits(s, i)' = Commits(s, i)
  BY DEF Commits
<1>7. PICK g : g = shell'[s]
  OBVIOUS
<1>8. Story(g, FreshCore, C)
  BY <1>1, <1>2, <1>4, <1>7, Literals DEF Story
<1>9. Commits(s, h.run)' = C
  BY <1>1, <1>6
<1>10. \A i \in Nat : i > h.run => Commits(s, i)' = {}
  BY <1>1, <1>6 DEF StoryOf
<1>11. QED
  BY <1>4, <1>5, <1>7, <1>8, <1>9, <1>10 DEF StoryOf

LEMMA GoOnStory ==
  ASSUME Formed, DOMAIN shell = Shells, NEW s \in Shells, StoryOf(s), UNCHANGED made,
         core[s].answer # Nothing, Commits(s, shell[s].run) = {},
         NEW calls, NEW plans, GoOn(s, calls, plans), shell[s].line.apply => plans = shell[s].plans,
         calls = <<>> => ~shell[s].line.apply,
         calls # <<>> => Course(shell[s].line.apply, calls)
  PROVE  StoryOf(s)'
<1>1. PICK h, k : h = shell[s] /\ k = core[s]
  OBVIOUS
<1>2. CASE calls = <<>>
  <2>1. Exit(s, "0")
    BY <1>2 DEF GoOn
  <2>2. QED
    BY <1>2, <2>1, ExitStory
<1>3. CASE calls # <<>>
  <2>1. /\ DOMAIN h = ShellFields /\ h.run \in Nat /\ h.line.apply \in BOOLEAN /\ h.line.mem \in Nat
        /\ h.code = "none" /\ k.call.m = "none" /\ ASeq(h.line.plan)
        /\ h.line.apply => plans = <<h.line.plan>>
    BY <1>1 DEF StoryOf, Story
  <2>2. /\ shell'[s] = [h EXCEPT !.calls = calls, !.plans = plans]
        /\ core' = [core EXCEPT ![s].answer = Nothing]
    BY <1>1, <1>3 DEF GoOn
  <2>3. /\ DOMAIN shell'[s] = ShellFields /\ shell'[s].run = h.run /\ shell'[s].line = h.line
        /\ shell'[s].calls = calls /\ shell'[s].plans = plans /\ shell'[s].code = "none"
    BY <2>1, <2>2 DEF ShellFields
  <2>4. core'[s].answer = Nothing /\ core'[s].call = k.call
    <3>1. s \in Procs
      BY ProcsAssumption
    <3>2. Emptied(s)
      BY <2>2, <3>1, CoreEffects
    <3>3. QED
      BY <1>1, <3>2 DEF Emptied
  <2>5. \A i : Commits(s, i)' = Commits(s, i)
    BY DEF Commits
  <2>6. PICK g, l : g = shell'[s] /\ l = core'[s]
    OBVIOUS
  <2>7. Story(g, l, {})
    BY <1>1, <1>3, <2>1, <2>3, <2>4, <2>6, Literals DEF Story, Applied
  <2>8. Commits(s, h.run)' = {} /\ \A i \in Nat : i > h.run => Commits(s, i)' = {}
    BY <1>1, <2>5 DEF StoryOf
  <2>9. QED
    BY <2>3, <2>6, <2>7, <2>8 DEF StoryOf
<1>4. QED
  BY <1>2, <1>3

LEMMA RunStory ==
  ASSUME Formed, DOMAIN shell = Shells, budget \in Budgets, NEW s \in Shells, StoryOf(s), Run(s)
  PROVE  StoryOf(s)'
<1>1. PICK h, k : h = shell[s] /\ k = core[s]
  OBVIOUS
<1>2. /\ h.calls = <<>> /\ h.run \in Nat /\ k.call.m = "none" /\ k.answer = Nothing
      /\ \A i \in Nat : i > h.run => Commits(s, i) = {}
  BY <1>1 DEF Run, StoryOf, Story
<1>3. PICK l \in budget.lines : \E n :
        /\ n = [line |-> l, calls |-> Scripts[l.cmd].calls, plans |-> <<l.plan>>,
                run |-> h.run + 1, code |-> "none"]
        /\ \/ shell' = [shell EXCEPT ![s] = n]
           \/ shell' = [shell EXCEPT ![s] = [n EXCEPT !.calls = <<>>, !.code = "1"]]
  BY <1>1 DEF Run
<1>4. PICK n :
        /\ n = [line |-> l, calls |-> Scripts[l.cmd].calls, plans |-> <<l.plan>>,
                run |-> h.run + 1, code |-> "none"]
        /\ \/ shell' = [shell EXCEPT ![s] = n]
           \/ shell' = [shell EXCEPT ![s] = [n EXCEPT !.calls = <<>>, !.code = "1"]]
  BY <1>3
<1>5. /\ DOMAIN n = ShellFields /\ n.line = l /\ n.calls = Scripts[l.cmd].calls /\ n.run = h.run + 1
      /\ n.code = "none" /\ n.plans = <<l.plan>>
  BY <1>4 DEF ShellFields
<1>6. shell'[s] = n \/ shell'[s] = [n EXCEPT !.calls = <<>>, !.code = "1"]
  BY <1>4
<1>7. PICK g : g = shell'[s]
  OBVIOUS
<1>8. /\ DOMAIN g = ShellFields /\ g.line = l /\ g.run = h.run + 1 /\ g.plans = <<l.plan>>
      /\ (g.calls = Scripts[l.cmd].calls /\ g.code = "none") \/ (g.calls = <<>> /\ g.code = "1")
  BY <1>5, <1>6, <1>7 DEF ShellFields
<1>9. /\ l.cmd \in DOMAIN Scripts /\ l.apply \in BOOLEAN /\ l.mem \in Nat /\ ASeq(l.plan)
      /\ l.apply => Scripts[l.cmd].calls = Patches
  BY LinesAssumption DEF Patches, IsSequence, ASeq
<1>10. Scripts[l.cmd].calls # <<>> /\ Course(l.apply, Scripts[l.cmd].calls)
  BY <1>9, ScriptCourse DEF Course
<1>11. core'[s] = k /\ \A i : Commits(s, i)' = Commits(s, i)
  BY <1>1 DEF Run, disk, Commits
<1>12. Story(g, k, {})
  BY <1>2, <1>8, <1>9, <1>10, Literals DEF Story, Applied
<1>13. Commits(s, h.run + 1)' = {} /\ \A i \in Nat : i > h.run + 1 => Commits(s, i)' = {}
  <2>1. \A i \in Nat : i > h.run => Commits(s, i)' = {}
    BY <1>2, <1>11
  <2>2. h.run + 1 \in Nat /\ h.run + 1 > h.run /\ \A i \in Nat : i > h.run + 1 => i > h.run
    BY <1>2
  <2>3. QED
    BY <2>1, <2>2
<1>14. QED
  BY <1>7, <1>8, <1>11, <1>12, <1>13 DEF StoryOf

LEMMA MakesStory ==
  ASSUME Formed, DOMAIN shell = Shells, NEW s \in Shells, StoryOf(s), Makes(s)
  PROVE  StoryOf(s)'
<1>1. PICK h, k : h = shell[s] /\ k = core[s]
  OBVIOUS
<1> DEFINE d == Call(Head(shell[s].calls), Head(shell[s].plans))
           m == [d EXCEPT !.id = shell[s].run, !.mem = shell[s].line.mem, !.commit = shell[s].line.commit]
<1>2. /\ core' = [core EXCEPT ![s] = Began(@, m)] /\ UNCHANGED <<disk, shell>>
      /\ h.calls # <<>> /\ k.answer = Nothing
  BY <1>1 DEF Makes, Free
<1>3. DOMAIN d = CallFields /\ d.m = Head(h.calls) /\ d.plan = Head(h.plans)
  BY <1>1, CallFormed
<1> HIDE DEF d
<1>4. DOMAIN m = CallFields /\ m.m = Head(h.calls) /\ m.id = h.run /\ m.plan = Head(h.plans)
  BY <1>1, <1>3 DEF CallFields
<1> HIDE DEF m
<1>5. Begun(s, m)
  BY <1>2, <1>4, ProcsAssumption, CoreEffects
<1>6. /\ core'[s].call.m = Head(h.calls) /\ core'[s].call.id = h.run /\ core'[s].answer = Nothing
      /\ core'[s].call.plan = Head(h.plans)
  BY <1>1, <1>2, <1>4, <1>5 DEF Begun
<1>7. \A i : Commits(s, i)' = Commits(s, i)
  BY <1>2 DEF disk, Commits
<1>8. PICK l, C : l = core'[s] /\ C = Commits(s, h.run)
  OBVIOUS
<1>9. Story(h, k, C)
  BY <1>1, <1>8 DEF StoryOf
<1>10. l.call.m = "patch.apply" => ASeq(l.call.plan)
  <2>1. SUFFICES ASSUME Head(h.calls) = "patch.apply" PROVE ASeq(Head(h.plans))
    BY <1>6, <1>8
  <2>2. Course(h.line.apply, h.calls) /\ ASeq(h.line.plan) /\ (h.line.apply => h.plans = <<h.line.plan>>)
    BY <1>2, <1>9 DEF Story
  <2>3. h.calls \notin Seq(Plain)
    <3>1. h.calls \in Seq(Plain) => Head(h.calls) \in Plain
      BY <1>2
    <3>2. QED
      BY <2>1, <3>1 DEF Plain
  <2>4. h.line.apply
    BY <2>1, <2>2, <2>3, PatchesFacts DEF Course
  <2>5. QED
    BY <2>2, <2>4
<1>13. Story(h, l, C)
  BY <1>2, <1>6, <1>8, <1>9, <1>10 DEF Story
<1>11. Commits(s, h.run)' = C /\ \A i \in Nat : i > h.run => Commits(s, i)' = {}
  BY <1>1, <1>7, <1>8 DEF StoryOf
<1>12. QED
  BY <1>1, <1>2, <1>8, <1>13, <1>11 DEF StoryOf

\* The explanations of what was accepted are calls of their own.
LEMMA Explanations ==
  ASSUME NEW S, IsFiniteSet(S)
  PROVE  [i \in DOMAIN SetToSeq(S) |-> "explain.patch"] \in Seq(Plain)
<1>1. Cardinality(S) \in Nat /\ \E f \in [1..Cardinality(S) -> S] : IsInjective(f)
  BY FS_CardinalityType DEF ExistsBijection, Bijection, Injection
<1>2. SetToSeq(S) \in [1..Cardinality(S) -> S]
  BY <1>1 DEF SetToSeq
<1>3. DOMAIN SetToSeq(S) = 1..Cardinality(S)
  BY <1>2
<1>4. PICK n \in Nat : DOMAIN SetToSeq(S) = 1..n
  BY <1>1, <1>3
<1>5. "explain.patch" \in Plain
  BY DEF Plain
<1>6. [i \in 1..n |-> "explain.patch"] \in Seq(Plain)
  BY <1>5
<1>7. QED
  BY <1>4, <1>6

LEMMA ReturnsStory ==
  ASSUME Formed, DOMAIN shell = Shells, NEW s \in Shells, StoryOf(s), Returns(s)
  PROVE  StoryOf(s)'
<1>1. PICK h, k, a, m, C : /\ h = shell[s] /\ k = core[s] /\ a = k.answer /\ m = Head(h.calls)
                           /\ C = Commits(s, h.run)
  OBVIOUS
<1>2. /\ a # Nothing /\ h.calls # <<>> /\ AnswerTo(a, m) /\ h.line.apply \in BOOLEAN
      /\ Course(h.line.apply, h.calls) /\ (C # {} <=> Applied(a)) /\ UNCHANGED made
  BY <1>1 DEF Returns, StoryOf, Story, disk
<1>3. /\ h.calls = Patches => m = "workspace.open" /\ Tail(h.calls) = Previewed
      /\ h.calls = Previewed => m = "patch.preview" /\ Tail(h.calls) = <<"patch.apply">>
      /\ h.calls = <<"patch.apply">> => m = "patch.apply"
      /\ h.calls \in Seq(Plain) => m \in Plain /\ Tail(h.calls) \in Seq(Plain)
  <2>1. h.calls \in Seq(Plain) => Head(h.calls) \in Plain /\ Tail(h.calls) \in Seq(Plain)
    BY <1>2
  <2>2. QED
    BY <1>1, <2>1, PatchesFacts
<1>4. m = "patch.apply" => h.line.apply
  BY <1>2, <1>3 DEF Course, Plain
<1>5. ASSUME a.k # "apply" PROVE C = {}
  BY <1>2, <1>5 DEF Applied
<1>6. CASE a.k = "error" /\ Exit(s, "1")
  BY <1>1, <1>2, <1>5, <1>6, ExitStory
<1>7. CASE a.k = "apply" /\ ApplyDone(s)
  <2>1. a.applied \in BOOLEAN /\ h.line.apply = TRUE
    BY <1>2, <1>4, <1>7 DEF AnswerTo
  <2>2. Exit(s, IF a.applied THEN "0" ELSE "2")
    BY <1>1, <1>7 DEF ApplyDone
  <2>3. CASE a.applied = TRUE
    BY <1>1, <1>2, <1>7, <2>1, <2>2, <2>3, ExitStory DEF Applied
  <2>4. CASE a.applied = FALSE
    BY <1>1, <1>2, <2>2, <2>4, ExitStory DEF Applied
  <2>5. QED
    BY <2>1, <2>3, <2>4
<1>8. CASE a.k = "rollback" /\ RollbackDone(s)
  <2>1. m = "patch.rollback" /\ ~h.line.apply
    BY <1>2, <1>3, <1>8 DEF AnswerTo, Course
  <2>2. Exit(s, "0") \/ Exit(s, "2")
    BY <1>8 DEF RollbackDone
  <2>3. QED
    BY <1>1, <1>2, <1>5, <1>8, <2>1, <2>2, ExitStory
<1>9. CASE a.k = "preview" /\ PreviewDone(s)
  <2>1. m = "patch.preview" /\ h.calls = Previewed /\ Tail(h.calls) = <<"patch.apply">>
    BY <1>2, <1>3, <1>9 DEF AnswerTo, Course, Plain
  <2>2. CASE ~h.line.apply /\ Exit(s, "0")
    BY <1>1, <1>2, <1>5, <1>9, <2>2, ExitStory
  <2>3. CASE Exit(s, "2")
    BY <1>1, <1>2, <1>5, <1>9, <2>3, ExitStory
  <2>4. CASE h.line.apply /\ GoOn(s, Tail(h.calls), h.plans)
    <3>1. Course(h.line.apply, Tail(h.calls)) /\ Tail(h.calls) # <<>>
      BY <2>1, <2>4, PatchesFacts DEF Course
    <3>2. QED
      BY <1>1, <1>2, <1>5, <1>9, <2>4, <3>1, GoOnStory
  <2>5. QED
    BY <1>1, <1>9, <2>2, <2>3, <2>4 DEF PreviewDone
<1>10. CASE a.k = "candidates" /\ ProposalDone(s)
  <2>1. m = "llm.propose_patch" /\ IsFiniteSet(Accepted(a.of))
    BY <1>2, <1>10 DEF AnswerTo
  <2>2. ~h.line.apply
    BY <1>2, <1>3, <2>1 DEF Course
  <2> DEFINE plans == SetToSeq(Accepted(a.of))  calls == [i \in DOMAIN plans |-> "explain.patch"]
  <2>3. calls \in Seq(Plain)
    BY <2>1, Explanations
  <2>4. GoOn(s, calls, plans)
    BY <1>1, <1>10 DEF ProposalDone
  <2> HIDE DEF plans, calls
  <2>5. Course(h.line.apply, calls)
    BY <2>2, <2>3 DEF Course
  <2>6. QED
    BY <1>1, <1>2, <1>5, <1>10, <2>2, <2>4, <2>5, GoOnStory
<1>11. CASE a.k \notin {"error", "preview", "apply", "rollback", "candidates"} /\ CallDone(s)
  <2>0. m = "explain.patch" => ~h.line.apply
    BY <1>2, <1>3 DEF Course
  <2>1. PICK plans : GoOn(s, Tail(h.calls), plans) /\ (m # "explain.patch" => plans = h.plans)
    BY <1>1, <1>11 DEF CallDone
  <2>2. m # "patch.preview" /\ m # "patch.apply"
    BY <1>2, <1>11 DEF AnswerTo
  <2>3. Course(h.line.apply, Tail(h.calls)) /\ (h.line.apply => Tail(h.calls) # <<>>)
    BY <1>2, <1>3, <2>2, PatchesFacts DEF Course
  <2>4. QED
    BY <1>1, <1>2, <1>5, <1>11, <2>0, <2>1, <2>3, GoOnStory
<1>12. QED
  BY <1>1, <1>6, <1>7, <1>8, <1>9, <1>10, <1>11 DEF Returns

\* A process other than a command line leaves every command line alone.
LEMMA ExtensionCores ==
  ASSUME Formed, ExtensionNext, NEW s \in Shells
  PROVE  core'[s] = core[s]
<1>0. s \in Procs /\ s # "daemon" /\ DOMAIN core = Procs
  BY ProcsAssumption DEF Formed
<1>1. core' = core \/ \E k : core' = [core EXCEPT !["daemon"] = k]
  <2>1. CASE DaemonSteps \/ Hangs \/ Dies
    <3>1. TakeRequest => \E k : core' = [core EXCEPT !["daemon"] = k]
      BY DEF TakeRequest
    <3>2. TakeShutdown \/ Hangs \/ Dies => \E k : core' = [core EXCEPT !["daemon"] = k]
      BY DEF TakeShutdown, Hangs, Dies, Stops
    <3>3. WriteResponse => \E k : core' = [core EXCEPT !["daemon"] = k]
      BY DEF WriteResponse
    <3>4. QED
      BY <2>1, <3>1, <3>2, <3>3 DEF DaemonSteps
  <2>2. CASE ClientSteps \/ Shutdown
    BY <2>2 DEF ClientSteps, Receive, Exits, Kill, TimesOut, Shutdown
  <2>3. CASE Initialized \/ Opened \/ Indexed
    BY <2>3 DEF Initialized, Opened, Indexed, ExtOnly
  <2>4. ASSUME NEW w \in Windows, Command(w) PROVE core' = core
    BY <2>4 DEF Command, CmdRename, CmdProposePatch, CmdExplainRename, CmdHistory, CmdStats, CmdInfo,
                Start, Fails, RenderVerdict, Prints, ListFunctions, PickCandidate, Confirm, Reports,
                Resolved, FlowOnly, ExtOnly
  <2>5. QED
    BY <2>1, <2>2, <2>3, <2>4 DEF ExtensionNext
<1>2. QED
  BY <1>0, <1>1

ShellStep(s) == Run(s) \/ Makes(s) \/ Returns(s) \/ Interrupted(s)
LEMMA ShellOnly ==
  ASSUME DOMAIN shell = Shells, NEW s \in Shells, ShellStep(s)
  PROVE  DOMAIN shell' = Shells /\ \A r \in Shells \ {s} : shell'[r] = shell[r]
<1>1. shell' = shell \/ (\E h : shell' = [shell EXCEPT ![s] = h])
  <2>1. ASSUME NEW code, Exit(s, code) PROVE \E h : shell' = [shell EXCEPT ![s] = h]
    BY <2>1 DEF Exit
  <2>2. ASSUME NEW calls, NEW plans, GoOn(s, calls, plans)
        PROVE  \E h : shell' = [shell EXCEPT ![s] = h]
    <3>1. CASE calls = <<>>
      BY <2>1, <2>2, <3>1 DEF GoOn
    <3>2. CASE calls # <<>>
      BY <2>2, <3>2 DEF GoOn
    <3>3. QED
      BY <3>1, <3>2
  <2>3. CASE Run(s)
    BY <2>3 DEF Run
  <2>4. CASE Makes(s)
    BY <2>4 DEF Makes
  <2>5. CASE Interrupted(s)
    BY <2>1, <2>5 DEF Interrupted
  <2>6. CASE Returns(s)
    <3>1. PreviewDone(s) => \E h : shell' = [shell EXCEPT ![s] = h]
      BY <2>1, <2>2 DEF PreviewDone
    <3>2. ApplyDone(s) \/ RollbackDone(s) => \E h : shell' = [shell EXCEPT ![s] = h]
      BY <2>1 DEF ApplyDone, RollbackDone
    <3>3. ProposalDone(s) => \E h : shell' = [shell EXCEPT ![s] = h]
      BY <2>2 DEF ProposalDone
    <3>4. CallDone(s) => \E h : shell' = [shell EXCEPT ![s] = h]
      BY <2>2 DEF CallDone
    <3>5. QED
      BY <2>1, <2>6, <3>1, <3>2, <3>3, <3>4 DEF Returns
  <2>7. QED
    BY <2>3, <2>4, <2>5, <2>6 DEF ShellStep
<1>2. QED
  BY <1>1

Stories == DOMAIN shell = Shells /\ budget \in Budgets /\ \A s \in Shells : StoryOf(s)
LEMMA StoriesKept ==
  ASSUME Wired, Stories, [Next]_vars
  PROVE  Stories'
<1>0. /\ Formed /\ AStep /\ DOMAIN shell = Shells /\ budget \in Budgets
      /\ \A s \in Shells : StoryOf(s) /\ s \in Procs
  BY StepKinds, ProcsAssumption DEF Wired, Waiting, Stories
<1>1. budget' = budget
  BY DEF Next, vars
<1>2. ASSUME NEW r \in Shells, ShellStep(r)
      PROVE  DOMAIN shell' = Shells /\ \A s \in Shells : StoryOf(s)'
  <2>1. DOMAIN shell' = Shells /\ \A s \in Shells \ {r} : shell'[s] = shell[s]
    BY <1>0, <1>2, ShellOnly
  <2>2. \A s \in Shells \ {r} : core'[s] = core[s]
    BY <1>0, <1>2, ShellKinds DEF ShellStep, Works, Renewed, Emptied, Begun, OthersStay
  <2>3. \A s \in Shells \ {r} : StoryOf(s)'
    BY <1>0, <2>1, <2>2, StoryElsewhere
  <2>4. StoryOf(r)'
    <3>1. CASE Interrupted(r)
      BY <1>0, <3>1, ExitStory DEF Interrupted, disk
    <3>2. QED
      BY <1>0, <1>2, <3>1, RunStory, MakesStory, ReturnsStory DEF ShellStep
  <2>5. QED
    BY <2>1, <2>3, <2>4
<1>3. ASSUME shell' = shell, \A s \in Shells : core'[s] = core[s]
      PROVE  DOMAIN shell' = Shells /\ \A s \in Shells : StoryOf(s)'
  BY <1>0, <1>3, StoryElsewhere
<1>4. ASSUME NEW p \in Procs, Handle(p), Others, UNCHANGED shell
      PROVE  DOMAIN shell' = Shells /\ \A s \in Shells : StoryOf(s)'
  <2>1. Handled(p) /\ Serves(p)
    BY <1>0, <1>4, HandleEffect DEF Serves, Others, wire
  <2>2. ASSUME NEW s \in Shells PROVE StoryOf(s)'
    <3>1. CASE s = p
      BY <1>0, <2>1, <3>1, StoryServes
    <3>2. CASE s # p
      <4>1. core'[s] = core[s] /\ shell'[s] = shell[s]
        BY <1>0, <1>4, <2>1, <3>2 DEF Handled
      <4>2. QED
        BY <1>0, <4>1, StoryElsewhere
    <3>3. QED
      BY <3>1, <3>2
  <2>3. QED
    BY <1>0, <1>4, <2>2
<1>5. DOMAIN shell' = Shells /\ \A s \in Shells : StoryOf(s)'
  <2>1. CASE UNCHANGED vars
    BY <1>3, <2>1 DEF vars
  <2>2. CASE Tick /\ Others /\ UNCHANGED shell
    BY <1>3, <2>2 DEF Tick
  <2>3. CASE ExtensionNext /\ UNCHANGED shell
    BY <1>0, <1>3, <2>3, ExtensionCores
  <2>4. QED
    BY <1>2, <1>4, <2>1, <2>2, <2>3 DEF Next, ShellStep
<1>6. QED
  BY <1>0, <1>1, <1>5 DEF Stories

-----------------------------------------------------------------------------
Truthful == Promised /\ Distinct /\ Ledger /\ Stories

LEMMA InitTruthful == Init => Truthful
<1> SUFFICES ASSUME Init PROVE Truthful
  OBVIOUS
<1>1. Promised /\ Formed /\ Paired /\ Waiting
  BY InitPromised DEF Promised, Wired
<1>2. \A p \in Procs : core[p] = FreshCore
  BY DEF Init, ServiceInit
<1>3. made = <<>> /\ outbox = <<>> /\ budget \in Budgets /\ shell = [s \in Shells |-> NoShell]
  BY DEF Init, ServiceInit, ExtensionInit
<1>4. core["daemon"] = FreshCore
  BY <1>2, ProcsAssumption
<1>5. \A q, i : Commits(q, i) = {}
  <2>1. DOMAIN made = {}
    BY <1>3, NoElements DEF ToSet
  <2>2. QED
    BY <2>1 DEF Commits
<1>6. AnswersOf = {}
  BY <1>3, <1>4, NoElements, Literals DEF AnswersOf
<1>7. \A w \in Flows : flow[w].got = Nothing /\ flow[w].told = "nothing"
  <2>1. CASE Activate
    <3> DEFINE f == [NoFlow EXCEPT !.stage = "init", !.id = 1]
    <3>1. f.told = "nothing" /\ f.got = Nothing
      BY DEF NoFlow
    <3>2. flow = [w \in Flows |-> IF w = "activate" THEN f ELSE NoFlow]
      BY <2>1 DEF Activate
    <3> HIDE DEF f
    <3>3. QED
      BY <3>1, <3>2, Literals DEF Flows
  <2>2. CASE Unused
    BY <2>2, Literals DEF Unused, Flows
  <2>3. QED
    BY <2>1, <2>2 DEF Init, ExtensionInit
<1>8. \A i : ~Closed(i)
  BY <1>5, <1>6, <1>7, Literals DEF Closed
<1>9. Ledger
  BY <1>6, <1>7, <1>8 DEF Ledger, FlowHonest, Lost
<1>10. Distinct
  <2> DEFINE d == [Call("session.initialize", <<>>) EXCEPT !.id = 1]
  <2>1. inbox = <<>> \/ inbox = <<d>>
    BY DEF Init, ExtensionInit, Activate, Unused
  <2> HIDE DEF d
  <2>2. \A i, j \in DOMAIN inbox : i = j
    <3>1. DOMAIN <<>> = {} /\ DOMAIN <<d>> = {1}
      BY NoElements DEF ToSet
    <3>2. QED
      BY <2>1, <3>1
  <2>3. QED
    BY <1>4, <2>2, Literals DEF Distinct
<1>11. Stories
  <2>1. /\ DOMAIN NoShell = ShellFields /\ NoShell.run \in Nat /\ NoShell.line.apply \in BOOLEAN /\ NoShell.line.mem \in Nat
        /\ NoShell.calls = <<>> /\ NoShell.code = "none" /\ ASeq(NoShell.line.plan)
    BY NoElements DEF NoShell, NoLine, ShellFields
  <2>2. Story(NoShell, FreshCore, {})
    <3>1. PICK h, k : h = NoShell /\ k = FreshCore
      OBVIOUS
    <3>2. k.call.m = "none" /\ k.answer = Nothing
      BY <3>1, Literals
    <3>3. /\ DOMAIN h = ShellFields /\ h.run \in Nat /\ h.line.apply \in BOOLEAN /\ h.line.mem \in Nat
          /\ h.calls = <<>> /\ h.code = "none" /\ ASeq(h.line.plan)
      BY <2>1, <3>1
    <3>4. Story(h, k, {})
      BY <3>2, <3>3 DEF Story
    <3>5. QED
      BY <3>1, <3>4
  <2>3. ASSUME NEW s \in Shells PROVE StoryOf(s)
    <3>1. shell[s] = NoShell /\ core[s] = FreshCore
      BY <1>2, <1>3, ProcsAssumption
    <3>2. Commits(s, shell[s].run) = {} /\ \A i \in Nat : i > shell[s].run => Commits(s, i) = {}
      BY <1>5, Zenon
    <3>3. QED
      BY <2>2, <3>1, <3>2 DEF StoryOf
  <2>4. QED
    BY <1>3, <2>3 DEF Stories
<1>12. QED
  BY <1>1, <1>9, <1>10, <1>11 DEF Truthful

LEMMA TruthfulKept == Truthful /\ [Next]_vars => Truthful'
<1> SUFFICES ASSUME Truthful, [Next]_vars PROVE Truthful'
  OBVIOUS
<1>1. Promised /\ Wired /\ Formed /\ Waiting /\ AnsweredByOwn /\ Paired /\ Distinct /\ Ledger /\ Stories
  BY DEF Truthful, Promised, Wired
<1>2. AStep
  BY <1>1, StepKinds DEF Waiting
<1>3. QED
  BY <1>1, <1>2, PromisedKept, DistinctKept, LedgerKept, StoriesKept DEF Truthful

\* What the extension tells its user (extension.js, applyPlan), and the exit code
\* of a command line (aa-cli), is true of the journal of commits.
THEOREM ReportsAreHonest == Spec => []ReportsAreTrue
<1>1. Truthful => ReportsAreTrue
  <2> SUFFICES ASSUME Truthful PROVE ReportsAreTrue
    OBVIOUS
  <2>1. ASSUME NEW w \in Windows
        PROVE  /\ flow[w].told = "applied" => Commits("daemon", flow[w].about) # {}
               /\ flow[w].told = "rejected" => Commits("daemon", flow[w].about) = {}
    BY DEF Truthful, Ledger, FlowHonest, Flows
  <2>2. ASSUME NEW s \in Shells, NEW C, C = Commits(s, shell[s].run)
        PROVE  /\ shell[s].code = "0" => (C # {}) = shell[s].line.apply
               /\ shell[s].code \in {"1", "2"} => C = {}
    <3>1. PICK h, k : h = shell[s] /\ k = core[s]
      OBVIOUS
    <3>2. Story(h, k, C)
      BY <2>2, <3>1 DEF Truthful, Stories, StoryOf
    <3>3. /\ h.code = "0" => (C # {} <=> h.line.apply)
          /\ h.code \in {"1", "2"} => C = {}
          /\ h.line.apply \in BOOLEAN
      BY <3>2 DEF Story
    <3>4. h.code = "0" => (C # {}) = h.line.apply
      <4>1. CASE h.line.apply = TRUE
        BY <3>3, <4>1
      <4>2. CASE h.line.apply = FALSE
        BY <3>3, <4>2
      <4>3. QED
        BY <3>3, <4>1, <4>2
    <3>5. QED
      BY <3>1, <3>3, <3>4
  <2>3. QED
    BY <2>1, <2>2 DEF ReportsAreTrue
<1>2. QED
  BY <1>1, InitTruthful, TruthfulKept, PTL DEF Spec

-----------------------------------------------------------------------------
(* What a history shows.                                                      *)

\* The limits that histories are asked for are numbers.
Limited ==
  /\ \A c \in ToSet(inbox) : c.mem \in Nat
  /\ \A p \in Procs : core[p].call.mem \in Nat

LEMMA LimitedKept ==
  ASSUME Formed, Stories, Limited, AStep
  PROVE  Limited'
<1>0. "daemon" \in Procs /\ Shells \subseteq Procs
  BY ProcsAssumption
<1>1. \A c \in ToSet(inbox') : c.mem \in Nat
  <2>1. ASeq(inbox) /\ \A c \in ToSet(inbox) : c.mem \in Nat
    BY DEF Formed, Limited
  <2>2. CASE inbox' = inbox
    BY <2>1, <2>2
  <2>3. CASE inbox # <<>> /\ inbox' = Tail(inbox)
    BY <2>1, <2>3, TailFacts
  <2>4. CASE inbox' = <<>>
    BY <2>4, NoElements
  <2>5. ASSUME NEW w \in Flows, Moves(w)
        PROVE  inbox' = inbox \/ \E m : inbox' = Append(inbox, m) /\ m.mem \in Nat
    BY <2>5 DEF Moves, FlowMove, EndBy, SentBy, Proper, Carries
  <2>6. ASSUME NEW m, m.mem \in Nat, inbox' = Append(inbox, m)
        PROVE  \A c \in ToSet(inbox') : c.mem \in Nat
    BY <2>1, <2>6, AppendFacts
  <2>7. \/ inbox' = inbox \/ (inbox # <<>> /\ inbox' = Tail(inbox)) \/ inbox' = <<>>
        \/ \E w \in Flows : Moves(w)
    BY DEF AStep, Serves, Takes, Writes, Halts, Hears, Works, Rests
  <2>8. QED
    BY <2>2, <2>3, <2>4, <2>5, <2>6, <2>7
<1>2. ASSUME NEW p \in Procs, Renewed(p) \/ Emptied(p) \/ \E m : Begun(p, m) /\ m.mem \in Nat
      PROVE  \A q \in Procs : core'[q].call.mem \in Nat
  <2>1. ASSUME NEW q \in Procs PROVE core'[q].call.mem \in Nat
    <3>1. core[q].call.mem \in Nat
      BY DEF Limited
    <3>2. CASE q # p
      BY <1>2, <3>1, <3>2 DEF Renewed, Emptied, Begun, OthersStay
    <3>3. CASE q = p
      BY <1>2, <3>1, <3>3, Literals DEF Renewed, Emptied, Begun
    <3>4. QED
      BY <3>2, <3>3
  <2>2. QED
    BY <2>1
<1>3. \A p \in Procs : core'[p].call.mem \in Nat
  <2>1. CASE UNCHANGED core
    BY <2>1 DEF Limited
  <2>2. ASSUME NEW p \in Procs, Serves(p) PROVE \A q \in Procs : core'[q].call.mem \in Nat
    <3>1. core'[p].call = NoCall /\ \A q \in Procs \ {p} : core'[q] = core[q]
      BY <2>2 DEF Serves, Handled
    <3>2. QED
      BY <3>1, Literals DEF Limited
  <2>3. CASE Takes
    <3>1. Head(inbox).mem \in Nat
      BY <2>3, TailFacts DEF Takes, Formed, Limited
    <3>2. Begun("daemon", Head(inbox))
      BY <2>3 DEF Takes
    <3>3. QED
      BY <1>0, <1>2, <3>1, <3>2
  <2>4. CASE Writes \/ Halts
    <3>1. Renewed("daemon") \/ Emptied("daemon")
      BY <2>4 DEF Writes, Halts
    <3>2. QED
      BY <1>0, <1>2, <3>1
  <2>5. ASSUME NEW s \in Shells, Works(s) PROVE \A q \in Procs : core'[q].call.mem \in Nat
    <3>1. shell[s].line.mem \in Nat
      <4>1. PICK h, k, C : h = shell[s] /\ k = core[s] /\ C = Commits(s, shell[s].run)
        OBVIOUS
      <4>2. Story(h, k, C)
        BY <4>1 DEF Stories, StoryOf
      <4>3. QED
        BY <4>1, <4>2 DEF Story
    <3>2. CASE UNCHANGED core
      BY <2>1, <3>2
    <3>3. CASE Renewed(s) \/ Emptied(s) \/ \E m : Begun(s, m) /\ m.mem \in Nat
      BY <1>0, <1>2, <3>3
    <3>4. QED
      BY <2>5, <3>1, <3>2, <3>3 DEF Works
  <2>6. QED
    BY <2>1, <2>2, <2>3, <2>4, <2>5 DEF AStep, Hears, Moves, Rests
<1>4. QED
  BY <1>1, <1>3 DEF Limited

\* What a shows is of commits there have been, and no older than what it leaves out.
Newest(a) ==
  a.k = "history" =>
    /\ a.snap \subseteq DOMAIN made /\ ToSet(a.ids) \subseteq a.snap
    /\ \A i \in a.snap \ ToSet(a.ids), j \in ToSet(a.ids) : made[i].at <= made[j].at
Shows == \A p \in Procs : Newest(core[p].answer)

LEMMA ShowsKept ==
  ASSUME Formed, Known, Limited, Shows, AStep
  PROVE  Shows'
<1>0. "daemon" \in Procs /\ Shells \subseteq Procs
  BY ProcsAssumption
<1>1. \A i \in DOMAIN made : i \in DOMAIN made' /\ made'[i] = made[i]
  BY MadeKept
<1>2. ASSUME NEW a, Newest(a) PROVE Newest(a)'
  <2>1. SUFFICES ASSUME a.k = "history"
                 PROVE  /\ a.snap \subseteq DOMAIN made' /\ ToSet(a.ids) \subseteq a.snap
                        /\ \A i \in a.snap \ ToSet(a.ids), j \in ToSet(a.ids) : made'[i].at <= made'[j].at
    BY DEF Newest
  <2>2. QED
    BY <1>1, <1>2, <2>1 DEF Newest
<1>3. ASSUME NEW p \in Procs, NEW a \in {core[p].answer, Nothing}, core'[p].answer = a
      PROVE  Newest(core[p].answer)'
  <2>1. Newest(a)
    BY Literals DEF Newest, Shows
  <2>2. Newest(a)'
    BY <1>2, <2>1
  <2>3. QED
    BY <1>3, <2>2 DEF Newest
<1>4. ASSUME NEW p \in Procs, Serves(p) PROVE Newest(core[p].answer)'
  <2>1. PICK a, c : a = core'[p].answer /\ c = core[p].call
    OBVIOUS
  <2>2. Listing(c, a) /\ Replied(core[p], c, a) /\ (Untouched(a) \/ Committed(p, c, a) \/ Undone(c))
    BY <1>4, <2>1 DEF Serves, Handled
  <2>3. ASSUME a.k = "history"
        PROVE  /\ a.snap \subseteq DOMAIN made' /\ ToSet(a.ids) \subseteq a.snap
               /\ \A i \in a.snap \ ToSet(a.ids), j \in ToSet(a.ids) : made'[i].at <= made'[j].at
    <3>1. made' = made
      <4>1. c.m # "patch.apply"
        BY <2>2, <2>3 DEF Replied
      <4>2. QED
        BY <2>2, <4>1 DEF Untouched, Committed, Undone, disk
    <3>2. /\ a.snap = c.snap \cap journal
          /\ \E h \in Histories(Entries(a.snap), All, c.mem) : a.ids = Ids(h)
      BY <2>2, <2>3 DEF Listing
    <3>3. a.snap \subseteq DOMAIN made /\ c.mem \in Nat
      BY <2>1, <3>2 DEF Known, Limited
    <3>4. IsFiniteSet(a.snap)
      <4>1. PICK S : made \in Seq(S)
        BY DEF Formed, ASeq
      <4>2. DOMAIN made = 1..Len(made) /\ Len(made) \in Int /\ 1 \in Int
        BY <4>1
      <4>3. IsFiniteSet(1..Len(made))
        BY <4>2, FS_Interval
      <4>4. QED
        BY <3>3, <4>2, <4>3, FS_Subset
    <3>5. /\ ToSet(a.ids) \subseteq a.snap
          /\ \A i \in a.snap \ ToSet(a.ids), j \in ToSet(a.ids) : made[i].at <= made[j].at
      BY <3>2, <3>3, <3>4, HistoryShowsNewest
    <3>6. QED
      BY <3>1, <3>3, <3>5
  <2>4. Newest(a)'
    BY <2>3 DEF Newest
  <2>5. QED
    BY <2>1, <2>4 DEF Newest
<1>5. ASSUME NEW p \in Procs, Renewed(p) \/ Emptied(p) \/ \E m : Begun(p, m)
      PROVE  \A q \in Procs : core'[q].answer \in {core[q].answer, Nothing}
  BY <1>5, Literals DEF Renewed, Emptied, Begun, OthersStay
<1>6. CASE \A q \in Procs : core'[q].answer \in {core[q].answer, Nothing}
  BY <1>3, <1>6 DEF Shows
<1>7. ASSUME NEW p \in Procs, Serves(p) PROVE Shows'
  <2>1. \A q \in Procs \ {p} : core'[q].answer = core[q].answer
    BY <1>7 DEF Serves, Handled
  <2>2. QED
    BY <1>3, <1>4, <1>7, <2>1 DEF Shows
<1>8. CASE Takes \/ Writes \/ Halts
  <2>1. Renewed("daemon") \/ Emptied("daemon") \/ \E m : Begun("daemon", m)
    BY <1>8 DEF Takes, Writes, Halts
  <2>2. QED
    BY <1>0, <1>5, <1>6, <2>1
<1>9. ASSUME NEW s \in Shells, Works(s) PROVE Shows'
  <2>1. UNCHANGED core \/ Renewed(s) \/ Emptied(s) \/ \E m : Begun(s, m)
    BY <1>9 DEF Works
  <2>2. QED
    BY <1>0, <1>5, <1>6, <2>1
<1>10. QED
  BY <1>6, <1>7, <1>8, <1>9 DEF AStep, Hears, Moves, Rests

\* A limited history (memory.rs, Memory::history) hides no newer commit than it
\* shows, whatever order the directory came in and whoever wrote to it meanwhile.
THEOREM HistoriesAreNewest == Spec => []NewestShown
<1> DEFINE Inv == Truthful /\ Limited /\ Shows
<1>1. Init => Inv
  <2> SUFFICES ASSUME Init PROVE Inv
    OBVIOUS
  <2>1. \A p \in Procs : core[p] = FreshCore
    BY DEF Init, ServiceInit
  <2>2. \A p \in Procs : core[p].call.mem \in Nat /\ core[p].answer.k # "history"
    BY <2>1, Literals
  <2>3. \A c \in ToSet(inbox) : c.mem \in Nat
    <3> DEFINE d == [Call("session.initialize", <<>>) EXCEPT !.id = 1]
    <3>1. inbox = <<>> \/ inbox = <<d>>
      BY DEF Init, ExtensionInit, Activate, Unused
    <3>2. d.mem \in Nat
      BY DEF Call
    <3> HIDE DEF d
    <3>3. CASE inbox = <<>>
      BY <3>3, NoElements
    <3>4. CASE inbox = <<d>>
      <4>1. DOMAIN <<d>> = {1} /\ <<d>>[1] = d
        OBVIOUS
      <4>2. ToSet(inbox) = {d}
        BY <3>4, <4>1 DEF ToSet
      <4>3. QED
        BY <3>2, <4>2
    <3>5. QED
      BY <3>1, <3>3, <3>4
  <2>4. QED
    BY <2>2, <2>3, InitTruthful DEF Limited, Shows, Newest
<1>2. Inv /\ [Next]_vars => Inv'
  <2> SUFFICES ASSUME Inv, [Next]_vars PROVE Inv'
    OBVIOUS
  <2>1. Formed /\ Waiting /\ Known /\ Stories
    BY DEF Truthful, Promised, Wired
  <2>2. AStep
    BY <2>1, StepKinds DEF Waiting
  <2>3. QED
    BY <2>1, <2>2, TruthfulKept, LimitedKept, ShowsKept
<1>3. Inv => NewestShown
  BY DEF Shows, Newest, NewestShown
<1>4. QED
  BY <1>1, <1>2, <1>3, PTL DEF Spec
-----------------------------------------------------------------------------
(* The types.                                                                 *)

\* The names that the workspace was given at first or by a committed plan.
Words == FirstText.names \cup UNION {NewNames(made[i].plan) : i \in DOMAIN made}

\* What is read, restored or written has no other name.
Worded ==
  /\ text.names \subseteq Words
  /\ \A k \in DOMAIN made : made[k].before.names \subseteq Words
  /\ \A p \in Procs : core[p].call.base.names \subseteq Words

\* A plan to be applied is a sequence, whoever asks for it.
Planned == \A p \in Procs : core[p].call.m = "patch.apply" => ASeq(core[p].call.plan)

LEMMA TruthfulPlanned ==
  ASSUME Truthful
  PROVE  Planned
<1>1. core["daemon"].call.m = "patch.apply" => ASeq(core["daemon"].call.plan)
  BY DEF Truthful, Promised, Paired, CallPaired, CallsOf, Sound
<1>2. ASSUME NEW s \in Shells PROVE core[s].call.m = "patch.apply" => ASeq(core[s].call.plan)
  BY DEF Truthful, Stories, StoryOf, Story
<1>3. QED
  BY <1>1, <1>2, ProcsAssumption DEF Planned

LEMMA WordedServes ==
  ASSUME Formed, Known, Worded, Planned, NEW p \in Procs, Serves(p)
  PROVE  Worded'
<1> DEFINE c == core[p].call
<1>0. /\ c.base.names \subseteq Words /\ text.names \subseteq Words /\ c.snap \subseteq DOMAIN made
      /\ \A k \in DOMAIN made : made[k].before.names \subseteq Words
      /\ c.m = "patch.apply" => ASeq(c.plan)
  BY DEF Worded, Known, Planned
<1>1. \A i \in DOMAIN made : i \in DOMAIN made' /\ made'[i] = made[i]
  BY MadeKept DEF AStep
<1>2. Words \subseteq Words'
  BY <1>1 DEF Words
<1>3. ASSUME NEW q \in Procs PROVE core'[q].call.base.names \subseteq Words'
  <2>1. core[q].call.base.names \subseteq Words
    BY DEF Worded
  <2>2. core'[q] = core[q] \/ core'[q].call = NoCall
    BY DEF Serves, Handled
  <2>3. QED
    BY <1>2, <2>1, <2>2, Literals
<1>4. text'.names \subseteq Words' /\ \A k \in DOMAIN made' : made'[k].before.names \subseteq Words'
  <2>1. CASE UNCHANGED disk
    BY <1>0, <1>2, <2>1 DEF disk
  <2>2. CASE Undone(c)
    <3>1. c.commit \in DOMAIN made /\ UNCHANGED made /\ text' \in {text, made[c.commit].before}
      BY <1>0, <2>2 DEF Undone
    <3>2. QED
      BY <1>0, <1>2, <3>1
  <2>3. CASE Committed(p, c, core'[p].answer)
    <3>1. PICK e : /\ made' = Append(made, e) /\ e.plan = c.plan /\ e.before = c.base
                   /\ text' \in {text, e.after}
                   /\ \E o \in Shadows(c.plan, c.base) : e.after = o.text
      BY <2>3 DEF Committed
    <3>2. ASeq(c.plan)
      BY <1>0, <2>3 DEF Committed
    <3>3. /\ DOMAIN made' = DOMAIN made \cup {Len(made) + 1} /\ made'[Len(made) + 1] = e
      <4>1. PICK S : made \in Seq(S)
        BY DEF Formed, ASeq
      <4>2. made \in Seq(S \cup {e})
        BY <4>1
      <4>3. QED
        BY <3>1, <4>1, <4>2
    <3>4. NewNames(e.plan) \subseteq Words'
      BY <3>3 DEF Words
    <3>5. e.after.names \subseteq c.base.names \cup NewNames(e.plan)
      BY <3>1, <3>2, ShadowNames
    <3>6. QED
      BY <1>0, <1>1, <1>2, <3>1, <3>3, <3>4, <3>5
  <2>4. QED
    BY <2>1, <2>2, <2>3 DEF Serves, Handled, Untouched
<1>5. QED
  BY <1>3, <1>4 DEF Worded

LEMMA WordedKept ==
  ASSUME Formed, Known, Worded, Planned, AStep
  PROVE  Worded'
<1>0. "daemon" \in Procs /\ Shells \subseteq Procs
  BY ProcsAssumption
<1>1. ASSUME UNCHANGED disk,
             UNCHANGED core \/ \E p \in Procs : Renewed(p) \/ Emptied(p) \/ \E m : Begun(p, m)
      PROVE  Worded'
  <2>1. Words' = Words /\ text' = text /\ made' = made
    BY <1>1 DEF Words, disk
  <2>2. ASSUME NEW q \in Procs PROVE core'[q].call.base.names \subseteq Words
    <3>1. core[q].call.base.names \subseteq Words /\ text.names \subseteq Words
      BY DEF Worded
    <3>2. \/ core'[q] = core[q] \/ core'[q] = FreshCore \/ core'[q].call = core[q].call
          \/ core'[q].call.base = text
      BY <1>1 DEF Renewed, Emptied, Begun, OthersStay
    <3>3. QED
      BY <3>1, <3>2, Literals
  <2>3. QED
    BY <2>1, <2>2 DEF Worded
<1>2. CASE Takes \/ Writes \/ Halts
  BY <1>0, <1>1, <1>2 DEF Takes, Writes, Halts
<1>3. ASSUME NEW s \in Shells, Works(s) PROVE Worded'
  <2>1. UNCHANGED disk /\ (UNCHANGED core \/ Renewed(s) \/ Emptied(s) \/ \E m : Begun(s, m))
    BY <1>3 DEF Works
  <2>2. QED
    BY <1>0, <1>1, <2>1
<1>4. CASE Rests
  <2>1. text' = text /\ made' = made /\ core' = core /\ Words' = Words
    BY <1>4 DEF Rests, Words
  <2>2. QED
    BY <2>1 DEF Worded
<1>5. QED
  BY <1>1, <1>2, <1>3, <1>4, WordedServes DEF AStep, Hears, Moves

\* What every step does to the clock, the commits and the process of the daemon.
Bounded ==
  /\ budget' = budget
  /\ clock' = clock \/ (clock < budget.seconds /\ clock' = clock + 1)
  /\ made' = made \/ (Len(made) < budget.commits /\ \E e : made' = Append(made, e))
  /\ daemon' \in {daemon, "hung", "gone"}

LEMMA HandleBounded ==
  ASSUME NEW p \in Procs, Handle(p)
  PROVE  /\ clock' = clock
         /\ made' = made \/ (Len(made) < budget.commits /\ \E e : made' = Append(made, e))
<1>1. CASE ApplyCommitted(p)
  BY <1>1 DEF ApplyCommitted
<1>2. CASE RolledBack(p)
  BY <1>2 DEF RolledBack
<1>3. ASSUME ~ApplyCommitted(p), ~RolledBack(p)
      PROVE  UNCHANGED disk
  BY <1>3 DEF Handle, Initialize, Open, Index, Load, Evaluate, Query, ProposeFacts, ProposePatch,
     Preview, ApplyRejected, RollbackRefused, Explain, History, Show, Statistics
<1>4. QED
  BY <1>1, <1>2, <1>3 DEF disk

LEMMA StepBounded ==
  ASSUME [Next]_vars
  PROVE  Bounded
<1>1. ASSUME UNCHANGED <<clock, made>>, budget' = budget, daemon' \in {daemon, "hung", "gone"}
      PROVE  Bounded
  BY <1>1 DEF Bounded
<1>2. CASE UNCHANGED vars
  BY <1>1, <1>2 DEF vars, disk, wire
<1>3. ASSUME Next PROVE Bounded
  <2>0. budget' = budget
    BY <1>3 DEF Next
  <2>1. CASE Tick /\ Others
    BY <2>0, <2>1 DEF Tick, Others, wire, Bounded
  <2>2. ASSUME NEW p \in Procs, Handle(p), Others PROVE Bounded
    BY <2>0, <2>2, HandleBounded DEF Others, wire, Bounded
  <2>3. ASSUME NEW s \in Shells, Run(s) \/ Makes(s) \/ Returns(s) \/ Interrupted(s) PROVE Bounded
    <3>1. UNCHANGED disk /\ Others
      BY <2>3 DEF Run, Makes, Returns, Interrupted
    <3>2. QED
      BY <1>1, <2>0, <3>1 DEF disk, Others, wire
  <2>4. CASE ExtensionNext
    <3>1. ASSUME UNCHANGED <<disk, daemon>> PROVE Bounded
      BY <1>1, <2>0, <3>1 DEF disk
    <3>2. CASE DaemonSteps \/ Hangs \/ Dies
      BY <1>1, <2>0, <3>2 DEF DaemonSteps, TakeRequest, TakeShutdown, WriteResponse, Hangs, Dies, Stops, disk
    <3>3. CASE ClientSteps \/ Shutdown
      BY <3>1, <3>3 DEF ClientSteps, Receive, Exits, Kill, TimesOut, Shutdown, wire
    <3>4. CASE Initialized \/ Opened \/ Indexed
      BY <3>1, <3>4 DEF Initialized, Opened, Indexed, ExtOnly
    <3>5. ASSUME NEW w \in Windows, Command(w) PROVE Bounded
      <4>1. \A stage, plan, m : Start(w, stage, plan, m) => FlowOnly
        BY DEF Start
      <4>2. \A stage : Resolved(w, stage) => FlowOnly
        BY DEF Resolved
      <4>3. FlowOnly
        BY <3>5, <4>1, <4>2 DEF Command, CmdRename, CmdProposePatch, CmdExplainRename, CmdHistory,
           CmdStats, CmdInfo, Fails, RenderVerdict, Prints, ListFunctions, PickCandidate, Confirm, Reports
      <4>4. QED
        BY <3>1, <4>3 DEF FlowOnly, ExtOnly
    <3>6. QED
      BY <2>4, <3>2, <3>3, <3>4, <3>5 DEF ExtensionNext
  <2>5. QED
    BY <1>3, <2>1, <2>2, <2>3, <2>4 DEF Next
<1>4. QED
  BY <1>2, <1>3

\* The bounds of the behaviour, and the process of the daemon.
Measured ==
  /\ budget \in Budgets /\ clock \in 0..budget.seconds /\ Len(made) <= budget.commits
  /\ daemon \in {"off", "up", "hung", "gone", "failed"}

LEMMA MeasuredKept ==
  ASSUME Formed, Measured, [Next]_vars
  PROVE  Measured'
<1>1. Bounded
  BY StepBounded
<1>2. budget.seconds \in Nat /\ budget.commits \in Nat
  BY BudgetsAssumption DEF Measured
<1>3. clock' \in 0..budget.seconds
  BY <1>1, <1>2 DEF Bounded, Measured
<1>4. Len(made') <= budget.commits
  <2>1. CASE made' = made
    BY <2>1 DEF Measured
  <2>2. ASSUME NEW e, Len(made) < budget.commits, made' = Append(made, e)
        PROVE  Len(made') <= budget.commits
    <3>1. Len(made) \in Nat /\ Len(made') = Len(made) + 1
      BY <2>2, AppendFacts DEF Formed
    <3>2. QED
      BY <1>2, <2>2, <3>1
  <2>3. QED
    BY <1>1, <2>1, <2>2 DEF Bounded
<1>5. QED
  BY <1>1, <1>3, <1>4 DEF Bounded, Measured

\* Every variable has its type: the names of the workspace are those of the first
\* text and those that operations of committed plans were told to bring in, by a
\* rename or an extraction (handlers.rs, handle_patch_apply; plan.rs, apply_op); the
\* requests the client has pending are each awaited by the flow that sent it
\* (client.js, request).
THEOREM TypesHold == Spec => []TypeOK
<1> DEFINE Inv == Truthful /\ Worded /\ Measured
<1>1. Init => Inv
  <2> SUFFICES ASSUME Init PROVE Inv
    OBVIOUS
  <2>1. /\ text = FirstText /\ clock = 0 /\ made = <<>> /\ budget \in Budgets
        /\ \A p \in Procs : core[p] = FreshCore
    BY DEF Init, ServiceInit
  <2>2. DOMAIN made = {} /\ Len(made) = 0
    BY <2>1, NoElements DEF ToSet
  <2>3. Worded
    BY <2>1, <2>2, Literals DEF Worded, Words
  <2>4. budget.seconds \in Nat /\ budget.commits \in Nat
    BY <2>1, BudgetsAssumption
  <2>5. daemon \in {"off", "up", "hung", "gone", "failed"}
    BY DEF Init, ExtensionInit, Activate, Unused
  <2>6. Measured
    BY <2>1, <2>2, <2>4, <2>5 DEF Measured
  <2>7. QED
    BY <2>3, <2>6, InitTruthful
<1>2. Inv /\ [Next]_vars => Inv'
  <2> SUFFICES ASSUME Inv, [Next]_vars PROVE Inv'
    OBVIOUS
  <2>1. Formed /\ Waiting /\ Known
    BY DEF Truthful, Promised, Wired
  <2>2. AStep
    BY <2>1, StepKinds DEF Waiting
  <2>3. QED
    BY <2>1, <2>2, TruthfulKept, TruthfulPlanned, WordedKept, MeasuredKept
<1>3. Inv => TypeOK
  BY DEF Truthful, Promised, Wired, Waiting, Awaits, Known, Worded, Words, Measured, TypeOK
<1>4. QED
  BY <1>1, <1>2, <1>3, PTL DEF Spec
=============================================================================
