-------------------------- MODULE RaSession_proofs --------------------------
(***************************************************************************)
(* Proofs about RaSession, for any callers, files and texts, any way of    *)
(* losing the child and any values of the bounds.                          *)
(***************************************************************************)
EXTENDS RaSession, TLAPS, SequenceTheorems, WellFoundedInduction

-----------------------------------------------------------------------------
(* Helpers. *)

LEMMA LeastNat ==
  ASSUME NEW S \in SUBSET Nat, S # {}
  PROVE  \E x \in S : \A y \in S : x <= y
<1>1. PICK x \in S : \A y \in S : ~ (<<y, x>> \in OpToRel(<, Nat))
  BY WFMin, NatLessThanWellFounded, Zenon
<1>2. ASSUME NEW y \in S PROVE x <= y
  <2>1. y < x => <<y, x>> \in OpToRel(<, Nat)
    BY DEF OpToRel
  <2>2. ~ (y < x)
    BY <1>1, <2>1, Zenon
  <2>3. QED
    BY <2>2
<1>3. QED
  BY <1>2

\* A walk that is not done has a first file.
LEMMA FirstIn ==
  ASSUME NEW S \in SUBSET File, S # {}
  PROVE  First(S) \in S /\ First(S) \in File
BY FileAssumption, LeastNat DEF First

-----------------------------------------------------------------------------
(* Type correctness. *)

Holding == {"sync", "send", "await", "ack"}

\* What a call has got by the time its phase needs it.
Steps(t) ==
  /\ t.files \in [File -> Text \cup {NoFile}]
  /\ t.pc \in {"lookup", "create", "spawn", "lock", "sync"} => t.tries = 0
  /\ t.pc = "send" => t.tries < MaxTries
  /\ t.pc = "sync" => t.todo \subseteq In(t.files)
  /\ t.pc = "ack" => t.todo \subseteq In(t.out)
  /\ t.pc # "reply" => t.result = "none"
  /\ t.pc # "idle" => t.decl \in File

Typed == TypeOK /\ \A c \in Caller : Steps(call[c])

\* A call that is well formed.
Well(t) == t \in Call /\ Steps(t)

\* One call moves on to t, and gets or gives back the mutex as its phase demands.
Moves(c, t) ==
  /\ call' = [call EXCEPT ![c] = t]
  /\ \/ UNCHANGED mutex /\ (t.pc \in Holding <=> call[c].pc \in Holding)
     \/ mutex = Free /\ mutex' = c /\ t.pc \in Holding
     \/ mutex = c /\ mutex' = Free /\ t.pc \notin Holding

LEMMA MovesTyped ==
  ASSUME Typed, NEW c \in Caller, NEW t, Well(t), Moves(c, t)
  PROVE  /\ call' \in [Caller -> Call] /\ \A e \in Caller : Steps(call'[e])
         /\ mutex' \in Caller \cup {Free}
         /\ \A e \in Caller : call'[e].pc \in Holding <=> mutex' = e
<1>1. call' \in [Caller -> Call] /\ \A e \in Caller : Steps(call'[e])
  BY DEF Typed, TypeOK, Well, Moves
<1>2. call'[c] = t /\ \A e \in Caller : e # c => call'[e] = call[e]
  BY DEF Typed, TypeOK, Moves
<1>3. \A e \in Caller : call[e].pc \in Holding <=> mutex = e
  BY DEF Typed, TypeOK, Holding
<1>4. mutex' \in Caller \cup {Free}
  BY DEF Typed, TypeOK, Moves
<1>5. \A e \in Caller : call'[e].pc \in Holding <=> mutex' = e
  BY <1>2, <1>3, FreeAssumption DEF Moves
<1>6. QED
  BY <1>1, <1>4, <1>5

\* The end of a call.
LEMMA FinishMoves ==
  ASSUME Typed, NEW c \in Caller, NEW r \in Result, Finish(c, r), call[c].pc # "idle"
  PROVE  LET t == [call[c] EXCEPT !.pc = "reply", !.result = r]
         IN  Well(t) /\ Moves(c, t)
<1> DEFINE t == [call[c] EXCEPT !.pc = "reply", !.result = r]
<1>0. call[c] \in Call /\ Steps(call[c]) /\ (call[c].pc \in Holding <=> mutex = c)
  BY DEF Typed, TypeOK, Holding
<1>1. Well(t)
  <2>1. t \in Call /\ t.pc = "reply" /\ t.files = call[c].files /\ t.decl = call[c].decl
    BY <1>0 DEF Call, Phase
  <2>2. t.decl \in File
    BY <1>0, <2>1 DEF Steps
  <2>3. QED
    BY <1>0, <2>1, <2>2 DEF Well, Steps
<1>2. call' = [call EXCEPT ![c] = t]
  BY DEF Finish, Typed, TypeOK
<1>3. t.pc \notin Holding
  BY <1>0 DEF Call, Holding
<1>4. QED
  BY <1>0, <1>1, <1>2, <1>3 DEF Finish, Moves

\* Going on to another phase.
LEMMA GotoMoves ==
  ASSUME Typed, NEW c \in Caller, NEW phase \in Phase, Goto(c, phase), UNCHANGED mutex,
         phase \in Holding <=> call[c].pc \in Holding
  PROVE  LET t == [call[c] EXCEPT !.pc = phase]
         IN  t \in Call /\ Moves(c, t)
<1> DEFINE t == [call[c] EXCEPT !.pc = phase]
<1>0. call[c] \in Call /\ Steps(call[c])
  BY DEF Typed, TypeOK
<1>1. t \in Call /\ t.pc = phase
  BY <1>0 DEF Call
<1>2. call' = [call EXCEPT ![c] = t]
  BY DEF Goto, Typed, TypeOK
<1>3. QED
  BY <1>1, <1>2 DEF Moves

\* What is not in the calls.
Shared ==
  /\ session \in BOOLEAN /\ indexed \in BOOLEAN
  /\ known \in [File -> [version : Nat, text : Text \cup {Garbled, NoFile}]]
  /\ nextId \in Nat
  /\ server \in {"none", "up", "silent", "dead"}
  /\ view \in Map /\ open \subseteq File /\ ignored \subseteq File
  /\ inbox \in Seq(Message) /\ outbox \in Seq(Answer)

LEMMA TypedShared == Typed => Shared
BY DEF Typed, TypeOK, Shared

\* A step of one call.
LEMMA CallStep ==
  ASSUME Typed, NEW c \in Caller, NEW t, Well(t), Moves(c, t), Shared'
  PROVE  Typed'
<1>1. /\ call' \in [Caller -> Call] /\ \A e \in Caller : Steps(call'[e])
      /\ mutex' \in Caller \cup {Free}
      /\ \A e \in Caller : call'[e].pc \in Holding <=> mutex' = e
  BY MovesTyped
<1>2. QED
  BY <1>1 DEF Typed, TypeOK, Shared, Holding

\* A step that leaves the calls and the mutex alone.
LEMMA SharedStep ==
  ASSUME Typed, UNCHANGED <<call, mutex>>, Shared'
  PROVE  Typed'
BY DEF Typed, TypeOK, Shared, Steps, In

LEMMA NoCallWell == Well(NoCall) /\ NoCall.pc = "idle" /\ Note \in Answer /\ Missing \in Map
BY TriesAssumption
   DEF Well, NoCall, Call, Steps, Phase, Result, Answer, Note, Missing, Map, In

LEMMA TypedInit == Init => Typed
<1> SUFFICES ASSUME Init PROVE Typed
  OBVIOUS
<1>1. known \in [File -> [version : Nat, text : Text \cup {Garbled, NoFile}]]
  BY DEF Init, Unknown
<1>2. inbox \in Seq(Message) /\ outbox \in Seq(Answer)
  BY EmptySeq, Zenon DEF Init
<1>3. Shared
  BY <1>1, <1>2, NoCallWell DEF Init, Shared
<1>4. call \in [Caller -> Call] /\ \A c \in Caller : Steps(call[c]) /\ call[c].pc = "idle"
  BY NoCallWell DEF Init, Well
<1>5. mutex = Free
  BY DEF Init
<1>6. QED
  BY <1>3, <1>4, <1>5, FreeAssumption DEF Typed, TypeOK, Shared

\* What a step needs to know of its own call.
LEMMA Own ==
  ASSUME Typed, NEW c \in Caller
  PROVE  /\ call[c] \in Call /\ Steps(call[c]) /\ Shared
         /\ (call[c].pc \in Holding <=> mutex = c)
BY TypedShared DEF Typed, TypeOK, Holding

LEMMA AskedWell ==
  ASSUME NEW files \in [File -> Text \cup {NoFile}], NEW decl \in In(files)
  PROVE  Well(Asked(files, decl)) /\ Asked(files, decl).pc = "lookup"
<1>1. NoCall \in Call /\ Steps(NoCall) /\ NoCall.tries = 0 /\ NoCall.result = "none"
  BY NoCallWell DEF Well, NoCall
<1>2. decl \in File /\ Asked(files, decl) \in Call
  BY <1>1 DEF Asked, Call, Phase, In, Map
<1>3. /\ Asked(files, decl).pc = "lookup" /\ Asked(files, decl).files = files
      /\ Asked(files, decl).decl = decl /\ Asked(files, decl).tries = 0
      /\ Asked(files, decl).result = "none"
  BY <1>1 DEF Asked, Call
<1>4. QED
  BY <1>2, <1>3 DEF Well, Steps

LEMMA ResolveTyped == ASSUME Typed, NEW c \in Caller, Resolve(c) PROVE Typed'
<1>1. PICK files \in [File -> Text \cup {NoFile}] :
        \E decl \in In(files) : call' = [call EXCEPT ![c] = Asked(files, decl)]
  BY DEF Resolve
<1>2. PICK decl \in In(files) : call' = [call EXCEPT ![c] = Asked(files, decl)]
  BY <1>1
<1>3. Moves(c, Asked(files, decl))
  BY <1>2, AskedWell DEF Resolve, Moves, Holding
<1>4. Shared'
  BY Own DEF Resolve, Shared, child
<1>5. QED
  BY <1>3, <1>4, AskedWell, CallStep

\* Before the session is locked a phase follows another with nothing else to gain.
LEMMA PoolStep ==
  ASSUME Typed, NEW c \in Caller, NEW phase \in {"create", "lock", "spawn"}, Goto(c, phase),
         call[c].pc \in {"lookup", "create", "spawn"}, UNCHANGED mutex, Shared'
  PROVE  Typed'
<1> DEFINE t == [call[c] EXCEPT !.pc = phase]
<1>1. t \in Call /\ Moves(c, t)
  BY GotoMoves DEF Phase, Holding
<1>2. Well(t)
  BY Own, <1>1 DEF Well, Steps, Call
<1>3. QED
  BY <1>1, <1>2, CallStep

LEMMA LookupTyped == ASSUME Typed, NEW c \in Caller, Lookup(c) PROVE Typed'
<1>1. Shared'
  BY Own DEF Lookup, Shared, child
<1>2. QED
  BY <1>1, PoolStep DEF Lookup

LEMMA CreateTyped == ASSUME Typed, NEW c \in Caller, Create(c) PROVE Typed'
<1>1. Shared'
  BY Own DEF Create, Shared, child
<1>2. QED
  BY <1>1, PoolStep DEF Create

LEMMA SpawnTyped == ASSUME Typed, NEW c \in Caller, Spawn(c) PROVE Typed'
<1>1. call[c].files \in Map
  BY Own DEF Steps, Map
<1>2. known' \in [File -> [version : Nat, text : Text \cup {Garbled, NoFile}]]
  BY <1>1 DEF Spawn, Map
<1>3. inbox' \in Seq(Message) /\ outbox' \in Seq(Answer)
  BY EmptySeq, Zenon DEF Spawn
<1>4. Shared'
  BY <1>1, <1>2, <1>3, Own DEF Spawn, Shared
<1>5. QED
  BY <1>4, PoolStep DEF Spawn

\* A call ends.
LEMMA FinishTyped ==
  ASSUME Typed, NEW c \in Caller, NEW r \in Result, Finish(c, r), call[c].pc # "idle", Shared'
  PROVE  Typed'
<1> DEFINE t == [call[c] EXCEPT !.pc = "reply", !.result = r]
<1>1. Well(t) /\ Moves(c, t)
  BY FinishMoves, Zenon
<1>2. QED
  BY <1>1, CallStep

LEMMA SpawnFailsTyped == ASSUME Typed, NEW c \in Caller, SpawnFails(c) PROVE Typed'
<1>1. PICK r \in Result : Finish(c, r)
  BY DEF SpawnFails, Result
<1>2. Shared'
  BY Own DEF SpawnFails, Shared, child
<1>3. QED
  BY <1>1, <1>2, FinishTyped DEF SpawnFails

LEMMA ReplyTyped == ASSUME Typed, NEW c \in Caller, Reply(c) PROVE Typed'
<1>1. Moves(c, NoCall)
  BY NoCallWell DEF Reply, Moves, Holding
<1>2. Shared'
  BY Own DEF Reply, Shared, child
<1>3. QED
  BY <1>1, <1>2, NoCallWell, CallStep

\* What a step adds to a pipe or takes from it.
LEMMA Pipes ==
  ASSUME NEW M, NEW pipe \in Seq(M)
  PROVE  /\ \A m \in M : Append(pipe, m) \in Seq(M)
         /\ pipe # <<>> => Head(pipe) \in M /\ Tail(pipe) \in Seq(M)
OBVIOUS

LEMMA LockTyped == ASSUME Typed, NEW c \in Caller, Lock(c) PROVE Typed'
<1> DEFINE phase == IF call[c].pc = "lock" THEN "sync" ELSE "ack"
           todo == IF call[c].pc = "lock" THEN In(call[c].files) ELSE In(call[c].out)
           t == [call[c] EXCEPT !.pc = phase, !.todo = todo]
<1>1. phase \in Phase /\ todo \in SUBSET File
  BY DEF Phase, In
<1>2. call' = [call EXCEPT ![c] = t] /\ call[c].pc \in {"lock", "relock"}
  BY DEF Lock, Typed, TypeOK
<1>3. phase \in {"sync", "ack"} /\ (phase = "sync" => todo = In(call[c].files) /\ call[c].pc = "lock")
      /\ (phase = "ack" => todo = In(call[c].out))
  BY <1>2
<1> HIDE DEF phase, todo
<1>4. t \in Call /\ t.pc = phase
  BY Own, <1>1 DEF Call
<1>5. Well(t)
  BY Own, <1>2, <1>3, <1>4 DEF Well, Steps, Call
<1>6. Moves(c, t)
  BY <1>2, <1>3, <1>4 DEF Lock, Moves, Holding
<1>7. Shared'
  BY Own DEF Lock, Shared, child
<1>8. QED
  BY <1>5, <1>6, <1>7, CallStep

\* The file a sync has come to, and the text it is to have.
LEMMA Walked ==
  ASSUME Typed, NEW c \in Caller, call[c].pc \in {"sync", "ack"}, call[c].todo # {}
  PROVE  LET f == First(call[c].todo)
         IN  f \in File /\ f \in call[c].todo /\ Wanted(c)[f] \in Text \cup {Garbled}
<1> DEFINE f == First(call[c].todo)
<1>1. f \in File /\ f \in call[c].todo
  BY Own, FirstIn DEF Call
<1>2. Wanted(c) \in Map /\ Wanted(c)[f] # NoFile
  BY Own, <1>1 DEF Call, Steps, Wanted, In
<1>3. QED
  BY <1>1, <1>2 DEF Map

LEMMA SyncFileTyped == ASSUME Typed, NEW c \in Caller, SyncFile(c) PROVE Typed'
<1> DEFINE f == First(call[c].todo)  text == Wanted(c)[f]
           new == [version |-> known[f].version + 1, text |-> text]
           m == Notification(f, new)
           t == [call[c] EXCEPT !.todo = @ \ {f}]
<1>1. call[c].pc \in {"sync", "ack"} /\ call[c].todo # {}
  BY DEF SyncFile
<1>2. f \in File /\ f \in call[c].todo /\ text \in Text \cup {Garbled}
  BY <1>1, Walked
<1>3. new \in [version : Nat, text : Text \cup {Garbled, NoFile}] /\ m \in Message
  BY <1>2, Own DEF Shared, Message, Notification, Document
<1>4. [known EXCEPT ![f] = new] \in [File -> [version : Nat, text : Text \cup {Garbled, NoFile}]]
  BY <1>2, <1>3, Own DEF Shared
<1>5. Append(inbox, m) \in Seq(Message)
  BY <1>3, Own, Pipes DEF Shared
<1>6. Well(t) /\ t.pc = call[c].pc
  BY Own, <1>1 DEF Well, Steps, Call
<1>7. ASSUME Advance(c, f), UNCHANGED mutex, Shared' PROVE Typed'
  <2>1. Moves(c, t)
    BY <1>6, <1>7 DEF Advance, Moves, Typed, TypeOK
  <2>2. QED
    BY <1>6, <1>7, <2>1, CallStep
<1>8. ASSUME SyncError(c), Shared' PROVE Typed'
  BY <1>1, <1>8, FinishTyped DEF SyncError, Result
<1>9. UNCHANGED <<session, nextId, server, view, open, ignored, indexed, outbox>>
  BY DEF SyncFile, child
<1>10. Shared'
  <2>1. known' = known \/ known' = [known EXCEPT ![f] = new]
    BY DEF SyncFile
  <2>2. inbox' = inbox \/ inbox' = Append(inbox, m)
    BY DEF SyncFile
  <2>3. QED
    BY <1>4, <1>5, <1>9, <2>1, <2>2, Own DEF Shared
<1>11. (Advance(c, f) /\ UNCHANGED mutex) \/ SyncError(c)
  BY DEF SyncFile
<1>12. QED
  BY <1>7, <1>8, <1>10, <1>11

LEMMA SyncDoneTyped == ASSUME Typed, NEW c \in Caller, SyncDone(c) PROVE Typed'
<1>1. Shared'
  BY Own DEF SyncDone, Shared, child
<1>2. CASE call[c].pc = "sync"
  <2> DEFINE t == [call[c] EXCEPT !.pc = "send"]
  <2>1. t \in Call /\ Moves(c, t)
    BY <1>2, GotoMoves DEF SyncDone, Phase, Holding
  <2>2. Well(t)
    BY Own, <1>2, <2>1, TriesAssumption DEF Well, Steps, Call
  <2>3. QED
    BY <1>1, <2>1, <2>2, CallStep
<1>3. CASE call[c].pc = "ack"
  BY <1>1, <1>3, FinishTyped DEF SyncDone, Result
<1>4. QED
  BY <1>2, <1>3 DEF SyncDone

LEMMA SendTyped == ASSUME Typed, NEW c \in Caller, Send(c) PROVE Typed'
<1> DEFINE m == [kind |-> "rename", file |-> call[c].decl, id |-> nextId]
           t == [call[c] EXCEPT !.pc = "await", !.id = nextId, !.tries = @ + 1]
<1>1. m \in Message
  BY Own DEF Send, Message, Shared, Steps
<1>2. Append(inbox, m) \in Seq(Message)
  BY <1>1, Own, Pipes DEF Shared
<1>3. call[c].tries + 1 \in 0..MaxTries
  BY Own, TriesAssumption DEF Send, Steps, Call
<1>4. t \in Call /\ t.pc = "await"
  BY Own, <1>3 DEF Shared, Call, Phase
<1>5. Well(t)
  BY Own, <1>4 DEF Send, Well, Steps, Call
<1>6. Shared'
  <2>1. inbox' = inbox \/ inbox' = Append(inbox, m)
    BY DEF Send
  <2>2. inbox' \in Seq(Message)
    BY <1>2, <2>1, Own DEF Shared
  <2>3. nextId' \in Nat
    BY Own DEF Send, Shared
  <2>4. QED
    BY <2>2, <2>3, Own DEF Send, Shared, child
<1>7. CASE PipeOpen
  <2>1. Moves(c, t)
    BY <1>4, <1>7 DEF Send, Moves, Holding, Typed, TypeOK
  <2>2. QED
    BY <1>5, <1>6, <2>1, CallStep
<1>8. CASE ~ PipeOpen
  BY <1>6, <1>8, FinishTyped DEF Send, Result
<1>9. QED
  BY <1>7, <1>8

\* An answer is taken from the child's stdout.
LEMMA TakenShared ==
  ASSUME Typed, outbox # <<>>, outbox' = Tail(outbox),
         UNCHANGED <<session, known, nextId, child, inbox>>
  PROVE  Shared' /\ Head(outbox) \in Answer
<1>1. outbox \in Seq(Answer)
  BY TypedShared DEF Shared
<1>2. outbox' \in Seq(Answer) /\ Head(outbox) \in Answer
  BY <1>1, Pipes
<1>3. QED
  BY <1>2, TypedShared DEF Shared, child

LEMMA SkipTyped == ASSUME Typed, NEW c \in Caller, Skip(c) PROVE Typed'
<1>1. Shared'
  BY TakenShared DEF Skip
<1>2. CASE UNCHANGED <<call, mutex>>
  BY <1>1, <1>2, SharedStep
<1>3. CASE Finish(c, "client")
  BY <1>1, <1>3, FinishTyped DEF Result, Skip
<1>4. QED
  BY <1>2, <1>3 DEF Skip

LEMMA ReceiveTyped == ASSUME Typed, NEW c \in Caller, Receive(c) PROVE Typed'
<1> DEFINE m == Head(outbox)
<1>1. Shared' /\ m \in Answer /\ call[c].pc = "await"
  BY TakenShared DEF Receive
<1>2. CASE call' = [call EXCEPT ![c].pc = "edit", ![c].edit = m] /\ mutex' = Free
  <2> DEFINE t == [call[c] EXCEPT !.pc = "edit", !.edit = m]
  <2> HIDE DEF m
  <2>1. t \in Call /\ t.pc = "edit"
    BY Own, <1>1 DEF Call, Phase
  <2>2. Well(t)
    BY Own, <1>1, <2>1 DEF Well, Steps, Call
  <2>3. Moves(c, t)
    BY <1>1, <1>2, <2>1, Own DEF Moves, Holding, Typed, TypeOK
  <2>4. QED
    BY <1>1, <2>2, <2>3, CallStep
<1>3. CASE Goto(c, "send") /\ UNCHANGED mutex /\ call[c].tries < MaxTries
  <2> DEFINE t == [call[c] EXCEPT !.pc = "send"]
  <2>1. t \in Call /\ Moves(c, t)
    BY <1>1, <1>3, GotoMoves DEF Phase, Holding
  <2>2. Well(t)
    BY Own, <1>1, <1>3, <2>1 DEF Well, Steps, Call
  <2>3. QED
    BY <1>1, <2>1, <2>2, CallStep
<1>4. CASE Finish(c, "client")
  BY <1>1, <1>4, FinishTyped DEF Result
<1>5. QED
  BY <1>2, <1>3, <1>4 DEF Receive

LEMMA EndOfStreamTyped == ASSUME Typed, NEW c \in Caller, EndOfStream(c) PROVE Typed'
<1>1. Shared'
  BY Own DEF EndOfStream, Shared, child
<1>2. QED
  BY <1>1, FinishTyped DEF EndOfStream, Result

\* What the edit's texts make of the caller's files.
LEMMA ApplyEditTyped == ASSUME Typed, NEW c \in Caller, ApplyEdit(c) PROVE Typed'
<1> DEFINE changes == call[c].edit.changes
           out == [f \in File |->
                     IF f \notin In(changes) THEN call[c].files[f]
                     ELSE IF changes[f] = call[c].files[f] THEN Renamed[call[c].files[f]]
                     ELSE Garbled]
           t == [call[c] EXCEPT !.pc = "relock", !.out = out]
<1>1. Shared'
  BY Own DEF ApplyEdit, Shared, child
<1>2. CASE Finish(c, "unknown_target")
  BY <1>1, <1>2, FinishTyped DEF Result, ApplyEdit
<1>3. CASE /\ \A f \in In(changes) : call[c].files[f] # NoFile
           /\ call' = [call EXCEPT ![c].pc = "relock", ![c].out = out]
           /\ UNCHANGED mutex
  <2>1. out \in Map
    <3>1. ASSUME NEW f \in File PROVE out[f] \in Text \cup {Garbled, NoFile}
      <4>1. call[c].files[f] \in Text \cup {NoFile}
        BY Own DEF Steps
      <4>2. f \in In(changes) => Renamed[call[c].files[f]] \in Text
        BY <1>3, <4>1, RenamedAssumption
      <4>3. QED
        BY <4>1, <4>2
    <3>2. QED
      BY <3>1 DEF Map
  <2> HIDE DEF out
  <2>2. call[c].pc = "edit" /\ call' = [call EXCEPT ![c] = t]
    BY <1>3 DEF ApplyEdit, Typed, TypeOK
  <2>3. t \in Call /\ t.pc = "relock"
    BY Own, <2>1 DEF Call, Phase
  <2>4. Well(t)
    BY Own, <2>2, <2>3 DEF Well, Steps, Call
  <2>5. Moves(c, t)
    BY <1>3, <2>2, <2>3 DEF Moves, Holding
  <2>6. QED
    BY <1>1, <2>4, <2>5, CallStep
<1>4. QED
  BY <1>2, <1>3 DEF ApplyEdit

\* The child's steps.
LEMMA TakeDocumentTyped == ASSUME Typed, TakeDocument PROVE Typed'
<1>1. Shared /\ inbox # <<>>
  BY TypedShared DEF TakeDocument
<1>2. Head(inbox) \in Message /\ Tail(inbox) \in Seq(Message)
  BY <1>1, Pipes DEF Shared
<1>3. view' \in Map
  BY <1>1, <1>2 DEF TakeDocument, Shared, Message, Map
<1>4. open' \subseteq File /\ ignored' \subseteq File
  <2>1. Head(inbox).file \in File
    BY <1>2 DEF Message
  <2>2. QED
    BY <1>1, <2>1 DEF TakeDocument, Shared
<1>5. Shared'
  <2>1. UNCHANGED <<session, known, nextId, server, indexed, outbox>> /\ inbox' = Tail(inbox)
    BY DEF TakeDocument
  <2>2. QED
    BY <1>1, <1>2, <1>3, <1>4, <2>1 DEF Shared
<1>6. QED
  BY <1>5, SharedStep DEF TakeDocument

\* What the child says to a rename.
Saying(id, signal) == [Note EXCEPT !.id = id, !.signal = signal]
Editing(id, form) ==
  IF form = "changes" THEN [Note EXCEPT !.id = id, !.signal = "ready", !.changes = Occurrences]
  ELSE [Note EXCEPT !.id = id, !.signal = "ready", !.documentChanges = Occurrences]

LEMMA AnswersTyped ==
  ASSUME Typed, NEW id \in Nat
  PROVE  /\ \A form \in Forms : Editing(id, form) \in Answer
         /\ \A signal \in {"ready", "not_ready", "hard"} : Saying(id, signal) \in Answer
<1>1. Occurrences \in Map
  BY TypedShared DEF Shared, Map, Occurrences
<1>2. Missing \in Map
  BY NoCallWell
<1> QED
  BY <1>1, <1>2 DEF Editing, Saying, Answer, Note

LEMMA TakeRenameTyped == ASSUME Typed, TakeRename PROVE Typed'
<1> DEFINE m == Head(inbox)
<1>1. Shared /\ inbox # <<>> /\ m.kind = "rename"
  BY TypedShared DEF TakeRename
<1>2. m \in Message /\ inbox' \in Seq(Message)
  BY <1>1, Pipes DEF Shared, TakeRename
<1>3. m.id \in Nat
  BY <1>1, <1>2 DEF Message
<1>4. \/ \E form \in Forms : outbox' = Append(outbox, Editing(m.id, form))
      \/ \E signal \in {"ready", "not_ready", "hard"} : outbox' = Append(outbox, Saying(m.id, signal))
  BY DEF TakeRename, Editing, Saying, Note
<1>5. outbox' \in Seq(Answer)
  <2>1. PICK a \in Answer : outbox' = Append(outbox, a)
    BY <1>3, <1>4, AnswersTyped, Zenon
  <2>2. QED
    BY <1>1, <2>1, Pipes DEF Shared
<1>6. Shared'
  BY <1>1, <1>2, <1>5 DEF TakeRename, Shared, child
<1>7. QED
  BY <1>6, SharedStep DEF TakeRename

LEMMA ChildTyped ==
  ASSUME Typed, Index \/ Chatter \/ Lose \/ Quiet
  PROVE  Typed'
<1>0. Shared
  BY TypedShared
<1>1. CASE Index
  BY <1>0, <1>1, SharedStep DEF Index, Shared
<1>2. CASE Chatter
  <2>1. outbox' \in Seq(Answer)
    BY <1>0, <1>2, NoCallWell, Pipes DEF Chatter, Shared
  <2>2. QED
    BY <1>0, <1>2, <2>1, SharedStep DEF Chatter, Shared, child
<1>3. CASE Lose
  BY <1>0, <1>3, LossesAssumption, SharedStep DEF Lose, Shared
<1>4. CASE Quiet
  BY <1>0, <1>4, SharedStep DEF Quiet, vars, child, bounds, Shared
<1>5. QED
  BY <1>1, <1>2, <1>3, <1>4

LEMMA TypedStep == Typed /\ [Next]_vars => Typed'
<1> SUFFICES ASSUME Typed, [Next]_vars PROVE Typed'
  OBVIOUS
<1>1. ASSUME NEW c \in Caller, Resolve(c) \/ Work(c) PROVE Typed'
  BY <1>1, ResolveTyped, LookupTyped, CreateTyped, SpawnTyped, SpawnFailsTyped, LockTyped,
     SyncFileTyped, SyncDoneTyped, SendTyped, SkipTyped, ReceiveTyped, EndOfStreamTyped,
     ApplyEditTyped, ReplyTyped DEF Work
<1>2. CASE TakeDocument \/ TakeRename
  BY <1>2, TakeDocumentTyped, TakeRenameTyped
<1>3. CASE Index \/ Chatter \/ Lose \/ Quiet
  BY <1>3, ChildTyped
<1>4. CASE UNCHANGED vars
  BY <1>4, TypedShared, SharedStep DEF vars, child, bounds, Shared
<1>5. QED
  BY <1>1, <1>2, <1>3, <1>4 DEF Next, Serve

LEMMA AlwaysTyped == Spec => []Typed
BY TypedInit, TypedStep, PTL DEF Spec

\* Every variable keeps its type, and the mutex is held exactly through the phases that use
\* the session (ra_pool.rs:68-146).
THEOREM TypeCorrect == Spec => []TypeOK
<1>1. Typed => TypeOK
  BY DEF Typed
<1>2. QED
  BY <1>1, AlwaysTyped, PTL

-----------------------------------------------------------------------------
(* One session. *)

Early == {"idle", "lookup", "create", "spawn", "reply"}

\* The map is free once it has a session, at most one thread is spawning one, and until
\* there is one no call has got further.
Pooled ==
  /\ session => MapFree
  /\ \A c, e \in Caller : call[c].pc = "spawn" /\ call[e].pc = "spawn" => c = e
  /\ ~ session => \A c \in Caller : call[c].pc \in Early

LEMMA PooledInit == Init => Pooled
BY DEF Init, Pooled, MapFree, NoCall, Early

\* A step of one call that leaves the map alone.
LEMMA PooledMove ==
  ASSUME Typed, Pooled, NEW c \in Caller, NEW t,
         call' = [call EXCEPT ![c] = t] \/ UNCHANGED call,
         UNCHANGED session,
         call' # call => t.pc # "spawn" /\ (session \/ t.pc \in Early)
  PROVE  Pooled'
<1>1. CASE UNCHANGED call
  BY <1>1 DEF Pooled, MapFree
<1>2. CASE call' # call
  <2>1. call'[c] = t /\ \A e \in Caller : e # c => call'[e] = call[e]
    BY <1>2 DEF Typed, TypeOK
  <2>2. QED
    BY <1>2, <2>1 DEF Pooled, MapFree
<1>3. QED
  BY <1>1, <1>2

\* A call that has got further has a session.
LEMMA HasSession ==
  ASSUME Pooled, NEW c \in Caller, call[c].pc \notin Early
  PROVE  session
BY DEF Pooled

\* A move to a phase.
LEMMA PooledGoto ==
  ASSUME Typed, Pooled, NEW c \in Caller, NEW phase, Goto(c, phase), UNCHANGED session,
         phase # "spawn", session \/ phase \in Early
  PROVE  Pooled'
<1> DEFINE t == [call[c] EXCEPT !.pc = phase]
<1>1. call' = [call EXCEPT ![c] = t] /\ t.pc = phase
  BY Own DEF Goto, Typed, TypeOK, Call
<1>2. QED
  BY <1>1, PooledMove

LEMMA PooledFinish ==
  ASSUME Typed, Pooled, NEW c \in Caller, NEW r, Finish(c, r), UNCHANGED session
  PROVE  Pooled'
<1> DEFINE t == [call[c] EXCEPT !.pc = "reply", !.result = r]
<1>1. call' = [call EXCEPT ![c] = t] /\ t.pc = "reply"
  BY Own DEF Finish, Typed, TypeOK, Call
<1>2. QED
  BY <1>1, PooledMove DEF Early

LEMMA PooledWork ==
  ASSUME Typed, Pooled, NEW c \in Caller, Work(c)
  PROVE  Pooled'
<1> USE DEF Early
<1>1. CASE Lookup(c)
  BY <1>1, PooledGoto DEF Lookup
<1>2. CASE Create(c)
  <2>1. CASE session
    BY <1>2, <2>1, PooledGoto DEF Create
  <2>2. CASE ~ session
    <3>1. call'[c].pc = "spawn" /\ \A e \in Caller : e # c => call'[e] = call[e]
      BY <1>2, <2>2, Own DEF Create, Goto, Typed, TypeOK, Call
    <3>2. MapFree /\ session' = session
      BY <1>2 DEF Create
    <3>3. QED
      BY <2>2, <3>1, <3>2 DEF Pooled, MapFree
  <2>3. QED
    BY <2>1, <2>2
<1>3. CASE Spawn(c)
  <2>1. call'[c].pc = "lock" /\ \A e \in Caller : e # c => call'[e] = call[e]
    BY <1>3, Own DEF Spawn, Goto, Typed, TypeOK, Call
  <2>2. session' /\ call[c].pc = "spawn"
    BY <1>3 DEF Spawn
  <2>3. QED
    BY <2>1, <2>2 DEF Pooled, MapFree
<1>4. CASE SpawnFails(c)
  BY <1>4, PooledFinish DEF SpawnFails
<1>5. CASE Lock(c)
  <2> DEFINE phase == IF call[c].pc = "lock" THEN "sync" ELSE "ack"
             todo == IF call[c].pc = "lock" THEN In(call[c].files) ELSE In(call[c].out)
             t == [call[c] EXCEPT !.pc = phase, !.todo = todo]
  <2>1. phase # "spawn"
    OBVIOUS
  <2>2. call' = [call EXCEPT ![c] = t]
    BY <1>5 DEF Lock, Typed, TypeOK
  <2> HIDE DEF phase, todo
  <2>3. t.pc = phase
    BY Own DEF Call
  <2>4. QED
    BY <1>5, <2>1, <2>2, <2>3, PooledMove, HasSession DEF Lock
<1>6. CASE SyncFile(c)
  <2> DEFINE f == First(call[c].todo)
             t == [call[c] EXCEPT !.todo = @ \ {f}]
  <2>1. (Advance(c, f) \/ SyncError(c)) /\ UNCHANGED session /\ call[c].pc \in {"sync", "ack"}
    BY <1>6 DEF SyncFile
  <2> HIDE DEF f
  <2>2. CASE Advance(c, f)
    <3>1. call' = [call EXCEPT ![c] = t] /\ t.pc = call[c].pc
      BY <2>2, Own DEF Advance, Typed, TypeOK, Call
    <3>2. QED
      BY <2>1, <3>1, PooledMove, HasSession
  <2>3. CASE SyncError(c)
    BY <2>1, <2>3, PooledFinish DEF SyncError
  <2>4. QED
    BY <2>1, <2>2, <2>3
<1>7. CASE SyncDone(c)
  <2>1. UNCHANGED session /\ call[c].pc \in {"sync", "ack"} /\ (Goto(c, "send") \/ Finish(c, "ok"))
    BY <1>7 DEF SyncDone
  <2>2. QED
    BY <2>1, HasSession, PooledGoto, PooledFinish
<1>8. CASE Send(c)
  <2> DEFINE t == [call[c] EXCEPT !.pc = "await", !.id = nextId, !.tries = @ + 1]
  <2>1. UNCHANGED session /\ call[c].pc = "send"
        /\ (call' = [call EXCEPT ![c] = t] \/ Finish(c, "client"))
    BY <1>8 DEF Send, Typed, TypeOK
  <2>2. t.pc = "await"
    BY Own DEF Call
  <2>3. QED
    BY <2>1, <2>2, HasSession, PooledMove, PooledFinish
<1>9. CASE Skip(c)
  <2>1. UNCHANGED session /\ (UNCHANGED call \/ Finish(c, "client"))
    BY <1>9 DEF Skip
  <2>2. QED
    BY <2>1, PooledMove, PooledFinish
<1>10. CASE Receive(c)
  <2> DEFINE m == Head(outbox)  t == [call[c] EXCEPT !.pc = "edit", !.edit = m]
  <2>1. UNCHANGED session /\ call[c].pc = "await"
        /\ (call' = [call EXCEPT ![c] = t] \/ Goto(c, "send") \/ Finish(c, "client"))
    BY <1>10 DEF Receive, Typed, TypeOK
  <2> HIDE DEF m
  <2>2. t.pc = "edit"
    BY Own DEF Call
  <2>3. QED
    BY <2>1, <2>2, HasSession, PooledMove, PooledGoto, PooledFinish
<1>11. CASE EndOfStream(c)
  BY <1>11, PooledFinish DEF EndOfStream
<1>12. CASE ApplyEdit(c)
  <2>1. PICK out : (call' = [call EXCEPT ![c].pc = "relock", ![c].out = out])
                   \/ Finish(c, "unknown_target")
    BY <1>12, Zenon DEF ApplyEdit
  <2> DEFINE t == [call[c] EXCEPT !.pc = "relock", !.out = out]
  <2>2. t.pc = "relock" /\ call[c].pc = "edit" /\ UNCHANGED session
    BY <1>12, Own DEF ApplyEdit, Call
  <2>3. call' = [call EXCEPT ![c] = t] \/ Finish(c, "unknown_target")
    BY <2>1 DEF Typed, TypeOK
  <2>4. QED
    BY <2>2, <2>3, HasSession, PooledMove, PooledFinish
<1>13. CASE Reply(c)
  BY <1>13, PooledMove, NoCallWell DEF Reply
<1>14. QED
  BY <1>1, <1>2, <1>3, <1>4, <1>5, <1>6, <1>7, <1>8, <1>9, <1>10, <1>11, <1>12, <1>13 DEF Work

LEMMA PooledStep == Typed /\ Pooled /\ [Next]_vars => Pooled'
<1> SUFFICES ASSUME Typed, Pooled, [Next]_vars PROVE Pooled'
  OBVIOUS
<1>1. ASSUME NEW c \in Caller, Resolve(c) PROVE Pooled'
  <2>1. PICK files \in [File -> Text \cup {NoFile}] :
          \E decl \in In(files) : call' = [call EXCEPT ![c] = Asked(files, decl)]
    BY <1>1 DEF Resolve
  <2>2. PICK decl \in In(files) : call' = [call EXCEPT ![c] = Asked(files, decl)]
    BY <2>1
  <2>3. QED
    BY <1>1, <2>2, AskedWell, PooledMove DEF Resolve, Early
<1>2. CASE Serve \/ Chatter \/ Lose \/ Quiet \/ UNCHANGED vars
  <2>1. UNCHANGED <<session, call>>
    BY <1>2 DEF Serve, Index, TakeDocument, TakeRename, Chatter, Lose, Quiet, vars
  <2>2. QED
    BY <2>1 DEF Pooled, MapFree
<1>3. QED
  BY <1>1, <1>2, PooledWork DEF Next

\* One session per workspace, for any threads: while the map has one, no thread is spawning
\* another (ra_pool.rs:84-104).
THEOREM SingleSession == Spec => []OneSession
<1>1. Typed /\ Pooled => OneSession
  BY DEF Pooled, OneSession
<1>2. Spec => [](Typed /\ Pooled)
  BY TypedInit, TypedStep, PooledInit, PooledStep, PTL DEF Spec
<1>3. QED
  BY <1>1, <1>2, PTL

-----------------------------------------------------------------------------
(* What the child will have read. *)

\* A set of positions of a sequence that is not empty has a last one.
LEMMA LastOf ==
  ASSUME NEW n \in Nat, NEW S \in SUBSET (1..n), S # {}
  PROVE  Max(S) \in S /\ \A y \in S : y <= Max(S)
<1> DEFINE T == {n - x : x \in S}
<1>1. T \in SUBSET Nat /\ T # {}
  <2>1. \A x \in S : n - x \in Nat
    OBVIOUS
  <2>2. QED
    BY <2>1
<1>2. PICK z \in T : \A y \in T : z <= y
  BY <1>1, LeastNat
<1>3. PICK x \in S : z = n - x
  BY <1>2
<1>4. ASSUME NEW y \in S PROVE x >= y
  <2>1. n - x <= n - y
    BY <1>2, <1>3
  <2>2. QED
    BY <2>1
<1>5. Max(S) \in S /\ \A y \in S : Max(S) >= y
  BY <1>4 DEF Max
<1>6. QED
  BY <1>5

LEMMA LastIs ==
  ASSUME NEW n \in Nat, NEW S \in SUBSET (1..n), NEW x \in S, \A y \in S : y <= x
  PROVE  Max(S) = x
<1>1. Max(S) \in S /\ x <= Max(S)
  <2>1. S # {}
    OBVIOUS
  <2>2. QED
    BY <2>1, LastOf, Zenon
<1>2. \A y \in S : x <= y => y = x
  OBVIOUS
<1>3. QED
  BY <1>1, <1>2, Zenon

\* Queued and Delivered for any stdin and any documents.
Pending(box, f) == {i \in DOMAIN box : box[i].kind = "doc" /\ box[i].file = f}
Read(box, docs, f) == IF Pending(box, f) = {} THEN docs[f] ELSE box[Max(Pending(box, f))].text

LEMMA DeliveredIsRead ==
  \A f \in File : /\ Delivered(f) = Read(inbox, view, f)
                  /\ Delivered(f)' = Read(inbox', view', f)
BY DEF Delivered, Queued, Read, Pending

\* A document put in the pipe is the last word on its file, and on no other.
LEMMA ReadDoc ==
  ASSUME NEW box \in Seq(Message), NEW m \in Message, m.kind = "doc", NEW docs, NEW f
  PROVE  Read(Append(box, m), docs, f) = IF m.file = f THEN m.text ELSE Read(box, docs, f)
<1> DEFINE n == Len(box)  S == Pending(box, f)  R == Pending(Append(box, m), f)
<1>1. n \in Nat /\ S \in SUBSET (1..n) /\ R \in SUBSET (1..(n + 1)) /\ n + 1 \in Nat
  BY DEF Pending
<1>2. Append(box, m)[n + 1] = m /\ \A i \in 1..n : Append(box, m)[i] = box[i]
  OBVIOUS
<1>3. CASE m.file = f
  <2>1. n + 1 \in R /\ \A y \in R : y <= n + 1
    BY <1>1, <1>2, <1>3 DEF Pending
  <2>2. Max(R) = n + 1
    BY <1>1, <2>1, LastIs
  <2>3. QED
    BY <1>2, <1>3, <2>1, <2>2 DEF Read
<1>4. CASE m.file # f
  <2>1. R = S
    BY <1>1, <1>2, <1>4 DEF Pending
  <2>2. S # {} => Max(S) \in 1..n
    BY <1>1, LastOf
  <2>3. QED
    BY <1>2, <1>4, <2>1, <2>2 DEF Read
<1>5. QED
  BY <1>3, <1>4

\* A request is no document.
LEMMA ReadRename ==
  ASSUME NEW box \in Seq(Message), NEW m \in Message, m.kind = "rename", NEW docs, NEW f
  PROVE  Read(Append(box, m), docs, f) = Read(box, docs, f)
<1> DEFINE n == Len(box)  S == Pending(box, f)
<1>1. n \in Nat /\ S \in SUBSET (1..n)
  BY DEF Pending
<1>2. Append(box, m)[n + 1] = m /\ \A i \in 1..n : Append(box, m)[i] = box[i]
  OBVIOUS
<1>3. Pending(Append(box, m), f) = S
  BY <1>1, <1>2 DEF Pending
<1>4. S # {} => Max(S) \in 1..n
  BY <1>1, LastOf
<1>5. QED
  BY <1>2, <1>3, <1>4 DEF Read

\* What is left in the pipe when its first message has been read.
LEMMA PendingTail ==
  ASSUME NEW box \in Seq(Message), box # <<>>, NEW f
  PROVE  /\ \A i \in DOMAIN Tail(box) : i + 1 \in DOMAIN box /\ Tail(box)[i] = box[i + 1]
         /\ \A i \in DOMAIN box : i # 1 => i - 1 \in DOMAIN Tail(box)
         /\ \A i \in Pending(Tail(box), f) : i + 1 \in Pending(box, f)
         /\ \A i \in Pending(box, f) : i # 1 => i - 1 \in Pending(Tail(box), f)
<1>1. Len(box) \in Nat /\ Len(Tail(box)) = Len(box) - 1 /\ Tail(box) \in Seq(Message) /\ Len(box) # 0
  OBVIOUS
<1>2. \A i \in DOMAIN Tail(box) : i + 1 \in DOMAIN box /\ Tail(box)[i] = box[i + 1]
  BY <1>1
<1>3. \A i \in DOMAIN box : i # 1 => i - 1 \in DOMAIN Tail(box) /\ (i - 1) + 1 = i
  BY <1>1
<1>4. QED
  BY <1>2, <1>3 DEF Pending

LEMMA ReadTail ==
  ASSUME NEW box \in Seq(Message), box # <<>>, NEW docs, NEW more, NEW f,
         IF Head(box).kind = "doc" /\ Head(box).file = f THEN more[f] = Head(box).text
         ELSE more[f] = docs[f]
  PROVE  Read(Tail(box), more, f) = Read(box, docs, f)
<1> DEFINE n == Len(box)  S == Pending(box, f)  R == Pending(Tail(box), f)
<1>1. n \in Nat /\ S \in SUBSET (1..n) /\ R \in SUBSET (1..n)
  BY DEF Pending
<1>2. CASE R # {}
  <2>1. Max(R) \in R /\ \A y \in R : y <= Max(R)
    BY <1>1, <1>2, LastOf
  <2>2. Max(R) + 1 \in S /\ Tail(box)[Max(R)] = box[Max(R) + 1]
    BY <2>1, PendingTail DEF Pending
  <2>3. \A y \in S : y <= Max(R) + 1
    BY <1>1, <2>1, PendingTail
  <2>4. Max(S) = Max(R) + 1
    BY <1>1, <2>2, <2>3, LastIs
  <2>5. QED
    BY <1>2, <2>2, <2>4 DEF Read
<1>3. CASE R = {}
  <2>1. \A y \in S : y = 1
    BY <1>3, PendingTail
  <2>2. CASE S = {}
    <3>1. ~ (Head(box).kind = "doc" /\ Head(box).file = f)
      BY <2>2 DEF Pending
    <3>2. QED
      BY <1>3, <2>2, <3>1 DEF Read
  <2>3. CASE S # {}
    <3>1. 1 \in S /\ \A y \in S : y <= 1
      BY <2>1, <2>3
    <3>2. Max(S) = 1
      BY <1>1, <3>1, LastIs
    <3>3. box[1] = Head(box) /\ Head(box).kind = "doc" /\ Head(box).file = f
      BY <3>1 DEF Pending
    <3>4. QED
      BY <1>3, <2>3, <3>2, <3>3 DEF Read
  <2>4. QED
    BY <2>2, <2>3
<1>4. QED
  BY <1>2, <1>3

\* The document a sync puts in the pipe, and what is known from then on.
Sent(c) ==
  LET f == First(call[c].todo)
  IN  Notification(f, [version |-> known[f].version + 1, text |-> Wanted(c)[f]])
Learnt(m) == [known EXCEPT ![m.file] = [version |-> m.version, text |-> m.text]]

\* What one file of a sync does to the session.
LEMMA SyncEffect ==
  ASSUME Typed, NEW c \in Caller, SyncFile(c)
  PROVE  /\ Sent(c) \in Message /\ Sent(c).kind = "doc"
         /\ Sent(c).version = known[Sent(c).file].version + 1
         /\ UNCHANGED <<server, view, ignored, session, nextId, outbox>>
         /\ \/ UNCHANGED <<known, inbox>>
            \/ known' = Learnt(Sent(c)) /\ inbox' = Append(inbox, Sent(c)) /\ server # "dead"
            \/ known' = Learnt(Sent(c)) /\ UNCHANGED inbox /\ server = "dead"
<1>1. call[c].pc \in {"sync", "ack"} /\ call[c].todo # {}
  BY DEF SyncFile
<1>2. Sent(c) \in Message
  BY <1>1, Walked, Own DEF Sent, Notification, Document, Message, Shared
<1>3. QED
  BY <1>2 DEF SyncFile, Sent, Notification, Document, Learnt, child, PipeOpen

\* A step that touches neither what is known nor the pipe.
LEMMA KnownKept ==
  ASSUME KnownIsDelivered, UNCHANGED <<known, view, inbox>>, ignored \subseteq ignored',
         server' \in {"up", "silent"} => server \in {"up", "silent"}
  PROVE  KnownIsDelivered'
BY DeliveredIsRead DEF KnownIsDelivered

\* Only the child ignores a document, and what it has ignored stays so.
LEMMA CallIgnores ==
  ASSUME NEW c \in Caller, Resolve(c) \/ Work(c)
  PROVE  UNCHANGED ignored
BY DEF Work, Resolve, Lookup, Create, Spawn, SpawnFails, Lock, SyncFile, SyncDone, Send, Skip,
       Receive, EndOfStream, ApplyEdit, Reply, child

LEMMA IgnoredGrows == [Next]_vars => ignored \subseteq ignored'
<1>1. ASSUME Index \/ TakeDocument \/ TakeRename \/ Chatter \/ Lose \/ Quiet \/ UNCHANGED vars
      PROVE  ignored \subseteq ignored'
  BY <1>1 DEF Index, TakeDocument, TakeRename, Chatter, Lose, Quiet, vars, child
<1>2. QED
  BY <1>1, CallIgnores DEF Next, Serve

LEMMA KnownCall ==
  ASSUME Typed, KnownIsDelivered, NEW c \in Caller, Resolve(c) \/ Work(c)
  PROVE  KnownIsDelivered'
<1>0. ignored' = ignored
  BY CallIgnores
<1>1. CASE Spawn(c)
  <2>1. inbox' = <<>> /\ view' = call[c].files
        /\ known' = [f \in File |-> [version |-> 0, text |-> call[c].files[f]]]
    BY <1>1 DEF Spawn
  <2>2. \A f \in File : Pending(inbox', f) = {}
    BY <2>1 DEF Pending
  <2>3. QED
    BY <2>1, <2>2, DeliveredIsRead DEF KnownIsDelivered, Read
<1>2. CASE SyncFile(c)
  <2> DEFINE m == Sent(c)
  <2>1. CASE UNCHANGED <<known, inbox>>
    BY <1>0, <1>2, <2>1, SyncEffect, KnownKept
  <2>2. CASE known' = Learnt(m) /\ inbox' = Append(inbox, m) /\ server # "dead"
    <3>1. server' = server /\ view' = view /\ m \in Message /\ m.kind = "doc"
      BY <1>2, SyncEffect
    <3>2. inbox \in Seq(Message) /\ m.file \in File /\ known \in [File -> [version : Nat, text : Text \cup {Garbled, NoFile}]]
      BY <3>1, Own DEF Shared, Message
    <3> HIDE DEF m
    <3>3. ASSUME NEW f \in File \ ignored, server \in {"up", "silent"}
          PROVE  Delivered(f)' = known'[f].text
      <4>1. Read(inbox', view', f) = IF m.file = f THEN m.text ELSE Read(inbox, view, f)
        BY <2>2, <3>1, <3>2, ReadDoc
      <4>2. known'[f].text = IF m.file = f THEN m.text ELSE known[f].text
        BY <2>2, <3>2 DEF Learnt
      <4>3. Read(inbox, view, f) = known[f].text
        BY <3>3, DeliveredIsRead DEF KnownIsDelivered
      <4>4. QED
        BY <4>1, <4>2, <4>3, DeliveredIsRead
    <3>4. QED
      BY <1>0, <3>1, <3>3 DEF KnownIsDelivered
  <2>3. CASE server = "dead"
    BY <1>2, <2>3, SyncEffect DEF KnownIsDelivered
  <2>4. QED
    BY <1>2, <2>1, <2>2, <2>3, SyncEffect
<1>3. CASE Send(c)
  <2> DEFINE m == [kind |-> "rename", file |-> call[c].decl, id |-> nextId]
  <2>1. m \in Message /\ m.kind = "rename" /\ inbox \in Seq(Message)
    BY <1>3, Own DEF Send, Message, Shared, Steps
  <2>2. UNCHANGED <<known, view, server>> /\ (inbox' = inbox \/ inbox' = Append(inbox, m))
    BY <1>3 DEF Send, child
  <2> HIDE DEF m
  <2>3. \A f : Read(Append(inbox, m), view, f) = Read(inbox, view, f)
    BY <2>1, ReadRename
  <2>4. \A f : Read(inbox', view', f) = Read(inbox, view, f)
    <3>1. view' = view
      BY <2>2
    <3>2. CASE inbox' = inbox
      BY <3>1, <3>2
    <3>3. CASE inbox' = Append(inbox, m)
      BY <2>3, <3>1, <3>3
    <3>4. QED
      BY <2>2, <3>2, <3>3
  <2>5. QED
    BY <1>0, <2>2, <2>4, DeliveredIsRead DEF KnownIsDelivered
<1>4. CASE Resolve(c) \/ Lookup(c) \/ Create(c) \/ SpawnFails(c) \/ Lock(c) \/ SyncDone(c)
           \/ Skip(c) \/ Receive(c) \/ EndOfStream(c) \/ ApplyEdit(c) \/ Reply(c)
  <2>1. UNCHANGED <<known, view, inbox, server>>
    BY <1>4 DEF Resolve, Lookup, Create, SpawnFails, Lock, SyncDone, Skip, Receive,
                EndOfStream, ApplyEdit, Reply, child
  <2>2. QED
    BY <1>0, <2>1, KnownKept
<1>5. QED
  BY <1>1, <1>2, <1>3, <1>4 DEF Work

LEMMA KnownStep == Typed /\ KnownIsDelivered /\ [Next]_vars => KnownIsDelivered'
<1> SUFFICES ASSUME Typed, KnownIsDelivered, [Next]_vars PROVE KnownIsDelivered'
  OBVIOUS
<1>1. CASE TakeDocument \/ TakeRename
  <2>1. inbox \in Seq(Message) /\ inbox # <<>> /\ inbox' = Tail(inbox) /\ view \in Map
        /\ UNCHANGED <<known, server>>
    BY <1>1, TypedShared DEF TakeDocument, TakeRename, Shared, child
  <2>2. Head(inbox) \in Message
    BY <2>1, Pipes
  <2>0. ignored \subseteq ignored'
    BY IgnoredGrows
  <2>3. \A f \in File \ ignored' : IF Head(inbox).kind = "doc" /\ Head(inbox).file = f
                                     THEN view'[f] = Head(inbox).text ELSE view'[f] = view[f]
    <3>1. CASE TakeDocument
      <4> DEFINE m == Head(inbox)
      <4>1. m.kind = "doc"
        BY <3>1 DEF TakeDocument
      <4>2. CASE view' = [view EXCEPT ![m.file] = m.text]
        BY <2>1, <4>1, <4>2 DEF Map
      <4>3. CASE ignored' = ignored \cup {m.file} /\ view' = view
        BY <4>3
      <4>4. QED
        BY <3>1, <4>2, <4>3 DEF TakeDocument
    <3>2. CASE TakeRename
      BY <3>2 DEF TakeRename, child
    <3>3. QED
      BY <1>1, <3>1, <3>2
  <2>4. ASSUME NEW f \in File \ ignored' PROVE Read(inbox', view', f) = Read(inbox, view, f)
    <3>1. IF Head(inbox).kind = "doc" /\ Head(inbox).file = f
            THEN view'[f] = Head(inbox).text ELSE view'[f] = view[f]
      BY <2>3
    <3>2. Read(Tail(inbox), view', f) = Read(inbox, view, f)
      <4>1. inbox \in Seq(Message) /\ inbox # <<>>
        BY <2>1
      <4>2. QED
        BY <3>1, <4>1, ReadTail, ZenonT(30)
    <3>3. QED
      BY <2>1, <3>2
  <2>5. QED
    BY <2>0, <2>1, <2>4, DeliveredIsRead DEF KnownIsDelivered
<1>2. CASE Index \/ Chatter \/ Lose \/ Quiet \/ UNCHANGED vars
  BY <1>2, IgnoredGrows, KnownKept DEF Index, Chatter, Lose, Quiet, vars, child
<1>3. QED
  BY <1>1, <1>2, KnownCall DEF Next, Serve

\* What the client believes of a live child is what the child will have read before the
\* next request reaches it, however calls, their acknowledgements and failed writes are
\* interleaved (session.rs:26-34, 159-194); except of a document that nobody opened, when
\* the child has ignored a change of it.
THEOREM SyncIsExact == Spec => []KnownIsDelivered
<1>1. Init => KnownIsDelivered
  BY DEF Init, KnownIsDelivered
<1>2. QED
  BY <1>1, AlwaysTyped, KnownStep, PTL DEF Spec

-----------------------------------------------------------------------------
(* Versions. *)

\* A step that takes nothing out of what the pipe says of versions.
LEMMA VersionsKept ==
  ASSUME VersionsGrow, UNCHANGED <<known, inbox>>
  PROVE  VersionsGrow'
BY DEF VersionsGrow

\* A request has no version.
LEMMA VersionsRequest ==
  ASSUME Typed, VersionsGrow, NEW m \in Message, m.kind = "rename",
         inbox' = Append(inbox, m), UNCHANGED known
  PROVE  VersionsGrow'
<1>1. inbox \in Seq(Message)
  BY TypedShared DEF Shared
<1>2. /\ Len(inbox') = Len(inbox) + 1 /\ inbox'[Len(inbox) + 1] = m
      /\ \A i \in 1..Len(inbox) : inbox'[i] = inbox[i]
      /\ Len(inbox) \in Nat
  BY <1>1
<1>3. \A i \in 1..Len(inbox') : inbox'[i].kind = "doc" => i \in 1..Len(inbox)
  BY <1>2
<1>4. QED
  BY <1>2, <1>3 DEF VersionsGrow

\* A document has the version after the last.
LEMMA VersionsDocument ==
  ASSUME Typed, VersionsGrow, NEW m \in Message, m.kind = "doc",
         m.version = known[m.file].version + 1,
         known' = Learnt(m), inbox' = Append(inbox, m) \/ UNCHANGED inbox
  PROVE  VersionsGrow'
<1>1. inbox \in Seq(Message) /\ known \in [File -> [version : Nat, text : Text \cup {Garbled, NoFile}]]
  BY TypedShared DEF Shared
<1>2. m.file \in File /\ m.version \in Nat
  BY DEF Message
<1>3. \A f \in File : known'[f].version = IF f = m.file THEN m.version ELSE known[f].version
  BY <1>1, <1>2 DEF Learnt
<1>4. \A i \in 1..Len(inbox) : inbox[i] \in Message
  BY <1>1
<1>5. \A i \in 1..Len(inbox) : inbox[i].kind = "doc" =>
        inbox[i].file \in File /\ inbox[i].version \in 1..known[inbox[i].file].version
  <2>1. SUFFICES ASSUME NEW i \in 1..Len(inbox), inbox[i].kind = "doc"
                 PROVE  inbox[i].file \in File /\ inbox[i].version \in 1..known[inbox[i].file].version
    OBVIOUS
  <2>2. inbox[i].version \in 1..known[inbox[i].file].version
    BY <2>1 DEF VersionsGrow
  <2>3. inbox[i].file \in File
    BY <1>4, <2>1 DEF Message
  <2>4. QED
    BY <2>2, <2>3
<1>6. \A f \in File : known[f].version \in Nat /\ known[f].version <= known'[f].version
  BY <1>1, <1>2, <1>3
<1>7. \A i \in 1..Len(inbox) : inbox[i].kind = "doc" =>
        inbox[i].version \in 1..known'[inbox[i].file].version
  <2>1. ASSUME NEW g \in File, NEW v \in 1..known[g].version PROVE v \in 1..known'[g].version
    <3>1. known[g].version \in Nat /\ known'[g].version \in Nat
      BY <1>2, <1>3, <1>6
    <3>2. QED
      BY <1>6, <2>1, <3>1
  <2>2. QED
    BY <1>5, <2>1
<1>8. CASE UNCHANGED inbox
  BY <1>7, <1>8 DEF VersionsGrow
<1>9. CASE inbox' = Append(inbox, m)
  <2>1. /\ Len(inbox') = Len(inbox) + 1 /\ inbox'[Len(inbox) + 1] = m
        /\ \A i \in 1..Len(inbox) : inbox'[i] = inbox[i]
        /\ Len(inbox) \in Nat
    BY <1>1, <1>9
  <2>2. \A i \in 1..Len(inbox) : inbox[i].kind = "doc" /\ inbox[i].file = m.file =>
          inbox[i].version < m.version
    <3>1. m.version = known[m.file].version + 1 /\ known[m.file].version \in Nat
      BY <1>1, <1>2
    <3>2. SUFFICES ASSUME NEW i \in 1..Len(inbox), inbox[i].kind = "doc", inbox[i].file = m.file
                   PROVE  inbox[i].version < m.version
      OBVIOUS
    <3>3. inbox[i].version \in 1..known[m.file].version
      BY <1>5, <3>2, Zenon
    <3>4. QED
      BY <3>1, <3>3
  <2>3. m.version \in 1..known'[m.file].version
    BY <1>2, <1>3, <1>6
  <2>4. ASSUME NEW i \in 1..Len(inbox'), NEW j \in 1..Len(inbox'), i < j,
               inbox'[i].kind = "doc", inbox'[j].kind = "doc", inbox'[i].file = inbox'[j].file
        PROVE  inbox'[i].version < inbox'[j].version
    <3>1. i \in 1..Len(inbox)
      BY <2>1, <2>4
    <3>2. CASE j \in 1..Len(inbox)
      BY <2>1, <2>4, <3>1, <3>2 DEF VersionsGrow
    <3>3. CASE j = Len(inbox) + 1
      BY <2>1, <2>2, <2>4, <3>1, <3>3
    <3>4. QED
      BY <2>1, <3>2, <3>3
  <2>5. ASSUME NEW i \in 1..Len(inbox'), inbox'[i].kind = "doc"
        PROVE  inbox'[i].version \in 1..known'[inbox'[i].file].version
    BY <1>7, <2>1, <2>3, <2>5
  <2>6. QED
    BY <2>4, <2>5 DEF VersionsGrow
<1>10. QED
  BY <1>8, <1>9

LEMMA VersionsTail ==
  ASSUME Typed, VersionsGrow, inbox # <<>>, inbox' = Tail(inbox), UNCHANGED known
  PROVE  VersionsGrow'
<1>1. inbox \in Seq(Message)
  BY TypedShared DEF Shared
<1>2. /\ Len(inbox) \in Nat /\ Len(inbox') = Len(inbox) - 1
      /\ \A i \in 1..Len(inbox') : i + 1 \in 1..Len(inbox) /\ inbox'[i] = inbox[i + 1]
  BY <1>1
<1>3. QED
  BY <1>2 DEF VersionsGrow

LEMMA VersionsStep == Typed /\ VersionsGrow /\ [Next]_vars => VersionsGrow'
<1> SUFFICES ASSUME Typed, VersionsGrow, [Next]_vars PROVE VersionsGrow'
  OBVIOUS
<1>1. ASSUME NEW c \in Caller, Spawn(c) PROVE VersionsGrow'
  <2>1. inbox' = <<>>
    BY <1>1 DEF Spawn
  <2>2. QED
    BY <2>1 DEF VersionsGrow
<1>2. ASSUME NEW c \in Caller, SyncFile(c) PROVE VersionsGrow'
  BY <1>2, SyncEffect, VersionsKept, VersionsDocument
<1>3. ASSUME NEW c \in Caller, Send(c) PROVE VersionsGrow'
  <2> DEFINE m == [kind |-> "rename", file |-> call[c].decl, id |-> nextId]
  <2>1. m \in Message /\ m.kind = "rename"
    BY <1>3, Own DEF Send, Message, Shared, Steps
  <2>2. UNCHANGED known /\ (inbox' = inbox \/ inbox' = Append(inbox, m))
    BY <1>3 DEF Send
  <2>3. QED
    BY <2>1, <2>2, VersionsKept, VersionsRequest
<1>4. ASSUME NEW c \in Caller,
             Resolve(c) \/ Lookup(c) \/ Create(c) \/ SpawnFails(c) \/ Lock(c) \/ SyncDone(c)
             \/ Skip(c) \/ Receive(c) \/ EndOfStream(c) \/ ApplyEdit(c) \/ Reply(c)
      PROVE  VersionsGrow'
  <2>1. UNCHANGED <<known, inbox>>
    BY <1>4 DEF Resolve, Lookup, Create, SpawnFails, Lock, SyncDone, Skip, Receive,
                EndOfStream, ApplyEdit, Reply
  <2>2. QED
    BY <2>1, VersionsKept
<1>5. CASE TakeDocument \/ TakeRename
  BY <1>5, VersionsTail DEF TakeDocument, TakeRename
<1>6. CASE Index \/ Chatter \/ Lose \/ Quiet \/ UNCHANGED vars
  BY <1>6, VersionsKept DEF Index, Chatter, Lose, Quiet, vars
<1>7. QED
  BY <1>1, <1>2, <1>3, <1>4, <1>5, <1>6 DEF Next, Work, Serve

\* The versions of a document only grow along the pipe, up to the one the client remembers
\* (session.rs:26-27, 172, 186).
THEOREM VersionsAlwaysGrow == Spec => []VersionsGrow
<1>1. Init => VersionsGrow
  BY DEF Init, VersionsGrow
<1>2. QED
  BY <1>1, AlwaysTyped, VersionsStep, PTL DEF Spec

-----------------------------------------------------------------------------
(* A rename that succeeds has renamed everything. *)

\* The edit asks for what the rename of exactly these files asks for, but for the
\* documents of which the child has ignored a change.
Exact(changes, files) ==
  \A f \in File \ ignored : files[f] # NoFile =>
    changes[f] = IF Renamed[files[f]] = files[f] THEN NoFile ELSE files[f]

\* The call's own files, renamed.
Right(t) ==
  \A f \in File \ ignored : t.out[f] = IF t.files[f] = NoFile THEN NoFile ELSE Renamed[t.files[f]]

\* The session has the texts of a call that is synced, up to the file the walk has come to.
Synced(t) ==
  /\ t.pc = "sync" => \A f \in In(t.files) \ t.todo : known[f].text = t.files[f]
  /\ t.pc \in {"send", "await"} => \A f \in In(t.files) : known[f].text = t.files[f]

\* The request a call waits for is the last thing in the child's stdin, or has been answered
\* about the texts of that call.
Asking(t) ==
  t.pc = "await" =>
    /\ t.id \in 1..(nextId - 1)
    /\ \A i \in 1..Len(inbox) :
         inbox[i].kind = "rename" /\ inbox[i].id = t.id => i = Len(inbox)
    /\ \A i \in 1..Len(outbox) :
         outbox[i].id = t.id /\ outbox[i].signal = "ready" => Exact(outbox[i].changes, t.files)

\* What a call has made of the answer.
Edited(t) ==
  /\ t.pc = "edit" => Exact(t.edit.changes, t.files)
  /\ t.pc \in {"relock", "ack"} \/ t.result = "ok" => Right(t)

Sound(t) == Synced(t) /\ Asking(t) /\ Edited(t)

\* Ids are given out once in the life of a child: every request and every answer has one
\* that is not to come.
Issued ==
  /\ nextId \in Nat \ {0}
  /\ \A i \in 1..Len(inbox) : inbox[i].kind = "rename" => inbox[i].id < nextId
  /\ \A i \in 1..Len(outbox) : outbox[i].id < nextId

\* A pipe only loses its first message or gains a last one.
LEMMA AppendAll ==
  ASSUME NEW M, NEW pipe \in Seq(M), NEW m \in M
  PROVE  /\ Len(Append(pipe, m)) = Len(pipe) + 1 /\ Len(pipe) \in Nat
         /\ Append(pipe, m)[Len(pipe) + 1] = m
         /\ \A i \in 1..Len(pipe) : Append(pipe, m)[i] = pipe[i]
         /\ \A i \in 1..Len(Append(pipe, m)) : i \in 1..Len(pipe) \/ i = Len(pipe) + 1
OBVIOUS

LEMMA TailAll ==
  ASSUME NEW M, NEW pipe \in Seq(M), pipe # <<>>
  PROVE  /\ Len(Tail(pipe)) = Len(pipe) - 1 /\ Len(pipe) \in Nat \ {0}
         /\ pipe[1] = Head(pipe) /\ 1 \in 1..Len(pipe)
         /\ \A i \in 1..Len(Tail(pipe)) : i + 1 \in 1..Len(pipe) /\ Tail(pipe)[i] = pipe[i + 1]
OBVIOUS

LEMMA IssuedInit == Init => Issued
BY DEF Init, Issued

\* The child's steps give out no id.
LEMMA IssuedChild ==
  ASSUME Typed, Issued, TakeDocument \/ TakeRename \/ Chatter \/ Index \/ Lose
  PROVE  Issued'
<1>0. inbox \in Seq(Message) /\ outbox \in Seq(Answer) /\ nextId' = nextId
  BY TypedShared DEF Shared, TakeDocument, TakeRename, Chatter, Index, Lose
<1>1. \A i \in 1..Len(inbox') : inbox'[i].kind = "rename" => inbox'[i].id < nextId
  <2>1. CASE inbox' = inbox
    BY <2>1 DEF Issued
  <2>2. CASE inbox # <<>> /\ inbox' = Tail(inbox)
    BY <1>0, <2>2, TailAll DEF Issued
  <2>3. QED
    BY <2>1, <2>2 DEF TakeDocument, TakeRename, Chatter, Index, Lose
<1>2. \A i \in 1..Len(outbox') : outbox'[i].id < nextId
  <2>1. ASSUME NEW a \in Answer, outbox' = Append(outbox, a), a.id < nextId
        PROVE  \A i \in 1..Len(outbox') : outbox'[i].id < nextId
    BY <1>0, <2>1, AppendAll DEF Issued
  <2>2. CASE TakeRename
    <3> DEFINE m == Head(inbox)
    <3>1. m \in Message /\ m.kind = "rename" /\ m.id < nextId
      BY <1>0, <2>2, TailAll, Pipes DEF TakeRename, Issued
    <3>2. m.id \in Nat
      BY <3>1 DEF Message
    <3>3. \/ \E form \in Forms : outbox' = Append(outbox, Editing(m.id, form))
          \/ \E signal \in {"ready", "not_ready", "hard"} :
               outbox' = Append(outbox, Saying(m.id, signal))
      BY <2>2 DEF TakeRename, Editing, Saying, Note
    <3> HIDE DEF m
    <3>4. /\ \A form : Editing(m.id, form).id = m.id
          /\ \A signal : Saying(m.id, signal).id = m.id
      BY DEF Editing, Saying, Note
    <3>5. PICK a \in Answer : outbox' = Append(outbox, a) /\ a.id = m.id
      BY <3>2, <3>3, <3>4, AnswersTyped, Zenon
    <3>6. QED
      BY <2>1, <3>1, <3>5
  <2>3. CASE Chatter
    <3>1. Note \in Answer /\ Note.id < nextId /\ outbox' = Append(outbox, Note)
      BY <2>3, NoCallWell DEF Chatter, Note, Issued
    <3>2. QED
      BY <2>1, <3>1
  <2>4. CASE outbox' = outbox
    BY <2>4 DEF Issued
  <2>5. QED
    BY <2>2, <2>3, <2>4 DEF TakeDocument, Index, Lose
<1>3. QED
  BY <1>0, <1>1, <1>2 DEF Issued

LEMMA IssuedCall ==
  ASSUME Typed, Issued, NEW c \in Caller, Resolve(c) \/ Work(c)
  PROVE  Issued'
<1>0. inbox \in Seq(Message) /\ outbox \in Seq(Answer)
  BY TypedShared DEF Shared
<1>1. CASE Spawn(c)
  <2>1. inbox' = <<>> /\ outbox' = <<>> /\ nextId' = 2
    BY <1>1 DEF Spawn
  <2>2. QED
    BY <2>1 DEF Issued
<1>2. CASE SyncFile(c)
  <2>1. UNCHANGED <<nextId, outbox>> /\ Sent(c) \in Message /\ Sent(c).kind = "doc"
        /\ (inbox' = inbox \/ inbox' = Append(inbox, Sent(c)))
    BY <1>2, SyncEffect
  <2>2. QED
    BY <1>0, <2>1, AppendAll DEF Issued
<1>3. CASE Send(c)
  <2> DEFINE m == [kind |-> "rename", file |-> call[c].decl, id |-> nextId]
  <2>1. m \in Message /\ m.id = nextId
    BY <1>3, Own DEF Send, Message, Shared, Steps
  <2>2. nextId' = nextId + 1 /\ outbox' = outbox
        /\ (inbox' = inbox \/ inbox' = Append(inbox, m))
    BY <1>3 DEF Send
  <2> HIDE DEF m
  <2>3. \A i \in 1..Len(inbox') : inbox'[i].kind = "rename" => inbox'[i].id < nextId'
    <3>1. \A i \in 1..Len(inbox) : inbox[i].kind = "rename" => inbox[i].id < nextId + 1
      <4>1. SUFFICES ASSUME NEW i \in 1..Len(inbox), inbox[i].kind = "rename"
                     PROVE  inbox[i].id < nextId + 1
        OBVIOUS
      <4>2. inbox[i] \in Message /\ inbox[i].id < nextId
        BY <1>0, <4>1 DEF Issued
      <4>3. inbox[i].id \in Nat
        BY <4>1, <4>2 DEF Message
      <4>4. QED
        BY <4>2, <4>3 DEF Issued
    <3>2. m.id < nextId + 1
      BY <2>1 DEF Issued
    <3>3. CASE inbox' = inbox
      BY <2>2, <3>1, <3>3
    <3>4. CASE inbox' = Append(inbox, m)
      <4>1. \A i \in 1..Len(inbox') : inbox'[i] = m \/ \E k \in 1..Len(inbox) : inbox'[i] = inbox[k]
        BY <1>0, <2>1, <3>4, AppendAll
      <4>2. QED
        BY <2>2, <3>1, <3>2, <4>1
    <3>5. QED
      BY <2>2, <3>3, <3>4
  <2>4. \A i \in 1..Len(outbox') : outbox'[i].id < nextId'
    <3>1. SUFFICES ASSUME NEW i \in 1..Len(outbox) PROVE outbox[i].id < nextId + 1
      BY <2>2
    <3>2. outbox[i] \in Answer /\ outbox[i].id < nextId
      BY <1>0 DEF Issued
    <3>3. outbox[i].id \in Nat
      BY <3>2 DEF Answer
    <3>4. QED
      BY <3>2, <3>3 DEF Issued
  <2>5. QED
    BY <2>2, <2>3, <2>4 DEF Issued
<1>4. CASE Skip(c) \/ Receive(c)
  <2>1. UNCHANGED <<nextId, inbox>> /\ outbox # <<>> /\ outbox' = Tail(outbox)
    BY <1>4 DEF Skip, Receive
  <2>2. QED
    BY <1>0, <2>1, TailAll DEF Issued
<1>5. CASE Resolve(c) \/ Lookup(c) \/ Create(c) \/ SpawnFails(c) \/ Lock(c) \/ SyncDone(c)
           \/ EndOfStream(c) \/ ApplyEdit(c) \/ Reply(c)
  <2>1. UNCHANGED <<nextId, inbox, outbox>>
    BY <1>5 DEF Resolve, Lookup, Create, SpawnFails, Lock, SyncDone, EndOfStream, ApplyEdit, Reply
  <2>2. QED
    BY <2>1 DEF Issued
<1>6. QED
  BY <1>1, <1>2, <1>3, <1>4, <1>5 DEF Work

LEMMA IssuedStep == Typed /\ Issued /\ [Next]_vars => Issued'
<1>1. UNCHANGED vars /\ Issued => Issued'
  BY DEF vars, Issued
<1>2. QED
  BY <1>1, IssuedChild, IssuedCall DEF Next, Serve, Quiet

\* All of it.
Exactly ==
  /\ Typed /\ Pooled /\ KnownIsDelivered /\ Issued
  /\ \A c \in Caller : Sound(call[c])

\* A phase of which nothing is claimed.
LEMMA NoClaim ==
  ASSUME NEW t, t.pc \in Early \cup {"lock"}, t.result # "ok"
  PROVE  Sound(t)
BY DEF Sound, Synced, Asking, Edited, Early

LEMMA NoClaimNext ==
  ASSUME NEW c \in Caller, call'[c].pc \in Early \cup {"lock"}, call'[c].result # "ok"
  PROVE  Sound(call[c])'
BY DEF Sound, Synced, Asking, Edited, Early

\* A step of another call does not touch the session that this one holds.
LEMMA OthersSound ==
  ASSUME Exactly, NEW c \in Caller, NEW e \in Caller, e # c, call'[e] = call[e],
         UNCHANGED ignored,
         \/ UNCHANGED <<known, nextId, inbox, outbox>>
         \/ mutex = c
         \/ ~ session
  PROVE  Sound(call[e])'
<1>0. Sound(call[e])
  BY DEF Exactly
<1>1. CASE UNCHANGED <<known, nextId, inbox, outbox>>
  BY <1>0, <1>1 DEF Sound, Synced, Asking, Edited, Exact, Right
<1>2. CASE call[e].pc \notin {"sync", "send", "await"}
  BY <1>0, <1>2 DEF Sound, Synced, Asking, Edited, Exact, Right
<1>3. ASSUME mutex = c PROVE call[e].pc \notin {"sync", "send", "await"}
  BY <1>3, Own DEF Exactly, Holding
<1>4. ASSUME ~ session PROVE call[e].pc \notin {"sync", "send", "await"}
  BY <1>4, HasSession DEF Exactly, Early
<1>5. QED
  BY <1>1, <1>2, <1>3, <1>4

\* A step that leaves the session alone and the call where it is.
LEMMA SameSound ==
  ASSUME NEW c \in Caller, Sound(call[c]), call'[c] = call[c],
         UNCHANGED <<known, nextId, inbox, outbox, ignored>>
  PROVE  Sound(call[c])'
BY DEF Sound, Synced, Asking, Edited, Exact, Right

\* The child reads, and says nothing of the call's request that is not exact.
LEMMA HeardSound ==
  ASSUME Exactly, NEW c \in Caller, UNCHANGED <<call, known, nextId>>,
         ignored \subseteq ignored',
         inbox' = inbox \/ (inbox # <<>> /\ inbox' = Tail(inbox)),
         outbox' = outbox \/ \E a \in Answer :
                               /\ outbox' = Append(outbox, a)
                               /\ call[c].pc = "await" /\ a.id = call[c].id /\ a.signal = "ready"
                                    => Exact(a.changes, call[c].files)
  PROVE  Sound(call[c])'
<1> DEFINE t == call[c]
<1>0. inbox \in Seq(Message) /\ outbox \in Seq(Answer) /\ Sound(t)
  BY TypedShared DEF Exactly, Shared
<1>1. Synced(t)' /\ Edited(t)'
  BY <1>0 DEF Sound, Synced, Edited, Exact, Right
<1>2. ASSUME t.pc = "await"
      PROVE  \A i \in 1..Len(inbox') : inbox'[i].kind = "rename" /\ inbox'[i].id = t.id => i = Len(inbox')
  <2>1. \A i \in 1..Len(inbox) : inbox[i].kind = "rename" /\ inbox[i].id = t.id => i = Len(inbox)
    BY <1>0, <1>2 DEF Sound, Asking
  <2>2. CASE inbox' = inbox
    BY <2>1, <2>2
  <2>3. CASE inbox # <<>> /\ inbox' = Tail(inbox)
    BY <1>0, <2>1, <2>3, TailAll
  <2>4. QED
    BY <2>2, <2>3
<1>3. ASSUME t.pc = "await"
      PROVE  \A i \in 1..Len(outbox') :
               outbox'[i].id = t.id /\ outbox'[i].signal = "ready" => Exact(outbox'[i].changes, t.files)
  <2>1. \A i \in 1..Len(outbox) :
          outbox[i].id = t.id /\ outbox[i].signal = "ready" => Exact(outbox[i].changes, t.files)
    BY <1>0, <1>3 DEF Sound, Asking
  <2>2. CASE outbox' = outbox
    BY <2>1, <2>2
  <2>3. ASSUME NEW a \in Answer, outbox' = Append(outbox, a),
               a.id = t.id /\ a.signal = "ready" => Exact(a.changes, t.files)
        PROVE  \A i \in 1..Len(outbox') :
                 outbox'[i].id = t.id /\ outbox'[i].signal = "ready" => Exact(outbox'[i].changes, t.files)
    BY <1>0, <2>1, <2>3, AppendAll
  <2>4. QED
    BY <1>3, <2>2, <2>3
<1>4. t.pc = "await" => t.id \in 1..(nextId' - 1)
  BY <1>0 DEF Sound, Asking
<1>5. Asking(t)'
  BY <1>2, <1>3, <1>4 DEF Asking, Exact
<1>6. QED
  BY <1>1, <1>5 DEF Sound

\* When the child comes to the request of a call, it has read everything the call synced.
LEMMA AnswerExact ==
  ASSUME Exactly, NEW c \in Caller, call[c].pc = "await", server = "up",
         inbox # <<>>, Head(inbox).kind = "rename", Head(inbox).id = call[c].id
  PROVE  Exact(Occurrences, call[c].files)
<1> DEFINE t == call[c]
<1>0. inbox \in Seq(Message) /\ Sound(t)
  BY TypedShared DEF Exactly, Shared
<1>1. Len(inbox) = 1 /\ inbox[1].kind = "rename"
  BY <1>0, TailAll DEF Sound, Asking
<1>2. ASSUME NEW f \in File \ ignored PROVE view[f] = known[f].text
  <2>1. Pending(inbox, f) = {}
    BY <1>0, <1>1 DEF Pending
  <2>2. Delivered(f) = view[f]
    BY <2>1, DeliveredIsRead DEF Read
  <2>3. QED
    BY <2>2 DEF Exactly, KnownIsDelivered
<1>3. ASSUME NEW f \in File \ ignored, t.files[f] # NoFile
      PROVE  view[f] = t.files[f] /\ t.files[f] \in Text
  <2>1. known[f].text = t.files[f]
    BY <1>0, <1>3 DEF Sound, Synced, In
  <2>2. t.files \in [File -> Text \cup {NoFile}]
    BY Own DEF Exactly, Steps
  <2>3. QED
    BY <1>2, <1>3, <2>1, <2>2
<1>4. QED
  BY <1>3 DEF Exact, Occurrences

LEMMA ChildSound ==
  ASSUME Exactly, Forms = {"changes"}, NEW c \in Caller,
         TakeDocument \/ TakeRename \/ Chatter \/ Index \/ Lose
  PROVE  Sound(call[c])'
<1>0. inbox \in Seq(Message) /\ UNCHANGED <<call, known, nextId>> /\ ignored \subseteq ignored'
  BY TypedShared, IgnoredGrows
     DEF Exactly, Shared, TakeDocument, TakeRename, Chatter, Index, Lose, Next, Serve
<1>1. CASE TakeRename
  <2> DEFINE m == Head(inbox)
  <2>1. server = "up" /\ inbox # <<>> /\ inbox' = Tail(inbox) /\ m \in Message /\ m.kind = "rename"
    BY <1>0, <1>1, Pipes DEF TakeRename
  <2>2. m.id \in Nat
    BY <2>1 DEF Message
  <2>3. \/ outbox' = Append(outbox, Editing(m.id, "changes"))
        \/ \E signal \in {"not_ready", "hard"} : outbox' = Append(outbox, Saying(m.id, signal))
    BY <1>1 DEF TakeRename, Editing, Saying, Note
  <2>4. call[c].pc = "await" /\ m.id = call[c].id => Exact(Occurrences, call[c].files)
    BY <2>1, AnswerExact
  <2>5. /\ Editing(m.id, "changes") \in Answer
        /\ \A signal \in {"not_ready", "hard"} : Saying(m.id, signal) \in Answer
    BY <2>2, AnswersTyped DEF Exactly
  <2>6. Editing(m.id, "changes").changes = Occurrences /\ Editing(m.id, "changes").id = m.id
    BY DEF Editing, Note
  <2>7. \A signal : Saying(m.id, signal).signal = signal
    BY DEF Saying, Note
  <2> HIDE DEF m
  <2>8. PICK a \in Answer : /\ outbox' = Append(outbox, a)
                            /\ \/ a = Editing(m.id, "changes")
                               \/ a.signal # "ready"
    <3>1. CASE outbox' = Append(outbox, Editing(m.id, "changes"))
      BY <2>5, <3>1
    <3>2. CASE \E signal \in {"not_ready", "hard"} : outbox' = Append(outbox, Saying(m.id, signal))
      <4>1. PICK signal \in {"not_ready", "hard"} : outbox' = Append(outbox, Saying(m.id, signal))
        BY <3>2
      <4>2. QED
        BY <2>5, <2>7, <4>1
    <3>3. QED
      BY <2>3, <3>1, <3>2
  <2>9. call[c].pc = "await" /\ a.id = call[c].id /\ a.signal = "ready"
          => Exact(a.changes, call[c].files)
    BY <2>4, <2>6, <2>8
  <2>10. QED
    BY <1>0, <2>1, <2>8, <2>9, HeardSound
<1>2. CASE Chatter
  <2>1. Note \in Answer /\ outbox' = Append(outbox, Note) /\ Note.signal # "ready" /\ inbox' = inbox
    BY <1>2, NoCallWell DEF Chatter, Note
  <2>2. QED
    BY <1>0, <2>1, HeardSound
<1>3. CASE TakeDocument \/ Index \/ Lose
  <2>1. outbox' = outbox /\ (inbox' = inbox \/ (inbox # <<>> /\ inbox' = Tail(inbox)))
    BY <1>3 DEF TakeDocument, Index, Lose
  <2>2. QED
    BY <1>0, <2>1, HeardSound
<1>4. QED
  BY <1>1, <1>2, <1>3

\* A call that only changes its phase and its result, to one of which nothing is claimed.
LEMMA FinishSound ==
  ASSUME Exactly, NEW c \in Caller, NEW r, r # "ok", Finish(c, r)
  PROVE  Sound(call[c])'
<1>1. call'[c].pc = "reply" /\ call'[c].result = r
  BY Own DEF Exactly, Finish, Typed, TypeOK, Call
<1>2. QED
  BY <1>1, NoClaimNext DEF Early

LEMMA GotoSound ==
  ASSUME Exactly, NEW c \in Caller, NEW phase \in {"lock", "create", "spawn"}, Goto(c, phase),
         call[c].pc # "reply"
  PROVE  Sound(call[c])'
<1>1. call'[c].pc = phase /\ call'[c].result = "none"
  BY Own DEF Exactly, Goto, Typed, TypeOK, Call, Steps
<1>2. QED
  BY <1>1, NoClaimNext DEF Early

LEMMA LockSound ==
  ASSUME Exactly, NEW c \in Caller, Lock(c)
  PROVE  Sound(call[c])'
<1>0. Sound(call[c]) /\ call[c] \in Call /\ call[c].result = "none" /\ call[c].pc \in {"lock", "relock"}
  BY Own DEF Exactly, Steps, Lock
<1>1. CASE call[c].pc = "lock"
  <2>1. /\ call'[c].pc = "sync" /\ call'[c].todo = In(call[c].files)
        /\ call'[c].files = call[c].files /\ call'[c].result = "none"
    BY <1>0, <1>1 DEF Lock, Call, Exactly, Typed, TypeOK
  <2>2. QED
    BY <2>1 DEF Sound, Synced, Asking, Edited
<1>2. CASE call[c].pc = "relock"
  <2>1. /\ call'[c].pc = "ack" /\ call'[c].out = call[c].out /\ call'[c].files = call[c].files
    BY <1>0, <1>2 DEF Lock, Call, Exactly, Typed, TypeOK
  <2>2. Right(call[c])
    BY <1>0, <1>2 DEF Sound, Edited
  <2>3. ignored' = ignored
    BY DEF Lock, child
  <2>4. QED
    BY <2>1, <2>2, <2>3 DEF Sound, Synced, Asking, Edited, Right
<1>3. QED
  BY <1>0, <1>1, <1>2

LEMMA SyncFileSound ==
  ASSUME Exactly, NEW c \in Caller, SyncFile(c)
  PROVE  Sound(call[c])'
<1> DEFINE f == First(call[c].todo)  m == Sent(c)
<1>0. Sound(call[c]) /\ call[c] \in Call /\ call[c].result = "none" /\ call[c].pc \in {"sync", "ack"}
      /\ call[c].todo # {} /\ ignored' = ignored
  BY Own DEF Exactly, Steps, SyncFile, child
<1>1. f \in File /\ f \in call[c].todo
  BY <1>0, Walked DEF Exactly
<1>2. CASE Advance(c, f)
  <2>1. /\ call'[c].pc = call[c].pc /\ call'[c].todo = call[c].todo \ {f}
        /\ call'[c].files = call[c].files /\ call'[c].out = call[c].out
        /\ call'[c].result = call[c].result
    BY <1>0, <1>2 DEF Advance, Call, Exactly, Typed, TypeOK
  <2>2. CASE call[c].pc = "ack"
    BY <1>0, <2>1, <2>2 DEF Sound, Synced, Asking, Edited, Right
  <2>3. CASE call[c].pc = "sync"
    <3>1. known[f].text = call[c].files[f] \/ known' = [known EXCEPT ![f] =
            [version |-> known[f].version + 1, text |-> call[c].files[f]]]
      BY <2>1, <1>1, <2>3, <1>0, Own DEF SyncFile, Wanted, SyncError, Finish, Typed, TypeOK, Exactly, Call
    <3>2. known \in [File -> [version : Nat, text : Text \cup {Garbled, NoFile}]]
      BY Own DEF Exactly, Shared
    <3>3. known' = known \/ known' = [known EXCEPT ![f] =
            [version |-> known[f].version + 1, text |-> call[c].files[f]]]
      BY <2>3 DEF SyncFile, Wanted
    <3>4. known'[f].text = call[c].files[f] /\ \A g \in File : g # f => known'[g] = known[g]
      BY <1>1, <3>1, <3>2, <3>3
    <3>5. \A g \in In(call[c].files) \ call[c].todo : known[g].text = call[c].files[g]
      BY <1>0, <2>3 DEF Sound, Synced
    <3>6. \A g \in In(call[c].files) \ (call[c].todo \ {f}) : known'[g].text = call[c].files[g]
      BY <3>4, <3>5 DEF In
    <3>7. QED
      BY <1>0, <2>1, <2>3, <3>6 DEF Sound, Synced, Asking, Edited
  <2>4. QED
    BY <1>0, <2>2, <2>3
<1>3. CASE SyncError(c)
  <2>1. CASE call[c].pc = "sync"
    BY <1>3, <2>1, FinishSound DEF SyncError
  <2>2. CASE call[c].pc = "ack"
    <3>1. call'[c].pc = "reply" /\ call'[c].files = call[c].files /\ call'[c].out = call[c].out
      BY <1>0, <1>3, <2>2 DEF SyncError, Finish, Call, Exactly, Typed, TypeOK
    <3>2. QED
      BY <1>0, <2>2, <3>1 DEF Sound, Synced, Asking, Edited, Right
  <2>3. QED
    BY <1>0, <2>1, <2>2
<1>4. QED
  BY <1>2, <1>3 DEF SyncFile

LEMMA SyncDoneSound ==
  ASSUME Exactly, NEW c \in Caller, SyncDone(c)
  PROVE  Sound(call[c])'
<1>0. Sound(call[c]) /\ call[c] \in Call /\ call[c].result = "none" /\ call[c].todo = {}
      /\ ignored' = ignored
  BY Own DEF Exactly, Steps, SyncDone, child
<1>1. CASE call[c].pc = "sync" /\ Goto(c, "send")
  <2>1. /\ call'[c].pc = "send" /\ call'[c].files = call[c].files /\ call'[c].result = "none"
        /\ known' = known
    BY <1>0, <1>1 DEF Goto, SyncDone, Call, Exactly, Typed, TypeOK
  <2>2. QED
    BY <1>0, <1>1, <2>1 DEF Sound, Synced, Asking, Edited
<1>2. CASE call[c].pc = "ack" /\ Finish(c, "ok")
  <2>1. call'[c].pc = "reply" /\ call'[c].files = call[c].files /\ call'[c].out = call[c].out
    BY <1>0, <1>2 DEF Finish, Call, Exactly, Typed, TypeOK
  <2>2. QED
    BY <1>0, <1>2, <2>1 DEF Sound, Synced, Asking, Edited, Right
<1>3. QED
  BY <1>1, <1>2 DEF SyncDone

LEMMA SendSound ==
  ASSUME Exactly, NEW c \in Caller, Send(c)
  PROVE  Sound(call[c])'
<1> DEFINE m == [kind |-> "rename", file |-> call[c].decl, id |-> nextId]
<1>0. Sound(call[c]) /\ call[c] \in Call /\ call[c].pc = "send" /\ call[c].result = "none"
      /\ inbox \in Seq(Message) /\ outbox \in Seq(Answer) /\ Issued
  BY Own DEF Exactly, Steps, Send, Shared
<1>1. CASE Finish(c, "client")
  BY <1>1, FinishSound
<1>2. CASE PipeOpen
  <2>1. m \in Message /\ m.id = nextId /\ m.kind = "rename"
    BY <1>0, Own DEF Message, Shared, Steps, Exactly
  <2>2. /\ inbox' = Append(inbox, m) /\ outbox' = outbox /\ known' = known /\ nextId' = nextId + 1
        /\ call'[c].pc = "await" /\ call'[c].files = call[c].files /\ call'[c].id = nextId
        /\ call'[c].result = "none"
    BY <1>0, <1>2 DEF Send, Call, Exactly, Typed, TypeOK
  <2> HIDE DEF m
  <2>3. \A i \in 1..Len(inbox') :
          inbox'[i].kind = "rename" /\ inbox'[i].id = nextId => i = Len(inbox')
    <3>1. \A i \in 1..Len(inbox) : inbox[i].kind = "rename" => inbox[i].id # nextId
      <4>1. SUFFICES ASSUME NEW i \in 1..Len(inbox), inbox[i].kind = "rename"
                     PROVE  inbox[i].id # nextId
        OBVIOUS
      <4>2. inbox[i].id < nextId /\ nextId \in Nat
        BY <1>0, <4>1 DEF Issued
      <4>3. QED
        BY <4>2
    <3>2. QED
      BY <1>0, <2>1, <2>2, <3>1, AppendAll
  <2>4. \A i \in 1..Len(outbox') : outbox'[i].id # nextId
    BY <1>0, <2>2 DEF Issued
  <2>5. nextId \in 1..(nextId' - 1)
    BY <1>0, <2>2 DEF Issued
  <2>6. \A f \in In(call[c].files) : known[f].text = call[c].files[f]
    BY <1>0 DEF Sound, Synced
  <2>7. QED
    BY <2>2, <2>3, <2>4, <2>5, <2>6 DEF Sound, Synced, Asking, Edited
<1>3. QED
  BY <1>1, <1>2 DEF Send

\* What is left in the child's stdout when a message has been taken from it.
LEMMA TakenAsking ==
  ASSUME Exactly, NEW c \in Caller, call[c].pc = "await", outbox # <<>>,
         outbox' = Tail(outbox), UNCHANGED <<inbox, nextId, known, ignored>>, UNCHANGED call
  PROVE  Sound(call[c])'
<1>0. Sound(call[c]) /\ outbox \in Seq(Answer)
  BY Own DEF Exactly, Shared
<1>1. \A i \in 1..Len(outbox') : i + 1 \in 1..Len(outbox) /\ outbox'[i] = outbox[i + 1]
  BY <1>0, TailAll
<1>2. \A changes, files : Exact(changes, files)' <=> Exact(changes, files)
  BY DEF Exact
<1>3. Asking(call[c])'
  BY <1>0, <1>1, <1>2 DEF Sound, Asking
<1>4. Synced(call[c])' /\ Edited(call[c])'
  BY <1>0 DEF Sound, Synced, Edited, Exact, Right
<1>5. QED
  BY <1>3, <1>4 DEF Sound

LEMMA SkipSound ==
  ASSUME Exactly, NEW c \in Caller, Skip(c)
  PROVE  Sound(call[c])'
BY TakenAsking, FinishSound DEF Skip, child

LEMMA ReceiveSound ==
  ASSUME Exactly, NEW c \in Caller, Receive(c)
  PROVE  Sound(call[c])'
<1> DEFINE m == Head(outbox)
<1>0. Sound(call[c]) /\ call[c] \in Call /\ call[c].pc = "await" /\ call[c].result = "none"
      /\ outbox \in Seq(Answer) /\ outbox # <<>> /\ m.id = call[c].id /\ known' = known
      /\ ignored' = ignored
  BY Own DEF Exactly, Steps, Receive, Shared, child
<1>1. CASE m.signal = "ready" /\ call' = [call EXCEPT ![c].pc = "edit", ![c].edit = m]
  <2>1. Exact(m.changes, call[c].files)
    BY <1>0, <1>1, TailAll DEF Sound, Asking
  <2> HIDE DEF m
  <2>2. /\ call'[c].pc = "edit" /\ call'[c].edit = m /\ call'[c].files = call[c].files
        /\ call'[c].result = "none"
    BY <1>0, <1>1 DEF Call, Exactly, Typed, TypeOK
  <2>3. QED
    BY <1>0, <2>1, <2>2 DEF Sound, Synced, Asking, Edited, Exact
<1>2. CASE Goto(c, "send")
  <2>1. /\ call'[c].pc = "send" /\ call'[c].files = call[c].files /\ call'[c].result = "none"
    BY <1>0, <1>2 DEF Goto, Call, Exactly, Typed, TypeOK
  <2>2. QED
    BY <1>0, <2>1 DEF Sound, Synced, Asking, Edited
<1>3. CASE Finish(c, "client")
  BY <1>3, FinishSound
<1>4. QED
  BY <1>1, <1>2, <1>3 DEF Receive

\* An exact edit makes the right result, or is refused.
LEMMA ApplyEditSound ==
  ASSUME Exactly, NEW c \in Caller, ApplyEdit(c)
  PROVE  Sound(call[c])'
<1> DEFINE changes == call[c].edit.changes  files == call[c].files
           out == [f \in File |->
                     IF f \notin In(changes) THEN files[f]
                     ELSE IF changes[f] = files[f] THEN Renamed[files[f]]
                     ELSE Garbled]
<1>0. Sound(call[c]) /\ call[c] \in Call /\ call[c].pc = "edit" /\ call[c].result = "none"
      /\ ignored' = ignored
  BY Own DEF Exactly, Steps, ApplyEdit, child
<1>1. CASE Finish(c, "unknown_target")
  BY <1>1, FinishSound
<1>2. CASE /\ \A f \in In(changes) : files[f] # NoFile
           /\ call' = [call EXCEPT ![c].pc = "relock", ![c].out = out]
  <2>1. Exact(changes, files)
    BY <1>0 DEF Sound, Edited
  <2>2. ASSUME NEW f \in File \ ignored
        PROVE  out[f] = IF files[f] = NoFile THEN NoFile ELSE Renamed[files[f]]
    BY <1>2, <2>1 DEF Exact, In
  <2> HIDE DEF out
  <2>3. /\ call'[c].pc = "relock" /\ call'[c].out = out /\ call'[c].files = files
    BY <1>0, <1>2 DEF Call, Exactly, Typed, TypeOK
  <2>4. QED
    BY <1>0, <2>2, <2>3 DEF Sound, Synced, Asking, Edited, Right
<1>3. QED
  BY <1>1, <1>2 DEF ApplyEdit

LEMMA OwnSound ==
  ASSUME Exactly, NEW c \in Caller, Resolve(c) \/ Work(c)
  PROVE  Sound(call[c])'
<1>1. CASE Resolve(c)
  <2>1. PICK files \in [File -> Text \cup {NoFile}] :
          \E decl \in In(files) : call' = [call EXCEPT ![c] = Asked(files, decl)]
    BY <1>1 DEF Resolve
  <2>2. PICK decl \in In(files) : call' = [call EXCEPT ![c] = Asked(files, decl)]
    BY <2>1
  <2>3. call'[c].pc = "lookup" /\ call'[c].result = "none"
    BY <2>2, AskedWell DEF Exactly, Typed, TypeOK, Well, Steps
  <2>4. QED
    BY <2>3, NoClaimNext DEF Early
<1>2. CASE Lookup(c)
  BY <1>2, GotoSound DEF Lookup
<1>3. CASE Create(c)
  BY <1>3, GotoSound DEF Create
<1>4. CASE Spawn(c)
  BY <1>4, GotoSound DEF Spawn
<1>5. CASE SpawnFails(c)
  BY <1>5, FinishSound DEF SpawnFails
<1>6. CASE EndOfStream(c)
  BY <1>6, FinishSound DEF EndOfStream
<1>7. CASE Reply(c)
  <2>1. call'[c].pc = "idle" /\ call'[c].result = "none"
    BY <1>7, NoCallWell DEF Reply, Exactly, Typed, TypeOK, Well, Steps
  <2>2. QED
    BY <2>1, NoClaimNext DEF Early
<1>8. QED
  BY <1>1, <1>2, <1>3, <1>4, <1>5, <1>6, <1>7, LockSound, SyncFileSound, SyncDoneSound,
     SendSound, SkipSound, ReceiveSound, ApplyEditSound DEF Work

\* Which calls a step of one call may disturb.
LEMMA OneAtATime ==
  ASSUME Exactly, NEW c \in Caller, Resolve(c) \/ Work(c)
  PROVE  /\ \A e \in Caller : e # c => call'[e] = call[e]
         /\ \/ UNCHANGED <<known, nextId, inbox, outbox>>
            \/ mutex = c
            \/ ~ session
<1>0. call \in [Caller -> Call] /\ (call[c].pc \in Holding <=> mutex = c)
  BY Own DEF Exactly, Typed, TypeOK
<1>1. CASE SyncFile(c)
  BY <1>0, <1>1 DEF SyncFile, Advance, SyncError, Finish, Holding
<1>2. CASE Send(c)
  BY <1>0, <1>2 DEF Send, Finish, Holding
<1>3. CASE Skip(c)
  BY <1>0, <1>3 DEF Skip, Finish, Holding
<1>4. CASE Receive(c)
  BY <1>0, <1>4 DEF Receive, Finish, Goto, Holding
<1>5. CASE Spawn(c)
  <2>1. ~ session
    BY <1>5 DEF Spawn, Exactly, Pooled, MapFree
  <2>2. QED
    BY <1>0, <1>5, <2>1 DEF Spawn, Goto
<1>6. CASE Resolve(c)
  <2>1. PICK t : call' = [call EXCEPT ![c] = t]
    BY <1>6, Zenon DEF Resolve
  <2>2. QED
    BY <1>0, <1>6, <2>1 DEF Resolve
<1>7. CASE ApplyEdit(c)
  <2>1. UNCHANGED <<known, nextId, inbox, outbox>>
    BY <1>7 DEF ApplyEdit
  <2>2. PICK out : (call' = [call EXCEPT ![c].pc = "relock", ![c].out = out])
                   \/ Finish(c, "unknown_target")
    BY <1>7, Zenon DEF ApplyEdit
  <2>3. QED
    BY <1>0, <2>1, <2>2 DEF Finish
<1>8. CASE Lookup(c) \/ Create(c) \/ SpawnFails(c) \/ Lock(c) \/ SyncDone(c)
           \/ EndOfStream(c) \/ Reply(c)
  BY <1>0, <1>8 DEF Lookup, Create, SpawnFails, Lock, SyncDone, EndOfStream, Reply, Goto, Finish
<1>9. QED
  BY <1>1, <1>2, <1>3, <1>4, <1>5, <1>6, <1>7, <1>8 DEF Work

LEMMA ExactlyStep == Forms = {"changes"} /\ Exactly /\ [Next]_vars => Exactly'
<1> SUFFICES ASSUME Forms = {"changes"}, Exactly, [Next]_vars PROVE Exactly'
  OBVIOUS
<1>1. Typed' /\ Pooled' /\ KnownIsDelivered' /\ Issued'
  BY TypedStep, PooledStep, KnownStep, IssuedStep DEF Exactly
<1>2. ASSUME NEW e \in Caller PROVE Sound(call[e])'
  <2>1. CASE Serve \/ Chatter \/ Lose
    BY <2>1, ChildSound DEF Serve
  <2>2. ASSUME NEW c \in Caller, Resolve(c) \/ Work(c) PROVE Sound(call[e])'
    BY <2>2, OwnSound, OthersSound, OneAtATime, CallIgnores
  <2>3. CASE Quiet \/ UNCHANGED vars
    <3>1. Sound(call[e])
      BY DEF Exactly
    <3>2. QED
      BY <2>3, <3>1, SameSound DEF Quiet, vars, child
  <2>4. QED
    BY <2>1, <2>2, <2>3 DEF Next
<1>3. QED
  BY <1>1, <1>2 DEF Exactly

LEMMA ExactlyInit == Init => Exactly
<1>1. Init => KnownIsDelivered
  BY DEF Init, KnownIsDelivered
<1>2. Init => \A c \in Caller : Sound(call[c])
  BY NoClaim, NoCallWell DEF Init, Early, Well, Steps
<1>3. QED
  BY <1>1, <1>2, TypedInit, PooledInit, IssuedInit DEF Exactly

\* With a server that phrases its edits as `changes`, a rename that succeeds has renamed
\* every occurrence in the caller's own files, whatever other calls did to the session in
\* between and however the child was lost (ra_pool.rs:68-146, session.rs:159-194); except in
\* a document of which the server has ignored a change.
THEOREM RenamesAreRight == ASSUME Forms = {"changes"} PROVE Spec => []ResolvedIsRenamed
<1>1. Exactly => ResolvedIsRenamed
  BY DEF Exactly, Sound, Edited, Right, ResolvedIsRenamed
<1>2. Exactly /\ [Next]_vars => Exactly'
  BY ExactlyStep
<1>3. QED
  BY <1>1, <1>2, ExactlyInit, PTL DEF Spec

=============================================================================
