----------------------------- MODULE RaSession -----------------------------
(***************************************************************************)
(* Typed renames through the pool of rust-analyzer sessions: the pool      *)
(* (aa-core/src/ra_pool.rs), one persistent session (aa-ra-client/src/     *)
(* session.rs), its LSP client (client.rs) and the retry loop (retry.rs),  *)
(* against a rust-analyzer that indexes, answers late, chatters, falls     *)
(* silent or dies.                                                         *)
(*                                                                         *)
(* One workspace, so one session at most. The calls come from threads that *)
(* share the pool; everything a call does to the session happens under the *)
(* session's mutex, and the pipes to and from the child are queues.        *)
(***************************************************************************)
EXTENDS Integers, SequencesExt

CONSTANTS
  Caller,    \* the threads that resolve typed renames
  File,      \* relative paths, in the order of the BTreeMap
  Text,      \* what a file may hold
  Renamed,   \* [Text -> Text]: a text after the rename, itself if it has no occurrence
  Forms,     \* how the server may phrase an edit: "changes", "documentChanges"
  Unopened,  \* what it may do with a change of a document that nobody opened, or a
             \* rename in one: "served", "ignored"
  NoFile,    \* the path is not in the map
  Garbled,   \* edits computed on one text and applied to another
  Free,      \* nobody holds the session's mutex
  MaxCalls,  \* bound: calls in a behaviour
  MaxTries,  \* bound: polls that fit in the rename timeout
  MaxNotes,  \* bound: notifications of the server
  MaxFaults, \* bound: failing file writes, and requests refused or cancelled
  Losses,    \* how the child may be lost: "dead", "silent"
  MaxLosses  \* bound: times it is lost

ASSUME FileAssumption == File \subseteq Nat
ASSUME TextAssumption == NoFile \notin Text /\ Garbled \notin Text /\ NoFile # Garbled
ASSUME RenamedAssumption == Renamed \in [Text -> Text]
ASSUME FormsAssumption == Forms \subseteq {"changes", "documentChanges"} /\ Forms # {}
ASSUME UnopenedAssumption == Unopened \subseteq {"served", "ignored"} /\ Unopened # {}
ASSUME LossesAssumption == Losses \subseteq {"dead", "silent"}
ASSUME FreeAssumption == Free \notin Caller
ASSUME TriesAssumption == MaxTries \in Nat \ {0}

VARIABLES
  session,  \* the pool holds a session for this workspace
  mutex,    \* who has locked the session
  known,    \* Session.known: what the client believes the server has
  nextId,   \* Client.next_id
  server,   \* the child process
  view,     \* the texts the server has, read from the mirror or received
  open,     \* the documents opened at the server
  ignored,  \* history: those of which the server has ignored a change
  indexed,  \* the server has built its index
  inbox,    \* the child's stdin
  outbox,   \* the child's stdout
  call,     \* each thread's call: its local variables
  calls, notes, faults, losses  \* how much of each bound is used

vars == <<session, mutex, known, nextId, server, view, open, ignored, indexed, inbox, outbox,
          call, calls, notes, faults, losses>>
child == <<server, view, open, ignored, indexed>>
bounds == <<calls, notes, faults, losses>>

Map == [File -> Text \cup {Garbled, NoFile}]  \* a BTreeMap from path to text
Missing == [f \in File |-> NoFile]
Unknown == [version |-> 0, text |-> NoFile]   \* FileState of a path not in `known`

Phase == {"idle", "lookup", "create", "spawn", "lock", "sync", "send", "await",
          "edit", "relock", "ack", "reply"}
Result == {"none", "ok", "unavailable", "client", "unknown_target"}

\* Signals of classify_indexing_signal; an edit says which text of each file it is for.
Answer == [id : Nat, signal : {"ready", "not_ready", "hard"},
           changes : Map, documentChanges : Map]
Note == [id |-> 0, signal |-> "hard", changes |-> Missing, documentChanges |-> Missing]

NoCall == [pc |-> "idle", files |-> Missing, decl |-> 0, out |-> Missing, todo |-> {},
           id |-> 0, tries |-> 0, edit |-> Note, result |-> "none"]

\* A thread asks for a rename at a position of `decl` with the workspace it has read.
Asked(files, decl) == [NoCall EXCEPT !.pc = "lookup", !.files = files, !.decl = decl]

In(map) == {f \in File : map[f] # NoFile}
First(S) == CHOOSE f \in S : \A g \in S : f <= g

Init ==
  /\ session = FALSE /\ mutex = Free
  /\ known = [f \in File |-> Unknown]
  /\ nextId = 1
  /\ server = "none" /\ view = Missing /\ open = {} /\ ignored = {} /\ indexed = FALSE
  /\ inbox = <<>> /\ outbox = <<>>
  /\ call = [c \in Caller |-> NoCall]
  /\ calls = 0 /\ notes = 0 /\ faults = 0 /\ losses = 0

-----------------------------------------------------------------------------

Fault == faults < MaxFaults /\ faults' = faults + 1 /\ UNCHANGED <<calls, notes, losses>>

\* The child's end of the pipe is open: a write succeeds, read or not.
PipeOpen == server # "dead"

\* c goes on to the given phase.
Goto(c, phase) == call' = [call EXCEPT ![c].pc = phase]

\* c's call is over; whoever holds the session lets it go.
Finish(c, result) ==
  /\ call' = [call EXCEPT ![c].pc = "reply", ![c].result = result]
  /\ mutex' = IF mutex = c THEN Free ELSE mutex

-----------------------------------------------------------------------------
(* The pool: find or spawn the session. *)

Resolve(c) ==
  /\ call[c].pc = "idle" /\ calls < MaxCalls
  /\ calls' = calls + 1
  /\ \E files \in [File -> Text \cup {NoFile}] : \E decl \in In(files) :
       call' = [call EXCEPT ![c] = Asked(files, decl)]
  /\ UNCHANGED <<session, mutex, known, nextId, child, inbox, outbox, notes, faults, losses>>

\* The spawning thread keeps the map's write lock, handshake included.
MapFree == \A c \in Caller : call[c].pc # "spawn"

Lookup(c) ==
  /\ call[c].pc = "lookup" /\ MapFree
  /\ Goto(c, IF session THEN "lock" ELSE "create")
  /\ UNCHANGED <<session, mutex, known, nextId, child, inbox, outbox, bounds>>

\* Mutant of Create: the map is not looked at again under the write lock.
CreateUnchecked(c) ==
  /\ call[c].pc = "create" /\ MapFree
  /\ Goto(c, "spawn")
  /\ UNCHANGED <<session, mutex, known, nextId, child, inbox, outbox, bounds>>

\* Under the write lock the map is looked at again.
Create(c) ==
  /\ call[c].pc = "create" /\ MapFree
  /\ Goto(c, IF session THEN "lock" ELSE "spawn")
  /\ UNCHANGED <<session, mutex, known, nextId, child, inbox, outbox, bounds>>

\* The mirror is written and the handshake done: the server starts from the mirror,
\* with no document open.
Spawn(c) ==
  /\ call[c].pc = "spawn"
  /\ Goto(c, "lock")
  /\ session' = TRUE
  /\ known' = [f \in File |-> [version |-> 0, text |-> call[c].files[f]]]
  /\ nextId' = 2
  /\ server' = "up" /\ view' = call[c].files /\ indexed' = FALSE
  /\ open' = {} /\ UNCHANGED ignored
  /\ inbox' = <<>> /\ outbox' = <<>>
  /\ UNCHANGED <<mutex, bounds>>

\* No binary, or an end of file during the handshake: nothing is stored.
SpawnFails(c) ==
  /\ call[c].pc = "spawn"
  /\ \E r \in {"unavailable", "client"} : Finish(c, r)
  /\ Fault
  /\ UNCHANGED <<session, known, nextId, child, inbox, outbox>>

\* Mutant of Lock: the mutex is not waited for.
LockUnchecked(c) ==
  /\ call[c].pc \in {"lock", "relock"}
  /\ mutex' = c
  /\ call' = [call EXCEPT
       ![c].pc = IF call[c].pc = "lock" THEN "sync" ELSE "ack",
       ![c].todo = IF call[c].pc = "lock" THEN In(call[c].files) ELSE In(call[c].out)]
  /\ UNCHANGED <<session, known, nextId, child, inbox, outbox, bounds>>

\* The session is locked twice: for the rename, and to acknowledge its result.
Lock(c) ==
  /\ call[c].pc \in {"lock", "relock"}
  /\ mutex = Free
  /\ mutex' = c
  /\ call' = [call EXCEPT
       ![c].pc = IF call[c].pc = "lock" THEN "sync" ELSE "ack",
       ![c].todo = IF call[c].pc = "lock" THEN In(call[c].files) ELSE In(call[c].out)]
  /\ UNCHANGED <<session, known, nextId, child, inbox, outbox, bounds>>

-----------------------------------------------------------------------------
(* Session::sync, for the caller's map before a rename and for its result after. *)

Wanted(c) == IF call[c].pc = "sync" THEN call[c].files ELSE call[c].out

\* An error ends a call that wanted to rename; after a rename it is ignored.
SyncError(c) == Finish(c, IF call[c].pc = "sync" THEN "client" ELSE "ok")

Advance(c, f) == call' = [call EXCEPT ![c].todo = @ \ {f}]

\* A path that is in `known` is taken for open, those of the first mirror too, which no
\* didOpen ever named.
Document(how, f, new) ==
  [kind |-> "doc", how |-> how, file |-> f, text |-> new.text, version |-> new.version]
Notification(f, new) ==
  Document(IF known[f].text = NoFile THEN "didOpen" ELSE "didChange", f, new)

\* Mutants of SyncFile: the bookkeeping is done and the server not told; the version is
\* not raised.
SyncFileUnsent(c) ==
  LET f == First(call[c].todo) IN
  /\ call[c].pc \in {"sync", "ack"} /\ call[c].todo # {}
  /\ Advance(c, f)
  /\ known' = [known EXCEPT ![f].text = Wanted(c)[f]]
  /\ UNCHANGED <<session, mutex, nextId, child, inbox, outbox, bounds>>

SyncFileSameVersion(c) ==
  LET f == First(call[c].todo)  text == Wanted(c)[f] IN
  /\ call[c].pc \in {"sync", "ack"} /\ call[c].todo # {}
  /\ Advance(c, f)
  /\ IF known[f].text = text
       THEN UNCHANGED <<known, inbox>>
       ELSE /\ known' = [known EXCEPT ![f].text = text]
            /\ inbox' = Append(inbox, Notification(f, [known[f] EXCEPT !.text = text]))
  /\ UNCHANGED <<session, mutex, nextId, child, outbox, bounds>>

\* One file of the walk. Unchanged: nothing. Known: the mirror, the bookkeeping, then
\* didChange. New: the mirror, didOpen, then the bookkeeping.
SyncFile(c) ==
  LET f == First(call[c].todo)
      text == Wanted(c)[f]
      old == known[f]
      new == [version |-> old.version + 1, text |-> text]
  IN
  /\ call[c].pc \in {"sync", "ack"} /\ call[c].todo # {}
  /\ \/ /\ old.text = text
        /\ Advance(c, f)
        /\ UNCHANGED <<known, inbox, mutex, bounds>>
     \/ /\ old.text # text /\ PipeOpen
        /\ Advance(c, f)
        /\ known' = [known EXCEPT ![f] = new]
        /\ inbox' = Append(inbox, Notification(f, new))
        /\ UNCHANGED <<mutex, bounds>>
     \/ /\ old.text # text /\ ~ PipeOpen
        /\ SyncError(c)
        /\ known' = IF old.text # NoFile THEN [known EXCEPT ![f] = new] ELSE known
        /\ UNCHANGED <<inbox, bounds>>
     \/ /\ old.text # text                    \* the mirror cannot be written
        /\ SyncError(c)
        /\ Fault
        /\ UNCHANGED <<known, inbox>>
  /\ UNCHANGED <<session, nextId, child, outbox>>

\* Mutant of SyncDone: the session stays locked after the acknowledgement.
SyncDoneHoldsLock(c) ==
  /\ call[c].todo = {}
  /\ \/ call[c].pc = "sync" /\ Goto(c, "send")
     \/ call[c].pc = "ack"
        /\ call' = [call EXCEPT ![c].pc = "reply", ![c].result = "ok"]
  /\ UNCHANGED <<session, mutex, known, nextId, child, inbox, outbox, bounds>>

SyncDone(c) ==
  /\ call[c].todo = {}
  /\ \/ call[c].pc = "sync" /\ Goto(c, "send") /\ UNCHANGED mutex
     \/ call[c].pc = "ack" /\ Finish(c, "ok")
  /\ UNCHANGED <<session, known, nextId, child, inbox, outbox, bounds>>

-----------------------------------------------------------------------------
(* The client's request and the retry loop around it. *)

Send(c) ==
  /\ call[c].pc = "send"
  /\ nextId' = nextId + 1
  /\ \/ /\ PipeOpen
        /\ inbox' = Append(inbox, [kind |-> "rename", file |-> call[c].decl, id |-> nextId])
        /\ call' = [call EXCEPT ![c].pc = "await", ![c].id = nextId, ![c].tries = @ + 1]
        /\ UNCHANGED mutex
     \/ /\ ~ PipeOpen
        /\ Finish(c, "client")
        /\ UNCHANGED inbox
  /\ UNCHANGED <<session, known, child, outbox, bounds>>

\* A notification, or the answer to a request given up earlier, is dropped; only then
\* is the clock looked at.
Skip(c) ==
  /\ call[c].pc = "await" /\ outbox # <<>> /\ Head(outbox).id # call[c].id
  /\ outbox' = Tail(outbox)
  /\ \/ UNCHANGED <<call, mutex>>
     \/ Finish(c, "client")
  /\ UNCHANGED <<session, known, nextId, child, inbox, bounds>>

\* Mutant of Receive: the id of the answer is not looked at.
ReceiveAny(c) ==
  LET m == Head(outbox) IN
  /\ call[c].pc = "await" /\ outbox # <<>> /\ m.id # 0
  /\ outbox' = Tail(outbox)
  /\ IF m.signal = "ready"
       THEN /\ call' = [call EXCEPT ![c].pc = "edit", ![c].edit = m]
            /\ mutex' = Free
       ELSE Finish(c, "client")
  /\ UNCHANGED <<session, known, nextId, child, inbox, bounds>>

\* The answer: an edit ends the call's hold on the session, "not ready" is polled again
\* until the deadline, anything else is an error.
Receive(c) ==
  LET m == Head(outbox) IN
  /\ call[c].pc = "await" /\ outbox # <<>> /\ m.id = call[c].id
  /\ outbox' = Tail(outbox)
  /\ \/ /\ m.signal = "ready"
        /\ call' = [call EXCEPT ![c].pc = "edit", ![c].edit = m]
        /\ mutex' = Free
     \/ /\ m.signal = "not_ready" /\ call[c].tries < MaxTries
        /\ Goto(c, "send")
        /\ UNCHANGED mutex
     \/ /\ m.signal = "not_ready" /\ Finish(c, "client")
     \/ /\ m.signal = "hard" /\ Finish(c, "client")
  /\ UNCHANGED <<session, known, nextId, child, inbox, bounds>>

\* The end of the stream; what the child wrote before it died has been read.
EndOfStream(c) ==
  /\ call[c].pc = "await" /\ outbox = <<>> /\ server = "dead"
  /\ Finish(c, "client")
  /\ UNCHANGED <<session, known, nextId, child, inbox, outbox, bounds>>

\* apply_workspace_edit: `changes` alone is read, and every file it names must be in
\* the caller's map.
ApplyEdit(c) ==
  LET t == call[c]
      changes == t.edit.changes
  IN
  /\ t.pc = "edit"
  /\ \/ /\ \E f \in In(changes) : t.files[f] = NoFile
        /\ Finish(c, "unknown_target")
     \/ /\ \A f \in In(changes) : t.files[f] # NoFile
        /\ call' = [call EXCEPT
             ![c].pc = "relock",
             ![c].out = [f \in File |->
                           IF f \notin In(changes) THEN t.files[f]
                           ELSE IF changes[f] = t.files[f] THEN Renamed[t.files[f]]
                           ELSE Garbled]]
        /\ UNCHANGED mutex
  /\ UNCHANGED <<session, known, nextId, child, inbox, outbox, bounds>>

Reply(c) ==
  /\ call[c].pc = "reply"
  /\ call' = [call EXCEPT ![c] = NoCall]
  /\ UNCHANGED <<session, mutex, known, nextId, child, inbox, outbox, bounds>>

-----------------------------------------------------------------------------
(* rust-analyzer, as the client takes it to be. *)

Index ==
  /\ server = "up" /\ ~ indexed
  /\ indexed' = TRUE
  /\ UNCHANGED <<session, mutex, known, nextId, server, view, open, ignored, inbox, outbox,
                 call, bounds>>

MayServe(f) == f \in open \/ "served" \in Unopened
MayIgnore(f) == f \notin open /\ "ignored" \in Unopened

\* A full text replaces what the server had (client.rs:254-258), unless it is a change
\* of a document that was never opened.
TakeDocument ==
  LET m == Head(inbox) IN
  /\ server = "up" /\ inbox # <<>> /\ m.kind = "doc"
  /\ inbox' = Tail(inbox)
  /\ \/ /\ m.how = "didOpen" \/ MayServe(m.file)
        /\ view' = [view EXCEPT ![m.file] = m.text]
        /\ open' = IF m.how = "didOpen" THEN open \cup {m.file} ELSE open
        /\ UNCHANGED ignored
     \/ /\ m.how = "didChange" /\ MayIgnore(m.file)
        /\ ignored' = ignored \cup {m.file}
        /\ UNCHANGED <<view, open>>
  /\ UNCHANGED <<session, mutex, known, nextId, server, indexed, outbox, call, bounds>>

\* The texts of its documents that hold an occurrence.
Occurrences == [f \in File |-> IF view[f] \in Text /\ Renamed[view[f]] # view[f]
                               THEN view[f] ELSE NoFile]

TakeRename ==
  LET m == Head(inbox)
      say(signal) == Append(outbox, [Note EXCEPT !.id = m.id, !.signal = signal])
      edit == [Note EXCEPT !.id = m.id, !.signal = "ready"]
  IN
  /\ server = "up" /\ inbox # <<>> /\ m.kind = "rename"
  /\ inbox' = Tail(inbox)
  /\ \/ /\ indexed /\ m.file \in In(Occurrences) /\ MayServe(m.file)
        /\ \E form \in Forms :
             outbox' = Append(outbox, IF form = "changes"
                                        THEN [edit EXCEPT !.changes = Occurrences]
                                        ELSE [edit EXCEPT !.documentChanges = Occurrences])
        /\ UNCHANGED bounds
     \/ /\ ~ indexed \/ m.file \notin In(Occurrences)
        /\ outbox' = say("not_ready")
        /\ UNCHANGED bounds
     \/ /\ \E signal \in {"not_ready", "hard"} : outbox' = say(signal)
        /\ \/ MayIgnore(m.file) /\ UNCHANGED bounds   \* client.rs:194-195
           \/ Fault
  /\ UNCHANGED <<session, mutex, known, nextId, child, call>>

\* $/progress, window/logMessage, diagnostics.
Chatter ==
  /\ server = "up" /\ notes < MaxNotes
  /\ notes' = notes + 1
  /\ outbox' = Append(outbox, Note)
  /\ UNCHANGED <<session, mutex, known, nextId, child, inbox, call, calls, faults, losses>>

\* The child dies, or goes on without answering (it may be blocked on its stderr, which
\* nobody reads).
Lose ==
  /\ server = "up" /\ losses < MaxLosses
  /\ losses' = losses + 1
  /\ server' \in Losses
  /\ UNCHANGED <<session, mutex, known, nextId, view, open, ignored, indexed, inbox, outbox,
                 call, calls, notes, faults>>

-----------------------------------------------------------------------------

Quiet ==
  /\ calls = MaxCalls /\ \A c \in Caller : call[c].pc = "idle"
  /\ UNCHANGED vars

Work(c) ==
  \/ Lookup(c) \/ Create(c) \/ Spawn(c) \/ SpawnFails(c) \/ Lock(c)
  \/ SyncFile(c) \/ SyncDone(c) \/ Send(c) \/ Skip(c) \/ Receive(c) \/ EndOfStream(c)
  \/ ApplyEdit(c) \/ Reply(c)

Serve == Index \/ TakeDocument \/ TakeRename

Next ==
  \/ \E c \in Caller : Resolve(c) \/ Work(c)
  \/ Serve \/ Chatter \/ Lose
  \/ Quiet

Spec == Init /\ [][Next]_vars

\* Every thread goes on with its call, and a child that is up goes on serving. A silent
\* child owes nothing.
FairSpec == Spec /\ (\A c \in Caller : WF_vars(Work(c))) /\ WF_vars(Serve)

-----------------------------------------------------------------------------
(* Properties. *)

Call == [pc : Phase, files : Map, decl : File \cup {0}, out : Map, todo : SUBSET File,
         id : Nat, tries : 0..MaxTries, edit : Answer, result : Result]

Message == [kind : {"doc"}, how : {"didOpen", "didChange"}, file : File,
            text : Text \cup {Garbled}, version : Nat]
             \cup [kind : {"rename"}, file : File, id : Nat]

\* Every variable has its type, and the mutex is held exactly through the phases that
\* use the session.
TypeOK ==
  /\ session \in BOOLEAN /\ indexed \in BOOLEAN
  /\ known \in [File -> [version : Nat, text : Text \cup {Garbled, NoFile}]]
  /\ nextId \in Nat
  /\ server \in {"none", "up", "silent", "dead"}
  /\ view \in Map /\ open \subseteq File /\ ignored \subseteq File
  /\ inbox \in Seq(Message) /\ outbox \in Seq(Answer)
  /\ call \in [Caller -> Call]
  /\ mutex \in Caller \cup {Free}
  /\ \A c \in Caller : call[c].pc \in {"sync", "send", "await", "ack"} <=> mutex = c

\* Where the documents for f are that the server has still to read, and what it holds
\* for f once it has read them all.
Queued(f) == {i \in DOMAIN inbox : inbox[i].kind = "doc" /\ inbox[i].file = f}
Delivered(f) == IF Queued(f) = {} THEN view[f] ELSE inbox[Max(Queued(f))].text

\* What the client believes of a live server is what the server will have read before
\* the next request reaches it: the reason why skipping unchanged files is right
\* (session.rs:26-34, 159-194). Except of a document of the first mirror, which nobody
\* opened, when the server has ignored a change of it.
KnownIsDelivered ==
  server \in {"up", "silent"} =>
    \A f \in File \ ignored : Delivered(f) = known[f].text

\* The versions of a document only grow along the pipe, up to the one the client
\* remembers, whatever the order in which renames and acknowledgements run
\* (session.rs:26-27, 172, 186).
VersionsGrow ==
  /\ \A i, j \in 1..Len(inbox) :
       i < j /\ inbox[i].kind = "doc" /\ inbox[j].kind = "doc" /\ inbox[i].file = inbox[j].file
         => inbox[i].version < inbox[j].version
  /\ \A i \in 1..Len(inbox) :
       inbox[i].kind = "doc" => inbox[i].version \in 1..known[inbox[i].file].version

\* A rename that succeeds has renamed every occurrence in the caller's own files, even
\* when other calls' answers, edits and acknowledgements went through the same session
\* in between (ra_pool.rs:68-146; types.rs:57-58: flatten is "the unified view every
\* consumer should use"), except in a document of which the server has ignored a change.
ResolvedIsRenamed ==
  \A c \in Caller :
    call[c].result = "ok" =>
      \A f \in File \ ignored : LET text == call[c].files[f] IN
        call[c].out[f] = IF text = NoFile THEN NoFile ELSE Renamed[text]

\* One session per workspace: while the map has one, no thread is spawning another
\* (ra_pool.rs:84-104).
OneSession == session => MapFree

\* Every call returns, with an edit or an error: no wait for the map, the mutex or the
\* server is for ever (ra_pool.rs:43-47: "per-request RPCs time out").
CallsReturn == \A c \in Caller : call[c].pc # "idle" ~> call[c].pc = "idle"
=============================================================================
