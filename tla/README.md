# A TLA+ verification project for AYE-AYE (Prolog-Forge)

AYE-AYE is a local daemon that keeps a graph of facts about a Rust workspace,
runs Datalog rules over it, lets an LLM propose facts and patches, validates a
patch on a shadow copy, writes it to disk in a transaction, journals it and can
roll it back. This directory holds TLA+ modules translated from its source, the
TLC configurations that check them on small instances, and theorems about seven
of them that TLAPS checks for every value of the constants.

Paths below are relative to the repository root; `core/` stands for
`crates/aa-core/src/`, `llm/` for `crates/aa-llm/src/` and `ra/` for
`crates/aa-ra-client/src/`.

## 1. The system

| Component | State it keeps | Operations | Modelled |
|---|---|---|---|
| Patch transactions: `core/apply.rs`, `journal.rs`, `rollback.rs`, `handlers.rs` | the workspace's files, sibling temp files, `.aye-aye/journal/*.json`, the request's maps of texts | `patch.apply`, `patch.rollback` | `PatchTxn`, `AtomicCommit` |
| rust-analyzer pool and client: `core/ra_pool.rs`, `ra/session.rs`, `client.rs`, `retry.rs` | map root -> session, the session's mutex, `known` (version and text per file), `next_id`, the child and its pipes | `resolve_typed_rename` | `RaSession` |
| Knowledge: `aa-graph`, `aa-rules`, `llm/propose.rs`, `refine.rs`, `context.rs`, `cache.rs`, `core/index.rs`, `lower.rs`, `session.rs` | graph store (facts by layer, arities), loaded rules, response cache | `graph.ingestFact`, `workspace.index`, `rules.load`, `rules.evaluate`, `llm.propose`, `llm.refine` | `KnowledgeGraph` |
| Patch planning and operations: `aa-patch` | none (pure) | rename, typed rename, derive, inline, extract, change signature, move | `Refactor`, what programs mean in `Meaning`; the fold and its dropped errors in `Validate`, typed renames in `RaSession` |
| Validation: `aa-validate`, `core/validate_stages.rs` | shadow graph, temp directory, cargo children | syntactic, rules, cargo check, cargo test stages | `Validate` |
| Test impact: `core/test_impact.rs` | none (pure) | impacted tests of a plan | `Refactor`, `Meaning` |
| LLM patch proposals: `llm/propose_patch.rs` | response cache | `llm.propose_patch` | `Proposals`, `Service` |
| Commit memory: `core/memory.rs` | none (reads the journal) | `memory.history`, `get`, `stats` | `Memory`, `Service` |
| Handlers and sessions: `core/handlers.rs`, `session.rs`, `lib.rs` | workspaces, graph, rules, cache | every method of the protocol | `Service`, and the modules above |
| Daemon loop and protocol: `aa-daemon`, `aa-protocol` | stdin/stdout framing | read, dispatch, answer, shut down | `Extension`, without the byte format |
| VS Code adapter: `adapters/vscode` | `nextId`, pending requests, the child, the opened workspace | activation, six commands, shutdown | `Extension` |
| Command line: `aa-cli` | a core of its own | every command | `Clients` |
| Explainer: `aa-explain` | none (pure) | `explain.patch` | verdict in `Validate`, cited facts and activations in `KnowledgeGraph` |
| Source walk and Rust analysis, persistence trait, tooling | none that a request shares with another | | not modelled: pure traversals, unused, or packaging |

How they interact:

* The daemon (`aa-daemon/src/main.rs:36-75`) is one thread: it reads a request,
  calls its handler, writes the answer and reads the next. The concurrency of
  the system is therefore *around* one daemon: a second daemon on the same root
  (every editor window and every `aa` command starts its own), the editor that
  saves files, the rust-analyzer and cargo children, the reader of the pipe on
  the client's side. `Core` and the rust-analyzer pool are written for
  concurrent callers (`RwLock`, `Mutex` and a second look at the map under the
  write lock); the model of the pool keeps the threads those locks are there for.
* `with_workspace` (`core/session.rs:76-88`) holds the workspace's mutex for the
  length of a graph request. The patch handlers read what they need under the
  mutex and write to disk without it.
* The patch handlers take the sources from disk, apply the plan in memory,
  validate the result and write it; `typed` renames call the pool while the plan
  is applied; the rule stage loads a shadow graph; the journal feeds rollback
  and memory.

What is hard in it, and where no test of the repository reaches (the full list,
with lines, is `hazards` in `PROJECT.json`): a save or a second daemon between
two system calls of a commit; a failure while restoring after a failure; a kill
between the first rename and the journal entry; document versions and texts when
renames, their acknowledgements and failed writes alternate on one session; late
answers, silent and dying children; evaluations that stop half-way through a
batch and are run again; LLM candidates that vouch for each other, that are
cached, or that leak into inferred facts; rounds that repeat themselves; a plan
half of whose operations failed; copies of a workspace that is being edited; a
child nobody reads from, and what it leaves behind; a sequence of refactorings
each of which reads what the last one wrote; tests that are not run because no
name of the plan was found in them; a request that was given up and is answered,
or commits, later; a daemon that hangs, dies or is told to shut down with
promises pending; a user who confirms what has changed since it was shown.

## 2. The modules and how they correspond to the code

### PatchTxn: `patch.apply` and `patch.rollback`

State: `disk`, `tmp` and `journal` are the file system; `txn[d]` holds the local
variables of daemon `d`'s request (`original`, `shadow` and `backup` are the
`BTreeMap`s of `handlers.rs` and `apply.rs`, `todo` what the current loop has
still to visit, `written` the files renamed so far); `clock` is the source of
commit ids. Three fields are history: `raced` (files somebody else changed after
this request verified them) and `lost` (restores that failed silently) are what
the properties except, and nothing in an action's guard reads them.

Each action is one system call, or the code between two: `LoadFile` (the walk),
`Validate` (plan and pipeline: any shadow of the existing files, or a refusal),
`ReadEntry`, `CheckFile` (rollback's own drift check), `PreflightFile`,
`BackupFile`, `BackupDone` (draws the id), `WriteTmp`/`WriteTmpFails`,
`Rename`/`RenameFails`, `RestoreTruncate`/`RestoreFill` (a plain `fs::write`
truncates first), `RestoreDone`, `JournalWrite`, `JournalDelete`, `Reply`. The
world adds `Edit` (an editor saves or deletes) and `Crash` (memory is gone, disk
stays, nothing is recovered).

`AtomicCommit` is the promise: files change by whole commits and whole
rollbacks, and the log holds what each replaced. `PatchTxn` instantiates it with
`files <- Promised` (renamed files of a commit not yet recorded count as the
originals they will be restored to) and `log <- journal`.

### RaSession: typed renames through the pool

State: `session`, `mutex`, `known`, `nextId` are the fields of the pool, the
session and the client; `server`, `view`, `indexed` are the child; `inbox` and
`outbox` the pipes; `call[c]` the local variables of a thread. Actions follow
`resolve_typed_rename`: `Lookup`/`Create`/`Spawn` (read lock, write lock with a
second look, spawn and handshake under it), `Lock`, `SyncFile` (unchanged, known
and new files, with the order of bookkeeping and write that decides what an
error leaves behind), `Send`, `Skip`/`Receive`/`EndOfStream` (the client's
read loop and the retry loop around it), `ApplyEdit`, then `Lock` and `SyncFile`
again to acknowledge. rust-analyzer is external: `Index`, `TakeDocument`,
`TakeRename`, `Chatter`, `Lose`.

`Session::spawn` puts the files of the first mirror in `known` at version 0 and sends
no `didOpen` for them (`ra/session.rs:76-88`), so a later edit of one sends
`didChange` for a document that was never opened (`ra/session.rs:166-174`).
`Notification` keeps the two kinds of message apart, `open` is the set of documents
the server was told to open, and `ignored` (history) those of which it has ignored a
change. What a server does with such a message is its own business, and the client's
comments disagree about it: rust-analyzer "won't rename a file it hasn't been notified
about" (`ra/client.rs:194-195`), while `rename_at` counts a file as synchronised by
either message (`ra/client.rs:271-277`). `Unopened` therefore holds both: such a document may be
*served* (the change is taken, as it would be by a server that reads the mirror again,
and it can be renamed in) or *ignored* (the change is dropped, a rename is refused),
and each message is decided anew. The runs use both, and `KnownIsDelivered` and
`ResolvedIsRenamed` speak of the files not in `ignored`: of an ignored one
the session believes a text the server does not have, and a rename may rest on the old
one.

### KnowledgeGraph: facts, rules and the LLM's loops

State: `graph` maps each fact to who first wrote it and in which pass (history;
its domain is `GraphStore`), `rules`, `cache`, and `req`, the request in
progress. `with_workspace` lets one run at a time; a request is still many
insertions, and an error leaves behind what it has inserted. Actions: `Ingest`,
`Load`, `Index`, `Evaluate`, `Propose`, `Refine` start a request;
`InsertFact`/`ArityError` go through a batch in any order; `Solve` is one pass
of the naive evaluator; `Recall`/`Ask`/`ProviderFails` are the cache and the
provider, `Accept`/`Reject`/`RoundDone` the resolution of an answer; `Reply`.
The k-hop context of a prompt is computed by the same widening search as
`ContextSelector`. `Activations`, `Cited` and `Traced` are what `explain.patch`
reads off the graph and the rules: operators, since it changes nothing.

### Validate: the gate of `patch.apply` and `explain.patch`

State: `req` holds the handler's local variables (`original`, `shadow`, the
operations still to fold, the report so far); `child` is the cargo process of the
current stage with the output it has still to print, what its pipe holds and
whether something it started (`heir`) holds the pipe open; `clock` counts from its
start; `disk`, `manifest`, `cargo` are the machine. A text is what the stages tell
apart: whether the plan rewrote it and the one flaw some stage would find in it.
`skipped` remembers the one kind of dropped error a property is about.

Actions: `ReadWorkspace`; one action per family of operation, by what the family
may leave behind (`PerFileOp` skips what it cannot parse and rewrites the rest,
`WholeOp` is all or nothing, `TypedOp` takes what rust-analyzer says, `FailedOp`);
`BuildPipeline`; `SyntacticStage`, `RuleStage`, `CargoUnavailable`; then a cargo
stage step by step: `Spawn` on the `Mirror` (the disk as it is by then, under the
whole shadow), `SeeExit`, `Drain`, `TimeOut`, `WaitFails`; `DecideApply` and
`DecideExplain`. Outside: `ChildPrints`, `ChildExits`, `HeirExits`, `Tick`, `Edit`.
The write is one step here; `PatchTxn` has its system calls. `Tick` is enabled
while the child is slow or blocked: a build that is neither ends before the next
tick, which is how the model says *quick*.

### Refactor: what the operations do to a program

A program is a set of items (functions, methods, default methods of traits,
structs) at places (files and a nested module) with imports. Bodies are short
sequences of `let`, effects, calls, `return` and `?`, with the distinctions the
visitors make: bare, qualified and method calls, names that are read, bound or
inside a macro, a name among the arguments of a call, the shapes that are
refused. Each operation is a guard translated from its refusals
(`SignatureAllowed`, `InlineAllowed`, `ExtractAllowed`, `MoveAllowed`) and a
rewriting translated from its edits (`Rename`, `ChangeSignature`, `Inline`,
`Extract`, `Move`, `AddDerives`, `RemoveDerives`); an operation that refuses
leaves the program alone, as in `plan.rs`. An inlining of `f` where a call of `f` is
among the arguments of another is refused by no check of `inline.rs`, although the
operation "refuses ambiguity rather than produce a half-inlined program"
(`ops.rs:112-113`): the call sites are replaced
from the last to the first, each by a block made of the original text of its
arguments, so the outer splice goes over an inner one that has already changed
(`inline.rs:229-278`). An inner block that is longer than its call leaves a rest
that the parse afterwards refuses (`inline.rs:310-319`); one as long, or shorter before
blanks, goes through and leaves the inner call of a function that is no more.
`InlineOf` has both outcomes; that a shorter inner block makes the outer splice eat
some of the text behind the call, blanks or not, is left out. `orig` is the program before the plan,
`prog` the shadow; `anchors` are the names `anchors_from_ops` collects, `kinds`
which operations changed anything, `captured` whether one of them rebound a name
in a way that is known and named (`RenameCaptures`, `SignatureCaptures`,
`InlineCaptures`, `ExtractCaptures`, `MeansElse`).

`Parts` are the parts of an expression, which is what `syn`'s visitors go through;
what occurs in it (`Shows`, `Occ`) and every rewriting (`RewE`, of which `RewPart` is one
node) are written over them, round by round, so that the module needs no `RECURSIVE`
operator and can be proved about. `Depth` bounds the rounds: nothing looks at what is
nested deeper. `Depth = 8` is deeper than any program of `MCRefactor` and than what two
operations make of one.

The last part of the module is `test_impact.rs`: `Catalogued`, `FnIdents`, `Reachable` (the
search, by rounds), `Impacted`, and which tests the cargo test stage skips. `Read` is
what the functions of a name say, all but the type whose impl they stand in.

`Meaning` extends `Refactor` and is no code of the project: `Compiles` and the evaluator
`EvalE`/`EvalS` say what a program *means*, so that properties can compare the effects
of each test before and after a plan.

### Clients: the daemon and everybody who uses it

Five modules, each extending the one before.

* `Proposals` is what `propose_patch.rs` makes of a model's answer: one guard per
  operation over records that have the fields the model chose to write.
* `Memory` is `memory.rs`: an answer of `history` is a member of a set, because
  entries of one second come in the order of the directory.
* `Service` is a core as its clients see it: every method begins, when it reads the
  workspace and the journal, and finishes with an answer, so commits of other processes
  land in between. The workspace is one text: the names of its functions and types, and
  a rest that no handler reads. `Shadows` folds a plan over it as
  `apply_plan_with_resolver` does, and yields every outcome it may have (the text, and
  whether errors were reported): `Edits` is one operation. Renames replace or add a name
  (a filter may leave files out: `scope`), `inline_function` takes one away,
  `extract_function` brings one in, derives, signatures and moves change the rest. Which
  refusals an operation meets on a text is the constant operator `Planner`, what it
  makes of the rest `Rest`; both are arbitrary in the proofs. A typed rename is what
  rust-analyzer says each time it is asked: an error, no change, or the new name beside
  or instead of another. `made` is the history of commits, with a note of what the user
  had been shown (`seen`), and `journal` those that have an entry.
* `Extension` is the daemon's loop, its two pipes, the JSON-RPC client and the
  extension. `client` holds the fields of `client.js`; `flow[w]` is a chain of
  requests of one command, of the activation or of the shutdown, with the promise
  it awaits (`id`), what that promise was settled with (`got`) and what its user
  is told. The daemon may hang or die in the middle of a call.
* `Clients` adds command lines: processes with a core of their own that make the
  calls of their command's script and end with an exit code. `budget` chooses one
  of five bounded scenarios, see below.

How a plan rewrites a text is `Refactor`'s business here, how a commit reaches
the disk `PatchTxn`'s, how the gate judges it `Validate`'s: a plan is rejected, or
committed, with either outcome possible.

## 3. The runs

| Run | Question | Bounds | Result |
|---|---|---|---|
| `patch_shared` | With two daemons, an editor, failures and a kill: what does each request know of the disk, what has a commit installed, a failure restored, the journal recorded? | 2 daemons, 2 files, 2 texts, 2 requests, 1 edit, 2 faults, 1 crash | holds |
| `patch_atomic` | Is one daemon with one failing call atomic? | 1 daemon, 2 files, 3 requests, 1 fault | holds (refinement of `AtomicCommit`) |
| `patch_lost_update` | Can a save be overwritten? | 1 daemon, 1 edit | yes |
| `ra_session` | Does the client's mirror agree with the server, do versions grow, is what was renamed the caller's own text, is there one session? | 2 threads, 2 files, 2 calls, 2 polls, 1 note, 1 fault, 1 death, documents never opened served or ignored | holds, but for files the server ignored |
| `ra_returns` | Does every typed rename return when the child serves or dies? | 2 threads, 1 file | holds |
| `ra_silent` | And when the child stays alive and writes nothing? | 1 thread | no |
| `graph` | Are inferred facts derived, evaluations least models, candidates grounded, prompts new, verdicts honest, contexts fresh, requests finite? | 4 requests, 2 entities and a name, 3 rule packs (one recursive, one over candidates, one with an unbound head), 2 ingests, 3 answers, 1 provider failure | holds |
| `graph_laundering` | Can a rule turn the LLM's candidates into trusted facts? | 4 requests | yes |
| `gate` | What does the report of the stages mean for the texts that are written, whatever an editor, a plan's errors and cargo do? Is every request answered, although cargo may run for ever or block? | 1 file, all 5 flaws, 1 operation, 1 edit, 2 units of output, a pipe of 1, a cap of 1 tick | holds |
| `refactor` | Does a plan keep the behaviour of the program, is anything left half-rewritten, is a test that changed skipped, or one of which anything it can reach was touched, do derives cancel? | 67 programs of four to six items in two files and a nested module, 2 operations, 2 filters, arguments chosen to collide | holds, with the exceptions the properties name |
| `refactor_nested` | Do arguments stay with their parameters? | 1 operation | not in a call within a call |
| `clients` | Whose answer settles a promise, is every promise settled, is the daemon reaped, was what is committed confirmed and known, are the reports true, is the newest history shown? | 1 window and 2 command lines, in five scenarios (below) | holds |

Why these bounds are enough to be interesting:

* `PatchTxn`. Two files are what half a commit needs: one renamed, one not. Two
  requests let two commits race on two daemons or a rollback meet a commit; three
  (in `patch_atomic`) give commit, commit, rollback and commit, rollback,
  rollback. Two faults are what a failed restore, or a temp file that cannot be
  removed, needs. Commits never look at more than one other request.
* `RaSession`. Two threads reach every interleaving of one call's rename with
  another's acknowledgement. Two polls: the first not ready, the second the last.
  One notification is dropped in front of an answer, one late answer in front
  of another call's. A file that is in the first mirror and changed by the second call
  is the document nobody opened; one that only the second call has is opened.
* `KnowledgeGraph`. Four requests are index, load, evaluate and a fourth that
  sees the result, or any other four. `calls` over two entities and the recursive
  pack make the evaluator take several passes; a client that writes `pure` with
  two arguments makes every later one fail in the middle of a batch; a name `n`
  that is no entity makes a proposal fail to resolve.

* `Validate`. One file, which an operation rewrites or skips and an editor
  changes; what takes two files, an operation that rewrites one and skips the
  other, is covered by the theorems, which prove every safety property of this
  run for any set of files. One operation is enough for safety
  because the fold keeps nothing between operations but the shadow, and any
  shadow one operation cannot reach starts from another disk. One unit of output
  more than the pipe holds is what blocks a child. The system serves one request
  and stops, so these runs say `CHECK_DEADLOCK FALSE`; a handler keeps no state
  between requests.

* `Refactor`. Two operations: one that makes what the other trips over (a name, a
  call in an argument, a function without its import). The programs put one
  feature at a time in the way of an operation: a shadowing body, a macro, `?`,
  `return`, recursion, a call in another file, in a nested module, as a value, a
  method or default method of the name, two definitions. A test that calls `f` through
  another function is what a search that stops after one step misses. `NestedPrograms` is the
  part of them with nested calls. A plan ends, hence `CHECK_DEADLOCK FALSE`.
* `Clients`. Five scenarios. The extension on its own with 8 requests (activation takes
  three; propose, preview and apply after it four, or two renames) and every failure;
  with 6 requests and one timer that fires early; with 6 beside one command line that
  renames; and, without the extension, two sets of two command lines: one that renames,
  rolls back, lists, shows and proposes, where the first shell runs twice, over two
  seconds so that entries share one, and one that rewrites the same text by every kind
  of operation (extract and rename what was extracted, inline it, derive, rename through
  rust-analyzer, preview only, roll back). Two commits are what a stale preview, a
  rollback of the other's commit and an ordered history need. The user, and so the
  system, may stop anywhere: `CHECK_DEADLOCK FALSE`.

Every property of a passing run is shown to have teeth by a mutant: a plausible
bug in a definition (`RenameFailsNoRestore`, `CreateUnchecked`,
`RejectForgotten`, ...), kept beside the definition it mutates, under which TLC
finds the property violated.

### Fairness

* `PatchTxn`: none; it has no liveness property. What keeps a commit waiting is
  in its validation: cargo is `Validate`'s, rust-analyzer `RaSession`'s.
* `RaSession`: weak fairness of each thread's `Work` and of the child's `Serve`,
  which is disabled once the child is dead or silent. A silent child owes
  nothing, which is what `ra_silent` is about; that run says
  `CHECK_DEADLOCK FALSE` because the thread really stops.
* `KnowledgeGraph`: weak fairness of `Work`; a call of the provider returns, with
  an answer or an error.
* `Validate`: weak fairness of the daemon's steps (its one thread polls the child
  and sleeps), of `Tick`, of a child that is not slow, and of `HeirExits`. The last
  is an assumption about the world and not about the code: `read_to_string` waits
  until nobody holds the pipe, and the cap does not cover it, so a process that
  cargo leaves behind for ever would keep the daemon waiting for ever. A slow
  child owes nothing; the cap has to end it. `WaitFails` is never owed either.

* `Clients`: weak fairness of Node's event loop (`Receive`, `Exits`, `Kill`, some
  timer while one can fire), and of the daemon's steps, which a daemon that hangs or has died no
  longer has. A timer that fires while the daemon is merely slow is bounded by
  `early`; once the daemon hangs or is gone nothing but the timers is left, and
  they fire. The user, the command lines, and hanging or dying owe nothing; a
  killed process dies.

### What the violated properties show

Each states a sentence of the repository's own documents or comments, quoted
under `findings` in `PROJECT.json`: drift "aborts the apply" (it does not after
the preflight of that file); requests to rust-analyzer "time out" (the clock is
looked at between messages only); accepted candidates
never cross into inferred facts by themselves (the evaluator joins facts of all
layers); `change_signature` rewrites "every bare call site so the arguments at
each call line up" (in `f(f(1, 2), 3)` the outer call's replacement is made of
the original text of its arguments, and the inner call gets its old order back).

More came up in modelling and have no run of their own: the workspace does end
up half-patched if the restore itself fails (`README.md:349-351`; `AbortRestores`
excepts those files by name); a journal entry that cannot be written is only
logged (`journal.rs:3`); clauses of another arity are loaded (`rules-dsl.md:44`);
`synth_verdict` accepts a patch whose only stage beyond the syntactic one was
skipped for want of a manifest or of cargo, which the stage's comment wants the
verdict to reflect (`validate_stages.rs:249-251`); a rust-analyzer that answers
with `documentChanges` has its edits dropped by the pool and success reported,
although `flatten` is "the unified view every consumer should use"
(`ra_pool.rs:182`); a build that prints more than a pipe holds blocks until it is
killed at the cap, however quick it was, and its errors are lost
(`validate_stages.rs:380`).

`Refactor` names the ways an operation that goes through changes a program's
meaning, and the properties except them by name:

* a rename to a name that is in use (`rust_rename.rs:36`);
* `change_signature` with a filter that leaves callers out (`change_sig.rs:45`), or
  that swaps the names of two parameters one of which a macro reads;
* `inline`: a call among the arguments of another call of the function may survive its
  removal (section 2; `ops.rs:112-113`); parameters are bound one after the other, so an
  argument that reads the name of an earlier parameter is captured (`inline.rs:265`,
  although lines 31-32 say that no name is captured); a `?` in the body leaves the
  caller; a name of the body means something else, or is shadowed, where it lands; a
  function nothing calls, a test even, is removed;
* `extract`: a binding of the selection that is read after it (`extract.rs:96-112`);
* `move`: what the moved item calls is another item where it lands
  (`move_item.rs:103`); the trees of `use` items are not looked at
  (`move_item.rs:412`);
* `remove_derive`: what follows the attribute on its line goes with it
  (`add_derive.rs:466`);
* test impact, against "we never skip an impacted test" (`test_impact.rs:22-24`): a
  plan that extracts is anchored at the new name only, default methods of traits
  are not catalogued, a test that the plan renames or moves is looked for under
  its old name.

And of the clients: a plan that has nothing to replace, or whose typed rename
rust-analyzer refuses at the apply, is committed as an empty
commit and reported as applied; an apply whose timer fires, or whose daemon dies,
is reported as failed and may commit all the same; a request to a daemon that has
exited by itself is not refused and waits for its timer (`client.js:78`); an answer
that does not parse is cached before it is parsed and served again
(`propose.rs:78`, `propose_patch.rs:134`); names that have gone stay in the index
and in what may be proposed (`index.rs:28`); the tracer calls every premise
observed, so an explanation shows a candidate that fired a rule as a fact
(`trace.rs:133-148`); a journal entry that could not be
written leaves a commit that nobody can roll back (`handlers.rs:393`).

## 4. The theorems

`PatchTxn_proofs` (any set of daemons, any files, texts and bounds). The
assumptions are those the module states: paths are numbers (they are only
compared), the sentinels are no texts, bounds are naturals. `TypeOK` is
inductive. The other results rest on `RequestsSound`, which says of each request
in progress, phase by phase, where its loops stand (`Shape`), what each target it
has verified holds on disk (`Held`: the original until it is renamed over, the
shadow afterwards, torn in the middle of its restore) and what its backup of a
file is (`BackedUp`); files raced by others or lost in a failed restore are
excepted, by name. It is needed because `CommitInstalled` at the journal says
nothing of how the renames came about: the loop has to be known to have visited
exactly the targets outside `todo`. A step of a daemon disturbs its own request's
invariant in one conjunct and everybody else's only through `disk`, and each
change of `disk` puts the file into the others' `raced`. From it follow
`CommitInstalled` and `AbortRestores`, together `AllOrNothing`, the action properties
`RenameReplacesVerified` and `JournalRecordsCommit`.

`PatchTxnAtomic_proofs` goes on from there. `NoTempIsLeft` (any daemons, files and
requests) needs to know whose a temp file is: `Temps` says that each carries the
id of a request that either renames it next or is in its restore after the one
failure, with every removal so far successful (`Owns`). `AloneIsAtomic` is the
refinement of `AtomicCommit` in the case the `patch_atomic` run checks, and the
code promises it in: one daemon, no editor, no kill, one failing system call at
most, but any files, texts and requests. The invariant adds to `RequestsSound`
that nothing was raced or lost, that a plan neither creates nor deletes a file and
a rollback still has the entry it read, that the id in use is the last one drawn
and has no entry (`Orderly`), and that an entry names the same files before and
after (`Ledger`). Under it `JournalWrite` is a `Commit` of the abstract
specification, `JournalDelete` a `Rollback` (whose entry may stay, when the
deletion fails), and every other step a stutter, the renames and the restores because what
they do to the disk is what `Promised` takes back. Without the hypotheses the
refinement is false, as `patch_lost_update` shows.

`RaSession_proofs` (any threads, files, texts, polls, faults) proves every
invariant the `ra_session` run checks. `Typed` adds to `TypeOK` what holds of a
thread's local variables at each point (`Steps`). Then:

* `SingleSession`: while the map has a session its lock is free, at most one
  thread is spawning, and before there is a session nobody has got further
  (`Pooled`).
* `SyncIsExact` is inductive with `Typed`. The last notification about a file in
  the pipe, or what the server has read if there is none, is what `known` has, for
  every file of which the server has ignored no change (`ignored` only grows, and a file
  that is opened later is one the session did not know); the
  lemmas say how sending, reading and a rename in between change that (`ReadDoc`,
  `ReadTail`, `ReadRename`). A write that fails changes the belief only when
  the child is lost, of which nothing is claimed.
* `VersionsAlwaysGrow`: the same pipe, by positions.
* `RenamesAreRight`: `Exactly` joins the three with `Issued` (every id in the
  pipes is below the next one, so that a late answer is not taken for another
  call's) and with what each thread knows at each point: the session has its
  texts once it sends (`Synced`), its request is the last thing in the pipe or was
  answered about those texts (`Asking`), and the edits it applies are those of the
  occurrences in its own files (`Edited`), all for the files not ignored, and for any
  choice of what the server serves or ignores. The one hypothesis is `Forms =
  {"changes"}`: a rust-analyzer that phrases its answer as `documentChanges` has
  it dropped by the pool (section 3), and the property fails.

`KnowledgeGraph_proofs` (any predicates, atoms, rules, inputs, answers and
bounds) proves every safety property the `graph` run checks. `Typed` adds to
`TypeOK` what each phase's batch consists of. Each result then has its own
strengthening:

* `CandidatesAreGrounded`: the entities a round resolves against are declared
  by somebody other than the LLM (`Grounding`). They may come from candidates,
  which is why the induction needs the property itself: a candidate declares
  only what others declared already.
* `RoundsAreFresh` is the next two together. `ContextIsFresh`: accepting writes
  candidates, which are not trusted, so the set the context is selected from does not
  move while the loop runs.
* `RoundsAskAnew`: rejections only grow and a round that was not clean has added
  one, so a prompt's rejections are strictly more than those of the prompts
  before (`Anew`).
* `VerdictIsHonest`: what a clean round has gone through is in the graph, and the
  round is below the cap when it is asked (`Honest`).
* `InferredIsDerived`: what waits in a batch is supported by facts of earlier
  passes (`Deriving`); support survives because facts and rules are only added
  and a fact keeps its pass. The pass numbers make the derivation well-founded.
* `EvaluatedIsLeast`: only the evaluator's last pass answers ok, and it has found
  nothing to add (`EvaluatedIsClosed`). That nothing less would do (`NothingSmaller`)
  holds at any time and is an induction over the passes: of the atoms of the graph that a
  closed set lacks, one with the least pass number was derived from atoms of earlier
  passes, which the set has, so the rule puts it there. `EvaluationsAreLeast` states it for
  every set of atoms; the run compares with those below the graph.
* `CitedInferencesAreTraced` follows from `InferredIsDerived`: the bindings that
  derived a fact still hold when an explanation traces the rules. It is proved and
  is in no run; a client's own `inferred` facts are outside it, as nothing derives
  them.

`Validate_proofs` (any files, flaws among the five, plans, outputs and bounds)
proves every safety property the `gate` run checks. The inductive invariant adds
to the properties what each phase of a request has established (`Phases`), and
`Evidence`: a stage that reported *clean* has looked at the shadow and found none
of the flaws it looks for, and a child that will succeed was given a copy without
them. The one lemma that carries it is `MirrorShowsShadow`: laying the whole
shadow over any disk shows every flaw of the shadow, so an editor can make a
stage fail but cannot make it pass. The mutant `MirrorChanged`, which lays over
only what the plan changed, is exactly what breaks it. `SkippedShows` says that a
file that was skipped still does not parse when the stages look: nothing in the
fold mends a text.

`Clients_proofs` (any windows, shells, budgets, texts, plans and answers of the
model) proves every safety property the `clients` run checks. Every step of
`Clients` is first sorted into what it does to the pipes and tables (`AStep`:
the daemon takes, answers or halts; the client hears; a flow moves; a shell works;
or everything rests), and each part of the invariant is shown to survive each
sort, so that none of them is argued once per command.

* `AnswersMeetRequests`: `Wired` says that an id in the pending table is below the
  next one and names a flow that awaits that very id (`Waiting`). An answer carries
  the id of its request, so what is no longer pending reaches nobody.
* `ConfirmedIsShown` excepts, beside a workspace that has changed since, a plan with a
  typed rename: rust-analyzer is asked again at the apply and may say otherwise. Without
  one a plan makes always the same of the same text (`ShadowIsOne`), however many
  outcomes `Shadows` has in general. It and `InventsNothing` need all the way from the
  model to the commit. `Known`: every name an index, a cached answer's context or a text
  holds was in some text of the workspace (`Names`, which only grows). `Paired`: a call
  in the inbox or being served is the one its flow awaits, or its flow has given it up;
  an answer in the outbox or held by a flow replies to that call (`Replies`); an apply
  in progress carries what its user was shown (`Sound`). A shell's calls show nothing to
  anybody (`Unshown`).
* `ReportsAreHonest` adds that one request commits once (`Distinct`: ids of commits are
  those of calls gone by), that an answer says applied exactly when its request has
  committed, also one that nobody awaits any longer (`Ledger`), and where in its
  script each shell stands (`Stories`): it commits only in the last call of a
  previewing command that was asked to apply.
* `HistoriesAreNewest`: a listing is of commits there have been, sorted and cut at its
  limit (`Listing`); `HistoryShowsNewest` says of any such listing that whatever it leaves
  out is no newer than its last entry, and a limit is a number (`Limited`).

* `TypesHold`: the one part that is more than a type says which names the workspace
  may have: those of the first text, and those that operations of committed plans,
  renames by name or by rust-analyzer and extractions, were told to bring in
  (`Worded`, which says it of what a rollback would restore and of what a call has read, too).
  It needs to know that a plan to be applied is a sequence, whoever asks for it
  (`Planned`, from `Sound` and `Stories`), and what a fold makes of a sequence:

`Service_proofs` has what these proofs need of the handlers' operators. `ShadowNames`,
that whatever a plan makes of a text has no names but that text's and those its renames
and extractions are told to bring in (`NewNames`), is an induction over the fold that
applies the plan (`Staged`, `Stages`: the sets of outcomes after each operation), for
any `Planner`, `Rest` and answers of rust-analyzer; `EditNames` is one operation of it.
`ShadowIsOne` goes the same way, and `HistoryShowsNewest` is about a sorted listing and
its cut. The prover cannot instantiate the library's induction theorems, which take an
operator; where an induction is over numbers it is written as a least counterexample
instead (`Least`, from the well-foundedness of the naturals).

The assumptions are those the modules state: the windows are not the two built-in
flows, the daemon is no shell, a line names a command and limits its history by a number, only a
previewing command can be asked to apply, plans are sequences of operations, an answer of
the model holds a sequence of plans, and the bounds on commits and seconds are naturals.

`Refactor_proofs` (any files, programs, arguments, filters, bounds and plans of any
length) proves two of the properties the `refactor` run checks, and what they rest on.

* `TypeCorrect`: every operation leaves a program the shape of one (`Shaped`: items
  at known places, with distinct ids, `TInv`).
* `DerivesAlwaysCancel`, from `TInv`: what `Without` leaves of a list, and of two lists
  joined, is an induction over its rounds (`WithoutFacts`, `WithoutJoined`).
* `ReachableIsLeast`: the search stops after as many rounds as there are
  functions and has then found everything. Each round that is not the last finds
  the name of a function not seen before, and there are no more names than functions
  (`ReachableClosed`). Without it a deep enough chain of helpers would be cut short,
  as the mutant `ReachableDirectly` cuts it after one.
* `SkippedStayUntouched` needs what an operation is about to be what it touches.
  `ItemUnmentioned` says that a rewriting leaves an item that does not mention its names
  to the letter, whatever its nesting; a lemma per operation (`RenameKeeps`,
  `SignatureKeeps`, ...) that the functions of any other name, if they mention none of
  the operation's, read the same. The property itself is not inductive: the next
  operation reads `prog`, not `orig`, and the skipped tests change with every anchor.
  `Untouched` therefore speaks of every name, selected or not: one that is no anchor,
  and whose functions mentioned no anchor *before the plan*, still reads as it did
  (`CleanSince` carries that to `prog`). A skipped test and all it can reach are such
  names, because the set it can reach is closed. TLC has checked `Untouched` and `TInv`
  on the states of the `refactor` run before.

The exceptions are those of the property: a plan that extracts has the new name as its
only anchor and rewrites the function around it; a test the plan itself names; default
methods, which are not catalogued; and the impl a method stands in, whose type may
have been renamed. That what is read unchanged also *means* the same is
`ImpactedTestsRun`, by evaluation: what a name resolves to is no part of what is read.

Recursion over numbers has to be established before a recursive function can be
unfolded: `NatRecursion` does it for any step function, from `Induction`, once for
`RewE`, `Without` and `Reachable`.

The assumptions are those the module states: a file is its own top place, names are not
empty, the programs a plan starts from are finite sets of items with distinct
ids whose statements and lists are sequences, and the two bounds are naturals.

### Only model-checked

* Liveness (`RequestsEnd` of `KnowledgeGraph`, `CallsReturn`, `RequestAnswered`, `EverySettles`,
  `Reaped`): beyond this prover.
* Of `Refactor`, what compares the meaning of programs: `BehaviourKept`,
  `ImpactedTestsRun`, `NeverHalfRewritten` and `ArgumentsLineUp`. Running a program is
  an induction over its expressions and its calls, by `RECURSIVE` operators the
  prover does not take; the runs replace it by all the programs of `MCRefactor`.

## 5. What is abstracted, and what is not modelled

* Texts, names and identifiers are opaque. In `PatchTxn` a plan is any change of
  existing files and the pipeline a choice to refuse; `Validate` has both, and one
  step for the write.
* `Validate` gives a text one flaw and leaves out violations and type errors that
  take two texts to see, the ground facts of a rule pack (which the shadow graph
  does not have) and which tests a selection picks: `tests` is the failure of a
  test that is run.
* Two commit ids drawn in the same nanosecond by two processes are not modelled:
  the clock is assumed to move between two draws.
* Directories, permissions, `fsync` and power loss: a kill keeps what was written.
* `RaSession` leaves out byte offsets (an edit computed on one text and applied to
  another gives `Garbled`), message framing, more than one workspace, the one-shot
  client and the mock.
* `KnowledgeGraph` leaves out the parser's text, the cap on the number of context
  facts, what an explanation repeats from its request (candidates, stages), its roles
  and statistics, intents and the wording of prompts, and hash collisions of the
  cache's key.
* `Refactor` has no byte spans, formatting, comments, generics, macros or diffs: an
  operation rewrites the tree its spans stand for. The kinds of function
  the code refuses (`async`, `const`, generic and the like) are absent. Its programs are the
  small ones of `MCRefactor`; what their effects are is shown for no others, while the
  theorems of `Refactor_proofs` hold for any.
* `Service` and its clients have one workspace, which is one text: names and a rest no
  handler reads. Previews differ from it by names or rest, and the several files of a
  plan, each with its own preflight and drift check, are `PatchTxn`'s; a plan is
  rejected or committed by a choice, as `Validate` and `PatchTxn` say when. The filters
  of `memory.history` are modelled and not exercised by a client; statistics by label
  and by operation are left out.
* `Extension` has one window; what it shows is what a reply says. Frames arrive whole
  and parse.
* Not modelled: the walks over directories and syntax trees that produce facts
  (`aa-ingest`, `aa-lang-rust`, `aa-csm`: pure, a choice among sets of facts here),
  argument parsing and printing of the CLI, the byte format of frames, the unused
  persistence trait (`aa-persist`), smoke tests, schemas and packaging.

## 6. Plan

Every component with state is modelled. What is left, in this order:

1. Theorems: that an operation outside the known ways of rebinding a name keeps the
   meaning of a program, which takes an evaluator as a recursive function
   on the depth of calls in place of `Meaning`'s; `NeverHalfRewritten` from it.
2. Compositions: `Service`'s commits as an implementation of `AtomicCommit`;
   `RaSession` inside `Validate`'s fold of a plan; `Validate` as the `Validate` step
   of `PatchTxn`.

## 7. Running

`tlc -config PatchTxnShared.cfg MCPatchTxn.tla` and likewise for the other runs
(module and configuration of each are in `PROJECT.json`);
`tlapm PatchTxn_proofs.tla`, and likewise `KnowledgeGraph_proofs.tla`,
`PatchTxnAtomic_proofs.tla`, `RaSession_proofs.tla`, `Validate_proofs.tla`,
`Service_proofs.tla`, `Clients_proofs.tla` and `Refactor_proofs.tla`.
