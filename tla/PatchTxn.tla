------------------------------ MODULE PatchTxn ------------------------------
(***************************************************************************)
(* `patch.apply` and `patch.rollback` over one workspace root: the handler *)
(* (handlers.rs), the write path (apply.rs), the commit journal            *)
(* (journal.rs) and the rollback pipeline (rollback.rs).                   *)
(*                                                                         *)
(* A daemon serves one request at a time (aa-daemon/src/main.rs), but      *)
(* nothing stops two daemons (an editor's and a command line's) or an      *)
(* editor from working on the same root, so the file system is shared:     *)
(* every system call is a step of its own, and an editor's save, an I/O    *)
(* failure or the death of the process may come between any two of them.   *)
(*                                                                         *)
(* File contents are opaque. Paths are numbers because the maps of the     *)
(* code are BTreeMaps: every loop visits the paths in increasing order.    *)
(***************************************************************************)
EXTENDS Integers

CONSTANTS
  Daemon,      \* the aa-daemon processes serving this root
  File,        \* relative paths, in the order of the BTreeMap
  Content,     \* the texts a file, a plan or an editor may hold
  Torn,        \* what fs::write leaves when it stops after the truncation
  NoFile,      \* the path does not exist (or could not be read)
  NoEntry,     \* the journal holds nothing under this commit id
  MaxRequests, \* bound: requests in a behaviour, each draws one commit id at most
  MaxEdits,    \* bound: saves and deletions by an editor
  MaxFaults,   \* bound: system calls that fail
  MaxCrashes   \* bound: daemons killed in the middle of a request

ASSUME FileAssumption == File \subseteq Nat
ASSUME ContentAssumption == Torn \notin Content /\ NoFile \notin Content \cup {Torn}
ASSUME BoundAssumption ==
  MaxRequests \in Nat /\ MaxEdits \in Nat /\ MaxFaults \in Nat /\ MaxCrashes \in Nat

VARIABLES
  disk,     \* what each path holds
  tmp,      \* the sibling temp files that exist: <<target, commit id>>
  journal,  \* .aye-aye/journal: commit id -> entry
  clock,    \* the last commit id drawn (nanoseconds since the epoch)
  txn,      \* each daemon's request in progress: its local variables
  requests, edits, faults, crashes  \* how much of each bound is used

vars == <<disk, tmp, journal, clock, txn, requests, edits, faults, crashes>>

Id == 1..MaxRequests
Text == Content \cup {Torn}
Image == [File -> Text \cup {NoFile}]   \* a BTreeMap from path to text

\* CommitEntry.files: exactly the paths the commit changed have before and after.
Entry == [before : Image, after : Image]

Phase == {"idle", "load", "validate", "entry", "check", "preflight", "backup",
          "write", "rename", "restore", "refill", "journal", "delete", "reply"}
Result == {"none", "applied", "rejected", "refused", "failed",
           "not_found", "reverted", "undeleted"}

Txn == [pc : Phase, kind : {"apply", "rollback"},
        of : 0..MaxRequests,         \* the commit a rollback undoes
        id : 0..MaxRequests,         \* the commit id of this write
        original : Image, shadow : Image, backup : Image,
        todo : SUBSET File,         \* what the loop of this phase has still to visit
        written : SUBSET File,      \* renamed over and not restored since
        clean : BOOLEAN,            \* the failed temp write is removed after the restore
        lost : SUBSET File,         \* history: restores that failed silently
        raced : SUBSET File,        \* history: changed by another after our preflight
        result : Result]

Blank == [f \in File |-> NoFile]

Idle == [pc |-> "idle", kind |-> "apply", of |-> 0, id |-> 0,
         original |-> Blank, shadow |-> Blank, backup |-> Blank,
         todo |-> {}, written |-> {}, clean |-> FALSE,
         lost |-> {}, raced |-> {}, result |-> "none"]

\* The files that actually change: present in both maps, with different texts.
Targets(t) == {f \in File : t.original[f] # NoFile /\ t.shadow[f] # t.original[f]}

First(S) == CHOOSE f \in S : \A g \in S : f <= g

\* The targets whose content this request has compared with `original`.
Verified(t) ==
  {f \in Targets(t) :
     \/ t.pc = "preflight" /\ f \notin t.todo
     \/ t.pc \in {"backup", "write", "rename", "restore", "refill", "journal", "delete"}
     \/ t.pc = "reply" /\ t.result \in {"failed", "applied", "reverted", "undeleted"}}

Init ==
  /\ disk \in [File -> Content \cup {NoFile}]
  /\ tmp = {}
  /\ journal = [i \in Id |-> NoEntry]
  /\ clock = 0
  /\ txn = [d \in Daemon |-> Idle]
  /\ requests = 0 /\ edits = 0 /\ faults = 0 /\ crashes = 0

-----------------------------------------------------------------------------
(* What the steps are made of. *)

\* d's request moves on to t; the file system and the journal stay as they are.
Local(d, t) ==
  /\ txn' = [txn EXCEPT ![d] = t]
  /\ UNCHANGED <<disk, tmp, journal, clock, requests, edits, crashes>>

\* Path f changes: every request that has verified it has been raced.
Raced(f) ==
  [d \in Daemon |-> [txn[d] EXCEPT !.raced = @ \cup ({f} \cap Verified(txn[d]))]]

\* d's request moves on to t by making path f hold c.
Put(d, t, f, c) ==
  /\ disk' = [disk EXCEPT ![f] = c]
  /\ txn' = [Raced(f) EXCEPT ![d] = t]

Fault ==
  /\ faults < MaxFaults
  /\ faults' = faults + 1

TwoFaults ==
  /\ faults + 1 < MaxFaults
  /\ faults' = faults + 2

NoFault == UNCHANGED faults

Request(d, t) ==
  /\ requests < MaxRequests
  /\ requests' = requests + 1
  /\ txn' = [txn EXCEPT ![d] = t]
  /\ UNCHANGED <<disk, tmp, journal, clock, edits, faults, crashes>>

Answer(t, r) == [t EXCEPT !.pc = "reply", !.result = r]

-----------------------------------------------------------------------------
(* patch.apply: load the sources, build the shadow, validate. *)

RequestApply(d) ==
  /\ txn[d].pc = "idle"
  /\ Request(d, [Idle EXCEPT !.pc = "load", !.todo = File])

\* The walk reads one file after the other; one that cannot be read is left out.
LoadFile(d) ==
  LET t == txn[d]  f == First(t.todo) IN
  /\ t.pc = "load" /\ t.todo # {}
  /\ \E c \in {disk[f], NoFile} :
       /\ Local(d, [t EXCEPT !.original[f] = c, !.todo = @ \ {f}])
       /\ IF c = disk[f] THEN NoFault ELSE Fault

LoadDone(d) ==
  /\ txn[d].pc = "load" /\ txn[d].todo = {}
  /\ Local(d, [txn[d] EXCEPT !.pc = "validate"])
  /\ NoFault

\* The plan is applied to `original` in memory and the pipeline is run on the
\* result. A plan edits existing files only; the pipeline may refuse any of them.
Validate(d) ==
  LET t == txn[d] IN
  /\ t.pc = "validate"
  /\ \/ Local(d, Answer(t, "rejected"))
     \/ \E shadow \in [File -> Text \cup {NoFile}] :
          /\ \A f \in File : shadow[f] \in Content \cup {t.original[f]}
          /\ \A f \in File : t.original[f] = NoFile => shadow[f] = NoFile
          /\ LET planned == [t EXCEPT !.pc = "preflight", !.shadow = shadow]
             IN  Local(d, [planned EXCEPT !.todo = Targets(planned)])
  /\ NoFault

-----------------------------------------------------------------------------
(* patch.rollback: read the entry, compare the disk with `after`, then write *)
(* `before` through the same path as apply. *)

RequestRollback(d, i) ==
  /\ txn[d].pc = "idle"
  /\ i <= clock
  /\ Request(d, [Idle EXCEPT !.pc = "entry", !.kind = "rollback", !.of = i])

ReadEntry(d) ==
  LET t == txn[d]  e == journal[t.of] IN
  /\ t.pc = "entry"
  /\ \/ /\ e = NoEntry
        /\ Local(d, Answer(t, "not_found"))
        /\ NoFault
     \/ /\ e # NoEntry
        /\ LET read == [t EXCEPT !.pc = "check",
                                 !.original = e.after, !.shadow = e.before]
           IN  Local(d, [read EXCEPT !.todo = Targets(read)])
        /\ NoFault
     \/ /\ e # NoEntry
        /\ Local(d, Answer(t, "failed"))
        /\ Fault

CheckFile(d) ==
  LET t == txn[d]  f == First(t.todo) IN
  /\ t.pc = "check" /\ t.todo # {}
  /\ \/ /\ disk[f] = t.original[f]
        /\ Local(d, [t EXCEPT !.todo = @ \ {f}])
        /\ NoFault
     \/ /\ Local(d, Answer(t, "refused"))
        /\ IF disk[f] = t.original[f] THEN Fault ELSE NoFault

CheckDone(d) ==
  LET t == txn[d] IN
  /\ t.pc = "check" /\ t.todo = {}
  /\ Local(d, [t EXCEPT !.pc = "preflight", !.todo = Targets(t)])
  /\ NoFault

-----------------------------------------------------------------------------
(* apply_transactional: preflight, backup, then temp file and rename. *)

\* Mutant of PreflightFile: the text on disk is not compared.
PreflightFileUnchecked(d) ==
  LET t == txn[d]  f == First(t.todo) IN
  /\ t.pc = "preflight" /\ t.todo # {}
  /\ Local(d, [t EXCEPT !.todo = @ \ {f}])
  /\ NoFault

PreflightFile(d) ==
  LET t == txn[d]  f == First(t.todo) IN
  /\ t.pc = "preflight" /\ t.todo # {}
  /\ \/ /\ disk[f] = t.original[f]
        /\ Local(d, [t EXCEPT !.todo = @ \ {f}])
        /\ NoFault
     \/ /\ Local(d, Answer(t, "refused"))
        /\ IF disk[f] = t.original[f] THEN Fault ELSE NoFault

PreflightDone(d) ==
  LET t == txn[d] IN
  /\ t.pc = "preflight" /\ t.todo = {}
  /\ Local(d, [t EXCEPT !.pc = "backup", !.todo = Targets(t)])
  /\ NoFault

\* The second read of each target, kept in memory; a file gone by now is an
\* I/O error, and nothing has been written.
BackupFile(d) ==
  LET t == txn[d]  f == First(t.todo) IN
  /\ t.pc = "backup" /\ t.todo # {}
  /\ \/ /\ disk[f] # NoFile
        /\ Local(d, [t EXCEPT !.backup[f] = disk[f], !.todo = @ \ {f}])
        /\ NoFault
     \/ /\ Local(d, Answer(t, "failed"))
        /\ IF disk[f] = NoFile THEN NoFault ELSE Fault

\* Mutant of BackupDone: the id is the previous reading of the clock.
BackupDoneStaleClock(d) ==
  LET t == txn[d] IN
  /\ t.pc = "backup" /\ t.todo = {}
  /\ clock < MaxRequests
  /\ clock' = clock + 1
  /\ txn' = [txn EXCEPT ![d] = [t EXCEPT !.pc = "write", !.todo = Targets(t),
                                         !.id = clock]]
  /\ UNCHANGED <<disk, tmp, journal, requests, edits, faults, crashes>>

\* new_commit_id: the clock has moved on since any id drawn before.
BackupDone(d) ==
  LET t == txn[d] IN
  /\ t.pc = "backup" /\ t.todo = {}
  /\ clock < MaxRequests
  /\ clock' = clock + 1
  /\ txn' = [txn EXCEPT ![d] = [t EXCEPT !.pc = "write", !.todo = Targets(t),
                                         !.id = clock + 1]]
  /\ UNCHANGED <<disk, tmp, journal, requests, edits, faults, crashes>>

WriteTmp(d) ==
  LET t == txn[d]  f == First(t.todo) IN
  /\ t.pc = "write" /\ t.todo # {}
  /\ tmp' = tmp \cup {<<f, t.id>>}
  /\ txn' = [txn EXCEPT ![d].pc = "rename"]
  /\ UNCHANGED <<disk, journal, clock, requests, edits, faults, crashes>>

\* Mutant of WriteTmpFails: the error is swallowed and the loop goes on.
WriteTmpFailsSilently(d) ==
  LET t == txn[d]  f == First(t.todo) IN
  /\ t.pc = "write" /\ t.todo # {}
  /\ txn' = [txn EXCEPT ![d].todo = @ \ {f}]
  /\ Fault
  /\ UNCHANGED <<disk, tmp, journal, clock, requests, edits, crashes>>

\* The files renamed so far are restored first, then the temp file is removed:
\* the write may have created it before it failed.
WriteTmpFails(d) ==
  LET t == txn[d]  f == First(t.todo) IN
  /\ t.pc = "write" /\ t.todo # {}
  /\ tmp' \in {tmp, tmp \cup {<<f, t.id>>}}
  /\ txn' = [txn EXCEPT ![d].pc = "restore", ![d].clean = TRUE]
  /\ Fault
  /\ UNCHANGED <<disk, journal, clock, requests, edits, crashes>>

Rename(d) ==
  LET t == txn[d]  f == First(t.todo) IN
  /\ t.pc = "rename"
  /\ Put(d, [t EXCEPT !.pc = "write", !.todo = @ \ {f}, !.written = @ \cup {f}],
         f, t.shadow[f])
  /\ tmp' = tmp \ {<<f, t.id>>}
  /\ UNCHANGED <<journal, clock, requests, edits, faults, crashes>>

\* Mutants of RenameFails: the files renamed before are not restored; the temp file
\* is not removed.
RenameFailsNoRestore(d) ==
  LET t == txn[d]  f == First(t.todo) IN
  /\ t.pc = "rename"
  /\ tmp' = tmp \ {<<f, t.id>>}
  /\ txn' = [txn EXCEPT ![d] = Answer(t, "failed")]
  /\ Fault
  /\ UNCHANGED <<disk, journal, clock, requests, edits, crashes>>

RenameFailsKeepsTmp(d) ==
  /\ txn[d].pc = "rename"
  /\ txn' = [txn EXCEPT ![d].pc = "restore"]
  /\ Fault
  /\ UNCHANGED <<disk, tmp, journal, clock, requests, edits, crashes>>

\* The temp file is removed, a failure to do so ignored, then the files renamed so
\* far are restored.
RenameFails(d) ==
  LET t == txn[d]  f == First(t.todo) IN
  /\ t.pc = "rename"
  /\ \/ tmp' = tmp \ {<<f, t.id>>} /\ Fault
     \/ UNCHANGED tmp /\ TwoFaults
  /\ txn' = [txn EXCEPT ![d].pc = "restore"]
  /\ UNCHANGED <<disk, journal, clock, requests, edits, crashes>>

\* Mutant of WriteDone: the commit is recorded before the last file is renamed.
WriteDoneEarly(d) ==
  LET t == txn[d] IN
  /\ t.pc = "write"
  /\ Local(d, [t EXCEPT !.pc = IF t.kind = "apply" THEN "journal" ELSE "delete"])
  /\ NoFault

WriteDone(d) ==
  LET t == txn[d] IN
  /\ t.pc = "write" /\ t.todo = {}
  /\ Local(d, [t EXCEPT !.pc = IF t.kind = "apply" THEN "journal" ELSE "delete"])
  /\ NoFault

-----------------------------------------------------------------------------
(* rollback(written, backups): a plain fs::write over each renamed file, its *)
(* errors ignored. It truncates first and fills afterwards. *)

RestoreTruncate(d) ==
  LET t == txn[d]  f == First(t.written) IN
  /\ t.pc = "restore" /\ t.written # {}
  /\ \/ /\ Put(d, [t EXCEPT !.pc = "refill"], f, Torn)
        /\ NoFault
     \/ /\ txn' = [txn EXCEPT ![d].written = @ \ {f}, ![d].lost = @ \cup {f}]
        /\ Fault
        /\ UNCHANGED disk
  /\ UNCHANGED <<tmp, journal, clock, requests, edits, crashes>>

RestoreFill(d) ==
  LET t == txn[d]  f == First(t.written) IN
  /\ t.pc = "refill"
  /\ \/ /\ Put(d, [t EXCEPT !.pc = "restore", !.written = @ \ {f}], f, t.backup[f])
        /\ NoFault
     \/ /\ txn' = [txn EXCEPT ![d].pc = "restore", ![d].written = @ \ {f},
                              ![d].lost = @ \cup {f}]
        /\ Fault
        /\ UNCHANGED disk
  /\ UNCHANGED <<tmp, journal, clock, requests, edits, crashes>>

RestoreDone(d) ==
  LET t == txn[d] IN
  /\ t.pc = "restore" /\ t.written = {}
  /\ \/ tmp' = (IF t.clean THEN tmp \ (File \X {t.id}) ELSE tmp) /\ NoFault
     \/ t.clean /\ UNCHANGED tmp /\ Fault
  /\ txn' = [txn EXCEPT ![d] = Answer(t, "failed")]
  /\ UNCHANGED <<disk, journal, clock, requests, edits, crashes>>

-----------------------------------------------------------------------------
(* The journal: an entry appears by one rename and disappears by one unlink. *)

\* Mutant of EntryOf: before and after are swapped.
EntryOfSwapped(t) ==
  [after  |-> [f \in File |-> IF f \in Targets(t) THEN t.original[f] ELSE NoFile],
   before |-> [f \in File |-> IF f \in Targets(t) THEN t.shadow[f] ELSE NoFile]]

EntryOf(t) ==
  [before |-> [f \in File |-> IF f \in Targets(t) THEN t.original[f] ELSE NoFile],
   after  |-> [f \in File |-> IF f \in Targets(t) THEN t.shadow[f] ELSE NoFile]]

\* A failure is logged and the commit is still reported as applied.
JournalWrite(d) ==
  LET t == txn[d] IN
  /\ t.pc = "journal"
  /\ \/ /\ journal' = [journal EXCEPT ![t.id] = EntryOf(t)]
        /\ NoFault
     \/ UNCHANGED journal /\ Fault
  /\ txn' = [txn EXCEPT ![d] = Answer(t, "applied")]
  /\ UNCHANGED <<disk, tmp, clock, requests, edits, crashes>>

\* A failure is reported as rolled_back: false although the files are restored.
JournalDelete(d) ==
  LET t == txn[d] IN
  /\ t.pc = "delete"
  /\ \/ /\ journal' = [journal EXCEPT ![t.of] = NoEntry]
        /\ txn' = [txn EXCEPT ![d] = Answer(t, "reverted")]
        /\ NoFault
     \/ /\ UNCHANGED journal
        /\ txn' = [txn EXCEPT ![d] = Answer(t, "undeleted")]
        /\ Fault
  /\ UNCHANGED <<disk, tmp, clock, requests, edits, crashes>>

Reply(d) ==
  /\ txn[d].pc = "reply"
  /\ Local(d, Idle)
  /\ NoFault

-----------------------------------------------------------------------------
(* The world around the daemons. *)

\* Someone saves or deletes a file.
Edit(f, c) ==
  /\ edits < MaxEdits
  /\ disk[f] # c
  /\ edits' = edits + 1
  /\ disk' = [disk EXCEPT ![f] = c]
  /\ txn' = Raced(f)
  /\ UNCHANGED <<tmp, journal, clock, requests, faults, crashes>>

\* The process dies; what it kept in memory is gone, what is on disk stays.
\* A restarted daemon recovers nothing.
Crash(d) ==
  /\ crashes < MaxCrashes
  /\ txn[d].pc # "idle"
  /\ crashes' = crashes + 1
  /\ txn' = [txn EXCEPT ![d] = Idle]
  /\ UNCHANGED <<disk, tmp, journal, clock, requests, edits, faults>>

-----------------------------------------------------------------------------

\* All requests of the behaviour have been served.
Quiet ==
  /\ requests = MaxRequests
  /\ \A d \in Daemon : txn[d].pc = "idle"
  /\ UNCHANGED vars

Apply(d) ==
  \/ PreflightFile(d) \/ PreflightDone(d) \/ BackupFile(d) \/ BackupDone(d)
  \/ WriteTmp(d) \/ WriteTmpFails(d) \/ Rename(d) \/ RenameFails(d) \/ WriteDone(d)
  \/ RestoreTruncate(d) \/ RestoreFill(d) \/ RestoreDone(d)

\* Everything a daemon does on its own once a request has arrived.
Work(d) ==
  \/ LoadFile(d) \/ LoadDone(d) \/ Validate(d)
  \/ ReadEntry(d) \/ CheckFile(d) \/ CheckDone(d)
  \/ Apply(d)
  \/ JournalWrite(d) \/ JournalDelete(d) \/ Reply(d)

Next ==
  \/ \E d \in Daemon : \/ RequestApply(d)
                       \/ \E i \in Id : RequestRollback(d, i)
                       \/ Work(d)
                       \/ Crash(d)
  \/ \E f \in File, c \in Content \cup {NoFile} : Edit(f, c)
  \/ Quiet

Spec == Init /\ [][Next]_vars

-----------------------------------------------------------------------------
(* Properties. *)

\* A field is filled by the time its phase uses it.
Filled(t) ==
  /\ t.pc = "entry" => t.of \in Id
  /\ t.pc \in {"write", "rename", "restore", "refill", "journal"} => t.id \in Id
  /\ t.pc = "rename" => t.todo # {}
  /\ t.pc = "refill" => t.written # {}

\* Every variable has its type.
TypeOK ==
  /\ disk \in Image
  /\ tmp \subseteq File \X Id
  /\ journal \in [Id -> Entry \cup {NoEntry}]
  /\ clock \in 0..MaxRequests
  /\ txn \in [Daemon -> Txn]
  /\ \A d \in Daemon : Filled(txn[d])
  /\ requests \in 0..MaxRequests
  /\ edits \in 0..MaxEdits
  /\ faults \in 0..MaxFaults
  /\ crashes \in 0..MaxCrashes

\* A commit that is about to be journalled, or a rollback about to drop its entry,
\* has put every target in place: each holds the new text unless somebody else
\* changed it since this request verified it (apply.rs:89-116).
CommitInstalled ==
  \A d \in Daemon :
    txn[d].pc \in {"journal", "delete"} =>
      \A f \in Targets(txn[d]) \ txn[d].raced : disk[f] = txn[d].shadow[f]

\* A request whose write failed has left every target as it found it: what was
\* renamed has been restored, unless the restoring write itself failed or somebody
\* else changed the file meanwhile (apply.rs:93-107, 119-127).
AbortRestores ==
  \A d \in Daemon :
    txn[d].pc = "reply" /\ txn[d].result = "failed" =>
      \A f \in Targets(txn[d]) \ (txn[d].raced \cup txn[d].lost) :
        disk[f] = txn[d].original[f]

\* However its system calls fail, a request that reaches its end has put in place
\* all of its texts or none of them (README.md:339-351).
AllOrNothing == CommitInstalled /\ AbortRestores

\* A rename replaces the very text its plan was computed from; the only way round
\* is a change that landed after the preflight of that file (apply.rs:63-74).
RenameReplacesVerified ==
  [][\A d \in Daemon : \A f \in txn'[d].written \ txn[d].written :
       disk[f] = txn[d].original[f] \/ f \in txn[d].raced]_vars

\* When an entry appears, the whole commit it records is on disk (but for files
\* raced by others), whatever was killed or failed on the way: no entry ever
\* describes half a commit (handlers.rs:358-393).
JournalRecordsCommit ==
  [][\A i \in Id : journal[i] = NoEntry /\ journal'[i] # NoEntry =>
       \E d \in Daemon :
         /\ txn[d].id = i /\ txn[d].kind = "apply"
         /\ \A f \in File :
              journal'[i].after[f] # NoFile => \/ disk[f] = journal'[i].after[f]
                                              \/ f \in txn[d].raced]_vars

\* One failing system call leaves no temp file behind: as long as no daemon was
\* killed, each belongs to a request that is still to rename it or to remove it
\* (apply.rs:95, 102, and 15-17: "every lingering temp is removed").
NoStrayTemp ==
  crashes = 0 /\ faults <= 1 =>
    \A p \in tmp : \E d \in Daemon :
      txn[d].id = p[2] /\ txn[d].pc \in {"rename", "restore", "refill"}

(* The inductive strengthening: how far a request in progress and the disk agree. *)

\* What a verified target holds as long as nobody else changes it.
Held(t, f) ==
  IF f \notin t.written THEN t.original[f]
  ELSE IF t.pc = "refill" /\ f = First(t.written) THEN Torn
  ELSE t.shadow[f]

\* Where the loops stand, phase by phase.
Shape(t) ==
  /\ t.todo \subseteq File
  /\ t.pc = "entry" => Targets(t) = {}
  /\ t.pc \in {"check", "preflight", "backup", "write", "rename"} =>
       t.todo \subseteq Targets(t)
  /\ t.pc \in {"write", "rename"} => t.written = Targets(t) \ t.todo
  /\ t.pc \in {"restore", "refill"} => t.written \subseteq Targets(t) \ t.lost
  /\ t.pc \in {"journal", "delete"} => t.written = Targets(t)
  /\ t.pc = "journal" => t.kind = "apply"
  /\ t.pc \in {"idle", "load", "validate", "entry", "check", "preflight", "backup"} =>
       t.written = {}
  /\ t.pc \notin {"restore", "refill", "reply"} => t.lost = {}
  /\ t.pc = "reply" /\ t.result = "failed" => t.written = {}

\* The targets whose second read is in memory.
BackedUp(t) ==
  {f \in Targets(t) :
     \/ t.pc = "backup" /\ f \notin t.todo
     \/ t.pc \in {"write", "rename", "restore", "refill"}}

Sound(t, image) ==
  /\ Shape(t)
  /\ \A f \in Verified(t) \ (t.raced \cup t.lost) : image[f] = Held(t, f)
  /\ \A f \in BackedUp(t) \ t.raced : t.backup[f] = t.original[f]

\* Between any two system calls each request knows what its targets hold, but for
\* those it lost to a race or to a failed restore (apply.rs:45-127).
RequestsSound == \A d \in Daemon : Sound(txn[d], disk)

-----------------------------------------------------------------------------

\* The phases in which a request has begun to rename files and has not committed.
InFlight(t) == t.pc \in {"write", "rename", "restore", "refill", "journal", "delete"}

\* The workspace as the promise describes it: until a commit is recorded, the files
\* it has renamed count as the originals they will be restored to.
Promised ==
  [f \in File |->
     IF \E d \in Daemon : InFlight(txn[d]) /\ f \in txn[d].written
     THEN txn[CHOOSE d \in Daemon : InFlight(txn[d]) /\ f \in txn[d].written].original[f]
     ELSE disk[f]]

Atomic == INSTANCE AtomicCommit WITH files <- Promised, log <- journal

\* With one daemon, nobody else editing, no kill, and at most one failing system
\* call, apply and rollback are atomic (apply.rs, rollback.rs; README.md:348-351).
ImplementsAtomicCommit == Atomic!Spec

-----------------------------------------------------------------------------
(* What the documents say and the code does not do. *)

\* README.md:344-347: if anything drifted, "the apply is aborted [...] no file is
\* touched"; so no rename ever replaces a text the plan was not rendered against.
NoLostUpdate ==
  [][\A d \in Daemon : \A f \in txn'[d].written \ txn[d].written :
       disk[f] = txn[d].original[f]]_vars
=============================================================================
