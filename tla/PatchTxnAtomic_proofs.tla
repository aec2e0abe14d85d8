------------------------ MODULE PatchTxnAtomic_proofs ------------------------
(***************************************************************************)
(* More proofs about PatchTxn: that one failing system call leaves no temp *)
(* file behind, and that a daemon that has the root to itself implements   *)
(* AtomicCommit.                                                           *)
(***************************************************************************)
EXTENDS PatchTxn_proofs

-----------------------------------------------------------------------------
(* Temp files. *)

\* The request t is still to rename or to remove the temp file p; n calls have failed.
Owns(t, p, n) ==
  /\ t.id = p[2]
  /\ \/ t.pc = "rename" /\ p[1] = First(t.todo)
     \/ t.pc \in {"restore", "refill"} /\ t.clean /\ n = 1

Temps ==
  crashes = 0 /\ faults <= 1 => \A p \in tmp : \E d \in Daemon : Owns(txn[d], p, faults)

\* The fields a temp file depends on.
Like(u, t) == u.pc = t.pc /\ u.id = t.id /\ u.todo = t.todo /\ u.clean = t.clean

LEMMA LikeOwns ==
  ASSUME NEW t, NEW u, Like(u, t), NEW p, NEW n, Owns(t, p, n)
  PROVE  Owns(u, p, n)
BY DEF Like, Owns

\* Being raced is no such field.
LEMMA RacedLike ==
  ASSUME TypeOK, NEW e \in Daemon, NEW f
  PROVE  Like(Raced(f)[e], txn[e])
BY DEF TypeOK, Txn, Raced, Like

\* A step of one daemon leaves the others' requests alone, but for races.
LEMMA OthersAlike ==
  ASSUME TypeOK, NEW d \in Daemon, NEW e \in Daemon, e # d,
         Work(d) \/ RequestApply(d) \/ (\E i \in Id : RequestRollback(d, i))
  PROVE  Like(txn'[e], txn[e])
<1>0. \A t : Like(t, t)
  BY DEF Like
<1>1. \A t : Local(d, t) \/ Request(d, t) => txn'[e] = txn[e]
  BY DEF Local, Request, TypeOK
<1>2. ASSUME NEW t, NEW f, NEW c, Put(d, t, f, c) PROVE Like(txn'[e], txn[e])
  <2>1. txn'[e] = Raced(f)[e]
    BY <1>2 DEF Put, Raced
  <2>2. QED
    BY <2>1, RacedLike
<1>3. CASE RequestApply(d) \/ \E i \in Id : RequestRollback(d, i)
  BY <1>0, <1>1, <1>3 DEF RequestApply, RequestRollback
<1>4. CASE LoadFile(d) \/ LoadDone(d) \/ Validate(d) \/ Reply(d)
  BY <1>0, <1>1, <1>4 DEF LoadFile, LoadDone, Validate, Reply
<1>5. CASE ReadEntry(d) \/ CheckFile(d) \/ CheckDone(d)
  BY <1>0, <1>1, <1>5 DEF ReadEntry, CheckFile, CheckDone
<1>6. CASE PreflightFile(d) \/ PreflightDone(d) \/ BackupFile(d) \/ WriteDone(d)
  BY <1>0, <1>1, <1>6 DEF PreflightFile, PreflightDone, BackupFile, WriteDone
<1>7. CASE BackupDone(d) \/ WriteTmp(d) \/ WriteTmpFails(d) \/ RenameFails(d)
           \/ RestoreDone(d) \/ JournalWrite(d) \/ JournalDelete(d)
  <2>1. txn'[e] = txn[e]
    BY <1>7 DEF BackupDone, WriteTmp, WriteTmpFails, RenameFails, RestoreDone,
                JournalWrite, JournalDelete, TypeOK
  <2>2. QED
    BY <1>0, <2>1
<1>8. CASE Rename(d)
  BY <1>2, <1>8 DEF Rename
<1>9. CASE RestoreTruncate(d)
  <2>1. (\E t, f, c : Put(d, t, f, c)) \/ txn'[e] = txn[e]
    BY <1>9, Zenon DEF RestoreTruncate, TypeOK
  <2>2. QED
    BY <1>0, <1>2, <2>1
<1>10. CASE RestoreFill(d)
  <2>1. (\E t, f, c : Put(d, t, f, c)) \/ txn'[e] = txn[e]
    BY <1>10, Zenon DEF RestoreFill, TypeOK
  <2>2. QED
    BY <1>0, <1>2, <2>1
<1>11. QED
  BY <1>3, <1>4, <1>5, <1>6, <1>7, <1>8, <1>9, <1>10 DEF Work, Apply

\* A step of d keeps the owners of all temp files if it keeps those d owns.
LEMMA TempsMove ==
  ASSUME TypeOK, Temps, NEW d \in Daemon,
         \A e \in Daemon : e # d => Like(txn'[e], txn[e]),
         crashes' = crashes, faults' \in Nat, faults <= faults',
         \A p \in tmp' : faults' <= 1 =>
           \/ p \in tmp /\ ~ Owns(txn[d], p, faults)
           \/ Owns(txn'[d], p, faults')
  PROVE  Temps'
<1> SUFFICES ASSUME crashes' = 0, faults' <= 1, NEW p \in tmp',
                    ~ Owns(txn'[d], p, faults')
             PROVE  \E e \in Daemon : Owns(txn'[e], p, faults')
  BY DEF Temps
<1>1. p \in tmp /\ ~ Owns(txn[d], p, faults)
  OBVIOUS
<1>2. crashes = 0 /\ faults <= 1 /\ faults \in Nat
  BY DEF TypeOK
<1>3. PICK e \in Daemon : Owns(txn[e], p, faults)
  BY <1>1, <1>2 DEF Temps
<1>4. Owns(txn'[e], p, faults)
  BY <1>1, <1>3, LikeOwns
<1>5. Owns(txn'[e], p, faults')
  BY <1>2, <1>4 DEF Owns
<1>6. QED
  BY <1>5

\* A daemon that is in none of these phases owns no temp file.
LEMMA OwnsNone ==
  ASSUME NEW t, t.pc \notin {"rename", "restore", "refill"}, NEW p, NEW n
  PROVE  ~ Owns(t, p, n)
BY DEF Owns

LEMMA FaultsGrow ==
  TypeOK /\ (Fault \/ TwoFaults \/ NoFault) => faults' \in Nat /\ faults <= faults'
BY DEF TypeOK, Fault, TwoFaults, NoFault

\* The steps of a daemon that owns no temp file and creates none.
LEMMA TempsQuiet ==
  ASSUME TypeOK, Temps, NEW d \in Daemon,
         Work(d) \/ RequestApply(d) \/ (\E i \in Id : RequestRollback(d, i)),
         txn[d].pc \notin {"rename", "restore", "refill"},
         UNCHANGED <<tmp, crashes>>, Fault \/ NoFault
  PROVE  Temps'
<1>1. \A e \in Daemon : e # d => Like(txn'[e], txn[e])
  BY OthersAlike
<1>2. faults' \in Nat /\ faults <= faults'
  BY FaultsGrow
<1>3. \A p \in tmp' : p \in tmp /\ ~ Owns(txn[d], p, faults)
  BY OwnsNone
<1>4. QED
  BY <1>1, <1>2, <1>3, TempsMove

LEMMA TempsWork ==
  ASSUME TypeOK, Temps, NEW d \in Daemon, Work(d)
  PROVE  Temps'
<1> DEFINE t == txn[d]  f == First(t.todo)
<1>0. /\ t \in Txn /\ tmp \subseteq File \X Id /\ faults \in Nat
      /\ \A e \in Daemon : e # d => Like(txn'[e], txn[e])
  BY OthersAlike DEF TypeOK
<1>q. ASSUME t.pc \notin {"rename", "restore", "refill"},
             UNCHANGED <<tmp, crashes>>, Fault \/ NoFault
      PROVE  Temps'
  BY <1>q, TempsQuiet
<1>1. CASE LoadFile(d) \/ LoadDone(d) \/ Validate(d) \/ Reply(d)
  BY <1>1, <1>q DEF LoadFile, LoadDone, Validate, Reply, Local
<1>2. CASE ReadEntry(d) \/ CheckFile(d) \/ CheckDone(d)
  BY <1>2, <1>q DEF ReadEntry, CheckFile, CheckDone, Local
<1>3. CASE PreflightFile(d) \/ PreflightDone(d) \/ BackupFile(d) \/ WriteDone(d)
  BY <1>3, <1>q DEF PreflightFile, PreflightDone, BackupFile, WriteDone, Local
<1>4. CASE BackupDone(d) \/ JournalWrite(d) \/ JournalDelete(d)
  BY <1>4, <1>q DEF BackupDone, JournalWrite, JournalDelete, NoFault
<1>5. CASE WriteTmp(d)
  <2>1. /\ t.pc = "write" /\ tmp' = tmp \cup {<<f, t.id>>} /\ UNCHANGED <<faults, crashes>>
        /\ txn'[d] = [t EXCEPT !.pc = "rename"]
    BY <1>5 DEF WriteTmp, TypeOK
  <2>2. Owns(txn'[d], <<f, t.id>>, faults)
    BY <1>0, <2>1 DEF Owns, Txn
  <2>3. \A p \in tmp' : (p \in tmp /\ ~ Owns(t, p, faults)) \/ Owns(txn'[d], p, faults')
    BY <2>1, <2>2, OwnsNone
  <2>4. QED
    BY <1>0, <2>1, <2>3, TempsMove
<1>6. CASE WriteTmpFails(d)
  <2>1. /\ t.pc = "write" /\ tmp' \subseteq tmp \cup {<<f, t.id>>} /\ crashes' = crashes
        /\ faults' = faults + 1
        /\ txn'[d] = [t EXCEPT !.pc = "restore", !.clean = TRUE]
    BY <1>6 DEF WriteTmpFails, TypeOK, Fault
  <2>2. faults' <= 1 => Owns(txn'[d], <<f, t.id>>, faults')
    BY <1>0, <2>1 DEF Owns, Txn
  <2>3. \A p \in tmp' : faults' <= 1 =>
          (p \in tmp /\ ~ Owns(t, p, faults)) \/ Owns(txn'[d], p, faults')
    BY <2>1, <2>2, OwnsNone
  <2>4. QED
    BY <1>0, <2>1, <2>3, TempsMove
<1>7. ASSUME t.pc = "rename", tmp' = tmp \ {<<f, t.id>>}, crashes' = crashes,
             faults' \in Nat, faults <= faults'
      PROVE  Temps'
  <2>1. ASSUME NEW p \in tmp' PROVE p \in tmp /\ ~ Owns(t, p, faults)
    <3>1. p \in tmp /\ p # <<f, t.id>> /\ p = <<p[1], p[2]>>
      BY <1>0, <1>7
    <3>2. QED
      BY <1>7, <3>1 DEF Owns
  <2>2. QED
    BY <1>0, <1>7, <2>1, TempsMove
<1>8. CASE Rename(d)
  BY <1>0, <1>7, <1>8 DEF Rename
<1>9. CASE RenameFails(d)
  <2>1. t.pc = "rename" /\ crashes' = crashes /\ faults' \in Nat /\ faults <= faults'
    BY <1>9, FaultsGrow DEF RenameFails
  <2>2. CASE tmp' = tmp \ {<<f, t.id>>}
    BY <1>7, <2>1, <2>2
  <2>3. CASE TwoFaults
    <3>1. ~ (faults' <= 1)
      BY <1>0, <2>3 DEF TwoFaults
    <3>2. QED
      BY <3>1 DEF Temps
  <2>4. QED
    BY <1>9, <2>2, <2>3 DEF RenameFails
<1>10. CASE RestoreTruncate(d) \/ RestoreFill(d)
  <2>1. /\ t.pc \in {"restore", "refill"} /\ UNCHANGED <<tmp, crashes>> /\ (NoFault \/ Fault)
        /\ txn'[d].pc \in {"restore", "refill"} /\ txn'[d].id = t.id /\ txn'[d].clean = t.clean
    <3>1. t.pc \in {"restore", "refill"} /\ UNCHANGED <<tmp, crashes>> /\ (NoFault \/ Fault)
      BY <1>10 DEF RestoreTruncate, RestoreFill
    <3>2. /\ \A u, g, c : Put(d, u, g, c) => txn'[d] = u
          /\ \A u : txn' = [txn EXCEPT ![d] = u] => txn'[d] = u
      BY DEF Put, Raced, TypeOK
    <3>3. PICK w, l : \/ txn'[d] = [t EXCEPT !.pc = "refill"]
                      \/ txn'[d] = [t EXCEPT !.written = w, !.lost = l]
                      \/ txn'[d] = [t EXCEPT !.pc = "restore", !.written = w]
                      \/ txn'[d] = [t EXCEPT !.pc = "restore", !.written = w, !.lost = l]
      <4> DEFINE g == First(t.written)  w == t.written \ {g}  l == t.lost \cup {g}
      <4>1. CASE RestoreTruncate(d)
        <5>1. \/ Put(d, [t EXCEPT !.pc = "refill"], g, Torn)
              \/ txn' = [txn EXCEPT ![d] = [t EXCEPT !.written = w, !.lost = l]]
          BY <4>1 DEF RestoreTruncate, TypeOK
        <5>2. QED
          BY <3>2, <5>1, Zenon
      <4>2. CASE RestoreFill(d)
        <5>1. \/ Put(d, [t EXCEPT !.pc = "restore", !.written = w], g, t.backup[g])
              \/ txn' = [txn EXCEPT ![d] = [t EXCEPT !.pc = "restore", !.written = w, !.lost = l]]
          BY <4>2 DEF RestoreFill, TypeOK
        <5>2. QED
          BY <3>2, <5>1, Zenon
      <4>3. QED
        BY <1>10, <4>1, <4>2
    <3>4. QED
      BY <1>0, <3>1, <3>3 DEF Txn
  <2>2. faults' \in Nat /\ faults <= faults' /\ (faults' <= 1 /\ faults = 1 => faults' = 1)
    BY <1>0, <2>1, FaultsGrow
  <2>3. \A p \in tmp' : faults' <= 1 =>
          (p \in tmp /\ ~ Owns(t, p, faults)) \/ Owns(txn'[d], p, faults')
    BY <1>0, <2>1, <2>2 DEF Owns
  <2>4. QED
    BY <1>0, <2>1, <2>2, <2>3, TempsMove
<1>11. CASE RestoreDone(d)
  <2>1. t.pc = "restore" /\ crashes' = crashes /\ (NoFault \/ Fault)
    BY <1>11 DEF RestoreDone
  <2>2. faults' \in Nat /\ faults <= faults'
    BY <2>1, FaultsGrow
  <2>3. ASSUME NEW p \in tmp', faults' <= 1 PROVE p \in tmp /\ ~ Owns(t, p, faults)
    <3>1. p \in tmp /\ p = <<p[1], p[2]>> /\ p[1] \in File
      BY <1>0, <1>11 DEF RestoreDone
    <3>2. CASE t.clean /\ tmp' = tmp \ (File \X {t.id})
      BY <2>1, <2>3, <3>1, <3>2 DEF Owns
    <3>3. CASE ~ t.clean
      BY <2>1, <3>1, <3>3 DEF Owns
    <3>4. CASE Fault
      BY <1>0, <2>1, <2>3, <3>1, <3>4 DEF Fault, Owns
    <3>5. QED
      BY <1>11, <3>2, <3>3, <3>4 DEF RestoreDone
  <2>4. QED
    BY <1>0, <2>1, <2>2, <2>3, TempsMove
<1>12. QED
  BY <1>1, <1>2, <1>3, <1>4, <1>5, <1>6, <1>8, <1>9, <1>10, <1>11 DEF Work, Apply

LEMMA TempsStep == TypeOK /\ Temps /\ [Next]_vars => Temps'
<1> SUFFICES ASSUME TypeOK, Temps, [Next]_vars PROVE Temps'
  OBVIOUS
<1>1. ASSUME NEW d \in Daemon, RequestApply(d) \/ \E i \in Id : RequestRollback(d, i)
      PROVE  Temps'
  <2>1. txn[d].pc = "idle" /\ UNCHANGED <<tmp, crashes, faults>>
    BY <1>1 DEF RequestApply, RequestRollback, Request
  <2>2. QED
    BY <1>1, <2>1, TempsQuiet DEF NoFault
<1>2. ASSUME NEW d \in Daemon, Crash(d) PROVE Temps'
  <2>1. crashes' # 0
    BY <1>2 DEF Crash, TypeOK
  <2>2. QED
    BY <2>1 DEF Temps
<1>3. ASSUME NEW f \in File, NEW c, Edit(f, c) PROVE Temps'
  <2>1. UNCHANGED <<tmp, crashes, faults>> /\ \A d \in Daemon : Like(txn'[d], txn[d])
    BY <1>3, RacedLike DEF Edit
  <2>2. QED
    BY <2>1, LikeOwns DEF Temps
<1>4. CASE Quiet \/ UNCHANGED vars
  BY <1>4 DEF Quiet, vars, Temps
<1>5. QED
  BY <1>1, <1>2, <1>3, <1>4, TempsWork DEF Next

\* As long as at most one system call has failed and nothing was killed, every temp file
\* belongs to a request that is still to rename or to remove it: no single failure leaves
\* one behind, with any daemons and editors on the root (apply.rs:15-17, 95, 102).
THEOREM NoTempIsLeft == Spec => []NoStrayTemp
<1>1. Init => Temps
  BY DEF Init, Temps
<1>2. Temps => NoStrayTemp
  BY DEF Temps, Owns, NoStrayTemp
<1>3. QED
  BY <1>1, <1>2, TypeCorrect, TempsStep, PTL DEF Spec

-----------------------------------------------------------------------------
(* Alone on the root, with one failing call at most. *)

Alone(d) ==
  Daemon = {d} /\ MaxEdits = 0 /\ MaxCrashes = 0 /\ MaxFaults <= 1

\* The phases in which a request has its texts.
Planned == {"check", "preflight", "backup", "write", "rename", "restore", "refill",
            "journal", "delete"}

\* Nothing disturbs the request of a daemon that is alone: no race, no restore that fails.
Undisturbed(t) ==
  /\ t.raced = {} /\ t.lost = {}
  /\ t.pc \in {"restore", "refill"} => faults = 1

\* A plan neither creates nor deletes a file, and a rollback undoes the entry it read.
Meant(t) ==
  t.pc \in Planned =>
    /\ \A f \in File : t.original[f] # NoFile => t.shadow[f] # NoFile
    /\ t.kind = "rollback" =>
         /\ t.of \in Id /\ journal[t.of] # NoEntry
         /\ t.original = journal[t.of].after /\ t.shadow = journal[t.of].before

\* Only a rollback drops an entry, only an apply renders a plan.
Kinds(t) ==
  /\ t.pc \in {"load", "validate"} => t.kind = "apply"
  /\ t.pc = "delete" => t.kind = "rollback"

\* The id of a commit in progress is the last one drawn, and has no entry yet.
Unused(t) ==
  t.pc \in {"write", "rename", "journal"} => t.id = clock /\ journal[clock] = NoEntry

\* An entry is about the same files before and after, and about no file it left as it was.
Paired(e) ==
  \A f \in File : /\ e.before[f] = NoFile <=> e.after[f] = NoFile
                  /\ e.before[f] # NoFile => e.before[f] # e.after[f]

Ledger ==
  \A i \in Id : /\ clock < i => journal[i] = NoEntry
                /\ journal[i] # NoEntry => Paired(journal[i])

Orderly(t) == Undisturbed(t) /\ Meant(t) /\ Kinds(t) /\ Unused(t)

LEMMA OrderlyInit == ASSUME NEW d, Alone(d) PROVE Init => Ledger /\ Orderly(txn[d])
BY DEF Alone, Init, Ledger, Orderly, Undisturbed, Meant, Kinds, Unused, Planned, Idle

\* A request with nothing in it.
LEMMA OrderlyAnswer ==
  ASSUME NEW d, txn'[d].raced = {}, txn'[d].lost = {},
         txn'[d].pc \in {"idle", "load", "validate", "entry", "reply"},
         txn'[d].pc \in {"load", "validate"} => txn'[d].kind = "apply"
  PROVE  Orderly(txn[d])'
BY DEF Orderly, Undisturbed, Meant, Kinds, Unused, Planned

\* A request that goes on with the texts and the id it has.
LEMMA OrderlyGoesOn ==
  ASSUME NEW d, Orderly(txn[d]), UNCHANGED <<journal, clock>>,
         txn[d].pc \in Planned, txn'[d].pc \in Planned,
         txn'[d].pc = "delete" => txn[d].kind = "rollback",
         \A x \in {"restore", "refill"} : txn'[d].pc = x => faults' = 1,
         txn'[d].pc \in {"write", "rename", "journal"} =>
           txn[d].pc \in {"write", "rename"} /\ txn'[d].id = txn[d].id,
         /\ txn'[d].raced = {} /\ txn'[d].lost = {}
         /\ txn'[d].original = txn[d].original /\ txn'[d].shadow = txn[d].shadow
         /\ txn'[d].kind = txn[d].kind /\ txn'[d].of = txn[d].of
  PROVE  Orderly(txn[d])'
BY DEF Orderly, Undisturbed, Meant, Kinds, Unused, Planned

LEMMA LedgerKept == ASSUME Ledger, UNCHANGED <<journal, clock>> PROVE Ledger'
BY DEF Ledger

-----------------------------------------------------------------------------
(* What becomes of the request, action by action. *)

\* Where d's request is after a step, given the record the step moves it to.
LEMMA Becomes ==
  ASSUME TypeOK, NEW d \in Daemon, NEW u,
         \/ Local(d, u) \/ Request(d, u) \/ txn' = [txn EXCEPT ![d] = u]
         \/ \E f, c : Put(d, u, f, c)
  PROVE  txn'[d] = u
BY DEF TypeOK, Local, Request, Put, Raced

\* The files a failing call or a finished walk says nothing of.
LEMMA AnswerFields ==
  ASSUME NEW t \in Txn, NEW r
  PROVE  /\ Answer(t, r).pc = "reply" /\ Answer(t, r).raced = t.raced
         /\ Answer(t, r).lost = t.lost /\ Answer(t, r).written = t.written
BY DEF Answer, Txn

\* The steps that read: nothing is renamed before, during or after.
Reading(d) ==
  /\ UNCHANGED <<disk, journal, clock>>
  /\ ~ InFlight(txn[d]) /\ ~ InFlight(txn'[d])

LEMMA ReadingStep ==
  ASSUME TypeOK, NEW d, Alone(d), Orderly(txn[d]),
         \/ RequestApply(d) \/ (\E i \in Id : RequestRollback(d, i))
         \/ LoadFile(d) \/ LoadDone(d) \/ Validate(d) \/ Reply(d)
         \/ ReadEntry(d) \/ CheckFile(d) \/ CheckDone(d)
         \/ PreflightFile(d) \/ PreflightDone(d) \/ BackupFile(d),
         Ledger
  PROVE  Reading(d) /\ Orderly(txn[d])'
<1> DEFINE t == txn[d]
<1>0. d \in Daemon /\ t \in Txn /\ Filled(t) /\ t.raced = {} /\ t.lost = {}
  BY DEF Alone, TypeOK, Orderly, Undisturbed
<1>a. ASSUME NEW r, Local(d, Answer(t, r)), ~ InFlight(t)
      PROVE  Reading(d) /\ Orderly(txn[d])'
  <2>1. txn'[d] = Answer(t, r)
    BY <1>0, <1>a, Becomes
  <2>2. txn'[d].pc = "reply" /\ txn'[d].raced = {} /\ txn'[d].lost = {}
    BY <1>0, <2>1, AnswerFields
  <2>3. QED
    BY <1>a, <2>2, OrderlyAnswer DEF Reading, InFlight, Local
<1>b. ASSUME NEW u, Local(d, u), ~ InFlight(t), t.pc \in Planned,
             u.pc \in {"check", "preflight", "backup"},
             u.raced = t.raced, u.lost = t.lost, u.original = t.original, u.shadow = t.shadow,
             u.kind = t.kind, u.of = t.of
      PROVE  Reading(d) /\ Orderly(txn[d])'
  <2>1. txn'[d] = u
    BY <1>0, <1>b, Becomes
  <2>2. Orderly(txn[d])'
    BY <1>0, <1>b, <2>1, OrderlyGoesOn DEF Local, Planned
  <2>3. QED
    BY <1>b, <2>1, <2>2 DEF Reading, InFlight, Local
<1>c. ASSUME NEW u, Local(d, u) \/ Request(d, u), ~ InFlight(t), u.raced = {}, u.lost = {},
             u.pc \in {"idle", "load", "validate", "entry"},
             u.pc \in {"load", "validate"} => u.kind = "apply"
      PROVE  Reading(d) /\ Orderly(txn[d])'
  <2>1. txn'[d] = u
    BY <1>0, <1>c, Becomes
  <2>2. QED
    BY <1>c, <2>1, OrderlyAnswer DEF Reading, InFlight, Local, Request
<1>1. CASE RequestApply(d)
  <2> DEFINE u == [Idle EXCEPT !.pc = "load", !.todo = File]
  <2>1. u.pc = "load" /\ u.raced = {} /\ u.lost = {} /\ u.kind = "apply"
    BY DEF Idle
  <2>2. Request(d, u) /\ t.pc = "idle"
    BY <1>1 DEF RequestApply
  <2> HIDE DEF u
  <2>3. QED
    BY <1>c, <2>1, <2>2 DEF InFlight
<1>2. ASSUME NEW i \in Id, RequestRollback(d, i)
      PROVE  Reading(d) /\ Orderly(txn[d])'
  <2> DEFINE u == [Idle EXCEPT !.pc = "entry", !.kind = "rollback", !.of = i]
  <2>1. u.pc = "entry" /\ u.raced = {} /\ u.lost = {}
    BY DEF Idle
  <2>2. Request(d, u) /\ t.pc = "idle"
    BY <1>2 DEF RequestRollback
  <2> HIDE DEF u
  <2>3. QED
    BY <1>c, <2>1, <2>2 DEF InFlight
<1>3. CASE LoadFile(d)
  <2>1. PICK c : Local(d, [t EXCEPT !.original[First(t.todo)] = c, !.todo = @ \ {First(t.todo)}])
    BY <1>3, Zenon DEF LoadFile
  <2> DEFINE u == [t EXCEPT !.original[First(t.todo)] = c, !.todo = @ \ {First(t.todo)}]
  <2>2. t.pc = "load" /\ u.pc = "load" /\ u.raced = {} /\ u.lost = {} /\ u.kind = "apply"
    BY <1>0, <1>3 DEF LoadFile, Txn, Orderly, Kinds
  <2> HIDE DEF u
  <2>3. QED
    BY <1>c, <2>1, <2>2 DEF InFlight, u
<1>4. CASE LoadDone(d)
  <2> DEFINE u == [t EXCEPT !.pc = "validate"]
  <2>1. t.pc = "load" /\ u.pc = "validate" /\ u.raced = {} /\ u.lost = {} /\ u.kind = "apply"
        /\ Local(d, u)
    BY <1>0, <1>4 DEF LoadDone, Txn, Orderly, Kinds
  <2> HIDE DEF u
  <2>2. QED
    BY <1>c, <2>1 DEF InFlight
<1>5. CASE Reply(d)
  BY <1>5, <1>c DEF Reply, Idle, InFlight
<1>6. CASE CheckFile(d)
  <2> DEFINE u == [t EXCEPT !.todo = @ \ {First(t.todo)}]
  <2>1. t.pc = "check" /\ (Local(d, u) \/ Local(d, Answer(t, "refused")))
    BY <1>6 DEF CheckFile
  <2>2. /\ u.pc = "check" /\ u.raced = t.raced /\ u.lost = t.lost /\ u.original = t.original
        /\ u.shadow = t.shadow /\ u.kind = t.kind /\ u.of = t.of
    BY <1>0, <2>1 DEF Txn
  <2> HIDE DEF u
  <2>3. QED
    BY <1>a, <1>b, <2>1, <2>2 DEF InFlight, Planned
<1>7. CASE PreflightFile(d)
  <2> DEFINE u == [t EXCEPT !.todo = @ \ {First(t.todo)}]
  <2>1. t.pc = "preflight" /\ (Local(d, u) \/ Local(d, Answer(t, "refused")))
    BY <1>7 DEF PreflightFile
  <2>2. /\ u.pc = "preflight" /\ u.raced = t.raced /\ u.lost = t.lost /\ u.original = t.original
        /\ u.shadow = t.shadow /\ u.kind = t.kind /\ u.of = t.of
    BY <1>0, <2>1 DEF Txn
  <2> HIDE DEF u
  <2>3. QED
    BY <1>a, <1>b, <2>1, <2>2 DEF InFlight, Planned
<1>8. CASE BackupFile(d)
  <2> DEFINE f == First(t.todo)
             u == [t EXCEPT !.backup[f] = disk[f], !.todo = @ \ {f}]
  <2>1. t.pc = "backup" /\ (Local(d, u) \/ Local(d, Answer(t, "failed")))
    BY <1>8 DEF BackupFile
  <2>2. /\ u.pc = "backup" /\ u.raced = t.raced /\ u.lost = t.lost /\ u.original = t.original
        /\ u.shadow = t.shadow /\ u.kind = t.kind /\ u.of = t.of
    BY <1>0, <2>1 DEF Txn
  <2> HIDE DEF u
  <2>3. QED
    BY <1>a, <1>b, <2>1, <2>2 DEF InFlight, Planned
<1>9. CASE CheckDone(d) \/ PreflightDone(d)
  <2>1. PICK p \in {"preflight", "backup"} : Local(d, [t EXCEPT !.pc = p, !.todo = Targets(t)])
    BY <1>9 DEF CheckDone, PreflightDone
  <2> DEFINE u == [t EXCEPT !.pc = p, !.todo = Targets(t)]
  <2>2. /\ u.pc = p /\ u.raced = t.raced /\ u.lost = t.lost /\ u.original = t.original
        /\ u.shadow = t.shadow /\ u.kind = t.kind /\ u.of = t.of
    BY <1>0 DEF Txn
  <2>3. t.pc \in {"check", "preflight"} /\ Local(d, u)
    BY <1>9, <2>1 DEF CheckDone, PreflightDone
  <2> HIDE DEF u
  <2>4. QED
    BY <1>b, <2>2, <2>3 DEF InFlight, Planned
<1>10. CASE Validate(d)
  <2>1. t.pc = "validate" /\ t.kind = "apply"
    BY <1>10 DEF Validate, Orderly, Kinds
  <2>2. CASE Local(d, Answer(t, "rejected"))
    BY <1>a, <2>1, <2>2 DEF InFlight
  <2>3. ASSUME NEW shadow \in [File -> Text \cup {NoFile}],
               \A f \in File : shadow[f] \in Content \cup {t.original[f]},
               LET planned == [t EXCEPT !.pc = "preflight", !.shadow = shadow]
               IN  Local(d, [planned EXCEPT !.todo = Targets(planned)])
        PROVE  Reading(d) /\ Orderly(txn[d])'
    <3> DEFINE planned == [t EXCEPT !.pc = "preflight", !.shadow = shadow]
               u == [planned EXCEPT !.todo = Targets(planned)]
    <3>1. txn'[d] = u
      BY <1>0, <2>3, Becomes
    <3>2. /\ u.pc = "preflight" /\ u.raced = {} /\ u.lost = {} /\ u.kind = "apply"
          /\ u.original = t.original /\ u.shadow = shadow
      BY <1>0, <2>1 DEF Txn
    <3>3. \A f \in File : u.original[f] # NoFile => u.shadow[f] # NoFile
      BY <2>3, <3>2, ContentAssumption
    <3> HIDE DEF u
    <3>4. Orderly(txn[d])'
      BY <3>1, <3>2, <3>3 DEF Orderly, Undisturbed, Meant, Kinds, Unused
    <3>5. QED
      BY <2>1, <2>3, <3>1, <3>2, <3>4 DEF Reading, InFlight, Local, u
  <2>4. QED
    BY <1>10, <2>2, <2>3 DEF Validate
<1>11. CASE ReadEntry(d)
  <2> DEFINE e == journal[t.of]
             read == [t EXCEPT !.pc = "check", !.original = e.after, !.shadow = e.before]
             u == [read EXCEPT !.todo = Targets(read)]
  <2>1. t.pc = "entry" /\ t.of \in Id
    BY <1>0, <1>11 DEF ReadEntry, Filled
  <2>2. \A r : Local(d, Answer(t, r)) => Reading(d) /\ Orderly(txn[d])'
    BY <1>a, <2>1 DEF InFlight
  <2>3. CASE e # NoEntry /\ Local(d, u)
    <3>1. txn'[d] = u
      BY <1>0, <2>3, Becomes
    <3>2. /\ u.pc = "check" /\ u.raced = {} /\ u.lost = {} /\ u.of = t.of
          /\ u.original = e.after /\ u.shadow = e.before
      BY <1>0 DEF Txn
    <3>3. Paired(e)
      BY <2>1, <2>3 DEF Ledger
    <3>4. \A f \in File : u.original[f] # NoFile => u.shadow[f] # NoFile
      BY <3>2, <3>3 DEF Paired
    <3>5. UNCHANGED <<disk, journal, clock>>
      BY <2>3 DEF Local
    <3> HIDE DEF u
    <3>6. Orderly(txn[d])'
      BY <2>1, <2>3, <3>1, <3>2, <3>4, <3>5 DEF Orderly, Undisturbed, Meant, Kinds, Unused
    <3>7. QED
      BY <2>1, <3>1, <3>2, <3>5, <3>6 DEF Reading, InFlight
  <2>4. QED
    BY <1>11, <2>2, <2>3 DEF ReadEntry
<1>12. QED
  BY <1>1, <1>2, <1>3, <1>4, <1>5, <1>6, <1>7, <1>8, <1>9, <1>10, <1>11

\* The workspace as a request alone on the root makes it look.
Seen(t, image) ==
  [f \in File |-> IF InFlight(t) /\ f \in t.written THEN t.original[f] ELSE image[f]]

LEMMA PromisedIsSeen ==
  ASSUME NEW d, Alone(d)
  PROVE  Promised = Seen(txn[d], disk) /\ Promised' = Seen(txn'[d], disk')
<1>2. ASSUME NEW f \in File
      PROVE  LET own == InFlight(txn[d]) /\ f \in txn[d].written
             IN  /\ (\E e \in Daemon : InFlight(txn[e]) /\ f \in txn[e].written) <=> own
                 /\ own => (CHOOSE e \in Daemon : InFlight(txn[e]) /\ f \in txn[e].written) = d
  BY DEF Alone
<1>3. ASSUME NEW f \in File
      PROVE  LET own == InFlight(txn'[d]) /\ f \in txn'[d].written
             IN  /\ (\E e \in Daemon : InFlight(txn'[e]) /\ f \in txn'[e].written) <=> own
                 /\ own => (CHOOSE e \in Daemon : InFlight(txn'[e]) /\ f \in txn'[e].written) = d
  BY DEF Alone
<1>4. Promised = Seen(txn[d], disk)
  BY <1>2 DEF Promised, Seen
<1>5. Promised' = Seen(txn'[d], disk')
  BY <1>3 DEF Promised, Seen, InFlight
<1>6. QED
  BY <1>4, <1>5

\* A step after which the workspace looks as before.
Hidden(d) ==
  /\ Orderly(txn[d])' /\ Ledger' /\ UNCHANGED journal
  /\ Seen(txn'[d], disk') = Seen(txn[d], disk)

LEMMA ReadingHidden ==
  ASSUME NEW d, Reading(d), Orderly(txn[d])', Ledger
  PROVE  Hidden(d)
BY LedgerKept DEF Reading, Hidden, Seen

\* The request goes on without touching a file.
LEMMA WritingLocal ==
  ASSUME NEW d, Alone(d), TypeOK, Orderly(txn[d]), Ledger, NEW u, txn'[d] = u,
         UNCHANGED <<disk, journal, clock>>,
         InFlight(txn[d]), InFlight(u), u.written = txn[d].written,
         u.original = txn[d].original, u.shadow = txn[d].shadow,
         u.kind = txn[d].kind, u.of = txn[d].of, u.id = txn[d].id,
         u.raced = txn[d].raced, u.lost = txn[d].lost,
         u.pc = "delete" => u.kind = "rollback",
         u.pc \in {"restore", "refill"} => faults' = 1,
         u.pc \in {"write", "rename", "journal"} => txn[d].pc \in {"write", "rename"}
  PROVE  Hidden(d)
<1>1. txn[d].pc \in Planned /\ u.pc \in Planned
  BY DEF InFlight, Planned
<1>2. txn[d].raced = {} /\ txn[d].lost = {}
  BY DEF Orderly, Undisturbed
<1>3. Orderly(txn[d])'
  BY <1>1, <1>2, OrderlyGoesOn
<1>4. Seen(txn'[d], disk') = Seen(txn[d], disk)
  BY DEF Seen
<1>5. QED
  BY <1>3, <1>4, LedgerKept DEF Hidden

\* Only one system call fails.
LEMMA OneFault ==
  ASSUME TypeOK, NEW d, Alone(d)
  PROVE  /\ Fault => faults = 0 /\ faults' = 1
         /\ ~ TwoFaults
BY BoundAssumption DEF TypeOK, Alone, Fault, TwoFaults

LEMMA BackupDoneHidden ==
  ASSUME TypeOK, RequestsSound, NEW d, Alone(d), Orderly(txn[d]), Ledger, BackupDone(d)
  PROVE  Hidden(d)
<1> DEFINE t == txn[d]
           u == [t EXCEPT !.pc = "write", !.todo = Targets(t), !.id = clock + 1]
<1>0. d \in Daemon /\ t \in Txn /\ t.raced = {} /\ t.lost = {} /\ t.pc = "backup" /\ t.written = {}
  BY DEF Alone, TypeOK, Orderly, Undisturbed, BackupDone, RequestsSound, Sound, Shape
<1>1. clock + 1 \in Id /\ clock \in Nat /\ clock' = clock + 1 /\ UNCHANGED <<disk, journal>>
  BY BoundAssumption DEF BackupDone, TypeOK, Id
<1>2. txn'[d] = u
  BY <1>0, Becomes DEF BackupDone
<1>3. /\ u.pc = "write" /\ u.id = clock' /\ u.raced = {} /\ u.lost = {}
      /\ u.original = t.original /\ u.shadow = t.shadow /\ u.kind = t.kind /\ u.of = t.of
      /\ u.written = {}
  BY <1>0, <1>1 DEF Txn
<1>4. journal'[clock'] = NoEntry
  BY <1>1 DEF Ledger
<1> HIDE DEF u
<1>5. Orderly(txn[d])'
  BY <1>0, <1>1, <1>2, <1>3, <1>4 DEF Orderly, Undisturbed, Meant, Kinds, Unused, Planned
<1>6. Seen(txn'[d], disk') = Seen(t, disk)
  BY <1>0, <1>1, <1>2, <1>3 DEF Seen
<1>7. Ledger'
  <2>1. ASSUME NEW i \in Id, clock' < i PROVE clock < i
    BY <1>1, <2>1 DEF Id
  <2>2. QED
    BY <1>1, <2>1 DEF Ledger
<1>8. QED
  BY <1>1, <1>5, <1>6, <1>7 DEF Hidden

LEMMA WriteHidden ==
  ASSUME TypeOK, NEW d, Alone(d), Orderly(txn[d]), Ledger,
         WriteTmp(d) \/ WriteTmpFails(d) \/ RenameFails(d) \/ WriteDone(d)
  PROVE  Hidden(d)
<1> DEFINE t == txn[d]
           Kept(u) == /\ u.written = t.written /\ u.original = t.original /\ u.shadow = t.shadow
                      /\ u.kind = t.kind /\ u.of = t.of /\ u.id = t.id /\ u.raced = t.raced
                      /\ u.lost = t.lost
<1>0. d \in Daemon /\ t \in Txn
  BY DEF Alone, TypeOK
<1>1. ASSUME Kept(txn'[d]), UNCHANGED <<disk, journal, clock>>, t.pc \in {"write", "rename"},
             txn'[d].pc \in {"write", "rename", "restore", "journal", "delete"},
             txn'[d].pc = "restore" => faults' = 1, txn'[d].pc = "delete" => t.kind = "rollback"
      PROVE  Hidden(d)
  <2>1. InFlight(t) /\ InFlight(txn'[d])
    BY <1>1 DEF InFlight
  <2>2. QED
    BY <1>1, <2>1, WritingLocal
<1>2. DOMAIN t = {"pc", "kind", "of", "id", "original", "shadow", "todo", "backup", "written",
                  "clean", "result", "raced", "lost"}
  BY <1>0 DEF Txn
<1>3. CASE WriteTmp(d)
  <2>1. txn'[d] = [t EXCEPT !.pc = "rename"] /\ UNCHANGED <<disk, journal, clock>> /\ t.pc = "write"
    BY <1>3, <1>0 DEF WriteTmp, TypeOK, t
  <2>2. Kept(txn'[d]) /\ txn'[d].pc = "rename"
    BY <1>2, <2>1
  <2>3. QED
    BY <1>1, <2>1, <2>2
<1>4. CASE WriteTmpFails(d)
  <2>1. txn'[d] = [t EXCEPT !.pc = "restore", !.clean = TRUE] /\ UNCHANGED <<disk, journal, clock>>
        /\ t.pc = "write"
    BY <1>4, <1>0 DEF WriteTmpFails, TypeOK, t
  <2>2. Kept(txn'[d]) /\ txn'[d].pc = "restore"
    BY <1>2, <2>1
  <2>3. faults' = 1
    BY <1>4, OneFault DEF WriteTmpFails
  <2>4. QED
    BY <1>1, <2>1, <2>2, <2>3
<1>5. CASE RenameFails(d)
  <2>1. txn'[d] = [t EXCEPT !.pc = "restore"] /\ UNCHANGED <<disk, journal, clock>>
        /\ t.pc = "rename"
    BY <1>5, <1>0 DEF RenameFails, TypeOK, t
  <2>2. Kept(txn'[d]) /\ txn'[d].pc = "restore"
    BY <1>2, <2>1
  <2>3. faults' = 1
    BY <1>5, OneFault DEF RenameFails
  <2>4. QED
    BY <1>1, <2>1, <2>2, <2>3
<1>6. CASE WriteDone(d)
  <2> DEFINE p == IF t.kind = "apply" THEN "journal" ELSE "delete"
  <2>1. Local(d, [t EXCEPT !.pc = p]) /\ t.pc = "write"
    BY <1>6 DEF WriteDone, t
  <2>2. txn'[d] = [t EXCEPT !.pc = p] /\ UNCHANGED <<disk, journal, clock>>
    BY <1>0, <2>1, Becomes DEF Local
  <2>3. p \in {"journal", "delete"} /\ (p = "delete" => t.kind = "rollback")
    BY <1>0 DEF Txn
  <2> HIDE DEF p
  <2>4. Kept(txn'[d]) /\ txn'[d].pc = p
    BY <1>2, <2>2
  <2>5. QED
    BY <1>1, <2>1, <2>2, <2>3, <2>4
<1>7. QED
  BY <1>3, <1>4, <1>5, <1>6

\* A file is put in place or restored, and looks as before.
LEMMA WritingPut ==
  ASSUME TypeOK, NEW d, Alone(d), Orderly(txn[d]), Ledger, NEW u, NEW f \in File, NEW c,
         Put(d, u, f, c), UNCHANGED <<journal, clock>>,
         InFlight(txn[d]), u.pc \in {"write", "restore", "refill"},
         u.pc = "write" => txn[d].pc = "rename",
         u.pc # "write" => faults' = 1,
         u.original = txn[d].original, u.shadow = txn[d].shadow,
         u.kind = txn[d].kind, u.of = txn[d].of, u.id = txn[d].id,
         u.raced = txn[d].raced, u.lost = txn[d].lost,
         \A g \in File : g # f => (g \in u.written <=> g \in txn[d].written),
         IF f \in txn[d].written THEN f \in u.written \/ c = txn[d].original[f]
         ELSE f \in u.written /\ disk[f] = txn[d].original[f]
  PROVE  Hidden(d)
<1>0. d \in Daemon /\ txn'[d] = u /\ disk' = [disk EXCEPT ![f] = c] /\ disk \in Image
  BY Becomes DEF Alone, TypeOK, Put
<1>1. txn[d].pc \in Planned /\ u.pc \in Planned /\ InFlight(u)
  BY DEF InFlight, Planned
<1>2. txn[d].raced = {} /\ txn[d].lost = {}
  BY DEF Orderly, Undisturbed
<1>3. Orderly(txn[d])'
  BY <1>0, <1>1, <1>2, OrderlyGoesOn
<1>4. ASSUME NEW g \in File
      PROVE  (IF g \in u.written THEN u.original[g] ELSE disk'[g])
             = (IF g \in txn[d].written THEN txn[d].original[g] ELSE disk[g])
  BY <1>0 DEF Image
<1>5. Seen(txn'[d], disk') = Seen(txn[d], disk)
  BY <1>0, <1>1, <1>4 DEF Seen
<1>6. QED
  BY <1>3, <1>5, LedgerKept DEF Hidden

LEMMA RenameHidden ==
  ASSUME TypeOK, RequestsSound, NEW d, Alone(d), Orderly(txn[d]), Ledger, Rename(d)
  PROVE  Hidden(d)
<1> DEFINE t == txn[d]  f == First(t.todo)
           u == [t EXCEPT !.pc = "write", !.todo = @ \ {f}, !.written = @ \cup {f}]
<1>0. /\ d \in Daemon /\ t \in Txn /\ t.pc = "rename" /\ t.raced = {} /\ t.lost = {}
      /\ Sound(t, disk) /\ Shape(t) /\ Filled(t)
  BY DEF Alone, TypeOK, Orderly, Undisturbed, Rename, RequestsSound, Sound
<1>1. f \in t.todo /\ f \in File
  BY <1>0, FirstIn DEF Filled, Txn
<1>2. f \in Verified(t) /\ f \notin t.written
  BY <1>0, <1>1 DEF Shape, Verified
<1>3. disk[f] = t.original[f]
  BY <1>0, <1>2 DEF Sound, Held
<1>4. Put(d, u, f, t.shadow[f]) /\ UNCHANGED <<journal, clock>>
  BY DEF Rename
<1>5. /\ u.pc = "write" /\ u.written = t.written \cup {f}
      /\ u.original = t.original /\ u.shadow = t.shadow /\ u.kind = t.kind /\ u.of = t.of
      /\ u.id = t.id /\ u.raced = t.raced /\ u.lost = t.lost
  BY <1>0 DEF Txn
<1> HIDE DEF u, f
<1>6. InFlight(t)
  BY <1>0 DEF InFlight
<1>7. QED
  BY <1>0, <1>1, <1>2, <1>3, <1>4, <1>5, <1>6, WritingPut

LEMMA RestoreHidden ==
  ASSUME TypeOK, RequestsSound, NEW d, Alone(d), Orderly(txn[d]), Ledger,
         RestoreTruncate(d) \/ RestoreFill(d)
  PROVE  Hidden(d)
<1> DEFINE t == txn[d]  g == First(t.written)
<1>0. /\ d \in Daemon /\ t \in Txn /\ t.pc \in {"restore", "refill"} /\ t.raced = {} /\ t.lost = {}
      /\ Sound(t, disk) /\ Shape(t) /\ Filled(t) /\ faults = 1 /\ InFlight(t)
  BY DEF Alone, TypeOK, Orderly, Undisturbed, RestoreTruncate, RestoreFill, RequestsSound, Sound,
         InFlight
<1>1. t.written # {} /\ g \in t.written /\ g \in File
  BY <1>0, FirstIn DEF Filled, Txn, RestoreTruncate, RestoreFill
<1>2. ~ Fault
  BY <1>0, OneFault
<1>3. t.backup[g] = t.original[g]
  <2>1. g \in BackedUp(t)
    BY <1>0, <1>1 DEF Shape, BackedUp
  <2>2. QED
    BY <1>0, <2>1 DEF Sound
<1>4. CASE RestoreTruncate(d)
  <2> DEFINE u == [t EXCEPT !.pc = "refill"]
  <2>1. Put(d, u, g, Torn) /\ UNCHANGED <<journal, clock, faults>>
    BY <1>2, <1>4 DEF RestoreTruncate, NoFault
  <2>2. /\ u.pc = "refill" /\ u.written = t.written
        /\ u.original = t.original /\ u.shadow = t.shadow /\ u.kind = t.kind /\ u.of = t.of
        /\ u.id = t.id /\ u.raced = t.raced /\ u.lost = t.lost
    BY <1>0 DEF Txn
  <2> HIDE DEF u, g
  <2>3. QED
    BY <1>0, <1>1, <2>1, <2>2, WritingPut
<1>5. CASE RestoreFill(d)
  <2> DEFINE u == [t EXCEPT !.pc = "restore", !.written = @ \ {g}]
  <2>1. Put(d, u, g, t.backup[g]) /\ UNCHANGED <<journal, clock, faults>>
    BY <1>2, <1>5 DEF RestoreFill, NoFault
  <2>2. /\ u.pc = "restore" /\ u.written = t.written \ {g}
        /\ u.original = t.original /\ u.shadow = t.shadow /\ u.kind = t.kind /\ u.of = t.of
        /\ u.id = t.id /\ u.raced = t.raced /\ u.lost = t.lost
    BY <1>0 DEF Txn
  <2> HIDE DEF u, g
  <2>3. QED
    BY <1>0, <1>1, <1>3, <2>1, <2>2, WritingPut
<1>6. QED
  BY <1>4, <1>5

LEMMA RestoreDoneHidden ==
  ASSUME TypeOK, NEW d, Alone(d), Orderly(txn[d]), Ledger, RestoreDone(d)
  PROVE  Hidden(d)
<1> DEFINE t == txn[d]  u == Answer(t, "failed")
<1>0. d \in Daemon /\ t \in Txn /\ t.raced = {} /\ t.lost = {} /\ t.written = {}
      /\ UNCHANGED <<disk, journal, clock>>
  BY DEF Alone, TypeOK, Orderly, Undisturbed, RestoreDone
<1>1. txn'[d] = u
  BY <1>0, Becomes DEF RestoreDone
<1>2. u.pc = "reply" /\ u.raced = {} /\ u.lost = {}
  BY <1>0, AnswerFields
<1> HIDE DEF u
<1>3. Orderly(txn[d])'
  BY <1>1, <1>2, OrderlyAnswer
<1>4. Seen(txn'[d], disk') = Seen(t, disk)
  BY <1>0, <1>1, <1>2 DEF Seen, InFlight
<1>5. QED
  BY <1>0, <1>3, <1>4, LedgerKept DEF Hidden

-----------------------------------------------------------------------------
(* The two steps that are seen. *)

\* What the disk and the workspace hold when a request has renamed all it had to.
LEMMA WhenInstalled ==
  ASSUME TypeOK, RequestsSound, NEW d, Alone(d), Orderly(txn[d]),
         txn[d].pc \in {"journal", "delete"}, NEW f \in File
  PROVE  /\ f \in Targets(txn[d]) =>
              Seen(txn[d], disk)[f] = txn[d].original[f] /\ disk[f] = txn[d].shadow[f]
         /\ f \notin Targets(txn[d]) => Seen(txn[d], disk)[f] = disk[f]
<1> DEFINE t == txn[d]
<1>0. /\ Sound(t, disk) /\ Shape(t) /\ t.raced = {} /\ t.lost = {} /\ t.written = Targets(t)
      /\ InFlight(t)
  BY DEF Alone, RequestsSound, Sound, Shape, Orderly, Undisturbed, InFlight
<1>1. f \in Targets(t) => disk[f] = t.shadow[f]
  BY <1>0 DEF Sound, Verified, Held
<1>2. QED
  BY <1>0, <1>1 DEF Seen

\* The files of an answered request are those on disk.
LEMMA AnsweredSeen ==
  ASSUME TypeOK, NEW d, Alone(d), Orderly(txn[d]), NEW r,
         txn' = [txn EXCEPT ![d] = Answer(txn[d], r)], UNCHANGED disk
  PROVE  Orderly(txn[d])' /\ \A f \in File : Seen(txn'[d], disk')[f] = disk[f]
<1>0. d \in Daemon /\ txn[d] \in Txn /\ txn[d].raced = {} /\ txn[d].lost = {}
  BY DEF Alone, TypeOK, Orderly, Undisturbed
<1>1. txn'[d] = Answer(txn[d], r)
  BY <1>0, Becomes
<1>2. txn'[d].pc = "reply" /\ txn'[d].raced = {} /\ txn'[d].lost = {}
  BY <1>0, <1>1, AnswerFields
<1>3. QED
  BY <1>2, OrderlyAnswer DEF Seen, InFlight

LEMMA CommitSeen ==
  ASSUME TypeOK, RequestsSound, NEW d, Alone(d), Orderly(txn[d]), Ledger, JournalWrite(d)
  PROVE  Orderly(txn[d])' /\ Ledger' /\ Atomic!Next
<1> DEFINE t == txn[d]  e == EntryOf(t)
<1>0. /\ d \in Daemon /\ t \in Txn /\ t.pc = "journal" /\ t.id = clock /\ t.id \in Id
      /\ journal[t.id] = NoEntry /\ journal \in [Id -> Entry \cup {NoEntry}] /\ clock \in Nat
  BY DEF Alone, TypeOK, Orderly, Unused, JournalWrite, Filled
<1>1. Orderly(txn[d])' /\ \A f \in File : Seen(txn'[d], disk')[f] = disk[f]
  BY AnsweredSeen DEF JournalWrite
<1>2. journal' = journal \/ journal' = [journal EXCEPT ![t.id] = e]
  BY DEF JournalWrite
<1>3. ASSUME NEW f \in File
      PROVE  /\ f \in Targets(t) => /\ e.before[f] = t.original[f] /\ e.after[f] = t.shadow[f]
                                    /\ t.original[f] # NoFile /\ t.shadow[f] # NoFile
                                    /\ t.shadow[f] # t.original[f]
             /\ f \notin Targets(t) => e.before[f] = NoFile /\ e.after[f] = NoFile
  BY <1>0 DEF EntryOf, Targets, Orderly, Meant, Planned
<1>4. e \in Entry
  BY <1>0 DEF EntryOf, Entry, Image, Txn
<1> HIDE DEF e
<1>5. Paired(e)
  BY <1>3 DEF Paired
<1>6. Ledger'
  <2>1. clock' = clock
    BY DEF JournalWrite
  <2>2. CASE journal' = journal
    BY <2>1, <2>2 DEF Ledger
  <2>3. CASE journal' = [journal EXCEPT ![t.id] = e]
    <3>1. \A i \in Id : journal'[i] = IF i = t.id THEN e ELSE journal[i]
      BY <1>0, <2>3
    <3>2. \A i \in Id : clock < i => i # t.id
      BY <1>0
    <3>3. QED
      BY <1>5, <2>1, <3>1, <3>2 DEF Ledger
  <2>4. QED
    BY <1>2, <2>2, <2>3
<1>7. Promised = Seen(t, disk) /\ Promised' = Seen(txn'[d], disk')
  BY PromisedIsSeen
<1>8. \A f \in File : e.before[f] # NoFile => Promised[f] = e.before[f]
  BY <1>0, <1>3, <1>7, WhenInstalled
<1>9. Promised' = [f \in File |-> IF e.after[f] # NoFile THEN e.after[f] ELSE Promised[f]]
  <2>1. ASSUME NEW f \in File
        PROVE  Promised'[f] = IF e.after[f] # NoFile THEN e.after[f] ELSE Promised[f]
    BY <1>0, <1>1, <1>3, <1>7, WhenInstalled
  <2>2. Promised' = [f \in File |-> Promised'[f]]
    BY <1>7 DEF Seen
  <2>3. QED
    BY <2>1, <2>2
<1>10. Atomic!Commit(t.id, e)
  BY <1>0, <1>2, <1>5, <1>8, <1>9 DEF Atomic!Commit, Atomic!Holds, Atomic!Install, Paired
<1>11. e \in Atomic!Entry
  BY <1>4 DEF Entry, Image, Atomic!Entry, Atomic!Image
<1>12. QED
  BY <1>0, <1>1, <1>6, <1>10, <1>11 DEF Atomic!Next

LEMMA RollbackSeen ==
  ASSUME TypeOK, RequestsSound, NEW d, Alone(d), Orderly(txn[d]), Ledger, JournalDelete(d)
  PROVE  Orderly(txn[d])' /\ Ledger' /\ Atomic!Next
<1> DEFINE t == txn[d]  e == journal[t.of]
<1>0. /\ d \in Daemon /\ t.pc = "delete" /\ t.of \in Id /\ e # NoEntry
      /\ t.original = e.after /\ t.shadow = e.before
      /\ journal \in [Id -> Entry \cup {NoEntry}] /\ clock' = clock
  BY DEF Alone, TypeOK, Orderly, Meant, Kinds, Planned, JournalDelete
<1>1. Orderly(txn[d])' /\ \A f \in File : Seen(txn'[d], disk')[f] = disk[f]
  BY AnsweredSeen DEF JournalDelete
<1>2. journal' = journal \/ journal' = [journal EXCEPT ![t.of] = NoEntry]
  BY DEF JournalDelete
<1>3. Paired(e)
  BY <1>0 DEF Ledger
<1>4. ASSUME NEW f \in File
      PROVE  /\ f \in Targets(t) => e.after[f] # NoFile /\ e.before[f] # NoFile
             /\ f \notin Targets(t) => e.after[f] = NoFile /\ e.before[f] = NoFile
  BY <1>0, <1>3 DEF Paired, Targets
<1>5. Ledger'
  BY <1>0, <1>2 DEF Ledger
<1>6. Promised = Seen(t, disk) /\ Promised' = Seen(txn'[d], disk')
  BY PromisedIsSeen
<1>7. \A f \in File : e.after[f] # NoFile => Promised[f] = e.after[f]
  BY <1>0, <1>4, <1>6, WhenInstalled
<1>8. Promised' = [f \in File |-> IF e.before[f] # NoFile THEN e.before[f] ELSE Promised[f]]
  <2>1. ASSUME NEW f \in File
        PROVE  Promised'[f] = IF e.before[f] # NoFile THEN e.before[f] ELSE Promised[f]
    BY <1>0, <1>1, <1>4, <1>6, WhenInstalled
  <2>2. Promised' = [f \in File |-> Promised'[f]]
    BY <1>6 DEF Seen
  <2>3. QED
    BY <2>1, <2>2
<1>9. Atomic!Rollback(t.of)
  BY <1>0, <1>2, <1>7, <1>8 DEF Atomic!Rollback, Atomic!Holds, Atomic!Install
<1>10. QED
  BY <1>0, <1>1, <1>5, <1>9 DEF Atomic!Next

-----------------------------------------------------------------------------
(* The refinement. *)

\* A hidden step is a stutter.
LEMMA HiddenStutters ==
  ASSUME NEW d, Alone(d), Hidden(d)
  PROVE  Orderly(txn[d])' /\ Ledger' /\ UNCHANGED <<Promised, journal>>
BY PromisedIsSeen DEF Hidden

LEMMA AtomicStep ==
  ASSUME TypeOK, RequestsSound, NEW d, Alone(d), Orderly(txn[d]), Ledger, [Next]_vars
  PROVE  /\ Orderly(txn[d])' /\ Ledger'
         /\ [Atomic!Next]_<<Promised, journal>>
<1>0. Daemon = {d}
  BY DEF Alone
<1>1. CASE RequestApply(d) \/ \E i \in Id : RequestRollback(d, i)
  BY <1>1, ReadingStep, ReadingHidden, HiddenStutters
<1>2. CASE Work(d)
  <2>1. CASE \/ LoadFile(d) \/ LoadDone(d) \/ Validate(d) \/ Reply(d)
             \/ ReadEntry(d) \/ CheckFile(d) \/ CheckDone(d)
             \/ PreflightFile(d) \/ PreflightDone(d) \/ BackupFile(d)
    BY <2>1, ReadingStep, ReadingHidden, HiddenStutters
  <2>2. CASE BackupDone(d) \/ WriteTmp(d) \/ WriteTmpFails(d) \/ RenameFails(d) \/ WriteDone(d)
    BY <2>2, BackupDoneHidden, WriteHidden, HiddenStutters
  <2>3. CASE Rename(d) \/ RestoreTruncate(d) \/ RestoreFill(d) \/ RestoreDone(d)
    BY <2>3, RenameHidden, RestoreHidden, RestoreDoneHidden, HiddenStutters
  <2>4. CASE JournalWrite(d) \/ JournalDelete(d)
    BY <2>4, CommitSeen, RollbackSeen
  <2>5. QED
    BY <1>2, <2>1, <2>2, <2>3, <2>4 DEF Work, Apply
<1>3. ~ Crash(d)
  BY BoundAssumption DEF Crash, Alone, TypeOK
<1>4. \A f \in File, c \in Content \cup {NoFile} : ~ Edit(f, c)
  BY BoundAssumption DEF Edit, Alone, TypeOK
<1>5. CASE Quiet \/ UNCHANGED vars
  <2>1. UNCHANGED <<disk, journal, clock, txn, faults>>
    BY <1>5 DEF Quiet, vars
  <2>2. Orderly(txn[d])' /\ Ledger'
    BY <2>1, LedgerKept DEF Orderly, Undisturbed, Meant, Kinds, Unused
  <2>3. Seen(txn'[d], disk') = Seen(txn[d], disk)
    BY <2>1
  <2>4. QED
    BY <2>1, <2>2, <2>3, HiddenStutters DEF Hidden
<1>6. QED
  BY <1>0, <1>1, <1>2, <1>3, <1>4, <1>5 DEF Next

\* A daemon that has the root to itself, that is not killed and for which one system call
\* fails at most, applies and rolls back atomically: what a reader is promised changes by
\* whole commits and whole rollbacks, each recorded as it was made (apply.rs, rollback.rs;
\* README.md:348-351).
THEOREM AloneIsAtomic ==
  ASSUME NEW d, Daemon = {d}, MaxEdits = 0, MaxCrashes = 0, MaxFaults <= 1
  PROVE  Spec => ImplementsAtomicCommit
<1>0. Alone(d)
  BY DEF Alone
<1>1. Init => Atomic!Init
  <2>1. ASSUME Init PROVE Promised = disk
    <3>1. ~ InFlight(txn[d])
      BY <1>0, <2>1 DEF Init, Alone, InFlight, Idle
    <3>2. Promised = [f \in File |-> disk[f]]
      BY <1>0, <3>1, PromisedIsSeen DEF Seen
    <3>3. QED
      BY <2>1, <3>2 DEF Init
  <2>2. QED
    BY <2>1 DEF Init, Atomic!Init, Atomic!Image, Text
<1>2. Init => Orderly(txn[d]) /\ Ledger
  BY <1>0, OrderlyInit
<1>3. TypeOK /\ RequestsSound /\ Orderly(txn[d]) /\ Ledger /\ [Next]_vars
        => (Orderly(txn[d]) /\ Ledger)' /\ [Atomic!Next]_<<Promised, journal>>
  BY <1>0, AtomicStep
<1>4. QED
  BY <1>1, <1>2, <1>3, TypeCorrect, RequestsStaySound, PTL
     DEF Spec, ImplementsAtomicCommit, Atomic!Spec

=============================================================================
