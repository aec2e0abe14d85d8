-------------------------- MODULE PatchTxn_proofs --------------------------
(***************************************************************************)
(* Proofs about PatchTxn, for any set of daemons, files and texts and any  *)
(* values of the bounds.                                                   *)
(***************************************************************************)
EXTENDS PatchTxn, TLAPS, WellFoundedInduction

-----------------------------------------------------------------------------
(* What the operators the actions are built from return. *)

\* A loop that is not done has a first file, and it is one of those to visit.
LEMMA FirstIn ==
  ASSUME NEW S \in SUBSET File, S # {}
  PROVE  First(S) \in S /\ First(S) \in File
<1>1. S \subseteq Nat
  BY FileAssumption
<1>2. PICK x \in S : \A y \in S : ~ (<<y, x>> \in OpToRel(<, Nat))
  BY <1>1, WFMin, NatLessThanWellFounded, Zenon
<1>3. ASSUME NEW y \in S PROVE x <= y
  <2>1. y < x => <<y, x>> \in OpToRel(<, Nat)
    BY <1>1 DEF OpToRel
  <2>2. ~ (y < x)
    BY <1>2, <2>1, Zenon
  <2>3. QED
    BY <1>1, <2>2
<1>4. QED
  BY <1>3 DEF First

\* The targets and the verified targets of a request are files.
LEMMA TargetsAreFiles ==
  ASSUME NEW t \in Txn
  PROVE  Targets(t) \subseteq File /\ Verified(t) \subseteq Targets(t)
BY DEF Targets, Verified

\* A request of the right type with the fields of its phase filled.
Well(t) == t \in Txn /\ Filled(t)

\* A change of a file by another leaves a request what it was but for `raced`.
LEMMA RacedType ==
  ASSUME TypeOK, NEW f \in File, NEW d \in Daemon
  PROVE  Raced(f)[d] \in Txn /\ Filled(Raced(f)[d])
<1>1. txn[d] \in Txn /\ Filled(txn[d])
  BY DEF TypeOK
<1>2. \A r \in SUBSET File :
        /\ [txn[d] EXCEPT !.raced = r] \in Txn
        /\ Filled([txn[d] EXCEPT !.raced = r])
  BY <1>1 DEF Txn, Filled
<1>3. txn[d].raced \cup ({f} \cap Verified(txn[d])) \in SUBSET File
  BY <1>1 DEF Txn
<1>4. QED
  BY <1>2, <1>3 DEF Raced

\* A daemon that has nothing to do has an empty request.
LEMMA IdleType == Well(Idle)
BY BoundAssumption DEF Well, Filled, Idle, Txn, Blank, Image, Phase, Result

\* An answered request keeps its type.
LEMMA AnswerType ==
  ASSUME NEW t \in Txn, NEW r \in Result
  PROVE  Well(Answer(t, r))
BY DEF Well, Filled, Answer, Txn, Phase

-----------------------------------------------------------------------------
(* Type correctness. *)

\* A step that only moves d's request on keeps the types of all requests.
LEMMA LocalType ==
  ASSUME TypeOK, NEW d \in Daemon, NEW t, Well(t), txn' = [txn EXCEPT ![d] = t]
  PROVE  txn' \in [Daemon -> Txn] /\ \A e \in Daemon : Filled(txn'[e])
BY DEF TypeOK, Well

\* So does one that changes a file and races the others.
LEMMA PutType ==
  ASSUME TypeOK, NEW d \in Daemon, NEW t, Well(t), NEW f \in File,
         NEW c \in Text \cup {NoFile}, Put(d, t, f, c)
  PROVE  /\ disk' \in Image
         /\ txn' \in [Daemon -> Txn]
         /\ \A e \in Daemon : Filled(txn'[e])
<1>1. disk' \in Image
  BY DEF TypeOK, Put, Image
<1>2. Raced(f) \in [Daemon -> Txn]
  BY RacedType DEF Raced
<1>3. QED
  BY <1>1, <1>2, RacedType DEF Put, Well

\* The bound on failing calls is kept.
LEMMA FaultType ==
  TypeOK /\ (Fault \/ TwoFaults \/ NoFault) => faults' \in 0..MaxFaults
BY BoundAssumption DEF TypeOK, Fault, TwoFaults, NoFault

LEMMA LocalStep ==
  ASSUME TypeOK, NEW d \in Daemon, NEW t, Well(t), Local(d, t), Fault \/ NoFault
  PROVE  TypeOK'
BY LocalType, FaultType DEF Local, TypeOK

\* A request arrives: it counts against the bound.
LEMMA RequestStep ==
  ASSUME TypeOK, NEW d \in Daemon, NEW t, Well(t), Request(d, t)
  PROVE  TypeOK'
<1>1. txn' = [txn EXCEPT ![d] = t]
  BY DEF Request
<1>2. txn' \in [Daemon -> Txn] /\ \A e \in Daemon : Filled(txn'[e])
  BY <1>1, LocalType
<1>3. requests' \in 0..MaxRequests
  BY BoundAssumption DEF Request, TypeOK
<1>4. QED
  BY <1>2, <1>3 DEF Request, TypeOK

\* The initial state has the types.
LEMMA TypeInit == Init => TypeOK
BY IdleType, BoundAssumption
   DEF Init, TypeOK, Image, Text, Id, Well

\* Every step of a handler, of an editor or of a killer keeps the types.
LEMMA TypeStep == TypeOK /\ [Next]_vars => TypeOK'
<1> SUFFICES ASSUME TypeOK, [Next]_vars
             PROVE  TypeOK'
  OBVIOUS
<1>1. ASSUME NEW d \in Daemon, RequestApply(d)
      PROVE  TypeOK'
  <2> DEFINE u == [Idle EXCEPT !.pc = "load", !.todo = File]
  <2>1. Well(u)
    BY IdleType DEF Well, Filled, Txn, Phase
  <2>2. QED
    BY <1>1, <2>1, RequestStep DEF RequestApply
<1>2. ASSUME NEW d \in Daemon, NEW i \in Id, RequestRollback(d, i)
      PROVE  TypeOK'
  <2> DEFINE u == [Idle EXCEPT !.pc = "entry", !.kind = "rollback", !.of = i]
  <2>1. Well(u)
    <3>1. i \in 0..MaxRequests
      BY BoundAssumption DEF Id
    <3>2. u \in Txn
      BY IdleType, <3>1 DEF Well, Txn, Phase
    <3>3. u.pc = "entry" /\ u.of = i
      BY DEF Idle
    <3>4. QED
      BY <3>2, <3>3 DEF Well, Filled
  <2>2. QED
    BY <1>2, <2>1, RequestStep DEF RequestRollback
<1>3. ASSUME NEW d \in Daemon, Work(d)
      PROVE  TypeOK'
  <2> DEFINE t == txn[d]
             f == First(t.todo)
             g == First(t.written)
  <2>t. t \in Txn /\ Filled(t) /\ Targets(t) \in SUBSET File
    BY TargetsAreFiles DEF TypeOK
  <2>f. t.todo # {} => f \in File
    BY <2>t, FirstIn DEF Txn
  <2>g. t.written # {} => g \in File
    BY <2>t, FirstIn DEF Txn
  <2>a. \A r \in Result : Well(Answer(t, r))
    BY <2>t, AnswerType
  <2>i. disk \in Image
    BY DEF TypeOK
  <2> HIDE DEF t, f, g
  <2>1. CASE LoadFile(d)
    <3>1. PICK c \in {disk[f], NoFile} :
            Local(d, [t EXCEPT !.original[f] = c, !.todo = @ \ {f}])
      BY <2>1 DEF LoadFile, t, f
    <3>2. Well([t EXCEPT !.original[f] = c, !.todo = @ \ {f}])
      BY <2>1, <2>t, <2>f, <2>i DEF LoadFile, Well, Filled, Txn, Image, t, f
    <3>3. QED
      BY <2>1, <3>1, <3>2, LocalStep DEF LoadFile
  <2>2. CASE LoadDone(d)
    <3>1. Well([t EXCEPT !.pc = "validate"])
      BY <2>t DEF Well, Filled, Txn, Phase
    <3>2. QED
      BY <2>2, <3>1, LocalStep DEF LoadDone, t
  <2>3. CASE Validate(d)
    <3>1. CASE Local(d, Answer(t, "rejected"))
      BY <2>3, <2>a, <3>1, LocalStep DEF Validate, Result
    <3>2. ASSUME NEW shadow \in Image,
                 LET planned == [t EXCEPT !.pc = "preflight", !.shadow = shadow]
                 IN  Local(d, [planned EXCEPT !.todo = Targets(planned)])
          PROVE  TypeOK'
      <4> DEFINE planned == [t EXCEPT !.pc = "preflight", !.shadow = shadow]
      <4>1. planned \in Txn
        BY <2>t, <3>2 DEF Txn, Phase
      <4>2. Well([planned EXCEPT !.todo = Targets(planned)])
        BY <4>1, TargetsAreFiles DEF Well, Filled, Txn
      <4>3. QED
        BY <2>3, <3>2, <4>2, LocalStep DEF Validate
    <3>3. QED
      BY <2>3, <3>1, <3>2 DEF Validate, Image, t
  <2>4. CASE ReadEntry(d)
    <3> DEFINE e == journal[t.of]
               read == [t EXCEPT !.pc = "check", !.original = e.after, !.shadow = e.before]
    <3>1. CASE e # NoEntry /\ Local(d, [read EXCEPT !.todo = Targets(read)]) /\ NoFault
      <4>1. e \in Entry
        BY <2>4, <2>t, <3>1 DEF ReadEntry, TypeOK, Filled, t
      <4>2. read \in Txn
        BY <2>t, <4>1 DEF Txn, Phase, Entry
      <4>3. Well([read EXCEPT !.todo = Targets(read)])
        BY <4>2, TargetsAreFiles DEF Well, Filled, Txn
      <4>4. QED
        BY <3>1, <4>3, LocalStep
    <3>2. QED
      BY <2>4, <2>a, <3>1, LocalStep DEF ReadEntry, Result, t
  <2>5. CASE CheckFile(d)
    <3>1. Well([t EXCEPT !.todo = @ \ {f}])
      BY <2>5, <2>t DEF CheckFile, Well, Filled, Txn, t
    <3>2. QED
      BY <2>5, <2>a, <3>1, LocalStep DEF CheckFile, Result, t, f
  <2>6. CASE CheckDone(d)
    <3>1. Well([t EXCEPT !.pc = "preflight", !.todo = Targets(t)])
      BY <2>t DEF Well, Filled, Txn, Phase
    <3>2. QED
      BY <2>6, <3>1, LocalStep DEF CheckDone, t
  <2>7. CASE PreflightFile(d)
    <3>1. Well([t EXCEPT !.todo = @ \ {f}])
      BY <2>7, <2>t DEF PreflightFile, Well, Filled, Txn, t
    <3>2. QED
      BY <2>7, <2>a, <3>1, LocalStep DEF PreflightFile, Result, t, f
  <2>8. CASE PreflightDone(d)
    <3>1. Well([t EXCEPT !.pc = "backup", !.todo = Targets(t)])
      BY <2>t DEF Well, Filled, Txn, Phase
    <3>2. QED
      BY <2>8, <3>1, LocalStep DEF PreflightDone, t
  <2>9. CASE BackupFile(d)
    <3>1. t.todo # {} => Well([t EXCEPT !.backup[f] = disk[f], !.todo = @ \ {f}])
      BY <2>9, <2>t, <2>f, <2>i DEF BackupFile, Well, Filled, Txn, Image, t
    <3>2. QED
      BY <2>9, <2>a, <3>1, LocalStep DEF BackupFile, Result, t, f
  <2>10. CASE BackupDone(d)
    <3>1. clock < MaxRequests /\ clock \in 0..MaxRequests
      BY <2>10 DEF BackupDone, TypeOK
    <3>2. clock + 1 \in Id /\ clock + 1 \in 0..MaxRequests
      BY <3>1, BoundAssumption DEF Id
    <3>3. Well([t EXCEPT !.pc = "write", !.todo = Targets(t), !.id = clock + 1])
      BY <2>t, <3>2 DEF Well, Filled, Txn, Phase
    <3>4. txn' \in [Daemon -> Txn] /\ \A e \in Daemon : Filled(txn'[e])
      BY <2>10, <3>3, LocalType DEF BackupDone, t
    <3>5. QED
      BY <2>10, <3>2, <3>4 DEF BackupDone, TypeOK
  <2>11. CASE WriteTmp(d)
    <3>1. Well([t EXCEPT !.pc = "rename"])
      BY <2>11, <2>t DEF WriteTmp, Well, Filled, Txn, Phase, t
    <3>2. <<f, t.id>> \in File \X Id
      BY <2>11, <2>t, <2>f DEF WriteTmp, Filled, t
    <3>3. txn' = [txn EXCEPT ![d] = [t EXCEPT !.pc = "rename"]]
      BY <2>11 DEF WriteTmp, TypeOK, t
    <3>4. txn' \in [Daemon -> Txn] /\ \A e \in Daemon : Filled(txn'[e])
      BY <3>1, <3>3, LocalType
    <3>5. QED
      BY <2>11, <3>2, <3>4 DEF WriteTmp, TypeOK, t, f
  <2>12. CASE WriteTmpFails(d)
    <3>1. Well([t EXCEPT !.pc = "restore", !.clean = TRUE])
      BY <2>12, <2>t DEF WriteTmpFails, Well, Filled, Txn, Phase, t
    <3>2. <<f, t.id>> \in File \X Id
      BY <2>12, <2>t, <2>f DEF WriteTmpFails, Filled, t
    <3>3. txn' = [txn EXCEPT ![d] = [t EXCEPT !.pc = "restore", !.clean = TRUE]]
      BY <2>12 DEF WriteTmpFails, TypeOK, t
    <3>4. txn' \in [Daemon -> Txn] /\ \A e \in Daemon : Filled(txn'[e])
      BY <3>1, <3>3, LocalType
    <3>5. faults' \in 0..MaxFaults
      BY <2>12, FaultType DEF WriteTmpFails
    <3>6. QED
      BY <2>12, <3>2, <3>4, <3>5 DEF WriteTmpFails, TypeOK, t, f
  <2>13. CASE Rename(d)
    <3> DEFINE u == [t EXCEPT !.pc = "write", !.todo = @ \ {f}, !.written = @ \cup {f}]
    <3>1. t.pc = "rename" /\ f \in File /\ t.shadow[f] \in Text \cup {NoFile}
      BY <2>13, <2>t, <2>f DEF Rename, Filled, Txn, Image, t
    <3>2. Well(u)
      BY <2>t, <3>1 DEF Well, Filled, Txn, Phase
    <3>3. Put(d, u, f, t.shadow[f])
      BY <2>13 DEF Rename, t, f
    <3>4. /\ disk' \in Image
          /\ txn' \in [Daemon -> Txn]
          /\ \A e \in Daemon : Filled(txn'[e])
      BY <3>1, <3>2, <3>3, PutType
    <3>5. QED
      BY <2>13, <3>4 DEF Rename, TypeOK
  <2>14. CASE RenameFails(d)
    <3>1. Well([t EXCEPT !.pc = "restore"])
      BY <2>14, <2>t DEF RenameFails, Well, Filled, Txn, Phase, t
    <3>2. txn' = [txn EXCEPT ![d] = [t EXCEPT !.pc = "restore"]]
      BY <2>14 DEF RenameFails, TypeOK, t
    <3>3. txn' \in [Daemon -> Txn] /\ \A e \in Daemon : Filled(txn'[e])
      BY <3>1, <3>2, LocalType
    <3>4. faults' \in 0..MaxFaults /\ tmp' \subseteq tmp
      BY <2>14, FaultType DEF RenameFails
    <3>5. QED
      BY <2>14, <3>3, <3>4 DEF RenameFails, TypeOK
  <2>15. CASE WriteDone(d)
    <3>1. Well([t EXCEPT !.pc = IF t.kind = "apply" THEN "journal" ELSE "delete"])
      BY <2>15, <2>t DEF WriteDone, Well, Filled, Txn, Phase, t
    <3>2. QED
      BY <2>15, <3>1, LocalStep DEF WriteDone, t
  <2>16. CASE RestoreTruncate(d)
    <3> DEFINE u == [t EXCEPT !.pc = "refill"]
               v == [t EXCEPT !.written = @ \ {g}, !.lost = @ \cup {g}]
    <3>1. t.pc = "restore" /\ t.written # {} /\ g \in File
      BY <2>16, <2>g DEF RestoreTruncate, t
    <3>2. Well(u) /\ Well(v)
      BY <2>t, <3>1 DEF Well, Filled, Txn, Phase
    <3>3. \/ Put(d, u, g, Torn)
          \/ txn' = [txn EXCEPT ![d] = v] /\ UNCHANGED disk
      BY <2>16 DEF RestoreTruncate, TypeOK, t, g
    <3>4. /\ disk' \in Image
          /\ txn' \in [Daemon -> Txn]
          /\ \A e \in Daemon : Filled(txn'[e])
      BY <2>i, <3>1, <3>2, <3>3, PutType, LocalType, Torn \in Text \cup {NoFile} DEF Text
    <3>5. faults' \in 0..MaxFaults
      BY <2>16, FaultType DEF RestoreTruncate
    <3>6. QED
      BY <2>16, <3>4, <3>5 DEF RestoreTruncate, TypeOK
  <2>17. CASE RestoreFill(d)
    <3> DEFINE u == [t EXCEPT !.pc = "restore", !.written = @ \ {g}]
               v == [t EXCEPT !.pc = "restore", !.written = @ \ {g}, !.lost = @ \cup {g}]
    <3>1. t.pc = "refill" /\ g \in File /\ t.backup[g] \in Text \cup {NoFile}
      BY <2>17, <2>t, <2>g DEF RestoreFill, Filled, Txn, Image, t
    <3>2. Well(u) /\ Well(v)
      BY <2>t, <3>1 DEF Well, Filled, Txn, Phase
    <3>3. \/ Put(d, u, g, t.backup[g])
          \/ txn' = [txn EXCEPT ![d] = v] /\ UNCHANGED disk
      BY <2>17 DEF RestoreFill, TypeOK, t, g
    <3>4. /\ disk' \in Image
          /\ txn' \in [Daemon -> Txn]
          /\ \A e \in Daemon : Filled(txn'[e])
      BY <2>i, <3>1, <3>2, <3>3, PutType, LocalType
    <3>5. faults' \in 0..MaxFaults
      BY <2>17, FaultType DEF RestoreFill
    <3>6. QED
      BY <2>17, <3>4, <3>5 DEF RestoreFill, TypeOK
  <2>18. CASE RestoreDone(d)
    <3>1. txn' \in [Daemon -> Txn] /\ \A e \in Daemon : Filled(txn'[e])
      BY <2>18, <2>a, LocalType DEF RestoreDone, Result, t
    <3>2. faults' \in 0..MaxFaults /\ tmp' \subseteq tmp
      BY <2>18, FaultType DEF RestoreDone
    <3>3. QED
      BY <2>18, <3>1, <3>2 DEF RestoreDone, TypeOK
  <2>19. CASE JournalWrite(d)
    <3>1. txn' \in [Daemon -> Txn] /\ \A e \in Daemon : Filled(txn'[e])
      BY <2>19, <2>a, LocalType DEF JournalWrite, Result, t
    <3>2. EntryOf(t) \in Entry
      BY <2>t DEF EntryOf, Entry, Image, Txn
    <3>3. journal' \in [Id -> Entry \cup {NoEntry}]
      BY <2>19, <3>2 DEF JournalWrite, TypeOK, t
    <3>4. faults' \in 0..MaxFaults
      BY <2>19, FaultType DEF JournalWrite
    <3>5. QED
      BY <2>19, <3>1, <3>3, <3>4 DEF JournalWrite, TypeOK
  <2>20. CASE JournalDelete(d)
    <3>1. txn' \in [Daemon -> Txn] /\ \A e \in Daemon : Filled(txn'[e])
      BY <2>20, <2>a, LocalType DEF JournalDelete, Result, t
    <3>2. journal' \in [Id -> Entry \cup {NoEntry}]
      BY <2>20 DEF JournalDelete, TypeOK
    <3>3. faults' \in 0..MaxFaults
      BY <2>20, FaultType DEF JournalDelete
    <3>4. QED
      BY <2>20, <3>1, <3>2, <3>3 DEF JournalDelete, TypeOK
  <2>21. CASE Reply(d)
    BY <2>21, IdleType, LocalStep DEF Reply
  <2>22. QED
    BY <1>3, <2>1, <2>2, <2>3, <2>4, <2>5, <2>6, <2>7, <2>8, <2>9, <2>10, <2>11, <2>12,
       <2>13, <2>14, <2>15, <2>16, <2>17, <2>18, <2>19, <2>20, <2>21 DEF Work, Apply
<1>4. ASSUME NEW d \in Daemon, Crash(d)
      PROVE  TypeOK'
  <2>1. txn' \in [Daemon -> Txn] /\ \A e \in Daemon : Filled(txn'[e])
    BY <1>4, IdleType, LocalType DEF Crash
  <2>2. QED
    BY <1>4, <2>1, BoundAssumption DEF Crash, TypeOK
<1>5. ASSUME NEW f \in File, NEW c \in Content \cup {NoFile}, Edit(f, c)
      PROVE  TypeOK'
  <2>1. txn' \in [Daemon -> Txn] /\ \A e \in Daemon : Filled(txn'[e])
    BY <1>5, RacedType DEF Edit, Raced
  <2>2. disk' \in Image
    BY <1>5 DEF Edit, TypeOK, Image, Text
  <2>3. QED
    BY <1>5, <2>1, <2>2, BoundAssumption DEF Edit, TypeOK
<1>6. CASE Quiet \/ UNCHANGED vars
  BY <1>6 DEF Quiet, vars, TypeOK
<1>7. QED
  BY <1>1, <1>2, <1>3, <1>4, <1>5, <1>6 DEF Next

\* Type correctness.
THEOREM TypeCorrect == Spec => []TypeOK
BY TypeInit, TypeStep, PTL DEF Spec

-----------------------------------------------------------------------------
(* Every request knows what its targets hold. *)

\* What is known of a request survives a change of any file by somebody else.
LEMMA RacedSound ==
  ASSUME NEW t \in Txn, NEW image \in Image, Sound(t, image), NEW f \in File, NEW c
  PROVE  Sound([t EXCEPT !.raced = @ \cup ({f} \cap Verified(t))],
               [image EXCEPT ![f] = c])
<1> DEFINE u == [t EXCEPT !.raced = @ \cup ({f} \cap Verified(t))]
<1>1. /\ u.pc = t.pc /\ u.kind = t.kind /\ u.original = t.original /\ u.shadow = t.shadow
      /\ u.backup = t.backup /\ u.todo = t.todo /\ u.written = t.written
      /\ u.lost = t.lost /\ u.result = t.result
      /\ u.raced = t.raced \cup ({f} \cap Verified(t))
  BY DEF Txn
<1> HIDE DEF u
<1>2. Targets(u) = Targets(t)
  BY <1>1 DEF Targets
<1>3. Verified(u) = Verified(t) /\ BackedUp(u) = BackedUp(t)
  BY <1>1, <1>2 DEF Verified, BackedUp
<1>4. \A g : Held(u, g) = Held(t, g)
  BY <1>1 DEF Held
<1>5. Shape(u)
  BY <1>1, <1>2 DEF Sound, Shape
<1>6. ASSUME NEW g \in Verified(u) \ (u.raced \cup u.lost)
      PROVE  [image EXCEPT ![f] = c][g] = Held(u, g)
  <2>1. g \in Verified(t) \ (t.raced \cup t.lost) /\ g # f
    BY <1>1, <1>3
  <2>2. g \in File
    BY <2>1, TargetsAreFiles
  <2>3. QED
    BY <2>1, <2>2, <1>4 DEF Sound, Image
<1>7. QED
  BY <1>1, <1>3, <1>5, <1>6 DEF Sound, u

\* A step that moves one request on and touches no file.
LEMMA LocalSound ==
  ASSUME TypeOK, RequestsSound, NEW d \in Daemon, NEW u, Sound(u, disk),
         txn' = [txn EXCEPT ![d] = u], disk' = disk
  PROVE  RequestsSound'
BY DEF RequestsSound, TypeOK

\* A step that moves one request on and changes a file.
LEMMA PutSound ==
  ASSUME TypeOK, RequestsSound, NEW d \in Daemon, NEW u, NEW f \in File, NEW c,
         Put(d, u, f, c), Sound(u, [disk EXCEPT ![f] = c])
  PROVE  RequestsSound'
<1>1. ASSUME NEW e \in Daemon, e # d
      PROVE  Sound(txn'[e], disk')
  <2>1. txn[e] \in Txn /\ disk \in Image /\ Sound(txn[e], disk)
    BY DEF TypeOK, RequestsSound
  <2>2. txn'[e] = [txn[e] EXCEPT !.raced = @ \cup ({f} \cap Verified(txn[e]))]
    BY <1>1 DEF Put, Raced
  <2>3. Sound([txn[e] EXCEPT !.raced = @ \cup ({f} \cap Verified(txn[e]))],
              [disk EXCEPT ![f] = c])
    BY <2>1, RacedSound, Zenon
  <2>4. disk' = [disk EXCEPT ![f] = c]
    BY DEF Put
  <2>5. QED
    BY <2>2, <2>3, <2>4, Zenon
<1>2. txn'[d] = u
  BY DEF Put, Raced
<1>3. QED
  BY <1>1, <1>2 DEF RequestsSound, Put

\* Nothing is claimed of an idle request.
LEMMA IdleSound == ASSUME NEW image PROVE Sound(Idle, image)
<1>1. Verified(Idle) = {} /\ BackedUp(Idle) = {}
  BY DEF Verified, BackedUp, Idle
<1>2. QED
  BY <1>1 DEF Sound, Shape, Idle

LEMMA SoundInit == Init => RequestsSound
BY IdleSound DEF Init, RequestsSound

\* A request that has compared nothing with the disk yet claims nothing of it.
LEMMA UnverifiedSound ==
  ASSUME NEW u, NEW image, Shape(u),
         \/ u.pc \in {"idle", "load", "validate", "entry", "check"}
         \/ u.pc = "reply" /\ u.result \in {"rejected", "refused", "not_found"}
         \/ u.pc = "reply" /\ Targets(u) = {}
         \/ u.pc = "preflight" /\ u.todo = Targets(u)
  PROVE  Sound(u, image)
<1>1. Verified(u) = {} /\ BackedUp(u) = {}
  BY DEF Verified, BackedUp
<1>2. QED
  BY <1>1 DEF Sound

\* An answer keeps what the request knows of the disk.
LEMMA AnswerSound ==
  ASSUME NEW t \in Txn, NEW r, NEW image, Sound(t, image), t.pc # "refill",
         \/ r \in {"rejected", "refused", "not_found"}
         \/ r = "failed" /\ t.written = {} /\ (t.pc \in {"backup", "restore"} \/ Targets(t) = {})
         \/ r \in {"applied", "reverted", "undeleted"} /\ t.pc \in {"journal", "delete"}
  PROVE  Sound(Answer(t, r), image)
<1> DEFINE u == Answer(t, r)
<1>1. /\ u.pc = "reply" /\ u.result = r
      /\ u.original = t.original /\ u.shadow = t.shadow /\ u.todo = t.todo
      /\ u.written = t.written /\ u.lost = t.lost /\ u.raced = t.raced
  BY DEF Txn, Answer
<1> HIDE DEF u
<1>2. Targets(u) = Targets(t)
  BY <1>1 DEF Targets
<1>3. Shape(u)
  BY <1>1 DEF Sound, Shape
<1>4. CASE r \in {"rejected", "refused", "not_found"} \/ Targets(t) = {}
  BY <1>1, <1>2, <1>3, <1>4, UnverifiedSound DEF u
<1>5. CASE \/ r = "failed" /\ t.pc \in {"backup", "restore"}
           \/ r \in {"applied", "reverted", "undeleted"} /\ t.pc \in {"journal", "delete"}
  <2>1. Verified(t) = Targets(t) /\ Verified(u) = Targets(t) /\ BackedUp(u) = {}
    BY <1>1, <1>2, <1>5 DEF Verified, BackedUp
  <2>2. \A f : Held(u, f) = Held(t, f)
    BY <1>1 DEF Held
  <2>3. QED
    BY <1>1, <1>3, <2>1, <2>2 DEF Sound, u
<1>6. QED
  BY <1>4, <1>5

\* A step to another phase of the write that changes nothing but the loop's place.
LEMMA PhaseSound ==
  ASSUME NEW t \in Txn, NEW u, NEW image, Sound(t, image), Shape(u),
         /\ u.original = t.original /\ u.shadow = t.shadow /\ u.backup = t.backup
         /\ u.written = t.written /\ u.lost = t.lost /\ u.raced = t.raced,
         t.pc # "refill", u.pc # "refill",
         Verified(u) \subseteq Verified(t), BackedUp(u) \subseteq BackedUp(t)
  PROVE  Sound(u, image)
<1>1. \A f : Held(u, f) = Held(t, f)
  BY DEF Held
<1>2. QED
  BY <1>1 DEF Sound

\* Every step keeps what the requests know.
LEMMA SoundStep == TypeOK /\ RequestsSound /\ [Next]_vars => RequestsSound'
<1> SUFFICES ASSUME TypeOK, RequestsSound, [Next]_vars
             PROVE  RequestsSound'
  OBVIOUS
<1>1. ASSUME NEW d \in Daemon, RequestApply(d)
      PROVE  RequestsSound'
  <2> DEFINE u == [Idle EXCEPT !.pc = "load", !.todo = File]
  <2>1. Sound(u, disk)
    <3>1. Shape(u)
      BY DEF Shape, Idle
    <3>2. u.pc = "load"
      BY DEF Idle
    <3>3. QED
      BY <3>1, <3>2, UnverifiedSound
  <2>2. QED
    BY <1>1, <2>1, LocalSound DEF RequestApply, Request
<1>2. ASSUME NEW d \in Daemon, NEW i \in Id, RequestRollback(d, i)
      PROVE  RequestsSound'
  <2> DEFINE u == [Idle EXCEPT !.pc = "entry", !.kind = "rollback", !.of = i]
  <2>1. Sound(u, disk)
    <3>1. Shape(u)
      BY DEF Shape, Idle, Targets, Blank
    <3>2. u.pc = "entry"
      BY DEF Idle
    <3>3. QED
      BY <3>1, <3>2, UnverifiedSound
  <2>2. QED
    BY <1>2, <2>1, LocalSound DEF RequestRollback, Request
<1>3. ASSUME NEW d \in Daemon, Work(d)
      PROVE  RequestsSound'
  <2> DEFINE t == txn[d]
             f == First(t.todo)
             g == First(t.written)
  <2>t. t \in Txn /\ Filled(t) /\ Sound(t, disk) /\ disk \in Image
    BY DEF TypeOK, RequestsSound
  <2>s. Shape(t)
    BY <2>t DEF Sound
  <2>f. t.todo # {} => f \in t.todo /\ f \in File
    BY <2>t, FirstIn DEF Txn
  <2>g. t.written # {} => g \in t.written /\ g \in File
    BY <2>t, FirstIn DEF Txn
  <2>l. \A u : Sound(u, disk) /\ Local(d, u) => RequestsSound'
    BY LocalSound DEF Local
  <2> HIDE DEF t, f, g
  <2>1. CASE LoadFile(d)
    <3>1. PICK c \in {disk[f], NoFile} :
            Local(d, [t EXCEPT !.original[f] = c, !.todo = @ \ {f}])
      BY <2>1 DEF LoadFile, t, f
    <3> DEFINE u == [t EXCEPT !.original[f] = c, !.todo = @ \ {f}]
    <3>2. /\ u.pc = "load" /\ u.todo = t.todo \ {f} /\ u.written = t.written
          /\ u.lost = t.lost
      BY <2>1, <2>t DEF LoadFile, Txn, t
    <3> HIDE DEF u
    <3>3. Shape(u)
      BY <3>2, <2>s, <2>1 DEF Shape, LoadFile, t
    <3>4. Sound(u, disk)
      BY <3>2, <3>3, UnverifiedSound
    <3>5. QED
      BY <3>1, <3>4, <2>l DEF u
  <2>2. CASE LoadDone(d)
    <3> DEFINE u == [t EXCEPT !.pc = "validate"]
    <3>1. u.pc = "validate" /\ u.todo = t.todo /\ u.written = t.written /\ u.lost = t.lost
      BY <2>t DEF Txn
    <3>2. Local(d, u) /\ t.pc = "load"
      BY <2>2 DEF LoadDone, t
    <3> HIDE DEF u
    <3>3. Shape(u)
      BY <3>1, <3>2, <2>s DEF Shape
    <3>4. QED
      BY <3>1, <3>2, <3>3, <2>l, UnverifiedSound
  <2>3. CASE Validate(d)
    <3>0. t.pc = "validate"
      BY <2>3 DEF Validate, t
    <3>1. CASE Local(d, Answer(t, "rejected"))
      <4>1. Sound(Answer(t, "rejected"), disk)
        BY <2>t, <3>0, AnswerSound
      <4>2. QED
        BY <4>1, <3>1, <2>l
    <3>2. ASSUME NEW shadow \in Image,
                 LET planned == [t EXCEPT !.pc = "preflight", !.shadow = shadow]
                 IN  Local(d, [planned EXCEPT !.todo = Targets(planned)])
          PROVE  RequestsSound'
      <4> DEFINE planned == [t EXCEPT !.pc = "preflight", !.shadow = shadow]
                 u == [planned EXCEPT !.todo = Targets(planned)]
      <4>1. /\ planned \in Txn
            /\ u.original = planned.original /\ u.shadow = planned.shadow
            /\ u.pc = "preflight" /\ u.todo = Targets(planned) /\ u.written = t.written
            /\ u.lost = t.lost
        BY <2>t, <3>2 DEF Txn, Phase
      <4>2. Targets(u) = Targets(planned) /\ Targets(planned) \subseteq File
        BY <4>1 DEF Targets
      <4> HIDE DEF u
      <4>3. Shape(u)
        BY <4>1, <4>2, <3>0, <2>s DEF Shape
      <4>4. Sound(u, disk)
        BY <4>1, <4>2, <4>3, UnverifiedSound
      <4>5. QED
        BY <4>4, <3>2, <2>l DEF u
    <3>3. QED
      BY <2>3, <3>1, <3>2 DEF Validate, Image, t
  <2>4. CASE ReadEntry(d)
    <3> DEFINE e == journal[t.of]
               read == [t EXCEPT !.pc = "check", !.original = e.after, !.shadow = e.before]
               u == [read EXCEPT !.todo = Targets(read)]
    <3>0. t.pc = "entry" /\ t.written = {} /\ Targets(t) = {}
      BY <2>4, <2>s DEF ReadEntry, Shape, t
    <3>1. CASE Local(d, u) /\ e # NoEntry
      <4>1. /\ u.original = read.original /\ u.shadow = read.shadow
            /\ u.pc = "check" /\ u.todo = Targets(read) /\ u.written = t.written
            /\ u.lost = t.lost
        BY <2>t DEF Txn
      <4>2. Targets(u) = Targets(read) /\ Targets(read) \subseteq File
        BY <4>1 DEF Targets
      <4> HIDE DEF u
      <4>3. Shape(u)
        BY <4>1, <4>2, <3>0, <2>s DEF Shape
      <4>4. QED
        BY <4>1, <4>3, <3>1, <2>l, UnverifiedSound
    <3>2. Sound(Answer(t, "not_found"), disk) /\ Sound(Answer(t, "failed"), disk)
      BY <2>t, <3>0, AnswerSound
    <3>3. QED
      BY <2>4, <2>l, <3>1, <3>2 DEF ReadEntry, t
  <2>5. CASE CheckFile(d)
    <3> DEFINE u == [t EXCEPT !.todo = @ \ {f}]
    <3>1. /\ u.pc = "check" /\ u.original = t.original /\ u.shadow = t.shadow
          /\ u.todo = t.todo \ {f} /\ u.written = t.written /\ u.lost = t.lost
      BY <2>5, <2>t DEF CheckFile, Txn, t
    <3>2. Targets(u) = Targets(t) /\ t.pc = "check"
      BY <2>5, <3>1 DEF Targets, CheckFile, t
    <3> HIDE DEF u
    <3>3. Shape(u)
      BY <3>1, <3>2, <2>s DEF Shape
    <3>4. Sound(u, disk)
      BY <3>1, <3>3, UnverifiedSound
    <3>5. Sound(Answer(t, "refused"), disk)
      BY <2>t, <3>2, AnswerSound
    <3>6. QED
      BY <2>5, <3>4, <3>5, <2>l DEF CheckFile, u, t, f
  <2>6. CASE CheckDone(d)
    <3> DEFINE u == [t EXCEPT !.pc = "preflight", !.todo = Targets(t)]
    <3>1. /\ u.pc = "preflight" /\ u.original = t.original /\ u.shadow = t.shadow
          /\ u.todo = Targets(t) /\ u.written = t.written /\ u.lost = t.lost
      BY <2>t DEF Txn
    <3>2. Targets(u) = Targets(t) /\ Targets(t) \subseteq File /\ t.pc = "check"
      BY <2>6, <3>1 DEF Targets, CheckDone, t
    <3>3. Local(d, u)
      BY <2>6 DEF CheckDone, t
    <3> HIDE DEF u
    <3>4. Shape(u)
      BY <3>1, <3>2, <2>s DEF Shape
    <3>5. QED
      BY <3>1, <3>2, <3>3, <3>4, <2>l, UnverifiedSound
  <2>7. CASE PreflightFile(d)
    <3> DEFINE u == [t EXCEPT !.todo = @ \ {f}]
    <3>1. /\ u.pc = "preflight" /\ u.original = t.original /\ u.shadow = t.shadow
          /\ u.todo = t.todo \ {f} /\ u.written = t.written /\ u.lost = t.lost
          /\ u.raced = t.raced
      BY <2>7, <2>t DEF PreflightFile, Txn, t
    <3>2. Targets(u) = Targets(t) /\ t.pc = "preflight"
      BY <2>7, <3>1 DEF Targets, PreflightFile, t
    <3> HIDE DEF u
    <3>3. Shape(u)
      BY <3>1, <3>2, <2>s DEF Shape
    <3>4. Verified(u) \subseteq Verified(t) \cup {f} /\ BackedUp(u) = {}
      BY <3>1, <3>2 DEF Verified, BackedUp
    <3>5. \A h : Held(u, h) = t.original[h] /\ Held(t, h) = t.original[h]
      BY <3>1, <3>2, <2>s DEF Held, Shape
    <3>6. disk[f] = t.original[f] => Sound(u, disk)
      BY <3>1, <3>3, <3>4, <3>5, <2>t DEF Sound
    <3>7. Sound(Answer(t, "refused"), disk)
      BY <2>t, <3>2, AnswerSound
    <3>8. QED
      BY <2>7, <3>6, <3>7, <2>l DEF PreflightFile, u, t, f
  <2>8. CASE PreflightDone(d)
    <3> DEFINE u == [t EXCEPT !.pc = "backup", !.todo = Targets(t)]
    <3>1. /\ u.pc = "backup" /\ u.original = t.original /\ u.shadow = t.shadow
          /\ u.todo = Targets(t) /\ u.written = t.written /\ u.lost = t.lost
          /\ u.raced = t.raced /\ u.backup = t.backup
      BY <2>t DEF Txn, Phase
    <3>2. /\ Targets(u) = Targets(t) /\ Targets(t) \subseteq File
          /\ t.pc = "preflight" /\ t.todo = {}
      BY <2>8, <3>1 DEF Targets, PreflightDone, t
    <3>3. Local(d, u)
      BY <2>8 DEF PreflightDone, t
    <3> HIDE DEF u
    <3>4. Shape(u)
      BY <3>1, <3>2, <2>s DEF Shape
    <3>5. Verified(u) \subseteq Verified(t) /\ BackedUp(u) \subseteq BackedUp(t)
      BY <3>1, <3>2 DEF Verified, BackedUp
    <3>6. Sound(u, disk)
      BY <2>t, <3>1, <3>2, <3>4, <3>5, PhaseSound
    <3>7. QED
      BY <3>3, <3>6, <2>l
  <2>9. CASE BackupFile(d)
    <3> DEFINE u == [t EXCEPT !.backup[f] = disk[f], !.todo = @ \ {f}]
    <3>1. t.pc = "backup" /\ f \in t.todo /\ f \in File
      BY <2>9, <2>f DEF BackupFile, t
    <3>2. /\ u.pc = "backup" /\ u.original = t.original /\ u.shadow = t.shadow
          /\ u.todo = t.todo \ {f} /\ u.written = t.written /\ u.lost = t.lost
          /\ u.raced = t.raced /\ u.backup = [t.backup EXCEPT ![f] = disk[f]]
      BY <3>1, <2>t DEF Txn
    <3>3. Targets(u) = Targets(t) /\ Targets(t) \subseteq File
      BY <3>2 DEF Targets
    <3> HIDE DEF u
    <3>4. Shape(u)
      BY <3>1, <3>2, <3>3, <2>s DEF Shape
    <3>5. /\ Verified(u) = Targets(t) /\ Verified(t) = Targets(t)
          /\ BackedUp(u) \subseteq BackedUp(t) \cup {f}
      BY <3>1, <3>2, <3>3 DEF Verified, BackedUp
    <3>6. f \in Targets(t) /\ t.written = {} /\ t.lost = {}
      BY <3>1, <2>s DEF Shape
    <3>7. \A h : Held(u, h) = t.original[h] /\ Held(t, h) = t.original[h]
      BY <3>2, <3>6 DEF Held
    <3>8. \A h \in Targets(t) \ t.raced : disk[h] = t.original[h]
      BY <2>t, <3>5, <3>6, <3>7 DEF Sound
    <3>9. \A h \in BackedUp(u) \ t.raced : u.backup[h] = t.original[h]
      <4> SUFFICES ASSUME NEW h \in BackedUp(u) \ t.raced
                   PROVE  u.backup[h] = t.original[h]
        OBVIOUS
      <4>1. CASE h = f
        BY <4>1, <3>1, <3>2, <3>6, <3>8, <2>t DEF Txn, Image
      <4>2. CASE h # f
        <5>1. h \in BackedUp(t) /\ u.backup[h] = t.backup[h]
          BY <4>2, <3>1, <3>2, <3>5, <2>t DEF Txn, Image, BackedUp
        <5>2. QED
          BY <5>1, <2>t DEF Sound
      <4>3. QED
        BY <4>1, <4>2
    <3>10. Sound(u, disk)
      BY <3>2, <3>4, <3>5, <3>7, <3>8, <3>9 DEF Sound
    <3>11. Sound(Answer(t, "failed"), disk)
      BY <2>t, <3>1, <3>6, AnswerSound
    <3>12. QED
      BY <2>9, <3>10, <3>11, <2>l DEF BackupFile, u, t, f
  <2>10. CASE BackupDone(d)
    <3> DEFINE u == [t EXCEPT !.pc = "write", !.todo = Targets(t), !.id = clock + 1]
    <3>1. t.pc = "backup" /\ t.todo = {} /\ txn' = [txn EXCEPT ![d] = u] /\ disk' = disk
      BY <2>10 DEF BackupDone, t
    <3>2. /\ u.pc = "write" /\ u.original = t.original /\ u.shadow = t.shadow
          /\ u.todo = Targets(t) /\ u.written = t.written /\ u.lost = t.lost
          /\ u.raced = t.raced /\ u.backup = t.backup
      BY <2>t DEF Txn, Phase
    <3>3. Targets(u) = Targets(t) /\ Targets(t) \subseteq File
      BY <3>2 DEF Targets
    <3> HIDE DEF u
    <3>4. Shape(u)
      BY <3>1, <3>2, <3>3, <2>s DEF Shape
    <3>5. Verified(u) \subseteq Verified(t) /\ BackedUp(u) \subseteq BackedUp(t)
      BY <3>1, <3>2, <3>3 DEF Verified, BackedUp
    <3>6. Sound(u, disk)
      BY <2>t, <3>1, <3>2, <3>4, <3>5, PhaseSound
    <3>7. QED
      BY <3>1, <3>6, LocalSound
  <2>11. CASE WriteTmp(d)
    <3> DEFINE u == [t EXCEPT !.pc = "rename"]
    <3>1. t.pc = "write" /\ txn' = [txn EXCEPT ![d] = u] /\ disk' = disk
      BY <2>11 DEF WriteTmp, TypeOK, t
    <3>2. /\ u.pc = "rename" /\ u.original = t.original /\ u.shadow = t.shadow
          /\ u.todo = t.todo /\ u.written = t.written /\ u.lost = t.lost
          /\ u.raced = t.raced /\ u.backup = t.backup
      BY <2>t DEF Txn, Phase
    <3>3. Targets(u) = Targets(t)
      BY <3>2 DEF Targets
    <3> HIDE DEF u
    <3>4. Shape(u)
      BY <3>1, <3>2, <3>3, <2>s DEF Shape
    <3>5. Verified(u) \subseteq Verified(t) /\ BackedUp(u) \subseteq BackedUp(t)
      BY <3>1, <3>2, <3>3 DEF Verified, BackedUp
    <3>6. Sound(u, disk)
      BY <2>t, <3>1, <3>2, <3>4, <3>5, PhaseSound
    <3>7. QED
      BY <3>1, <3>6, LocalSound
  <2>12. CASE WriteTmpFails(d)
    <3> DEFINE u == [t EXCEPT !.pc = "restore", !.clean = TRUE]
    <3>1. t.pc = "write" /\ txn' = [txn EXCEPT ![d] = u] /\ disk' = disk
      BY <2>12 DEF WriteTmpFails, TypeOK, t
    <3>2. /\ u.pc = "restore" /\ u.original = t.original /\ u.shadow = t.shadow
          /\ u.todo = t.todo /\ u.written = t.written /\ u.lost = t.lost
          /\ u.raced = t.raced /\ u.backup = t.backup
      BY <2>t DEF Txn, Phase
    <3>3. Targets(u) = Targets(t)
      BY <3>2 DEF Targets
    <3> HIDE DEF u
    <3>4. Shape(u)
      BY <3>1, <3>2, <3>3, <2>s DEF Shape
    <3>5. Verified(u) \subseteq Verified(t) /\ BackedUp(u) \subseteq BackedUp(t)
      BY <3>1, <3>2, <3>3 DEF Verified, BackedUp
    <3>6. Sound(u, disk)
      BY <2>t, <3>1, <3>2, <3>4, <3>5, PhaseSound
    <3>7. QED
      BY <3>1, <3>6, LocalSound
  <2>13. CASE Rename(d)
    <3> DEFINE u == [t EXCEPT !.pc = "write", !.todo = @ \ {f}, !.written = @ \cup {f}]
               c == t.shadow[f]
    <3>1. t.pc = "rename" /\ f \in t.todo /\ f \in File /\ Put(d, u, f, c)
      BY <2>13, <2>t, <2>f DEF Rename, Filled, t, f
    <3>2. /\ u.pc = "write" /\ u.original = t.original /\ u.shadow = t.shadow
          /\ u.todo = t.todo \ {f} /\ u.written = t.written \cup {f} /\ u.lost = t.lost
          /\ u.raced = t.raced /\ u.backup = t.backup
      BY <2>t DEF Txn, Phase
    <3>3. Targets(u) = Targets(t) /\ Targets(t) \subseteq File
      BY <3>2 DEF Targets
    <3> HIDE DEF u
    <3>4. Shape(u) /\ f \in Targets(t)
      BY <3>1, <3>2, <3>3, <2>s DEF Shape
    <3>5. /\ Verified(u) = Targets(t) /\ Verified(t) = Targets(t)
          /\ BackedUp(u) \subseteq BackedUp(t)
      BY <3>1, <3>2, <3>3 DEF Verified, BackedUp
    <3>6. \A h : Held(u, h) = IF h = f THEN c ELSE Held(t, h)
      BY <3>1, <3>2 DEF Held
    <3>7. \A h \in File : [disk EXCEPT ![f] = c][h] = IF h = f THEN c ELSE disk[h]
      BY <2>t DEF Image
    <3> HIDE DEF c
    <3>8. Sound(u, [disk EXCEPT ![f] = c])
      BY <2>t, <3>2, <3>3, <3>4, <3>5, <3>6, <3>7 DEF Sound
    <3>9. QED
      BY <3>1, <3>8, PutSound
  <2>14. CASE RenameFails(d)
    <3> DEFINE u == [t EXCEPT !.pc = "restore"]
    <3>1. t.pc = "rename" /\ txn' = [txn EXCEPT ![d] = u] /\ disk' = disk
      BY <2>14 DEF RenameFails, TypeOK, t
    <3>2. /\ u.pc = "restore" /\ u.original = t.original /\ u.shadow = t.shadow
          /\ u.todo = t.todo /\ u.written = t.written /\ u.lost = t.lost
          /\ u.raced = t.raced /\ u.backup = t.backup
      BY <2>t DEF Txn, Phase
    <3>3. Targets(u) = Targets(t)
      BY <3>2 DEF Targets
    <3> HIDE DEF u
    <3>4. Shape(u)
      BY <3>1, <3>2, <3>3, <2>s DEF Shape
    <3>5. Verified(u) \subseteq Verified(t) /\ BackedUp(u) \subseteq BackedUp(t)
      BY <3>1, <3>2, <3>3 DEF Verified, BackedUp
    <3>6. Sound(u, disk)
      BY <2>t, <3>1, <3>2, <3>4, <3>5, PhaseSound
    <3>7. QED
      BY <3>1, <3>6, LocalSound
  <2>15. CASE WriteDone(d)
    <3> DEFINE u == [t EXCEPT !.pc = IF t.kind = "apply" THEN "journal" ELSE "delete"]
    <3>1. t.pc = "write" /\ t.todo = {} /\ Local(d, u)
      BY <2>15 DEF WriteDone, t
    <3>2. /\ u.pc = IF t.kind = "apply" THEN "journal" ELSE "delete"
          /\ u.kind = t.kind /\ u.original = t.original /\ u.shadow = t.shadow
          /\ u.todo = t.todo /\ u.written = t.written /\ u.lost = t.lost
          /\ u.raced = t.raced /\ u.backup = t.backup
      BY <2>t DEF Txn
    <3>3. Targets(u) = Targets(t)
      BY <3>2 DEF Targets
    <3> HIDE DEF u
    <3>4. Shape(u)
      BY <3>1, <3>2, <3>3, <2>s DEF Shape
    <3>5. Verified(u) \subseteq Verified(t) /\ BackedUp(u) \subseteq BackedUp(t)
      BY <3>1, <3>2, <3>3 DEF Verified, BackedUp
    <3>6. Sound(u, disk)
      BY <2>t, <3>1, <3>2, <3>4, <3>5, PhaseSound
    <3>7. QED
      BY <3>1, <3>6, <2>l
  <2>16. CASE RestoreTruncate(d)
    <3> DEFINE u == [t EXCEPT !.pc = "refill"]
               v == [t EXCEPT !.written = @ \ {g}, !.lost = @ \cup {g}]
    <3>1. t.pc = "restore" /\ t.written # {} /\ g \in t.written /\ g \in File
      BY <2>16, <2>g DEF RestoreTruncate, t
    <3>2. \/ Put(d, u, g, Torn)
          \/ txn' = [txn EXCEPT ![d] = v] /\ disk' = disk
      BY <2>16 DEF RestoreTruncate, TypeOK, t, g
    <3>3. /\ u.pc = "refill" /\ u.original = t.original /\ u.shadow = t.shadow
          /\ u.todo = t.todo /\ u.written = t.written /\ u.lost = t.lost
          /\ u.raced = t.raced /\ u.backup = t.backup
      BY <2>t DEF Txn, Phase
    <3>4. /\ v.pc = t.pc /\ v.original = t.original /\ v.shadow = t.shadow
          /\ v.todo = t.todo /\ v.written = t.written \ {g} /\ v.lost = t.lost \cup {g}
          /\ v.raced = t.raced /\ v.backup = t.backup
      BY <2>t DEF Txn
    <3>5. Targets(u) = Targets(t) /\ Targets(v) = Targets(t) /\ Targets(t) \subseteq File
      BY <3>3, <3>4 DEF Targets
    <3> HIDE DEF u, v
    <3>6. Shape(u) /\ Shape(v)
      BY <3>1, <3>3, <3>4, <3>5, <2>s DEF Shape
    <3>7. /\ Verified(t) = Targets(t) /\ Verified(u) = Targets(t) /\ Verified(v) = Targets(t)
          /\ BackedUp(t) = Targets(t) /\ BackedUp(u) = Targets(t) /\ BackedUp(v) = Targets(t)
      BY <3>1, <3>3, <3>4, <3>5 DEF Verified, BackedUp
    <3>8. /\ \A h : Held(u, h) = IF h = g THEN Torn ELSE Held(t, h)
          /\ \A h : h # g => Held(v, h) = Held(t, h)
      BY <3>1, <3>3, <3>4 DEF Held, g
    <3>9. \A h \in File : [disk EXCEPT ![g] = Torn][h] = IF h = g THEN Torn ELSE disk[h]
      BY <2>t DEF Image
    <3>10. Sound(u, [disk EXCEPT ![g] = Torn])
      BY <2>t, <3>3, <3>5, <3>6, <3>7, <3>8, <3>9 DEF Sound
    <3>11. Sound(v, disk)
      BY <2>t, <3>4, <3>6, <3>7, <3>8 DEF Sound
    <3>12. QED
      BY <3>1, <3>2, <3>10, <3>11, PutSound, LocalSound
  <2>17. CASE RestoreFill(d)
    <3> DEFINE u == [t EXCEPT !.pc = "restore", !.written = @ \ {g}]
               v == [t EXCEPT !.pc = "restore", !.written = @ \ {g}, !.lost = @ \cup {g}]
               c == t.backup[g]
    <3>1. t.pc = "refill" /\ g \in t.written /\ g \in File
      BY <2>17, <2>t, <2>g DEF RestoreFill, Filled, t
    <3>2. \/ Put(d, u, g, c)
          \/ txn' = [txn EXCEPT ![d] = v] /\ disk' = disk
      BY <2>17 DEF RestoreFill, TypeOK, t, g
    <3>3. /\ u.pc = "restore" /\ u.original = t.original /\ u.shadow = t.shadow
          /\ u.todo = t.todo /\ u.written = t.written \ {g} /\ u.lost = t.lost
          /\ u.raced = t.raced /\ u.backup = t.backup
      BY <2>t DEF Txn, Phase
    <3>4. /\ v.pc = "restore" /\ v.original = t.original /\ v.shadow = t.shadow
          /\ v.todo = t.todo /\ v.written = t.written \ {g} /\ v.lost = t.lost \cup {g}
          /\ v.raced = t.raced /\ v.backup = t.backup
      BY <2>t DEF Txn, Phase
    <3>5. Targets(u) = Targets(t) /\ Targets(v) = Targets(t) /\ Targets(t) \subseteq File
      BY <3>3, <3>4 DEF Targets
    <3> HIDE DEF u, v
    <3>6. Shape(u) /\ Shape(v) /\ g \in Targets(t)
      BY <3>1, <3>3, <3>4, <3>5, <2>s DEF Shape
    <3>7. /\ Verified(t) = Targets(t) /\ Verified(u) = Targets(t) /\ Verified(v) = Targets(t)
          /\ BackedUp(t) = Targets(t) /\ BackedUp(u) = Targets(t) /\ BackedUp(v) = Targets(t)
      BY <3>1, <3>3, <3>4, <3>5 DEF Verified, BackedUp
    <3>8. /\ \A h : Held(u, h) = IF h = g THEN t.original[g] ELSE Held(t, h)
          /\ \A h : h # g => Held(v, h) = Held(t, h)
      BY <3>1, <3>3, <3>4 DEF Held, g
    <3>9. \A h \in File : [disk EXCEPT ![g] = c][h] = IF h = g THEN c ELSE disk[h]
      BY <2>t DEF Image
    <3>10. g \notin t.raced => c = t.original[g]
      BY <2>t, <3>6, <3>7 DEF Sound
    <3> HIDE DEF c
    <3>11. Sound(u, [disk EXCEPT ![g] = c])
      BY <2>t, <3>3, <3>5, <3>6, <3>7, <3>8, <3>9, <3>10 DEF Sound
    <3>12. Sound(v, disk)
      BY <2>t, <3>4, <3>6, <3>7, <3>8 DEF Sound
    <3>13. QED
      BY <3>1, <3>2, <3>11, <3>12, PutSound, LocalSound
  <2>18. CASE RestoreDone(d)
    <3>1. /\ t.pc = "restore" /\ t.written = {} /\ disk' = disk
          /\ txn' = [txn EXCEPT ![d] = Answer(t, "failed")]
      BY <2>18 DEF RestoreDone, t
    <3>2. Sound(Answer(t, "failed"), disk)
      BY <2>t, <3>1, AnswerSound
    <3>3. QED
      BY <3>1, <3>2, LocalSound
  <2>19. CASE JournalWrite(d)
    <3>1. /\ t.pc = "journal" /\ disk' = disk
          /\ txn' = [txn EXCEPT ![d] = Answer(t, "applied")]
      BY <2>19 DEF JournalWrite, t
    <3>2. Sound(Answer(t, "applied"), disk)
      BY <2>t, <3>1, AnswerSound
    <3>3. QED
      BY <3>1, <3>2, LocalSound
  <2>20. CASE JournalDelete(d)
    <3>1. /\ t.pc = "delete" /\ disk' = disk
          /\ \E r \in {"reverted", "undeleted"} : txn' = [txn EXCEPT ![d] = Answer(t, r)]
      BY <2>20 DEF JournalDelete, t
    <3>2. \A r \in {"reverted", "undeleted"} : Sound(Answer(t, r), disk)
      BY <2>t, <3>1, AnswerSound
    <3>3. QED
      BY <3>1, <3>2, LocalSound
  <2>21. CASE Reply(d)
    BY <2>21, <2>l, IdleSound DEF Reply
  <2>22. QED
    BY <1>3, <2>1, <2>2, <2>3, <2>4, <2>5, <2>6, <2>7, <2>8, <2>9, <2>10, <2>11, <2>12,
       <2>13, <2>14, <2>15, <2>16, <2>17, <2>18, <2>19, <2>20, <2>21 DEF Work, Apply
<1>4. ASSUME NEW d \in Daemon, Crash(d)
      PROVE  RequestsSound'
  BY <1>4, IdleSound, LocalSound DEF Crash
<1>5. ASSUME NEW f \in File, NEW c \in Content \cup {NoFile}, Edit(f, c)
      PROVE  RequestsSound'
  <2> SUFFICES ASSUME NEW e \in Daemon
               PROVE  Sound(txn'[e], disk')
    BY DEF RequestsSound
  <2>1. txn[e] \in Txn /\ disk \in Image /\ Sound(txn[e], disk)
    BY DEF TypeOK, RequestsSound
  <2>2. txn'[e] = [txn[e] EXCEPT !.raced = @ \cup ({f} \cap Verified(txn[e]))]
    BY <1>5 DEF Edit, Raced
  <2>3. Sound([txn[e] EXCEPT !.raced = @ \cup ({f} \cap Verified(txn[e]))],
              [disk EXCEPT ![f] = c])
    BY <2>1, RacedSound, Zenon
  <2>4. disk' = [disk EXCEPT ![f] = c]
    BY <1>5 DEF Edit
  <2>5. QED
    BY <2>2, <2>3, <2>4, Zenon
<1>6. CASE Quiet \/ UNCHANGED vars
  BY <1>6 DEF Quiet, vars, RequestsSound
<1>7. QED
  BY <1>1, <1>2, <1>3, <1>4, <1>5, <1>6 DEF Next

\* Between any two system calls, every request knows what its targets hold.
THEOREM RequestsStaySound == Spec => []RequestsSound
<1>1. Init => TypeOK /\ RequestsSound
  BY TypeInit, SoundInit
<1>2. TypeOK /\ RequestsSound /\ [Next]_vars => (TypeOK /\ RequestsSound)'
  BY TypeStep, SoundStep
<1>3. QED
  BY <1>1, <1>2, PTL DEF Spec

-----------------------------------------------------------------------------
(* What the handlers promise, from what the requests know. *)

\* A commit on its way to the journal, and a rollback about to drop its entry, have
\* put every target in place (CommitInstalled).
THEOREM CommitsAreInstalled == Spec => []CommitInstalled
<1>1. RequestsSound => CommitInstalled
  <2> SUFFICES ASSUME RequestsSound, NEW d \in Daemon, txn[d].pc \in {"journal", "delete"},
                      NEW f \in Targets(txn[d]) \ txn[d].raced
               PROVE  disk[f] = txn[d].shadow[f]
    BY DEF CommitInstalled
  <2>1. Shape(txn[d]) /\ Sound(txn[d], disk)
    BY DEF RequestsSound, Sound
  <2>2. f \in Verified(txn[d]) \ (txn[d].raced \cup txn[d].lost)
    BY <2>1 DEF Shape, Verified
  <2>3. Held(txn[d], f) = txn[d].shadow[f]
    BY <2>1 DEF Shape, Held
  <2>4. QED
    BY <2>1, <2>2, <2>3 DEF Sound
<1>2. QED
  BY <1>1, RequestsStaySound, PTL

\* A failed write leaves every target as it found it (AbortRestores).
THEOREM AbortsRestore == Spec => []AbortRestores
<1>1. RequestsSound => AbortRestores
  <2> SUFFICES ASSUME RequestsSound, NEW d \in Daemon,
                      txn[d].pc = "reply", txn[d].result = "failed",
                      NEW f \in Targets(txn[d]) \ (txn[d].raced \cup txn[d].lost)
               PROVE  disk[f] = txn[d].original[f]
    BY DEF AbortRestores
  <2>1. Shape(txn[d]) /\ Sound(txn[d], disk)
    BY DEF RequestsSound, Sound
  <2>2. f \in Verified(txn[d]) \ (txn[d].raced \cup txn[d].lost)
    BY DEF Verified
  <2>3. Held(txn[d], f) = txn[d].original[f]
    BY <2>1 DEF Shape, Held
  <2>4. QED
    BY <2>1, <2>2, <2>3 DEF Sound
<1>2. QED
  BY <1>1, RequestsStaySound, PTL

\* Only a rename adds a file to those a request has written.
LEMMA OnlyRenameWrites ==
  ASSUME TypeOK, [Next]_vars, NEW d \in Daemon, NEW f \in txn'[d].written \ txn[d].written
  PROVE  txn[d].pc = "rename" /\ f = First(txn[d].todo)
<1>0. \A e \in Daemon : txn[e] \in Txn
  BY DEF TypeOK
<1>1. ASSUME NEW e \in Daemon, NEW u, txn' = [txn EXCEPT ![e] = u], u.written \subseteq txn[e].written
      PROVE  FALSE
  BY <1>1 DEF TypeOK
<1>w. ASSUME NEW g PROVE Raced(g)[d].written = txn[d].written
  <2>1. \A r : [txn[d] EXCEPT !.raced = r].written = txn[d].written
    BY <1>0 DEF Txn
  <2>2. QED
    BY <2>1 DEF Raced
<1>2. ASSUME NEW e \in Daemon, NEW u, NEW g, NEW c, Put(e, u, g, c)
      PROVE  e = d /\ f \in u.written
  <2>1. e # d => txn'[d] = Raced(g)[d]
    BY <1>2 DEF Put, Raced
  <2>2. e = d => txn'[d] = u
    BY <1>2 DEF Put, Raced
  <2>3. QED
    BY <2>1, <2>2, <1>w
<1>3. ASSUME NEW e \in Daemon, NEW u, Local(e, u), u.written \subseteq txn[e].written
      PROVE  FALSE
  BY <1>1, <1>3 DEF Local
<1>4. \A t \in Txn, r \in Result : Answer(t, r).written = t.written
  BY DEF Answer, Txn
<1>5. Idle.written = {}
  BY DEF Idle
<1>6. ASSUME NEW e \in Daemon, RequestApply(e) \/ \E i \in Id : RequestRollback(e, i)
      PROVE  FALSE
  <2>1. /\ [Idle EXCEPT !.pc = "load", !.todo = File].written = {}
        /\ \A i : [Idle EXCEPT !.pc = "entry", !.kind = "rollback", !.of = i].written = {}
    BY DEF Idle
  <2>2. \A u : Request(e, u) => u.written # {}
    BY <1>1 DEF Request
  <2>3. QED
    BY <1>6, <2>1, <2>2 DEF RequestApply, RequestRollback
<1>7. ASSUME NEW e \in Daemon, Work(e)
      PROVE  e = d /\ txn[d].pc = "rename" /\ f = First(txn[d].todo)
  <2> DEFINE t == txn[e]
  <2>t. t \in Txn
    BY <1>0
  <2>a. \A r \in Result : ~ Local(e, Answer(t, r)) /\ txn' # [txn EXCEPT ![e] = Answer(t, r)]
    BY <1>1, <1>4, <2>t DEF Local
  <2>k. \A u : t.written = u.written => ~ Local(e, u)
    BY <1>3
  <2>1. CASE LoadFile(e)
    <3>1. PICK c \in {disk[First(t.todo)], NoFile} :
            Local(e, [t EXCEPT !.original[First(t.todo)] = c, !.todo = @ \ {First(t.todo)}])
      BY <2>1 DEF LoadFile
    <3>2. [t EXCEPT !.original[First(t.todo)] = c, !.todo = @ \ {First(t.todo)}].written = t.written
      BY <2>t DEF Txn
    <3>3. QED
      BY <2>k, <3>1, <3>2
  <2>2. CASE BackupFile(e)
    <3>1. Local(e, [t EXCEPT !.backup[First(t.todo)] = disk[First(t.todo)],
                             !.todo = @ \ {First(t.todo)}])
      BY <2>2, <2>a DEF BackupFile, Result
    <3>2. [t EXCEPT !.backup[First(t.todo)] = disk[First(t.todo)],
                    !.todo = @ \ {First(t.todo)}].written = t.written
      BY <2>t DEF Txn
    <3>3. QED
      BY <2>k, <3>1, <3>2
  <2>3. CASE LoadDone(e) \/ WriteDone(e)
    <3>1. PICK p : Local(e, [t EXCEPT !.pc = p])
      BY <2>3 DEF LoadDone, WriteDone
    <3>2. [t EXCEPT !.pc = p].written = t.written
      BY <2>t DEF Txn
    <3>3. QED
      BY <2>k, <3>1, <3>2
  <2>4. CASE CheckFile(e) \/ PreflightFile(e)
    <3>1. Local(e, [t EXCEPT !.todo = @ \ {First(t.todo)}])
      BY <2>4, <2>a DEF CheckFile, PreflightFile, Result
    <3>2. [t EXCEPT !.todo = @ \ {First(t.todo)}].written = t.written
      BY <2>t DEF Txn
    <3>3. QED
      BY <2>k, <3>1, <3>2
  <2>5. CASE CheckDone(e) \/ PreflightDone(e)
    <3>1. PICK p : Local(e, [t EXCEPT !.pc = p, !.todo = Targets(t)])
      BY <2>5 DEF CheckDone, PreflightDone
    <3>2. [t EXCEPT !.pc = p, !.todo = Targets(t)].written = t.written
      BY <2>t DEF Txn
    <3>3. QED
      BY <2>k, <3>1, <3>2
  <2>6. CASE Validate(e)
    <3>1. PICK shadow : LET planned == [t EXCEPT !.pc = "preflight", !.shadow = shadow]
                        IN  Local(e, [planned EXCEPT !.todo = Targets(planned)])
      BY <2>6, <2>a DEF Validate, Result
    <3> DEFINE planned == [t EXCEPT !.pc = "preflight", !.shadow = shadow]
    <3>2. [planned EXCEPT !.todo = Targets(planned)].written = t.written
      BY <2>t DEF Txn
    <3>3. QED
      BY <2>k, <3>1, <3>2
  <2>7. CASE ReadEntry(e)
    <3> DEFINE r == journal[t.of]
               read == [t EXCEPT !.pc = "check", !.original = r.after, !.shadow = r.before]
    <3>1. Local(e, [read EXCEPT !.todo = Targets(read)])
      BY <2>7, <2>a DEF ReadEntry, Result
    <3>2. [read EXCEPT !.todo = Targets(read)].written = t.written
      BY <2>t DEF Txn
    <3>3. QED
      BY <2>k, <3>1, <3>2
  <2>8. CASE BackupDone(e)
    <3>1. txn' = [txn EXCEPT ![e] = [t EXCEPT !.pc = "write", !.todo = Targets(t),
                                             !.id = clock + 1]]
      BY <2>8 DEF BackupDone
    <3>2. [t EXCEPT !.pc = "write", !.todo = Targets(t), !.id = clock + 1].written = t.written
      BY <2>t DEF Txn
    <3>3. QED
      BY <1>1, <3>1, <3>2
  <2>9. CASE WriteTmp(e) \/ RenameFails(e)
    <3>1. PICK p : txn' = [txn EXCEPT ![e].pc = p]
      BY <2>9 DEF WriteTmp, RenameFails
    <3>2. txn' = [txn EXCEPT ![e] = [t EXCEPT !.pc = p]]
      BY <3>1 DEF TypeOK
    <3>3. [t EXCEPT !.pc = p].written = t.written
      BY <2>t DEF Txn
    <3>4. QED
      BY <1>1, <3>2, <3>3
  <2>10. CASE WriteTmpFails(e)
    <3>1. txn' = [txn EXCEPT ![e] = [t EXCEPT !.pc = "restore", !.clean = TRUE]]
      BY <2>10 DEF WriteTmpFails, TypeOK
    <3>2. [t EXCEPT !.pc = "restore", !.clean = TRUE].written = t.written
      BY <2>t DEF Txn
    <3>3. QED
      BY <1>1, <3>1, <3>2
  <2>11. CASE Rename(e)
    <3> DEFINE u == [t EXCEPT !.pc = "write", !.todo = @ \ {First(t.todo)},
                              !.written = @ \cup {First(t.todo)}]
    <3>1. Put(e, u, First(t.todo), t.shadow[First(t.todo)]) /\ t.pc = "rename"
      BY <2>11 DEF Rename
    <3>2. u.written = t.written \cup {First(t.todo)}
      BY <2>t DEF Txn
    <3> HIDE DEF u
    <3>3. e = d /\ f \in u.written
      BY <1>2, <3>1
    <3>4. QED
      BY <3>1, <3>2, <3>3
  <2>12. CASE RestoreTruncate(e) \/ RestoreFill(e)
    <3> DEFINE g == First(t.written)
    <3>1. PICK p, c : \/ Put(e, [t EXCEPT !.pc = p], g, c)
                      \/ Put(e, [t EXCEPT !.pc = p, !.written = @ \ {g}], g, c)
                      \/ txn' = [txn EXCEPT ![e].written = @ \ {g}, ![e].lost = @ \cup {g}]
                      \/ txn' = [txn EXCEPT ![e].pc = p, ![e].written = @ \ {g},
                                            ![e].lost = @ \cup {g}]
      BY <2>12 DEF RestoreTruncate, RestoreFill
    <3>2. CASE \/ Put(e, [t EXCEPT !.pc = p], g, c)
               \/ Put(e, [t EXCEPT !.pc = p, !.written = @ \ {g}], g, c)
      <4>1. /\ [t EXCEPT !.pc = p].written \subseteq t.written
            /\ [t EXCEPT !.pc = p, !.written = @ \ {g}].written \subseteq t.written
        BY <2>t DEF Txn
      <4>2. e = d /\ f \in t.written
        BY <1>2, <3>2, <4>1
      <4>3. QED
        BY <4>2
    <3>3. CASE txn' = [txn EXCEPT ![e].written = @ \ {g}, ![e].lost = @ \cup {g}]
      <4>1. txn' = [txn EXCEPT ![e] = [t EXCEPT !.written = @ \ {g}, !.lost = @ \cup {g}]]
        BY <3>3 DEF TypeOK
      <4>2. [t EXCEPT !.written = @ \ {g}, !.lost = @ \cup {g}].written \subseteq t.written
        BY <2>t DEF Txn
      <4>3. QED
        BY <1>1, <4>1, <4>2
    <3>4. CASE txn' = [txn EXCEPT ![e].pc = p, ![e].written = @ \ {g}, ![e].lost = @ \cup {g}]
      <4>1. txn' = [txn EXCEPT ![e] = [t EXCEPT !.pc = p, !.written = @ \ {g},
                                                !.lost = @ \cup {g}]]
        BY <3>4 DEF TypeOK
      <4>2. [t EXCEPT !.pc = p, !.written = @ \ {g}, !.lost = @ \cup {g}].written
              \subseteq t.written
        BY <2>t DEF Txn
      <4>3. QED
        BY <1>1, <4>1, <4>2
    <3>5. QED
      BY <3>1, <3>2, <3>3, <3>4
  <2>13. CASE RestoreDone(e) \/ JournalWrite(e) \/ JournalDelete(e)
    BY <2>13, <2>a DEF RestoreDone, JournalWrite, JournalDelete, Result
  <2>14. CASE Reply(e)
    BY <2>14, <1>3, <1>5 DEF Reply
  <2>15. QED
    BY <1>7, <2>1, <2>2, <2>3, <2>4, <2>5, <2>6, <2>7, <2>8, <2>9, <2>10, <2>11, <2>12,
       <2>13, <2>14 DEF Work, Apply
<1>8. ASSUME NEW e \in Daemon, Crash(e)
      PROVE  FALSE
  BY <1>1, <1>5, <1>8 DEF Crash
<1>9. ASSUME NEW g \in File, NEW c, Edit(g, c)
      PROVE  FALSE
  <2>1. txn'[d] = Raced(g)[d]
    BY <1>9 DEF Edit
  <2>2. QED
    BY <2>1, <1>w
<1>10. CASE Quiet \/ UNCHANGED vars
  BY <1>10 DEF Quiet, vars
<1>11. QED
  BY <1>6, <1>7, <1>8, <1>9, <1>10 DEF Next

\* A rename replaces the text its plan was computed from, unless somebody changed the
\* file after the preflight (RenameReplacesVerified).
THEOREM RenamesReplaceVerified == Spec => RenameReplacesVerified
<1>1. TypeOK /\ RequestsSound /\ [Next]_vars =>
        \A d \in Daemon : \A f \in txn'[d].written \ txn[d].written :
          disk[f] = txn[d].original[f] \/ f \in txn[d].raced
  <2> SUFFICES ASSUME TypeOK, RequestsSound, [Next]_vars, NEW d \in Daemon,
                      NEW f \in txn'[d].written \ txn[d].written, f \notin txn[d].raced
               PROVE  disk[f] = txn[d].original[f]
    OBVIOUS
  <2>1. txn[d].pc = "rename" /\ f = First(txn[d].todo)
    BY OnlyRenameWrites
  <2>2. txn[d] \in Txn /\ Filled(txn[d]) /\ Sound(txn[d], disk) /\ Shape(txn[d])
    BY DEF TypeOK, RequestsSound, Sound
  <2>3. f \in txn[d].todo
    <3>1. txn[d].todo # {} /\ txn[d].todo \in SUBSET File
      BY <2>1, <2>2 DEF Filled, Txn
    <3>2. QED
      BY <2>1, <3>1, FirstIn
  <2>4. f \in Verified(txn[d]) \ (txn[d].raced \cup txn[d].lost)
    BY <2>1, <2>2, <2>3 DEF Shape, Verified
  <2>5. Held(txn[d], f) = txn[d].original[f]
    BY <2>1, <2>2, <2>3 DEF Shape, Held
  <2>6. QED
    BY <2>2, <2>4, <2>5 DEF Sound
<1>2. QED
  BY <1>1, TypeCorrect, RequestsStaySound, PTL DEF Spec, RenameReplacesVerified

\* An entry appears in one step only, the one that writes it.
LEMMA OnlyJournalWrites ==
  ASSUME TypeOK, [Next]_vars, NEW i \in Id, journal[i] = NoEntry, journal'[i] # NoEntry
  PROVE  \E d \in Daemon :
           /\ txn[d].pc = "journal"
           /\ journal' = [journal EXCEPT ![txn[d].id] = EntryOf(txn[d])]
<1>1. journal' # journal
  OBVIOUS
<1>2. \A d \in Daemon : \A u : ~ Local(d, u) /\ ~ Request(d, u)
  BY <1>1 DEF Local, Request
<1>3. ASSUME NEW d \in Daemon, Apply(d)
      PROVE  FALSE
  <2>1. ~ PreflightFile(d) /\ ~ PreflightDone(d) /\ ~ BackupFile(d) /\ ~ WriteDone(d)
    BY <1>2 DEF PreflightFile, PreflightDone, BackupFile, WriteDone
  <2>2. ~ BackupDone(d) /\ ~ WriteTmp(d) /\ ~ WriteTmpFails(d)
    BY <1>1 DEF BackupDone, WriteTmp, WriteTmpFails
  <2>3. ~ Rename(d) /\ ~ RenameFails(d)
    BY <1>1 DEF Rename, RenameFails
  <2>4. ~ RestoreTruncate(d) /\ ~ RestoreFill(d) /\ ~ RestoreDone(d)
    BY <1>1 DEF RestoreTruncate, RestoreFill, RestoreDone
  <2>5. QED
    BY <1>3, <2>1, <2>2, <2>3, <2>4 DEF Apply
<1>4. ASSUME NEW d \in Daemon, Work(d)
      PROVE  JournalWrite(d) \/ JournalDelete(d)
  <2>1. ~ LoadFile(d) /\ ~ LoadDone(d) /\ ~ Validate(d) /\ ~ Reply(d)
    BY <1>2 DEF LoadFile, LoadDone, Validate, Reply
  <2>2. ~ ReadEntry(d) /\ ~ CheckFile(d) /\ ~ CheckDone(d)
    BY <1>2 DEF ReadEntry, CheckFile, CheckDone
  <2>3. QED
    BY <1>3, <1>4, <2>1, <2>2 DEF Work
<1>5. \A d \in Daemon : ~ RequestApply(d) /\ ~ Crash(d) /\ \A j \in Id : ~ RequestRollback(d, j)
  BY <1>1, <1>2 DEF RequestApply, Crash, RequestRollback
<1>6. ~ Quiet /\ ~ UNCHANGED vars /\ \A f \in File, c \in Content \cup {NoFile} : ~ Edit(f, c)
  BY <1>1 DEF Quiet, vars, Edit
<1>7. PICK d \in Daemon : JournalWrite(d) \/ JournalDelete(d)
  BY <1>4, <1>5, <1>6 DEF Next
<1>8. ~ JournalDelete(d)
  BY DEF JournalDelete, TypeOK
<1>9. QED
  BY <1>1, <1>7, <1>8 DEF JournalWrite

\* A request ends with all of its texts in place or none, for any system calls that
\* fail, races and kills.
THEOREM RequestsAreAllOrNothing == Spec => []AllOrNothing
  BY CommitsAreInstalled, AbortsRestore, PTL DEF AllOrNothing

\* No entry describes half a commit (JournalRecordsCommit).
THEOREM JournalRecordsCommits == Spec => JournalRecordsCommit
<1>1. TypeOK /\ RequestsSound /\ [Next]_vars =>
        \A i \in Id : journal[i] = NoEntry /\ journal'[i] # NoEntry =>
          \E d \in Daemon :
            /\ txn[d].id = i /\ txn[d].kind = "apply"
            /\ \A f \in File :
                 journal'[i].after[f] # NoFile => \/ disk[f] = journal'[i].after[f]
                                                 \/ f \in txn[d].raced
  <2> SUFFICES ASSUME TypeOK, RequestsSound, [Next]_vars, NEW i \in Id,
                      journal[i] = NoEntry, journal'[i] # NoEntry
               PROVE  \E d \in Daemon :
                        /\ txn[d].id = i /\ txn[d].kind = "apply"
                        /\ \A f \in File :
                             journal'[i].after[f] # NoFile =>
                               disk[f] = journal'[i].after[f] \/ f \in txn[d].raced
    OBVIOUS
  <2>1. PICK d \in Daemon : /\ txn[d].pc = "journal"
                            /\ journal' = [journal EXCEPT ![txn[d].id] = EntryOf(txn[d])]
    BY OnlyJournalWrites
  <2>2. Sound(txn[d], disk) /\ Shape(txn[d]) /\ txn[d].kind = "apply"
    BY <2>1 DEF RequestsSound, Sound, Shape
  <2>3. txn[d].id = i /\ journal'[i] = EntryOf(txn[d])
    BY <2>1 DEF TypeOK
  <2>4. ASSUME NEW f \in File, journal'[i].after[f] # NoFile, f \notin txn[d].raced
        PROVE  disk[f] = journal'[i].after[f]
    <3>1. f \in Targets(txn[d]) /\ journal'[i].after[f] = txn[d].shadow[f]
      BY <2>3, <2>4 DEF EntryOf
    <3>2. f \in Verified(txn[d]) \ (txn[d].raced \cup txn[d].lost)
      BY <2>1, <2>2, <2>4, <3>1 DEF Shape, Verified
    <3>3. Held(txn[d], f) = txn[d].shadow[f]
      BY <2>1, <2>2, <3>1 DEF Shape, Held
    <3>4. QED
      BY <2>2, <3>1, <3>2, <3>3 DEF Sound
  <2>5. QED
    BY <2>2, <2>3, <2>4
<1>2. QED
  BY <1>1, TypeCorrect, RequestsStaySound, PTL DEF Spec, JournalRecordsCommit
=============================================================================
