--------------------------- MODULE Validate_proofs ---------------------------
(***************************************************************************)
(* Proofs of the safety properties of Validate, for every set of files,    *)
(* every set of flaws and every value of the bounds.                       *)
(*                                                                         *)
(* The inductive invariant says, besides TypeOK and the properties, what   *)
(* each phase knows of the report (Phases), that a green report and a      *)
(* child that will succeed are evidence about the shadow whatever the disk *)
(* holds (Evidence), and that a file an operation skipped is still one the *)
(* shadow cannot parse (SkippedShows).                                     *)
(***************************************************************************)
EXTENDS Validate, TLAPS, SequenceTheorems

CargoStages == {"cargo_check", "cargo_test"}

\* The flaws a stage looks for, and the condition under which it may not have looked.
Looked(stage) ==
  CASE stage = "syntactic" -> {"syntax"}
    [] stage = "rules" -> {"syntax", "rules"}
    [] OTHER -> Seen(stage)

Blind(stage) == stage \in CargoStages /\ ~(manifest /\ cargo)

Phases ==
  /\ req.pc \in {"idle", "ops"} => req.report = <<>>
  /\ req.pc # "done" => req.result = "none"
  /\ req.pc \in {"run", "wait", "drain"} =>
       Validated /\ Len(req.report) < Len(Stages(req.profile, req.ruled))
  /\ req.pc \in {"wait", "drain"} => Current \in CargoStages
  /\ req.pc = "decide" => ~Validated \/ Len(req.report) = Len(Stages(req.profile, req.ruled))

Evidence ==
  /\ \A i \in 1..Len(req.report) :
       req.report[i].ok =>
         Blind(req.report[i].stage) \/ ~Flawed(req.shadow, Looked(req.report[i].stage))
  /\ req.pc \in {"wait", "drain"} /\ child.ok => ~Flawed(req.shadow, Seen(Current))

SkippedShows == req.skipped => Flawed(req.shadow, {"syntax"})

Waits == \A i \in 1..Len(req.report) : req.report[i].why = "wait" => ~req.report[i].ok

IInv ==
  TypeOK /\ ReportSound /\ Phases /\ Evidence /\ SkippedShows /\ Waits /\ ChildReaped

-----------------------------------------------------------------------------

Profile == {"default", "typed", "tested", "other"}

LEMMA InStage == "cargo_check" \in Stage /\ "cargo_test" \in Stage
BY DEF Stage

\* What build_pipeline returns: at most four stages, the syntactic one first, and the
\* stages the profile and the rules call for among them.
LEMMA StagesShape ==
  ASSUME NEW profile \in Profile, NEW ruled \in BOOLEAN
  PROVE  /\ Stages(profile, ruled) \in Seq(Stage)
         /\ Len(Stages(profile, ruled)) \in 1..4
         /\ Stages(profile, ruled)[1] = "syntactic"
         /\ ruled => \E i \in 1..Len(Stages(profile, ruled)) :
                       Stages(profile, ruled)[i] = "rules"
         /\ profile \in {"typed", "tested"} =>
              \E i \in 1..Len(Stages(profile, ruled)) :
                Stages(profile, ruled)[i] = "cargo_check"
         /\ profile = "tested" =>
              \E i \in 1..Len(Stages(profile, ruled)) :
                Stages(profile, ruled)[i] = "cargo_test"
<1> DEFINE cheap == IF ruled THEN <<"syntactic", "rules">> ELSE <<"syntactic">>
           typed == Append(cheap, "cargo_check")
           tested == Append(typed, "cargo_test")
<1>1. /\ cheap \in Seq(Stage) /\ Len(cheap) \in 1..2 /\ cheap[1] = "syntactic"
      /\ ruled => Len(cheap) = 2 /\ cheap[2] = "rules"
  <2>1. CASE ruled
    <3>1. cheap = <<"syntactic", "rules">>
      BY <2>1
    <3>2. <<"syntactic", "rules">> \in Seq(Stage)
      BY DEF Stage
    <3> HIDE DEF cheap
    <3> QED BY <3>1, <3>2
  <2>2. CASE ~ruled
    <3>1. cheap = <<"syntactic">>
      BY <2>2
    <3> QED BY <2>2, <3>1 DEF Stage
  <2> QED BY <2>1, <2>2
<1> HIDE DEF cheap
<1>2. /\ typed \in Seq(Stage) /\ Len(typed) = Len(cheap) + 1
      /\ typed[Len(typed)] = "cargo_check"
      /\ \A i \in 1..Len(cheap) : typed[i] = cheap[i]
  BY <1>1, AppendProperties, InStage
<1> HIDE DEF typed
<1>3. /\ tested \in Seq(Stage) /\ Len(tested) = Len(typed) + 1
      /\ tested[Len(tested)] = "cargo_test"
      /\ \A i \in 1..Len(typed) : tested[i] = typed[i]
  BY <1>2, AppendProperties, InStage
<1> HIDE DEF tested
<1>4. Stages(profile, ruled) =
        CASE profile = "typed" -> typed [] profile = "tested" -> tested [] OTHER -> cheap
  BY DEF Stages, cheap, typed, tested
<1>5. CASE profile = "typed"
  <2>1. Stages(profile, ruled) = typed
    BY <1>4, <1>5
  <2>2. Len(typed) \in 1..4 /\ typed[1] = "syntactic" /\ (ruled => 2 \in 1..Len(typed) /\ typed[2] = "rules")
    BY <1>1, <1>2
  <2>3. Len(typed) \in 1..Len(typed) /\ profile # "tested"
    BY <1>5, <2>2
  <2>4. QED
    BY <1>2, <2>1, <2>2, <2>3
<1>6. CASE profile = "tested"
  <2>1. Stages(profile, ruled) = tested
    BY <1>4, <1>6
  <2>2. /\ Len(typed) \in 1..Len(tested) /\ tested[Len(typed)] = "cargo_check"
        /\ Len(tested) \in 1..4 /\ tested[1] = "syntactic"
    BY <1>1, <1>2, <1>3
  <2>3. ruled => 2 \in 1..Len(tested) /\ tested[2] = "rules"
    BY <1>1, <1>2, <1>3
  <2>4. Len(tested) \in 1..Len(tested)
    BY <2>2
  <2> QED BY <1>3, <2>1, <2>2, <2>3, <2>4
<1>7. CASE profile \notin {"typed", "tested"}
  BY <1>1, <1>4, <1>7
<1> QED BY <1>5, <1>6, <1>7
-----------------------------------------------------------------------------

Why == {"clean", "skipped", "missing", "flaw", "engine", "timeout", "io", "wait"}

\* The stage the pipeline is at is one of its stages.
LEMMA CurrentStage ==
  ASSUME TypeOK, Phases, req.pc \in {"run", "wait", "drain"}
  PROVE  /\ Current \in Stage
         /\ Len(req.report) + 1 \in 1..Len(Stages(req.profile, req.ruled))
<1>1. req.profile \in Profile /\ req.ruled \in BOOLEAN /\ req.report \in Seq(Report)
  BY DEF TypeOK, Request, Profile
<1>2. Len(req.report) \in Nat
  BY <1>1
<1>3. Len(req.report) < Len(Stages(req.profile, req.ruled))
  BY DEF Phases
<1>4. /\ Stages(req.profile, req.ruled) \in Seq(Stage)
      /\ Len(Stages(req.profile, req.ruled)) \in 1..4
  BY <1>1, StagesShape
<1>5. Len(req.report) + 1 \in 1..Len(Stages(req.profile, req.ruled))
  BY <1>2, <1>3, <1>4
<1> QED BY <1>4, <1>5, ElementOfSeq DEF Current

\* A report pushed for the current stage keeps all that is said of reports, when a
\* green one is evidence.
LEMMA PushPreserves ==
  ASSUME TypeOK, ReportSound, Phases, Evidence, Waits,
         req.pc \in {"run", "wait", "drain"},
         NEW ok \in BOOLEAN, NEW why \in Why,
         Push(ok, why),
         UNCHANGED <<manifest, cargo>>,
         why = "wait" => ~ok,
         ok => Blind(Current) \/ ~Flawed(req.shadow, Looked(Current))
  PROVE  /\ req' \in Request /\ ReportSound' /\ Phases' /\ Evidence' /\ Waits'
         /\ req'.shadow = req.shadow /\ req'.original = req.original
         /\ req'.skipped = req.skipped
         /\ req'.pc \in {"run", "decide"} /\ req'.report # <<>>
         /\ req'.report[Len(req'.report)].why = why
         /\ req'.pc = "run" => ok
<1> DEFINE entry == [stage |-> Current, ok |-> ok, why |-> why]
           report == Append(req.report, entry)
           n == Len(req.report)
           stages == Stages(req.profile, req.ruled)
           pc == IF ok /\ Len(report) < Len(stages) THEN "run" ELSE "decide"
<1>1. req \in Request /\ req.profile \in Profile /\ req.ruled \in BOOLEAN
      /\ req.report \in Seq(Report)
  BY DEF TypeOK, Request, Profile
<1>2. entry \in Report
  BY CurrentStage DEF Report, Why
<1>3. /\ report \in Seq(Report) /\ report # <<>> /\ Len(report) = n + 1
      /\ \A i \in 1..n : report[i] = req.report[i]
      /\ report[n + 1] = entry
  BY <1>1, <1>2, AppendProperties
<1>4. n \in Nat /\ n < Len(stages) /\ Len(stages) \in 1..4
  BY <1>1, StagesShape DEF Phases
<1>5. req' = [req EXCEPT !.report = report, !.pc = pc]
  BY DEF Push
<1>6. \A i \in 1..Len(report) : i \in 1..n \/ i = n + 1
  BY <1>3, <1>4
<1>7. /\ entry.stage = stages[n + 1] /\ entry.ok = ok /\ entry.why = why
      /\ entry.stage = Current
  BY DEF Current
<1>8. \A i \in 1..n : req.report[i].stage = stages[i] /\ req.report[i].ok
  BY <1>4 DEF ReportSound, Phases, Validated
<1> HIDE DEF report, entry, pc, n, stages
<1>9. /\ req'.report = report /\ req'.pc = pc /\ req'.profile = req.profile
      /\ req'.ruled = req.ruled /\ req'.shadow = req.shadow
      /\ req'.original = req.original /\ req'.skipped = req.skipped
      /\ req'.result = req.result
  BY <1>1, <1>5 DEF Request
<1>10. pc \in {"run", "decide"}
  BY DEF pc
<1>11. req' \in Request
  BY <1>1, <1>3, <1>5, <1>10 DEF Request
<1>12. req.result = "none"
  BY DEF Phases
<1>13. ReportSound'
  <2>1. Stages(req'.profile, req'.ruled) = stages
    BY <1>9 DEF stages
  <2>2. Len(report) <= Len(stages)
    BY <1>3, <1>4
  <2>3. ASSUME NEW i \in 1..Len(report)
        PROVE  report[i].stage = stages[i] /\ (i < Len(report) => report[i].ok)
    <3>1. CASE i \in 1..n
      BY <3>1, <1>3, <1>8
    <3>2. CASE i = n + 1
      BY <3>2, <1>3, <1>4, <1>7
    <3> QED BY <3>1, <3>2, <1>6
  <2> QED BY <2>1, <2>2, <2>3, <1>9, <1>12 DEF ReportSound
<1>14. Phases'
  <2>1. pc = "run" => /\ \A i \in 1..Len(report) : report[i].ok
                      /\ Len(report) < Len(stages)
    BY <1>3, <1>6, <1>7, <1>8 DEF pc
  <2>2. pc = "decide" => ~(\A i \in 1..Len(report) : report[i].ok)
                          \/ Len(report) = Len(stages)
    <3>1. CASE ok
      BY <3>1, <1>3, <1>4 DEF pc
    <3>2. CASE ~ok
      BY <3>2, <1>3, <1>4, <1>7
    <3> QED BY <3>1, <3>2
  <2> QED BY <2>1, <2>2, <1>9, <1>10, <1>12 DEF Phases, Validated, stages
<1>15. Evidence'
  <2>1. ASSUME NEW i \in 1..Len(report), report[i].ok
        PROVE  Blind(report[i].stage) \/ ~Flawed(req.shadow, Looked(report[i].stage))
    <3>1. CASE i \in 1..n
      BY <3>1, <2>1, <1>3 DEF Evidence, n
    <3>2. CASE i = n + 1
      BY <3>2, <2>1, <1>3, <1>7
    <3> QED BY <3>1, <3>2, <1>6
  <2>2. \A s : Blind(s)' = Blind(s)
    BY DEF Blind
  <2> QED BY <2>1, <2>2, <1>9, <1>10 DEF Evidence, Flawed, Present, Looked, Seen
<1>16. Waits'
  <2>1. ASSUME NEW i \in 1..Len(report), report[i].why = "wait"
        PROVE  ~report[i].ok
    <3>1. CASE i \in 1..n
      BY <3>1, <2>1, <1>3 DEF Waits, n
    <3>2. CASE i = n + 1
      BY <3>2, <2>1, <1>3, <1>7
    <3> QED BY <3>1, <3>2, <1>6
  <2> QED BY <2>1, <1>9 DEF Waits
<1> QED BY <1>3, <1>7, <1>9, <1>10, <1>11, <1>13, <1>14, <1>15, <1>16 DEF pc
-----------------------------------------------------------------------------

LEMMA InitIInv == Init => IInv
<1> SUFFICES ASSUME Init PROVE IInv
  OBVIOUS
<1> USE FlawAssumption, BoundAssumption
<1>1. req = Idle /\ child = NoChild /\ disk \in Image
  BY DEF Init
<1>2. NoImage \in Image
  BY DEF NoImage, Image
<1>3. <<>> \in Seq(Report) /\ Len(<<>>) = 0
  OBVIOUS
<1>4. req \in Request
  BY <1>1, <1>2, <1>3 DEF Idle, Request
<1>5. TypeOK
  BY <1>1, <1>4 DEF TypeOK, Init, Child, NoChild, Idle
<1>6. req.report = <<>> /\ req.result = "none" /\ req.pc = "idle" /\ ~req.skipped
  BY <1>1 DEF Idle
<1>7. Len(Stages(req.profile, req.ruled)) \in 1..4
  BY <1>4, StagesShape DEF Request, Profile
<1>8. ReportSound
  BY <1>3, <1>6, <1>7 DEF ReportSound
<1>9. Phases /\ Evidence /\ SkippedShows /\ Waits
  BY <1>3, <1>6 DEF Phases, Evidence, SkippedShows, Waits
<1>10. ChildReaped
  BY <1>1 DEF ChildReaped, NoChild
<1> QED BY <1>5, <1>8, <1>9, <1>10 DEF IInv

\* A step that leaves the request and its surroundings alone.
LEMMA Frame ==
  ASSUME ReportSound, Phases, SkippedShows, Waits, Evidence,
         UNCHANGED <<req, manifest, cargo>>, child'.ok => child.ok
  PROVE  ReportSound' /\ Phases' /\ SkippedShows' /\ Waits' /\ Evidence'
<1>1. ReportSound' /\ Phases' /\ SkippedShows' /\ Waits'
  BY DEF ReportSound, Phases, SkippedShows, Waits, Validated, Current, Flawed, Present
<1>2. Evidence'
  BY DEF Evidence, Blind, Flawed, Present, Looked, Seen, Current
<1> QED BY <1>1, <1>2

\* The environment's steps.
LEMMA EnvironmentStep ==
  IInv /\ (ChildStep \/ HeirExits \/ Tick \/ (\E f \in File : Edit(f))) => IInv'
<1> SUFFICES ASSUME IInv, ChildStep \/ HeirExits \/ Tick \/ (\E f \in File : Edit(f))
             PROVE  IInv'
  OBVIOUS
<1> USE FlawAssumption, BoundAssumption
<1>1. TypeOK /\ req \in Request /\ child \in Child
  BY DEF IInv, TypeOK
<1>2. UNCHANGED <<req, manifest, cargo>>
  BY DEF ChildStep, ChildPrints, ChildExits, HeirExits, Tick, Edit
<1>3. child' \in Child /\ (child'.ok => child.ok) /\ (child'.alive => child.alive)
  <2>1. CASE ChildPrints
    <3>1. child' = [child EXCEPT !.left = @ - 1, !.pipe = @ + 1] /\ child.left > 0
      BY <2>1 DEF ChildPrints
    <3>2. child.left - 1 \in Nat /\ child.pipe + 1 \in Nat
      BY <1>1, <3>1 DEF Child
    <3> QED BY <1>1, <3>1, <3>2 DEF Child
  <2>2. CASE ChildExits
    BY <1>1, <2>2 DEF ChildExits, Child
  <2>3. CASE HeirExits
    BY <1>1, <2>3 DEF HeirExits, Child
  <2>4. CASE Tick \/ (\E f \in File : Edit(f))
    BY <1>1, <2>4 DEF Tick, Edit
  <2> QED BY <2>1, <2>2, <2>3, <2>4 DEF ChildStep
<1>4. disk' \in Image /\ edits' \in 0..MaxEdits /\ clock' \in Nat
  <2>1. CASE \E f \in File : Edit(f)
    <3>1. PICK f \in File : Edit(f)
      BY <2>1
    <3>2. PICK text \in [rewritten : {FALSE}, flaw : Flaw] \cup {NoFile} :
            disk' = [disk EXCEPT ![f] = text]
      BY <3>1 DEF Edit
    <3>3. text \in Text \cup {NoFile}
      BY <3>2 DEF Text
    <3>4. disk' \in Image
      BY <1>1, <3>2, <3>3 DEF TypeOK, Image
    <3> QED BY <1>1, <3>1, <3>4 DEF TypeOK, Edit
  <2>2. CASE Tick
    BY <1>1, <2>2 DEF TypeOK, Tick
  <2>3. CASE ChildStep \/ HeirExits
    BY <1>1, <2>3 DEF TypeOK, ChildStep, ChildPrints, ChildExits, HeirExits
  <2> QED BY <2>1, <2>2, <2>3
<1>5. TypeOK'
  BY <1>1, <1>2, <1>3, <1>4 DEF TypeOK, Present
<1>6. ReportSound' /\ Phases' /\ SkippedShows' /\ Waits' /\ Evidence'
  BY <1>2, <1>3, Frame DEF IInv
<1>7. ChildReaped'
  BY <1>2, <1>3 DEF IInv, ChildReaped
<1> QED BY <1>5, <1>6, <1>7 DEF IInv

\* Reading the workspace and folding the plan.
LEMMA ReadStep ==
  ASSUME IInv, NEW kind \in {"apply", "explain"}, NEW profile \in Profile,
         NEW ruled \in BOOLEAN, NEW ops \in 0..MaxOps,
         ReadWorkspace(kind, profile, ruled, ops)
  PROVE  IInv'
<1> USE FlawAssumption, BoundAssumption
<1>1. TypeOK /\ disk \in Image
  BY DEF IInv, TypeOK
<1>2. Idle \in Request
  <2>1. NoImage \in Image
    BY DEF NoImage, Image
  <2> QED BY <2>1 DEF Idle, Request
<1>3. req' = [Idle EXCEPT !.pc = "ops", !.kind = kind, !.profile = profile,
                          !.ruled = ruled, !.ops = ops, !.original = disk, !.shadow = disk]
  BY DEF ReadWorkspace
<1>4. req' \in Request
  BY <1>1, <1>2, <1>3 DEF Request, Profile
<1>5. /\ req'.pc = "ops" /\ req'.profile = profile /\ req'.ruled = ruled
      /\ req'.original = disk /\ req'.shadow = disk
      /\ req'.report = <<>> /\ req'.result = "none" /\ ~req'.skipped
  BY <1>3 DEF Idle
<1>6. TypeOK'
  BY <1>1, <1>4, <1>5 DEF TypeOK, ReadWorkspace, Present
<1>7. Len(<<>>) = 0 /\ Len(Stages(profile, ruled)) \in 1..4
  BY StagesShape
<1>8. ReportSound'
  BY <1>5, <1>7 DEF ReportSound
<1>9. Phases' /\ Evidence' /\ SkippedShows' /\ Waits'
  BY <1>5, <1>7 DEF Phases, Evidence, SkippedShows, Waits
<1>10. ChildReaped'
  <2>1. req.report = <<>> /\ req.pc = "idle" /\ child' = child
    BY DEF ReadWorkspace, IInv, Phases
  <2> QED BY <1>5, <2>1 DEF IInv, ChildReaped
<1> QED BY <1>6, <1>8, <1>9, <1>10 DEF IInv

LEMMA FoldKeeps ==
  ASSUME IInv, NEW hit \in SUBSET Present(req.shadow), NEW flaw \in Flaw,
         NEW skipped \in BOOLEAN, Fold(hit, flaw, skipped),
         skipped => Flawed(req.shadow, {"syntax"})
  PROVE  IInv'
<1> USE FlawAssumption, BoundAssumption
<1> DEFINE shadow == [f \in File |->
             IF f \notin hit THEN req.shadow[f]
             ELSE [rewritten |-> TRUE,
                   flaw |-> IF req.shadow[f].flaw = "syntax" THEN "syntax" ELSE flaw]]
<1>1. TypeOK /\ req \in Request /\ req.shadow \in Image
  BY DEF IInv, TypeOK, Request
<1>2. req' = [req EXCEPT !.ops = @ - 1, !.skipped = @ \/ skipped, !.shadow = shadow]
  BY DEF Fold
<1>3. \A f \in hit : f \in File /\ req.shadow[f] \in Text
  BY <1>1 DEF Present, Image
<1>4. shadow \in Image
  BY <1>1, <1>3 DEF Image, Text
<1>5. Present(shadow) = Present(req.shadow)
  <2>1. \A f \in hit : shadow[f] \in Text
    BY <1>3 DEF Text
  <2>2. \A f \in hit : shadow[f] # NoFile /\ req.shadow[f] # NoFile
    BY <2>1, NoFileAssumption DEF Present, Text
  <2>3. \A f \in File \ hit : shadow[f] = req.shadow[f]
    OBVIOUS
  <2> HIDE DEF shadow
  <2> QED BY <1>3, <2>2, <2>3 DEF Present
<1>6. Flawed(req.shadow, {"syntax"}) => Flawed(shadow, {"syntax"})
  <2> SUFFICES ASSUME NEW f \in Present(req.shadow), req.shadow[f].flaw = "syntax"
               PROVE  Flawed(shadow, {"syntax"})
    BY DEF Flawed
  <2>1. f \in Present(shadow) /\ f \in File
    BY <1>5 DEF Present
  <2>2. shadow[f].flaw = "syntax"
    BY <2>1
  <2> QED BY <2>1, <2>2 DEF Flawed
<1> HIDE DEF shadow
<1>7. /\ req'.pc = req.pc /\ req'.profile = req.profile /\ req'.ruled = req.ruled
      /\ req'.original = req.original /\ req'.shadow = shadow
      /\ req'.report = req.report /\ req'.result = req.result
      /\ req'.skipped = (req.skipped \/ skipped)
  BY <1>1, <1>2 DEF Request
<1>8. req.pc = "ops" /\ req.ops \in 0..MaxOps /\ req.ops > 0
  BY <1>1 DEF Fold, Request
<1>9. req' \in Request
  <2>1. req.ops - 1 \in 0..MaxOps
    BY <1>8
  <2>2. (req.skipped \/ skipped) \in BOOLEAN
    BY Zenon DEF Request
  <2> QED BY <1>1, <1>2, <1>4, <2>1, <2>2 DEF Request
<1>10. TypeOK'
  BY <1>1, <1>5, <1>7, <1>9 DEF TypeOK, Fold
<1>11. req.report = <<>> /\ Len(<<>>) = 0
  BY <1>8 DEF IInv, Phases
<1>12. ReportSound' /\ Phases' /\ Evidence' /\ Waits'
  BY <1>7, <1>8, <1>11 DEF IInv, ReportSound, Phases, Evidence, Waits, Validated
<1>13. SkippedShows'
  BY <1>6, <1>7 DEF IInv, SkippedShows
<1>14. ChildReaped'
  BY <1>7 DEF IInv, ChildReaped, Fold
<1> QED BY <1>10, <1>12, <1>13, <1>14 DEF IInv

LEMMA FoldStepKeeps == IInv /\ FoldStep => IInv'
<1> SUFFICES ASSUME IInv, FoldStep PROVE IInv'
  OBVIOUS
<1>1. CASE FailedOp
  <2>1. "none" \in Flaw /\ {} \in SUBSET Present(req.shadow)
    BY FlawAssumption
  <2> QED BY <1>1, <2>1, FoldKeeps DEF FailedOp
<1>2. ASSUME NEW flaw \in Flaw, NEW scope \in SUBSET Present(req.shadow),
             WholeOp(scope, flaw) \/ TypedOp(scope, flaw)
      PROVE  IInv'
  BY <1>2, FoldKeeps DEF WholeOp, TypedOp
<1>3. ASSUME NEW flaw \in Flaw, NEW scope \in SUBSET Present(req.shadow),
             NEW named \in SUBSET scope, NEW spoilt \in SUBSET named,
             PerFileOp(scope, named, spoilt, flaw)
      PROVE  IInv'
  <2> DEFINE unparsed == {f \in scope : req.shadow[f].flaw = "syntax"}
             hit == (named \ spoilt) \ unparsed
  <2>1. Fold(hit, flaw, unparsed # {})
    BY <1>3 DEF PerFileOp
  <2>2. hit \in SUBSET Present(req.shadow) /\ (unparsed # {}) \in BOOLEAN
    OBVIOUS
  <2>3. unparsed # {} => Flawed(req.shadow, {"syntax"})
    BY DEF Flawed
  <2> QED BY <2>1, <2>2, <2>3, FoldKeeps
<1> QED BY <1>1, <1>2, <1>3 DEF FoldStep
-----------------------------------------------------------------------------
(* The gate. *)

\* After a report has been pushed, with the disk left alone.
LEMMA PushKeeps ==
  ASSUME IInv, req.pc \in {"run", "wait", "drain"},
         NEW ok \in BOOLEAN, NEW why \in Why, Push(ok, why),
         UNCHANGED <<disk, manifest, cargo, clock, edits>>,
         why = "wait" => ~ok,
         ok => Blind(Current) \/ ~Flawed(req.shadow, Looked(Current)),
         child' \in Child, child'.alive => why = "wait"
  PROVE  IInv'
<1>1. TypeOK /\ ReportSound /\ Phases /\ Evidence /\ Waits /\ SkippedShows
  BY DEF IInv
<1>2. /\ req' \in Request /\ ReportSound' /\ Phases' /\ Evidence' /\ Waits'
      /\ req'.shadow = req.shadow /\ req'.original = req.original
      /\ req'.skipped = req.skipped /\ req'.report # <<>>
      /\ req'.report[Len(req'.report)].why = why
  BY <1>1, PushPreserves
<1>3. TypeOK'
  BY <1>1, <1>2 DEF TypeOK, Present
<1>4. SkippedShows'
  BY <1>1, <1>2 DEF SkippedShows, Flawed, Present
<1>5. ChildReaped'
  BY <1>2 DEF ChildReaped
<1> QED BY <1>2, <1>3, <1>4, <1>5 DEF IInv

\* While the pipeline is between two stages, or reads, no child is left.
LEMMA NobodyRuns ==
  ASSUME IInv, req.pc \in {"run", "drain"}
  PROVE  ~child.alive
<1>1. \A i \in 1..Len(req.report) : req.report[i].ok /\ req.report[i].why # "wait"
  BY DEF IInv, Phases, Validated, Waits
<1>2. req.report \in Seq(Report)
  BY DEF IInv, TypeOK, Request
<1>3. req.report # <<>> => Len(req.report) \in 1..Len(req.report)
  BY <1>2
<1> QED BY <1>1, <1>3 DEF IInv, ChildReaped

LEMMA StageStep ==
  IInv /\ (SyntacticStage \/ RuleStage \/ CargoUnavailable) => IInv'
<1> SUFFICES ASSUME IInv, SyntacticStage \/ RuleStage \/ CargoUnavailable PROVE IInv'
  OBVIOUS
<1>1. /\ req.pc = "run" /\ child' = child /\ child \in Child
      /\ UNCHANGED <<disk, manifest, cargo, clock, edits>>
  BY DEF IInv, TypeOK, SyntacticStage, RuleStage, CargoUnavailable, CargoStage
<1>2. ~child'.alive
  BY <1>1, NobodyRuns
<1>3. CASE SyntacticStage
  <2>1. Current = "syntactic" /\ Looked(Current) = {"syntax"}
    BY <1>3 DEF SyntacticStage, Looked
  <2>2. CASE Flawed(req.shadow, {"syntax"})
    <3>1. Push(FALSE, "flaw")
      BY <1>3, <2>2 DEF SyntacticStage, Judge
    <3> QED BY <3>1, <1>1, <1>2, PushKeeps DEF Why
  <2>3. CASE ~Flawed(req.shadow, {"syntax"})
    <3>1. Push(TRUE, "clean")
      BY <1>3, <2>3 DEF SyntacticStage, Judge
    <3> QED BY <3>1, <2>1, <2>3, <1>1, <1>2, PushKeeps DEF Why
  <2> QED BY <2>2, <2>3
<1>4. CASE RuleStage
  <2>1. Current = "rules" /\ Looked(Current) = {"syntax", "rules"}
    BY <1>4 DEF RuleStage, Looked
  <2>2. Judge({"syntax", "rules"}) \/ Push(FALSE, "engine")
    BY <1>4 DEF RuleStage
  <2>3. CASE Push(FALSE, "engine")
    BY <2>3, <1>1, <1>2, PushKeeps DEF Why
  <2>4. CASE Judge({"syntax", "rules"}) /\ Flawed(req.shadow, {"syntax", "rules"})
    <3>1. Push(FALSE, "flaw")
      BY <2>4 DEF Judge
    <3> QED BY <3>1, <1>1, <1>2, PushKeeps DEF Why
  <2>5. CASE Judge({"syntax", "rules"}) /\ ~Flawed(req.shadow, {"syntax", "rules"})
    <3>1. Push(TRUE, "clean")
      BY <2>5 DEF Judge
    <3> QED BY <3>1, <2>1, <2>5, <1>1, <1>2, PushKeeps DEF Why
  <2> QED BY <2>2, <2>3, <2>4, <2>5
<1>5. CASE CargoUnavailable
  <2>1. Current \in CargoStages
    BY <1>5 DEF CargoUnavailable, CargoStage, CargoStages
  <2>2. CASE Push(FALSE, "io")
    BY <2>2, <1>1, <1>2, PushKeeps DEF Why
  <2>3. CASE ~manifest /\ Push(TRUE, "skipped")
    <3>1. Blind(Current)
      BY <2>1, <2>3 DEF Blind
    <3> QED BY <2>3, <3>1, <1>1, <1>2, PushKeeps DEF Why
  <2>4. CASE ~cargo /\ Push(TRUE, "missing")
    <3>1. Blind(Current)
      BY <2>1, <2>4 DEF Blind
    <3> QED BY <2>4, <3>1, <1>1, <1>2, PushKeeps DEF Why
  <2> QED BY <1>5, <2>2, <2>3, <2>4 DEF CargoUnavailable
<1> QED BY <1>3, <1>4, <1>5

\* The copy a child is given has every flaw of the shadow: editing the disk can add
\* one, never hide one.
LEMMA MirrorShowsShadow ==
  ASSUME TypeOK, NEW flaws, Flawed(req.shadow, flaws)
  PROVE  Flawed(Mirror, flaws)
<1>1. PICK f \in Present(req.shadow) : req.shadow[f].flaw \in flaws
  BY DEF Flawed
<1>2. f \in File /\ Mirror[f] = req.shadow[f] /\ Mirror[f] # NoFile
  BY <1>1 DEF Mirror, Present
<1> QED BY <1>1, <1>2 DEF Flawed, Present

LEMMA SpawnStep ==
  ASSUME IInv, NEW output \in 0..MaxOutput, NEW sound \in BOOLEAN,
         NEW slow \in BOOLEAN, NEW heir \in BOOLEAN,
         Spawn(output, sound, slow, heir)
  PROVE  IInv'
<1> USE BoundAssumption
<1>1. TypeOK /\ req \in Request /\ req.pc = "run"
  BY DEF IInv, TypeOK, Spawn, CargoStage
<1>2. req' = [req EXCEPT !.pc = "wait"] /\ UNCHANGED <<disk, manifest, cargo, edits>>
  BY DEF Spawn
<1>3. /\ req' \in Request /\ req'.pc = "wait"
      /\ req'.profile = req.profile /\ req'.ruled = req.ruled
      /\ req'.original = req.original /\ req'.shadow = req.shadow
      /\ req'.report = req.report /\ req'.result = req.result
      /\ req'.skipped = req.skipped
  BY <1>1, <1>2 DEF Request
<1>4. child' = [alive |-> TRUE, ok |-> sound /\ ~Flawed(Mirror, Seen(Current)),
                left |-> output, pipe |-> 0, slow |-> slow, heir |-> heir]
  BY DEF Spawn
<1>5. child' \in Child
  <2>1. (sound /\ ~Flawed(Mirror, Seen(Current))) \in BOOLEAN
    BY DEF Flawed
  <2>2. output \in Nat
    OBVIOUS
  <2> QED BY <1>4, <2>1, <2>2 DEF Child
<1>6. TypeOK'
  BY <1>1, <1>2, <1>3, <1>5 DEF TypeOK, Spawn, Present
<1>7. Current \in CargoStages /\ Current' = Current
  BY <1>3 DEF Spawn, CargoStage, CargoStages, Current
<1>8. ReportSound' /\ SkippedShows' /\ Waits'
  BY <1>3 DEF IInv, ReportSound, SkippedShows, Waits, Validated, Flawed, Present
<1>9. Phases'
  BY <1>1, <1>3, <1>7 DEF IInv, Phases, Validated
<1>10. Evidence'
  <2>1. child'.ok => ~Flawed(req.shadow, Seen(Current))
    BY <1>1, <1>4, MirrorShowsShadow
  <2>2. Seen(Current)' = Seen(Current) /\ \A s : Blind(s)' = Blind(s)
    BY <1>2, <1>7 DEF Seen, Blind
  <2> QED BY <1>2, <1>3, <2>1, <2>2, <1>7
       DEF IInv, Evidence, Flawed, Present, Looked, Seen
<1>11. ChildReaped'
  BY <1>3 DEF ChildReaped
<1> QED BY <1>6, <1>8, <1>9, <1>10, <1>11 DEF IInv

LEMMA WaitStep == IInv /\ (SeeExit \/ Drain \/ TimeOut \/ WaitFails) => IInv'
<1> SUFFICES ASSUME IInv, SeeExit \/ Drain \/ TimeOut \/ WaitFails PROVE IInv'
  OBVIOUS
<1>1. TypeOK /\ req \in Request /\ child \in Child
  BY DEF IInv, TypeOK
<1>2. CASE SeeExit
  <2>1. req' = [req EXCEPT !.pc = "drain"] /\ UNCHANGED <<disk, manifest, cargo, child, clock, edits>>
    BY <1>2 DEF SeeExit
  <2>2. /\ req' \in Request /\ req'.pc = "drain" /\ req.pc = "wait"
        /\ req'.profile = req.profile /\ req'.ruled = req.ruled
        /\ req'.original = req.original /\ req'.shadow = req.shadow
        /\ req'.report = req.report /\ req'.result = req.result
        /\ req'.skipped = req.skipped /\ ~child'.alive
    BY <1>1, <1>2, <2>1 DEF Request, SeeExit
  <2>3. TypeOK'
    BY <1>1, <2>1, <2>2 DEF TypeOK, Present
  <2>4. Current' = Current
    BY <2>2 DEF Current
  <2>5. ReportSound' /\ SkippedShows' /\ Waits' /\ Phases' /\ ChildReaped'
    BY <2>2, <2>4 DEF IInv, ReportSound, SkippedShows, Waits, Phases, Validated, Flawed, Present, ChildReaped
  <2>6. Evidence'
    BY <2>1, <2>2, <2>4 DEF IInv, Evidence, Blind, Flawed, Present, Looked, Seen
  <2> QED BY <2>3, <2>5, <2>6 DEF IInv
<1>3. CASE Drain
  <2>1. req.pc = "drain" /\ child' = NoChild /\ NoChild \in Child
        /\ UNCHANGED <<disk, manifest, cargo, clock, edits>>
    BY <1>3 DEF Drain, NoChild, Child
  <2>2. CASE child.ok
    <3>1. Push(TRUE, "clean")
      BY <1>3, <2>2 DEF Drain
    <3>2. ~Flawed(req.shadow, Looked(Current))
      BY <2>1, <2>2 DEF IInv, Evidence, Phases, CargoStages, Looked
    <3> QED BY <2>1, <3>1, <3>2, PushKeeps DEF Why, NoChild
  <2>3. CASE ~child.ok
    <3>1. Push(FALSE, "flaw")
      BY <1>3, <2>3 DEF Drain
    <3> QED BY <2>1, <3>1, PushKeeps DEF Why, NoChild
  <2> QED BY <2>2, <2>3
<1>4. CASE TimeOut
  <2>1. /\ req.pc = "wait" /\ Push(FALSE, "timeout")
        /\ child' \in Child /\ ~child'.alive
        /\ UNCHANGED <<disk, manifest, cargo, clock, edits>>
    BY <1>1, <1>4 DEF TimeOut, Child
  <2> QED BY <2>1, PushKeeps DEF Why
<1>5. CASE WaitFails
  <2>1. /\ req.pc = "wait" /\ Push(FALSE, "wait") /\ child' \in Child
        /\ UNCHANGED <<disk, manifest, cargo, clock, edits>>
    BY <1>1, <1>5 DEF WaitFails
  <2> QED BY <2>1, PushKeeps DEF Why
<1> QED BY <1>2, <1>3, <1>4, <1>5
LEMMA BuildStep == IInv /\ BuildPipeline => IInv'
<1> SUFFICES ASSUME IInv, BuildPipeline PROVE IInv'
  OBVIOUS
<1>1. TypeOK /\ req \in Request /\ req.profile \in Profile /\ req.ruled \in BOOLEAN
  BY DEF IInv, TypeOK, Request, Profile
<1>2. /\ req' \in Request /\ req'.pc \in {"done", "run"}
      /\ req'.profile = req.profile /\ req'.ruled = req.ruled
      /\ req'.original = req.original /\ req'.shadow = req.shadow
      /\ req'.report = req.report /\ req'.skipped = req.skipped
      /\ req'.result \in {"none", "invalid"}
      /\ req'.pc = "run" => req'.result = "none"
  <2>1. req.pc = "ops" /\ req.result = "none"
    BY DEF IInv, BuildPipeline, Phases
  <2>2. CASE req.profile = "other"
    BY <1>1, <2>2 DEF BuildPipeline, Request
  <2>3. CASE req.profile # "other"
    BY <1>1, <2>1, <2>3 DEF BuildPipeline, Request
  <2> QED BY <2>2, <2>3
<1>3. UNCHANGED <<disk, manifest, cargo, child, clock, edits>> /\ req.pc = "ops"
  BY DEF BuildPipeline
<1>4. req.report = <<>> /\ Len(<<>>) = 0 /\ Len(Stages(req.profile, req.ruled)) \in 1..4
  BY <1>1, <1>3, StagesShape DEF IInv, Phases
<1>5. TypeOK'
  BY <1>1, <1>2, <1>3 DEF TypeOK, Present
<1>6. ReportSound' /\ Phases' /\ Evidence' /\ Waits'
  <2>1. req'.report = <<>> /\ Len(Stages(req'.profile, req'.ruled)) \in 1..4
    BY <1>2, <1>4
  <2>2. \A i \in 1..Len(req'.report) : FALSE
    BY <2>1, <1>4
  <2>3. Evidence' /\ Waits' /\ Validated'
    BY <1>2, <2>2 DEF Evidence, Waits, Validated
  <2>4. Phases'
    <3>1. Len(req'.report) < Len(Stages(req'.profile, req'.ruled))
      <4>1. Len(req'.report) = 0
        BY <1>4, <2>1, Zenon
      <4>2. \A m \in 1..4 : 0 < m
        OBVIOUS
      <4> QED BY <4>1, <4>2, <2>1, Zenon
    <3>2. /\ req'.pc \notin {"idle", "ops", "wait", "drain", "decide"}
          /\ req'.pc # "done" => req'.result = "none"
      BY <1>2
    <3> QED BY <2>3, <3>1, <3>2 DEF Phases
  <2>5. ReportSound'
    BY <1>2, <1>4, <2>1, <2>2 DEF ReportSound
  <2> QED BY <2>3, <2>4, <2>5
<1>7. SkippedShows'
  BY <1>2 DEF IInv, SkippedShows, Flawed, Present
<1>8. ChildReaped'
  BY <1>2, <1>3, <1>4 DEF IInv, ChildReaped
<1> QED BY <1>5, <1>6, <1>7, <1>8 DEF IInv

LEMMA DecideStep == IInv /\ (DecideApply \/ DecideExplain) => IInv'
<1> SUFFICES ASSUME IInv, DecideApply \/ DecideExplain PROVE IInv'
  OBVIOUS
<1>1. TypeOK /\ req \in Request /\ disk \in Image /\ req.shadow \in Image
      /\ req.report \in Seq(Report)
  BY DEF IInv, TypeOK, Request
<1>2. req.pc = "decide" /\ UNCHANGED <<manifest, cargo, child, clock, edits>>
  BY DEF DecideApply, DecideExplain
<1>3. PICK result \in {"rejected", "applied", "drifted", "accepted", "not_proven"} :
        /\ req' = [req EXCEPT !.pc = "done", !.result = result]
        /\ (result = "rejected") <=> ~Validated
  <2>1. CASE DecideApply
    <3> DEFINE clean == \A f \in Targets : disk[f] = req.original[f]
    <3>1. req' = [req EXCEPT !.pc = "done",
                    !.result = CASE ~Validated -> "rejected"
                                 [] Validated /\ clean -> "applied"
                                 [] OTHER -> "drifted"]
      BY <2>1 DEF DecideApply
    <3> HIDE DEF clean
    <3>2. CASE ~Validated
      BY <3>1, <3>2
    <3>3. CASE Validated /\ clean
      BY <3>1, <3>3
    <3>4. CASE Validated /\ ~clean
      BY <3>1, <3>4
    <3> QED BY <3>2, <3>3, <3>4
  <2>2. CASE DecideExplain
    <3> DEFINE bare == \A i \in 1..Len(req.report) : req.report[i].stage = "syntactic"
    <3>1. req' = [req EXCEPT !.pc = "done",
                    !.result = IF ~Validated THEN "rejected"
                               ELSE IF bare THEN "not_proven" ELSE "accepted"]
      BY <2>2 DEF DecideExplain
    <3> HIDE DEF bare
    <3>2. CASE ~Validated
      BY <3>1, <3>2
    <3>3. CASE Validated /\ bare
      BY <3>1, <3>3
    <3>4. CASE Validated /\ ~bare
      BY <3>1, <3>4
    <3> QED BY <3>2, <3>3, <3>4
  <2> QED BY <2>1, <2>2
<1>4. /\ req' \in Request /\ req'.pc = "done" /\ req'.result = result
      /\ req'.profile = req.profile /\ req'.ruled = req.ruled
      /\ req'.original = req.original /\ req'.shadow = req.shadow
      /\ req'.report = req.report /\ req'.skipped = req.skipped
  BY <1>1, <1>3 DEF Request
<1>5. disk' \in Image
  <2>1. CASE disk' = disk
    BY <1>1, <2>1
  <2>2. CASE disk' = [f \in File |-> IF f \in Targets THEN req.shadow[f] ELSE disk[f]]
    BY <1>1, <2>2 DEF Image
  <2> QED BY <2>1, <2>2 DEF DecideApply, DecideExplain
<1>6. TypeOK'
  BY <1>1, <1>2, <1>4, <1>5 DEF TypeOK, Present
<1>7. Validated' = Validated
  BY <1>4 DEF Validated
<1>8. ReportSound' /\ Phases'
  BY <1>2, <1>3, <1>4, <1>7 DEF IInv, ReportSound, Phases
<1>9. Evidence' /\ SkippedShows' /\ Waits' /\ ChildReaped'
  BY <1>2, <1>4
     DEF IInv, Evidence, SkippedShows, Waits, ChildReaped, Blind, Flawed, Present, Looked, Seen
<1> QED BY <1>6, <1>8, <1>9 DEF IInv

LEMMA GateStepKeeps == IInv /\ GateStep => IInv'
<1> SUFFICES ASSUME IInv, GateStep PROVE IInv'
  OBVIOUS
<1>1. CASE BuildPipeline
  BY <1>1, BuildStep
<1>2. CASE SyntacticStage \/ RuleStage \/ CargoUnavailable
  BY <1>2, StageStep
<1>3. CASE \E output \in 0..MaxOutput, sound \in BOOLEAN,
             slow \in BOOLEAN, heir \in BOOLEAN : Spawn(output, sound, slow, heir)
  BY <1>3, SpawnStep
<1>4. CASE SeeExit \/ Drain \/ TimeOut
  BY <1>4, WaitStep
<1>5. CASE DecideApply \/ DecideExplain
  BY <1>5, DecideStep
<1> QED BY <1>1, <1>2, <1>3, <1>4, <1>5 DEF GateStep

LEMMA NextKeepsIInv == IInv /\ [Next]_vars => IInv'
<1> SUFFICES ASSUME IInv, [Next]_vars PROVE IInv'
  OBVIOUS
<1>1. CASE Ask
  BY <1>1, ReadStep DEF Ask, Profile
<1>2. CASE FoldStep
  BY <1>2, FoldStepKeeps
<1>3. CASE GateStep
  BY <1>3, GateStepKeeps
<1>4. CASE WaitFails
  BY <1>4, WaitStep
<1>5. CASE ChildStep \/ HeirExits \/ Tick \/ (\E f \in File : Edit(f))
  BY <1>5, EnvironmentStep
<1>6. CASE UNCHANGED vars
  <2>1. UNCHANGED <<disk, manifest, cargo, req, child, clock, edits>>
    BY <1>6 DEF vars
  <2>2. TypeOK' /\ ChildReaped'
    BY <2>1 DEF IInv, TypeOK, ChildReaped, Present
  <2>3. ReportSound' /\ Phases' /\ SkippedShows' /\ Waits' /\ Evidence'
    BY <2>1, Frame DEF IInv
  <2> QED BY <2>2, <2>3 DEF IInv
<1> QED BY <1>1, <1>2, <1>3, <1>4, <1>5, <1>6 DEF Next

THEOREM Invariance == Spec => []IInv
  BY InitIInv, NextKeepsIInv, PTL DEF Spec

-----------------------------------------------------------------------------
(* The properties. *)

\* The state has its type, and the fold neither adds nor loses a path.
THEOREM TypeCorrect == Spec => []TypeOK
<1>1. IInv => TypeOK
  BY DEF IInv
<1> QED BY <1>1, Invariance, PTL

\* A report is about the profile's stages in order up to the first failure, and agrees
\* with the result of its request, for every plan, edit, fault and race.
THEOREM ReportsAreSound == Spec => []ReportSound
<1>1. IInv => ReportSound
  BY DEF IInv
<1> QED BY <1>1, Invariance, PTL

\* No cargo process outlives its stage but one that could not be waited for.
THEOREM ChildrenAreReaped == Spec => []ChildReaped
<1>1. IInv => ChildReaped
  BY DEF IInv
<1> QED BY <1>1, Invariance, PTL

\* In a request that went through, each stage that could look has found nothing.
LEMMA GreenIsEvidence ==
  ASSUME IInv, req.result \in {"applied", "accepted", "not_proven"}
  PROVE  /\ req.profile \in Profile /\ req.ruled \in BOOLEAN
         /\ \A i \in 1..Len(Stages(req.profile, req.ruled)) :
              LET stage == Stages(req.profile, req.ruled)[i]
              IN  Blind(stage) \/ ~Flawed(req.shadow, Looked(stage))
<1>1. Validated /\ Len(req.report) = Len(Stages(req.profile, req.ruled))
  BY DEF IInv, ReportSound
<1>2. \A i \in 1..Len(req.report) :
        req.report[i].ok /\ req.report[i].stage = Stages(req.profile, req.ruled)[i]
  BY <1>1 DEF IInv, ReportSound, Validated
<1> QED BY <1>1, <1>2 DEF IInv, TypeOK, Request, Profile, Evidence

LEMMA ParsedWhenGreen ==
  ASSUME IInv, req.result \in {"applied", "accepted", "not_proven"}
  PROVE  ~Flawed(req.shadow, {"syntax"})
<1>1. /\ Len(Stages(req.profile, req.ruled)) \in 1..4
      /\ Stages(req.profile, req.ruled)[1] = "syntactic"
  BY GreenIsEvidence, StagesShape
<1>2. 1 \in 1..Len(Stages(req.profile, req.ruled))
  BY <1>1
<1>3. Blind("syntactic") \/ ~Flawed(req.shadow, Looked("syntactic"))
  BY <1>1, <1>2, GreenIsEvidence
<1> QED BY <1>3 DEF Blind, CargoStages, Looked

\* A plan one of whose operations skipped a file it could not parse never goes through.
THEOREM UnparsedIsAlwaysRefused == Spec => []UnparsedIsRefused
<1>1. IInv => UnparsedIsRefused
  BY ParsedWhenGreen DEF IInv, SkippedShows, UnparsedIsRefused
<1> QED BY <1>1, Invariance, PTL

\* A commit has no flaw its profile looks for, whatever an editor does meanwhile.
THEOREM AppliedIsAlwaysClean == Spec => []AppliedIsClean
<1>1. IInv => AppliedIsClean
  <2> SUFFICES ASSUME IInv, req.result = "applied", NEW f \in Present(req.shadow),
                      req.shadow[f].flaw \in KeptOut
               PROVE  FALSE
    BY DEF AppliedIsClean, Flawed
  <2> DEFINE stages == Stages(req.profile, req.ruled)
             flaw == req.shadow[f].flaw
  <2>1. \A flaws : flaw \in flaws => Flawed(req.shadow, flaws)
    BY DEF Flawed
  <2>2. \A i \in 1..Len(stages) : Blind(stages[i]) \/ ~Flawed(req.shadow, Looked(stages[i]))
    BY GreenIsEvidence
  <2>3. req.profile \in Profile /\ req.ruled \in BOOLEAN
    BY GreenIsEvidence
  <2>4. CASE flaw = "syntax"
    BY <2>4, <2>1, ParsedWhenGreen
  <2>5. CASE flaw = "rules"
    <3>1. req.ruled
      BY <2>5 DEF KeptOut
    <3>2. PICK i \in 1..Len(stages) : stages[i] = "rules"
      BY <2>3, <3>1, StagesShape
    <3>3. ~Blind("rules") /\ Looked("rules") = {"syntax", "rules"}
      BY DEF Blind, CargoStages, Looked
    <3> QED BY <2>1, <2>2, <2>5, <3>2, <3>3
  <2>6. CASE flaw = "types"
    <3>1. manifest /\ cargo /\ req.profile \in {"typed", "tested"}
      BY <2>6 DEF KeptOut
    <3>2. PICK i \in 1..Len(stages) : stages[i] = "cargo_check"
      BY <2>3, <3>1, StagesShape
    <3>3. ~Blind("cargo_check") /\ Looked("cargo_check") = {"syntax", "types"}
      BY <3>1 DEF Blind, Looked, Seen
    <3> QED BY <2>1, <2>2, <2>6, <3>2, <3>3
  <2>7. CASE flaw = "tests"
    <3>1. manifest /\ cargo /\ req.profile = "tested"
      BY <2>7 DEF KeptOut
    <3>2. PICK i \in 1..Len(stages) : stages[i] = "cargo_test"
      BY <2>3, <3>1, StagesShape
    <3>3. ~Blind("cargo_test") /\ Looked("cargo_test") = {"syntax", "types", "tests"}
      BY <3>1 DEF Blind, Looked, Seen
    <3> QED BY <2>1, <2>2, <2>7, <3>2, <3>3
  <2> QED BY <2>4, <2>5, <2>6, <2>7 DEF KeptOut
<1> QED BY <1>1, Invariance, PTL
=============================================================================
