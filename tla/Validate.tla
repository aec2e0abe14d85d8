------------------------------ MODULE Validate ------------------------------
(***************************************************************************)
(* The gate of `patch.apply` and `explain.patch`: the plan is folded over  *)
(* the sources into a shadow (plan.rs), a pipeline of stages judges the    *)
(* shadow (pipeline.rs, stages.rs, validate_stages.rs), and its report     *)
(* decides the write (handlers.rs) or the verdict (builder.rs).            *)
(*                                                                         *)
(* The two cargo stages run a child on a copy of the workspace. While they *)
(* wait, an editor may save files, the child fills a pipe nobody drains,   *)
(* and what the child started may outlive it and hold the pipe open.       *)
(*                                                                         *)
(* A text is what the stages tell apart: whether a plan rewrote it, and    *)
(* the one flaw a stage would find in it; "tests" is a failure of a test   *)
(* the selection runs. The write is one step here; PatchTxn has its system *)
(* calls.                                                                  *)
(***************************************************************************)
EXTENDS Integers, Sequences

CONSTANTS
  File,       \* relative paths of .rs files
  NoFile,     \* the path does not exist
  Flaw,       \* flaws the texts of this instance may have
  MaxEdits,   \* bound: saves and deletions by an editor
  MaxOps,     \* bound: operations of a plan
  MaxOutput,  \* bound: what cargo prints, in units of
  PipeCap,    \* what a pipe holds before its writer blocks
  Deadline    \* the stage's wall-clock cap, in ticks

ASSUME FlawAssumption ==
  "none" \in Flaw /\ Flaw \subseteq {"none", "syntax", "rules", "types", "tests"}
ASSUME NoFileAssumption == NoFile \notin [rewritten : BOOLEAN, flaw : Flaw]
ASSUME BoundAssumption ==
  /\ MaxEdits \in Nat /\ MaxOps \in Nat /\ MaxOutput \in Nat
  /\ PipeCap \in Nat /\ Deadline \in Nat

VARIABLES
  disk,      \* what each path of the workspace holds
  manifest,  \* the root has a Cargo.toml
  cargo,     \* cargo is on PATH
  req,       \* the request: the handler's local variables
  child,     \* the cargo process of the current stage
  clock,     \* ticks since the child was spawned
  edits      \* how much of MaxEdits is used

vars == <<disk, manifest, cargo, req, child, clock, edits>>

Text == [rewritten : BOOLEAN, flaw : Flaw]
Image == [File -> Text \cup {NoFile}]
Stage == {"syntactic", "rules", "cargo_check", "cargo_test"}

\* A StageReport: its diagnostics are the reason for what it says.
Report == [stage : Stage, ok : BOOLEAN,
           why : {"clean", "skipped", "missing", "flaw", "engine",
                  "timeout", "io", "wait"}]

Request ==
  [pc : {"idle", "ops", "run", "wait", "drain", "decide", "done"},
   kind : {"apply", "explain"}, profile : {"default", "typed", "tested", "other"},
   ruled : BOOLEAN,              \* a rule pack is loaded
   original : Image, shadow : Image,
   ops : 0..MaxOps,              \* operations of the plan still to fold
   skipped : BOOLEAN,            \* the errors, which are dropped: one says a file does not parse
   report : Seq(Report),
   result : {"none", "applied", "rejected", "drifted", "invalid",
             "accepted", "not_proven"}]

Child ==
  [alive : BOOLEAN, ok : BOOLEAN,  \* running; whether it will exit with success
   left : Nat, pipe : Nat,         \* output still to print, and waiting in the pipe
   slow : BOOLEAN,                 \* it needs more time than the cap allows
   heir : BOOLEAN]                 \* a process it started holds the pipe open

NoChild == [alive |-> FALSE, ok |-> FALSE, left |-> 0, pipe |-> 0,
            slow |-> FALSE, heir |-> FALSE]

NoImage == [f \in File |-> NoFile]

Idle == [pc |-> "idle", kind |-> "apply", profile |-> "default", ruled |-> FALSE,
         original |-> NoImage, shadow |-> NoImage, ops |-> 0, skipped |-> FALSE,
         report |-> <<>>, result |-> "none"]

Init ==
  /\ disk \in Image
  /\ \A f \in File : disk[f] # NoFile => ~disk[f].rewritten
  /\ manifest \in BOOLEAN /\ cargo \in BOOLEAN
  /\ req = Idle /\ child = NoChild /\ clock = 0 /\ edits = 0

Present(image) == {f \in File : image[f] # NoFile}
Flawed(image, flaws) == \E f \in Present(image) : image[f].flaw \in flaws

-----------------------------------------------------------------------------
(* The plan. *)

\* The handlers decode the plan, read every .rs file and snapshot the rules.
ReadWorkspace(kind, profile, ruled, ops) ==
  /\ req.pc = "idle"
  /\ req' = [Idle EXCEPT !.pc = "ops", !.kind = kind, !.profile = profile,
                         !.ruled = ruled, !.ops = ops, !.original = disk, !.shadow = disk]
  /\ UNCHANGED <<disk, manifest, cargo, child, clock, edits>>

\* Mutant of Fold: a text taken out of the map to be rewritten is not put back.
FoldLoses(hit, flaw, skipped) ==
  /\ req.pc = "ops" /\ req.ops > 0
  /\ req' = [req EXCEPT !.ops = @ - 1, !.skipped = @ \/ skipped,
       !.shadow = [f \in File |-> IF f \in hit THEN NoFile ELSE @[f]]]
  /\ UNCHANGED <<disk, manifest, cargo, child, clock, edits>>

\* One operation of the fold: hit is rewritten. A text that does not parse still
\* does not once a rename has edited it.
Fold(hit, flaw, skipped) ==
  /\ req.pc = "ops" /\ req.ops > 0
  /\ req' = [req EXCEPT
       !.ops = @ - 1,
       !.skipped = @ \/ skipped,
       !.shadow = [f \in File |->
          IF f \notin hit THEN @[f]
          ELSE [rewritten |-> TRUE,
                flaw |-> IF @[f].flaw = "syntax" THEN "syntax" ELSE flaw]]]
  /\ UNCHANGED <<disk, manifest, cargo, child, clock, edits>>

\* RenameFunction and the derives work file by file: a file that does not parse, or
\* would not after the rewrite, is an error of its own; the others are rewritten.
PerFileOp(scope, named, spoilt, flaw) ==
  LET unparsed == {f \in scope : req.shadow[f].flaw = "syntax"}
  IN  /\ flaw # "syntax"
      /\ Fold((named \ spoilt) \ unparsed, flaw, unparsed # {})

\* Inline, extract, change signature and move parse what they read and what they
\* write: the whole operation, or nothing.
WholeOp(hit, flaw) ==
  /\ flaw # "syntax"
  /\ \A f \in hit : req.shadow[f].flaw # "syntax"
  /\ Fold(hit, flaw, FALSE)

\* The typed rename takes rust-analyzer's edits as they come.
TypedOp(hit, flaw) == Fold(hit, flaw, FALSE)

\* An operation that fails as a whole leaves the shadow alone.
FailedOp == Fold({}, "none", FALSE)

\* build_pipeline.
Stages(profile, ruled) ==
  LET cheap == IF ruled THEN <<"syntactic", "rules">> ELSE <<"syntactic">>
      typed == Append(cheap, "cargo_check")
  IN  CASE profile = "typed" -> typed
        [] profile = "tested" -> Append(typed, "cargo_test")
        [] OTHER -> cheap

\* The fold is over (apply_plan's errors are dropped) and the pipeline is built.
BuildPipeline ==
  /\ req.pc = "ops" /\ req.ops = 0
  /\ req' = IF req.profile = "other"
            THEN [req EXCEPT !.pc = "done", !.result = "invalid"]
            ELSE [req EXCEPT !.pc = "run"]
  /\ UNCHANGED <<disk, manifest, cargo, child, clock, edits>>

-----------------------------------------------------------------------------
(* The pipeline. *)

Current == Stages(req.profile, req.ruled)[Len(req.report) + 1]

\* Mutant of Push: the pipeline goes on after a failure.
PushOn(ok, why) ==
  LET report == Append(req.report, [stage |-> Current, ok |-> ok, why |-> why])
  IN  req' = [req EXCEPT
        !.report = report,
        !.pc = IF Len(report) < Len(Stages(req.profile, req.ruled))
               THEN "run" ELSE "decide"]

\* Pipeline::run: the report is pushed; a failure, or the last stage, ends the run.
Push(ok, why) ==
  LET report == Append(req.report, [stage |-> Current, ok |-> ok, why |-> why])
  IN  req' = [req EXCEPT
        !.report = report,
        !.pc = IF ok /\ Len(report) < Len(Stages(req.profile, req.ruled))
               THEN "run" ELSE "decide"]

Judge(flaws) ==
  IF Flawed(req.shadow, flaws) THEN Push(FALSE, "flaw") ELSE Push(TRUE, "clean")

\* Mutant of SyntacticStage: only the files the plan changed are parsed.
SyntacticStageChanged ==
  /\ req.pc = "run" /\ Current = "syntactic"
  /\ IF \E f \in Present(req.shadow) :
          req.shadow[f] # req.original[f] /\ req.shadow[f].flaw = "syntax"
     THEN Push(FALSE, "flaw") ELSE Push(TRUE, "clean")
  /\ UNCHANGED <<disk, manifest, cargo, child, clock, edits>>

SyntacticStage ==
  /\ req.pc = "run" /\ Current = "syntactic"
  /\ Judge({"syntax"})
  /\ UNCHANGED <<disk, manifest, cargo, child, clock, edits>>

\* A source the analyzer cannot read is an error too, and so are rules the engine
\* cannot evaluate.
RuleStage ==
  /\ req.pc = "run" /\ Current = "rules"
  /\ Judge({"syntax", "rules"}) \/ Push(FALSE, "engine")
  /\ UNCHANGED <<disk, manifest, cargo, child, clock, edits>>

\* Mutant of Mirror: only what the plan changed is laid over the copy of the disk.
MirrorChanged ==
  [f \in File |-> IF req.shadow[f] # NoFile /\ req.shadow[f] # req.original[f]
                  THEN req.shadow[f] ELSE disk[f]]

\* The copy cargo works on: the disk as it is now, under the whole shadow.
Mirror == [f \in File |-> IF req.shadow[f] # NoFile THEN req.shadow[f] ELSE disk[f]]

Seen(stage) ==
  IF stage = "cargo_check" THEN {"syntax", "types"} ELSE {"syntax", "types", "tests"}

CargoStage == req.pc = "run" /\ Current \in {"cargo_check", "cargo_test"}

\* No Cargo.toml, a copy that fails, no cargo: an info, an error, a warning.
CargoUnavailable ==
  /\ CargoStage
  /\ IF ~manifest THEN Push(TRUE, "skipped")
     ELSE Push(FALSE, "io") \/ (~cargo /\ Push(TRUE, "missing"))
  /\ UNCHANGED <<disk, manifest, cargo, child, clock, edits>>

\* Cargo may also fail for reasons of its own.
Spawn(output, sound, slow, heir) ==
  /\ CargoStage /\ manifest /\ cargo
  /\ req' = [req EXCEPT !.pc = "wait"]
  /\ child' = [alive |-> TRUE, ok |-> sound /\ ~Flawed(Mirror, Seen(Current)),
               left |-> output, pipe |-> 0, slow |-> slow, heir |-> heir]
  /\ clock' = 0
  /\ UNCHANGED <<disk, manifest, cargo, edits>>

\* try_wait sees the exit before it looks at the clock, and only then reads.
SeeExit ==
  /\ req.pc = "wait" /\ ~child.alive
  /\ req' = [req EXCEPT !.pc = "drain"]
  /\ UNCHANGED <<disk, manifest, cargo, child, clock, edits>>

\* read_to_string ends when nobody holds the other end of the pipe.
Drain ==
  /\ req.pc = "drain" /\ ~child.heir
  /\ IF child.ok THEN Push(TRUE, "clean") ELSE Push(FALSE, "flaw")
  /\ child' = NoChild
  /\ UNCHANGED <<disk, manifest, cargo, clock, edits>>

\* Mutants of TimeOut: cargo is not killed; it is waited for instead.
TimeOutSpares ==
  /\ req.pc = "wait" /\ child.alive /\ clock >= Deadline
  /\ Push(FALSE, "timeout")
  /\ UNCHANGED <<disk, manifest, cargo, child, clock, edits>>

TimeOutWaits ==
  /\ req.pc = "wait" /\ ~child.alive /\ clock >= Deadline
  /\ Push(FALSE, "timeout")
  /\ UNCHANGED <<disk, manifest, cargo, child, clock, edits>>

\* The cap: cargo is killed and reaped; what it started is not.
TimeOut ==
  /\ req.pc = "wait" /\ child.alive /\ clock >= Deadline
  /\ Push(FALSE, "timeout")
  /\ child' = [child EXCEPT !.alive = FALSE]
  /\ UNCHANGED <<disk, manifest, cargo, clock, edits>>

\* An error of try_wait leaves the child to itself.
WaitFails ==
  /\ req.pc = "wait"
  /\ Push(FALSE, "wait")
  /\ UNCHANGED <<disk, manifest, cargo, child, clock, edits>>

-----------------------------------------------------------------------------
(* The decision. *)

Validated == \A i \in 1..Len(req.report) : req.report[i].ok
Targets == {f \in Present(req.shadow) : req.shadow[f] # req.original[f]}

\* A write needs a green report and targets nobody has touched since they were read.
DecideApply ==
  /\ req.pc = "decide" /\ req.kind = "apply"
  /\ LET clean == \A f \in Targets : disk[f] = req.original[f]
     IN  /\ disk' = IF Validated /\ clean
                    THEN [f \in File |-> IF f \in Targets THEN req.shadow[f] ELSE disk[f]]
                    ELSE disk
         /\ req' = [req EXCEPT !.pc = "done",
                      !.result = CASE ~Validated -> "rejected"
                                   [] Validated /\ clean -> "applied"
                                   [] OTHER -> "drifted"]
  /\ UNCHANGED <<manifest, cargo, child, clock, edits>>

\* synth_verdict.
DecideExplain ==
  /\ req.pc = "decide" /\ req.kind = "explain"
  /\ req' = [req EXCEPT !.pc = "done",
       !.result = IF ~Validated THEN "rejected"
                  ELSE IF \A i \in 1..Len(req.report) : req.report[i].stage = "syntactic"
                       THEN "not_proven" ELSE "accepted"]
  /\ UNCHANGED <<disk, manifest, cargo, child, clock, edits>>

-----------------------------------------------------------------------------
(* The environment. *)

ChildPrints ==
  /\ child.alive /\ child.left > 0 /\ child.pipe < PipeCap
  /\ child' = [child EXCEPT !.left = @ - 1, !.pipe = @ + 1]
  /\ UNCHANGED <<disk, manifest, cargo, req, clock, edits>>

ChildExits ==
  /\ child.alive /\ child.left = 0
  /\ child' = [child EXCEPT !.alive = FALSE]
  /\ UNCHANGED <<disk, manifest, cargo, req, clock, edits>>

HeirExits ==
  /\ child.heir
  /\ child' = [child EXCEPT !.heir = FALSE]
  /\ UNCHANGED <<disk, manifest, cargo, req, clock, edits>>

\* A build that is not slow and is free to go on ends before the next tick.
Tick ==
  /\ req.pc = "wait" /\ child.alive /\ clock < Deadline
  /\ child.slow \/ (child.left > 0 /\ child.pipe = PipeCap)
  /\ clock' = clock + 1
  /\ UNCHANGED <<disk, manifest, cargo, req, child, edits>>

Edit(f) ==
  /\ req.pc \notin {"idle", "done"} /\ edits < MaxEdits
  /\ \E text \in [rewritten : {FALSE}, flaw : Flaw] \cup {NoFile} :
       disk' = [disk EXCEPT ![f] = text]
  /\ edits' = edits + 1
  /\ UNCHANGED <<manifest, cargo, req, child, clock>>

-----------------------------------------------------------------------------

Ask ==
  \E kind \in {"apply", "explain"}, ruled \in BOOLEAN, ops \in 0..MaxOps,
     profile \in {"default", "typed", "tested", "other"} :
    ReadWorkspace(kind, profile, ruled, ops)

FoldStep ==
  \/ \E flaw \in Flaw, scope \in SUBSET Present(req.shadow) :
       \/ \E named \in SUBSET scope : \E spoilt \in SUBSET named :
            PerFileOp(scope, named, spoilt, flaw)
       \/ WholeOp(scope, flaw)
       \/ TypedOp(scope, flaw)
  \/ FailedOp

GateStep ==
  \/ BuildPipeline \/ SyntacticStage \/ RuleStage \/ CargoUnavailable
  \/ \E output \in 0..MaxOutput, sound \in BOOLEAN, slow \in BOOLEAN, heir \in BOOLEAN :
       Spawn(output, sound, slow, heir)
  \/ SeeExit \/ Drain \/ TimeOut
  \/ DecideApply \/ DecideExplain

ChildStep == ChildPrints \/ ChildExits

Next ==
  \/ Ask \/ FoldStep \/ GateStep \/ WaitFails
  \/ ChildStep \/ HeirExits \/ Tick
  \/ \E f \in File : Edit(f)

Spec == Init /\ [][Next]_vars

\* The daemon's thread runs, time passes, a build that is not slow goes on, and what
\* cargo started ends some day.
Fairness ==
  /\ WF_vars(FoldStep \/ GateStep) /\ WF_vars(Tick)
  /\ WF_vars(~child.slow /\ ChildStep) /\ WF_vars(HeirExits)

FairSpec == Spec /\ Fairness
-----------------------------------------------------------------------------

\* The fold neither adds nor loses a path (plan.rs:84-94): the handlers look every
\* shadow path up in the originals (handlers.rs:321, 364).
TypeOK ==
  /\ disk \in Image /\ manifest \in BOOLEAN /\ cargo \in BOOLEAN
  /\ req \in Request /\ child \in Child
  /\ clock \in Nat /\ edits \in 0..MaxEdits
  /\ Present(req.shadow) = Present(req.original)

\* The stages a report speaks of are those of the profile, in order, up to the first
\* failure; a request goes through only if all of them ran and none failed, and is
\* rejected only if one did (pipeline.rs:36-59, handlers.rs:344, builder.rs:170-217).
ReportSound ==
  LET stages == Stages(req.profile, req.ruled)
  IN  /\ Len(req.report) <= Len(stages)
      /\ \A i \in 1..Len(req.report) :
           /\ req.report[i].stage = stages[i]
           /\ i < Len(req.report) => req.report[i].ok
      /\ req.result \in {"applied", "drifted", "accepted", "not_proven"} =>
           Validated /\ Len(req.report) = Len(stages)
      /\ req.result = "rejected" => ~Validated

\* What the profile of a request is there to keep out of the workspace.
KeptOut ==
  {"syntax"} \cup (IF req.ruled THEN {"rules"} ELSE {})
    \cup (IF manifest /\ cargo
          THEN (IF req.profile \in {"typed", "tested"} THEN {"types"} ELSE {})
                 \cup (IF req.profile = "tested" THEN {"tests"} ELSE {})
          ELSE {})

\* Whatever an editor does between the reading, the two copies and the write, the
\* evidence is about the texts that are written: a commit has no flaw its profile
\* looks for (validate_stages.rs:215-231, 506-526; README.md:331-343).
AppliedIsClean == req.result = "applied" => ~Flawed(req.shadow, KeptOut)

\* An operation that skipped a file it could not parse has rewritten the others. The
\* error is dropped, and the plan is refused all the same: the syntactic stage parses
\* every file of the shadow, not only those the plan changed (plan.rs:143-192,
\* stages.rs:10-27).
UnparsedIsRefused ==
  req.result \in {"applied", "accepted", "not_proven"} => ~req.skipped

\* A cargo process does not outlive its stage, unless waiting for it failed
\* (validate_stages.rs:373-399, 667-700).
ChildReaped ==
  child.alive =>
    \/ req.pc = "wait"
    \/ req.report # <<>> /\ req.report[Len(req.report)].why = "wait"

\* Every request is answered, even if cargo never ends (validate_stages.rs:388).
RequestAnswered == req.pc = "ops" ~> req.pc = "done"
=============================================================================
