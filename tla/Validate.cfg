SPECIFICATION FairSpec
CONSTANTS
  f1 = f1
  NoFile = NoFile
  File = {f1}
  Flaw = {"none", "syntax", "rules", "types", "tests"}
  MaxEdits = 1
  MaxOps = 1
  MaxOutput = 2
  PipeCap = 1
  Deadline = 1
CHECK_DEADLOCK FALSE
INVARIANTS TypeOK ReportSound AppliedIsClean UnparsedIsRefused ChildReaped
PROPERTIES RequestAnswered
