CONSTANTS
  FileOf <- MCFileOf
  Programs <- MCPrograms
  Renames <- MCRenames
  Signatures <- MCSignatures
  Helpers <- MCHelpers
  Traits <- MCTraits
  Filters <- MCFilters
  Depth = 8
  MaxOps = 2
SPECIFICATION Spec
INVARIANTS
  SkippedUntouched
  BehaviourKept
  ImpactedTestsRun
  DerivesCancel
PROPERTY NeverHalfRewritten
CHECK_DEADLOCK FALSE
