CONSTANTS
  FileOf <- MCFileOf
  Programs <- NestedPrograms
  Renames <- MCRenames
  Signatures <- MCSignatures
  Helpers <- MCHelpers
  Traits <- MCTraits
  Filters <- MCFilters
  Depth = 8
  MaxOps = 1
SPECIFICATION Spec
INVARIANT ArgumentsLineUp
CHECK_DEADLOCK FALSE
