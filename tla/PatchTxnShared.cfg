SPECIFICATION Spec
CONSTANTS
  d1 = d1
  d2 = d2
  a = a
  b = b
  Torn = Torn
  NoFile = NoFile
  NoEntry = NoEntry
  Daemon = {d1, d2}
  File <- MCFile
  Content = {a, b}
  MaxRequests = 2
  MaxEdits = 1
  MaxFaults = 2
  MaxCrashes = 1
SYMMETRY MCSymmetry
INVARIANTS TypeOK RequestsSound AllOrNothing NoStrayTemp
PROPERTIES RenameReplacesVerified JournalRecordsCommit
