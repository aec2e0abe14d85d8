SPECIFICATION Spec
CONSTANTS
  d1 = d1
  a = a
  b = b
  Torn = Torn
  NoFile = NoFile
  NoEntry = NoEntry
  Daemon = {d1}
  File <- MCFile
  Content = {a, b}
  MaxRequests = 3
  MaxEdits = 0
  MaxFaults = 1
  MaxCrashes = 0
PROPERTIES ImplementsAtomicCommit
