SPECIFICATION Spec
CONSTANTS
  d1 = d1
  a = a
  b = b
  Torn = Torn
  NoFile = NoFile
  NoEntry = NoEntry
  Daemon = {d1}
  File <- MCFile
  Content = {a, b}
  MaxRequests = 1
  MaxEdits = 1
  MaxFaults = 0
  MaxCrashes = 0
PROPERTIES NoLostUpdate
