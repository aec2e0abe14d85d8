SPECIFICATION FairSpec
CONSTANTS
  c1 = c1
  Caller = {c1}
  File = {1}
  Text <- MCText
  Renamed <- MCRenamed
  Forms = {"changes"}
  Unopened = {"served", "ignored"}
  NoFile = "no file"
  Garbled = "garbled"
  Free = Free
  MaxCalls = 1
  MaxTries = 2
  MaxNotes = 1
  MaxFaults = 1
  Losses = {"silent"}
  MaxLosses = 1
PROPERTIES CallsReturn
CHECK_DEADLOCK FALSE
