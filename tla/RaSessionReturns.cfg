SPECIFICATION FairSpec
CONSTANTS
  c1 = c1
  c2 = c2
  Caller = {c1, c2}
  File = {1}
  Text <- MCText
  Renamed <- MCRenamed
  Forms = {"changes"}
  Unopened = {"served", "ignored"}
  NoFile = "no file"
  Garbled = "garbled"
  Free = Free
  MaxCalls = 2
  MaxTries = 2
  MaxNotes = 1
  MaxFaults = 1
  Losses = {"dead"}
  MaxLosses = 1
PROPERTIES CallsReturn
