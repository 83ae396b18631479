SPECIFICATION FairSpec
CONSTANTS
  None = None
  Line <- MCLine
  Long <- MCLong
  MaxHour = 2
  Batch = 2
  MaxFaults = 1
  MaxSetbacks = 1
  MaxCrashes = 1
INVARIANT TypeOK
INVARIANT LinesOnce
INVARIANT FilesInOrder
INVARIANT CheckpointsFinal
INVARIANT LeftFilesCheckpointed
PROPERTY EveryLineHandled
