\* All directories over seven optional names and two cue sheets, each a disc of a set.
CONSTANTS
  Files <- MCFiles
  Subdirs <- MCSubdirs
  Cues <- MCCues
  Below <- MCBelow
  Lost <- MCLost
  Sheets <- MCSheetsOfSet
  Compound <- MCCompound
  Paths <- MCPaths
  None = None
SPECIFICATION Spec
\* A build ends.
CHECK_DEADLOCK FALSE
INVARIANT EveryTrackHasOnePath
