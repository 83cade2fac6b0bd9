\* All directories over seven optional names and two cue sheets.
CONSTANTS
  Files <- MCFiles
  Subdirs <- MCSubdirs
  Cues <- MCCues
  Below <- MCBelow
  Lost <- MCLost
  Sheets <- MCSheets
  Compound <- MCCompound
  Paths <- MCPaths
  None = None
SPECIFICATION Spec
\* A build ends.
CHECK_DEADLOCK FALSE
INVARIANTS
  TypeOK
  ListingIsFaithful
  RealEntriesSurvive
  EveryTrackHasOnePath
  SourcesAreExclusive
  CompleteSheetsAreUsed
