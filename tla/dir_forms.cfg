\* All directories with two audio files, one of them with its accents in NFD, and two cue sheets.
CONSTANTS
  Files <- NfdFiles
  Subdirs <- MCSubdirs
  Cues <- MCCues
  Below <- MCBelow
  Lost <- MCLost
  Sheets <- MCSheets
  Compound <- MCCompound
  Paths <- PlainPath
  None = None
SPECIFICATION Spec
\* A build ends.
CHECK_DEADLOCK FALSE
INVARIANT FoundInAnyForm
