\* Every small sheet, for audio of every kind, with and without a cap.
CONSTANTS
  Sheets <- MCSheets
  Lengths = {5}
  Audios <- MCAudios
  Caps <- MCCaps
  NoAudio = NoAudio
  BadTime = BadTime
SPECIFICATION Spec
\* A sheet ends.
CHECK_DEADLOCK FALSE
INVARIANTS
  TypeOK
  EveryFrameInItsTrack
  TextsSurvive
  EstimateCoversCut
  CapOnlyLowers
