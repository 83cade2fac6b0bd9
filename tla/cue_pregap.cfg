\* A track with a PREGAP, whatever else.
CONSTANTS
  Sheets <- PregapSheets
  Lengths = {5}
  Audios <- MCAudios
  Caps <- NoCaps
  NoAudio = NoAudio
  BadTime = BadTime
SPECIFICATION Spec
\* A sheet ends.
CHECK_DEADLOCK FALSE
INVARIANT EveryFrameInItsTrack
