\* Texts in Shift-JIS, GBK or Big5, as programs write them.
CONSTANTS
  Sheets <- DoubleByteSheets
  Lengths = {5}
  Audios <- OneAudio
  Caps <- NoCaps
  NoAudio = NoAudio
  BadTime = BadTime
SPECIFICATION Spec
\* A sheet ends.
CHECK_DEADLOCK FALSE
INVARIANT TextsSurvive
