\* Three calls for one or two slots; one of an audio ffmpeg may not cut.
CONSTANTS
  Paths = {p1, p2, p3}
  Sound = {p1, p2}
  Concurrency <- MCConcurrency
SPECIFICATION FairSpec
INVARIANTS
  TypeOK
  SlotsMatchCuts
  CancelledLeavesNothing
  ArtworkNeverFatal
PROPERTIES
  ImplementsCutter
  EveryCutReturns
