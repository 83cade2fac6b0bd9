\* Three threads, one track, two handles: no more than two claims are alive at once.
CONSTANTS
  Threads = {t1, t2, t3}
  Claims = {a1, a2}
  Keys = {k1}
  None = None
  MaxHandles <- MCMaxHandles
SPECIFICATION FairSpec
INVARIANTS
  TypeOK
  OneOwnerPerClaim
  VirtualFileIsWhole
  NoGhostTrack
  NoLeakedFile
PROPERTIES
  HonestSize
  DestroyUnblocks
