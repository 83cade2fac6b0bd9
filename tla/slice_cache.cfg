\* Three callers of one key under the fairness of the Go scheduler; two entry objects,
\* the current one and an old one that a caller or a late callback still has.
CONSTANTS
  Callers = {c1, c2, c3}
  Keys = {k1}
  EntryIds = {e1, e2}
  NoEntry = NoEntry
  MaxLate = 1
  TTLCoversWakeup = TRUE
SPECIFICATION FairSpec
INVARIANTS
  TypeOK
  RefsMatchUsers
  HeldSliceIntact
  OneCutPerPath
  NoLeakedSlice
  IdleSliceExpires
  AbandonedCutIsAborted
PROPERTIES
  KeepsPromise
  EveryAcquireReturns
  IdleSliceReclaimed
  ClosedCleansUp
