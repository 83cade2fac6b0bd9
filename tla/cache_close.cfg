\* Two callers of one key under the fairness of the Go scheduler.
CONSTANTS
  Callers = {c1, c2}
  Keys = {k1}
  EntryIds = {e1, e2}
  NoEntry = NoEntry
  MaxLate = 1
  TTLCoversWakeup = TRUE
SPECIFICATION FairSpec
PROPERTY CloseRemovesAll
