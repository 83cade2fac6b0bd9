\* A stat of a path whose slice has expired and is being cut again.
CONSTANTS
  Callers = {c1, c2}
  Keys = {k1}
  EntryIds = {e1, e2, e3}
  NoEntry = NoEntry
  MaxLate = 1
  TTLCoversWakeup = TRUE
SPECIFICATION Spec
INVARIANT GetExistingExact
SYMMETRY Symmetry
