\* Three lookups race with a change of the directory.
CONSTANTS
  Callers = {c1, c2, c3}
  MaxChanges <- MCMaxChanges
  None = None
SPECIFICATION FairSpec
INVARIANTS
  TypeOK
  LabelIsHonest
  FreshUnlessJoined
PROPERTIES
  EveryLookupReturns
  StalenessEnds
