------------------------ MODULE TrackCacheRefinement ------------------------
(***************************************************************************)
(* TrackCache implements SliceCache: every step of the manager is a step   *)
(* of the promise or leaves the promised state alone.                      *)
(***************************************************************************)
EXTENDS TrackCacheProofs

\* The state of the promise, as TrackCache maps it.
Slices == [k \in Keys |-> SliceOf(k)]
Uses == [c \in Callers |-> UseOf(c)]

Nothing == [status |-> "idle", key |-> NoEntry]
Having(status, k) == [status |-> status, key |-> k]

\* The slice of a key, read off its entry.
LEMMA SliceIs ==
  ASSUME IInv, NEW k \in Keys
  PROVE  /\ entries[k] = NoEntry => SliceOf(k) = "none"
         /\ entries[k] # NoEntry /\ entry[entries[k]].cut = "ok" => SliceOf(k) = "ready"
         /\ entries[k] # NoEntry /\ entry[entries[k]].cut # "ok" => SliceOf(k) = "cutting"
<1>1. entries[k] # NoEntry => entries[k] \in EntryIds /\ Mapped(entries[k])
                              /\ entry[entries[k]].key = k
  BY DEF IInv, Shape, MapSound, Mapped
<1> QED
  BY <1>1 DEF IInv, SliceOf, FileMatchesCut

\* What a caller has, read off its place.
LEMMA UseIs ==
  ASSUME IInv, NEW c \in Callers
  PROVE  /\ closed \/ caller[c].pc \in {"idle", "statting"} => UseOf(c) = Nothing
         /\ ~closed /\ caller[c].pc = "holding" =>
              UseOf(c) = Having("holding", entry[caller[c].at].key)
         /\ ~closed /\ caller[c].pc = "waiting" =>
              UseOf(c) = Having(IF entry[caller[c].at].cut = "err" THEN "failed" ELSE "waiting",
                                entry[caller[c].at].key)
BY DEF UseOf, Nothing, Having

\* A closed manager promises nothing, and whatever it does changes nothing.
LEMMA ClosedStutters ==
  ASSUME IInv, IInv', closed, closed'
  PROVE  Slices' = Slices /\ Uses' = Uses
<1>1. \A k \in Keys : SliceOf(k) = "none" /\ SliceOf(k)' = "none"
  BY DEF IInv, MapSound, SliceOf
<1>2. \A c \in Callers : UseOf(c) = Nothing /\ UseOf(c)' = Nothing
  BY DEF UseOf, Nothing
<1> QED
  BY <1>1, <1>2 DEF Slices, Uses

\* The slices stay as they are when no cut ends and the map stays the same.
LEMMA SlicesSame ==
  ASSUME IInv, IInv', entries' = entries,
         \A e \in EntryIds : (entry'[e].cut = "ok" <=> entry[e].cut = "ok")
  PROVE  Slices' = Slices
<1>1. ASSUME NEW k \in Keys PROVE SliceOf(k)' = SliceOf(k)
  <2>1. CASE entries[k] = NoEntry
    BY <2>1, SliceIs DEF SliceOf
  <2>2. CASE entries[k] # NoEntry
    <3>1. PICK e \in EntryIds : entries[k] = e /\ entries'[k] = e /\ e # NoEntry
      BY <2>2 DEF IInv, Shape
    <3>2. Mapped(e) /\ entry[e].key = k /\ Mapped(e)' /\ entry'[e].key = k
      BY <3>1 DEF IInv, MapSound, Mapped
    <3> QED
      BY <3>1, <3>2 DEF SliceOf, IInv, FileMatchesCut
  <2> QED
    BY <2>1, <2>2
<1> QED
  BY <1>1 DEF Slices

\* What a caller has stays as it is when the caller stays where it is and the
\* cut there does not fail, or when it moves where nobody has anything.
LEMMA UseSame ==
  ASSUME IInv, closed' = closed, NEW c \in Callers,
         \A e \in EntryIds : entry'[e].key = entry[e].key,
         \A e \in EntryIds : (entry'[e].cut = "err" <=> entry[e].cut = "err"),
         \/ caller'[c].pc = caller[c].pc /\ caller'[c].at = caller[c].at
         \/ caller[c].pc \in {"idle", "statting"} /\ caller'[c].pc \in {"idle", "statting"}
  PROVE  UseOf(c)' = UseOf(c)
<1>1. caller[c].pc \notin {"idle", "statting"} => caller[c].at \in EntryIds
  BY DEF IInv, CallersPlaced
<1> QED
  BY <1>1 DEF UseOf

\* Steps the promise does not see.
LEMMA QuietSteps ==
  ASSUME IInv, IInv', ~closed,
         \/ \E c \in Callers : CtxDone(c) \/ Stat(c) \/ \E k \in Keys : Lookup(c, k)
         \/ \E e \in EntryIds : CutStep(e) \/ TimerFire(e)
         \/ UNCHANGED vars
  PROVE  UNCHANGED Promise!vars
<1>1. /\ entries' = entries /\ closed' = closed
      /\ \A e \in EntryIds : entry'[e].key = entry[e].key
      /\ \A e \in EntryIds : (entry'[e].cut = "ok" <=> entry[e].cut = "ok")
      /\ \A e \in EntryIds : (entry'[e].cut = "err" <=> entry[e].cut = "err")
  <2>0. entry \in [EntryIds -> TrackEntry]
    BY DEF IInv, Shape
  <2>1. CASE \E e \in EntryIds : CutStep(e)
    <3>1. PICK e \in EntryIds : CutStep(e)
      BY <2>1
    <3>2. PICK x \in {"queued", "writing", "written", "failing"} :
            /\ entry' = [entry EXCEPT ![e].cut = x]
            /\ entry[e].cut \in {"queued", "writing"}
            /\ entries' = entries /\ closed' = closed
      BY <3>1 DEF CutStep, CutCreate, CutRetry, CutSucceed, CutFail
    <3>3. ASSUME NEW d \in EntryIds
          PROVE  /\ entry'[d].key = entry[d].key
                 /\ entry'[d].cut = IF d = e THEN x ELSE entry[d].cut
      BY <2>0, <3>2 DEF TrackEntry
    <3> QED
      BY <3>2, <3>3
  <2>2. CASE \E e \in EntryIds : TimerFire(e)
    BY <2>0, <2>2 DEF TimerFire, TrackEntry
  <2>3. CASE \E c \in Callers : CtxDone(c) \/ Stat(c) \/ \E k \in Keys : Lookup(c, k)
    BY <2>3 DEF CtxDone, Stat, Lookup
  <2> QED
    BY <2>1, <2>2, <2>3 DEF vars
<1>2. ASSUME NEW c \in Callers
      PROVE  \/ caller'[c].pc = caller[c].pc /\ caller'[c].at = caller[c].at
             \/ caller[c].pc \in {"idle", "statting"} /\ caller'[c].pc \in {"idle", "statting"}
  <2>1. caller \in [Callers -> Caller]
    BY DEF IInv, Shape
  <2>2. ASSUME NEW b \in Callers, CtxDone(b) PROVE
          caller'[c].pc = caller[c].pc /\ caller'[c].at = caller[c].at
    BY <2>1, <2>2 DEF CtxDone, Caller
  <2>3. ASSUME NEW b \in Callers, Stat(b) \/ \E k \in Keys : Lookup(b, k) PROVE
          \/ caller'[c] = caller[c]
          \/ caller[c].pc \in {"idle", "statting"} /\ caller'[c].pc \in {"idle", "statting"}
    BY <2>1, <2>3 DEF Stat, Lookup, Idle, At
  <2>4. ASSUME NEW e \in EntryIds, CutStep(e) \/ TimerFire(e) PROVE caller' = caller
    BY <2>4 DEF CutStep, CutCreate, CutRetry, CutSucceed, CutFail, TimerFire
  <2> QED
    BY <2>2, <2>3, <2>4 DEF vars
<1>3. Slices' = Slices
  BY <1>1, SlicesSame
<1>4. \A c \in Callers : UseOf(c)' = UseOf(c)
  BY <1>1, <1>2, UseSame
<1> QED
  BY <1>1, <1>3, <1>4 DEF Promise!vars, Slices, Uses

\* A new or an existing entry: the caller asks, and has the slice only if it
\* is ready.
LEMMA AcquireAsks ==
  ASSUME IInv, IInv', NEW c \in Callers, NEW k \in Keys,
         AcquireNew(c, k) \/ AcquireExisting(c, k)
  PROVE  Promise!Next
<1>1. ~closed /\ ~closed' /\ caller[c].pc = "idle"
  BY DEF AcquireNew, AcquireExisting
<1>2. PICK e \in EntryIds :
        /\ entries' = [entries EXCEPT ![k] = e] /\ e # NoEntry /\ entry'[e].key = k
        /\ \A d \in EntryIds : d # e => entry'[d] = entry[d]
        /\ \A b \in Callers : b # c => caller'[b] = caller[b]
        /\ caller'[c].at = e
        /\ \/ /\ entries[k] = NoEntry /\ \A b \in Callers : caller[b].at # e
              /\ entry'[e].cut = "queued" /\ caller'[c].pc = "waiting"
           \/ /\ entries[k] = e /\ entry'[e].cut = entry[e].cut /\ entry[e].key = k
              /\ entry[e].cut # "err"
              /\ caller'[c].pc = IF entry[e].cut = "ok" THEN "holding" ELSE "waiting"
  <2>0. /\ entry \in [EntryIds -> TrackEntry] /\ caller \in [Callers -> Caller]
        /\ entries \in [Keys -> EntryIds \cup {NoEntry}]
    BY DEF IInv, Shape
  <2>1. CASE AcquireNew(c, k)
    <3>1. PICK e \in EntryIds :
            /\ entries[k] = NoEntry /\ \A b \in Callers : caller[b].at # e
            /\ entries' = [entries EXCEPT ![k] = e]
            /\ entry' = [entry EXCEPT ![e] = NewEntry(k)]
            /\ caller' = [caller EXCEPT ![c] = At("waiting", e)]
      BY <2>1 DEF AcquireNew, Collected
    <3>2. /\ e # NoEntry /\ entry'[e].key = k /\ entry'[e].cut = "queued"
          /\ \A d \in EntryIds : d # e => entry'[d] = entry[d]
      BY <2>0, <3>1, CacheAssumption DEF NewEntry, CacheAssumption
    <3>3. /\ caller'[c].at = e /\ caller'[c].pc = "waiting"
          /\ \A b \in Callers : b # c => caller'[b] = caller[b]
      BY <2>0, <3>1 DEF At
    <3> QED
      BY <3>1, <3>2, <3>3
  <2>2. CASE AcquireExisting(c, k)
    <3>1. PICK e \in EntryIds :
            /\ entries[k] = e /\ e # NoEntry /\ entry[e] \in TrackEntry
            /\ entry[e].key = k /\ entry[e].cut # "err"
      BY <2>2 DEF AcquireExisting, IInv, Shape, MapSound
    <3>2. Joined(entry[e]).key = k /\ Joined(entry[e]).cut = entry[e].cut
      BY <3>1, JoinedFields
    <3>3. /\ entry' = [entry EXCEPT ![e] = Joined(entry[e])]
          /\ entries' = entries
      BY <2>2, <3>1 DEF AcquireExisting
    <3>4. /\ caller'[c].at = e
          /\ caller'[c].pc = IF entry[e].cut = "ok" THEN "holding" ELSE "waiting"
          /\ \A b \in Callers : b # c => caller'[b] = caller[b]
      BY <2>0, <2>2, <3>1 DEF AcquireExisting, At
    <3> QED
      BY <2>0, <3>1, <3>2, <3>3, <3>4
  <2> QED
    BY <2>1, <2>2
<1>3. ASSUME NEW j \in Keys, j # k PROVE SliceOf(j)' = SliceOf(j)
  <2>1. entries'[j] = entries[j] /\ (entries[j] = NoEntry \/ entries[j] \in EntryIds)
    BY <1>2, <1>3 DEF IInv, Shape
  <2>2. entries[j] # NoEntry => entries[j] # e
    <3>1. entries[j] # NoEntry => entry'[entries'[j]].key = j
      BY <1>3, <2>1 DEF IInv, MapSound
    <3> QED
      BY <1>2, <1>3, <2>1, <3>1
  <2>3. entries[j] # NoEntry => entry'[entries'[j]].cut = entry[entries[j]].cut
    BY <1>2, <2>1, <2>2
  <2>4. entries[j] = NoEntry => SliceOf(j) = "none" /\ SliceOf(j)' = "none"
    BY <2>1 DEF SliceOf
  <2>5. /\ entries[j] # NoEntry /\ entry[entries[j]].cut = "ok" =>
             SliceOf(j) = "ready" /\ SliceOf(j)' = "ready"
        /\ entries[j] # NoEntry /\ entry[entries[j]].cut # "ok" =>
             SliceOf(j) = "cutting" /\ SliceOf(j)' = "cutting"
    <3>1. entries[j] # NoEntry => /\ entries[j] \in EntryIds
                                  /\ Mapped(entries[j]) /\ Mapped(entries[j])'
                                  /\ entry[entries[j]].key = j /\ entry'[entries[j]].key = j
      BY <1>3, <2>1 DEF IInv, MapSound, Mapped
    <3> QED
      BY <2>1, <2>3, <3>1 DEF SliceOf, IInv, FileMatchesCut
  <2> QED
    BY <2>4, <2>5
<1>4. /\ SliceOf(k) = "ready" => SliceOf(k)' = "ready" /\ caller'[c].pc = "holding"
      /\ SliceOf(k) # "ready" => SliceOf(k)' = "cutting" /\ caller'[c].pc = "waiting"
  <2>1. entries'[k] = e /\ Mapped(e)'
    BY <1>2 DEF IInv, Shape, Mapped
  <2>2. /\ entry'[e].cut = "ok" => SliceOf(k)' = "ready"
        /\ entry'[e].cut # "ok" => SliceOf(k)' = "cutting"
    BY <1>2, <2>1 DEF SliceOf, IInv, FileMatchesCut
  <2>3. CASE entries[k] = NoEntry
    BY <1>2, <2>2, <2>3, SliceIs
  <2>4. CASE entries[k] = e
    BY <1>2, <2>2, <2>4, SliceIs
  <2> QED
    BY <1>2, <2>3, <2>4
<1>5. ASSUME NEW b \in Callers, b # c PROVE UseOf(b)' = UseOf(b)
  <2>1. caller'[b] = caller[b] /\ closed' = closed
    BY <1>1, <1>2, <1>5 DEF AcquireNew, AcquireExisting
  <2>2. caller[b].pc \notin {"idle", "statting"} =>
          /\ entry'[caller[b].at].key = entry[caller[b].at].key
          /\ (entry'[caller[b].at].cut = "err" <=> entry[caller[b].at].cut = "err")
    BY <1>2 DEF IInv, CallersPlaced
  <2> QED
    BY <2>1, <2>2 DEF UseOf
<1>6. /\ UseOf(c) = Nothing
      /\ UseOf(c)' = Having(caller'[c].pc, k)
  <2>1. entry'[e].cut # "err"
    BY <1>2
  <2> QED
    BY <1>1, <1>2, <1>4, <2>1 DEF UseOf, Nothing, Having
<1>7. IF Slices[k] = "ready"
        THEN Uses' = [Uses EXCEPT ![c] = Having("holding", k)] /\ Slices' = Slices
        ELSE /\ Uses' = [Uses EXCEPT ![c] = Having("waiting", k)]
             /\ Slices' = [Slices EXCEPT ![k] = "cutting"]
  BY <1>3, <1>4, <1>5, <1>6 DEF Slices, Uses
<1>8. Promise!Ask(c, k)
  BY <1>1, <1>6, <1>7
  DEF Promise!Ask, Promise!Unused, Promise!Using, Slices, Uses, Nothing, Having
<1> QED
  BY <1>1, <1>8 DEF Promise!Next

\* A caller that wakes up obtains the slice, or leaves with the cut's error.
LEMMA WakeObtainsOrLeaves ==
  ASSUME IInv, IInv', ~closed, NEW c \in Callers, Wake(c) \/ Release(c)
  PROVE  Promise!Next
<1>1. PICK e \in EntryIds :
        /\ caller[c].at = e /\ caller[c].pc \in {"waiting", "holding"}
        /\ entry[e] \in TrackEntry /\ entry[e].key \in Keys
  BY DEF Wake, WakeDone, WakeCancelled, Release, IInv, CallersPlaced, Shape, TrackEntry
<1>2. /\ entries' = entries /\ closed' = closed
      /\ \A d \in EntryIds : entry'[d].key = entry[d].key /\ entry'[d].cut = entry[d].cut
  <2>0. entry \in [EntryIds -> TrackEntry]
    BY DEF IInv, Shape
  <2>1. CASE Wake(c)
    <3>1. entry[e].activeWaiters > 0
      BY <1>1, <2>1, WaiterPlaced DEF Wake, WakeDone, WakeCancelled
    <3>2. /\ Woken(entry[e]).key = entry[e].key /\ Woken(entry[e]).cut = entry[e].cut
          /\ WaiterLeft(entry[e]).key = entry[e].key /\ WaiterLeft(entry[e]).cut = entry[e].cut
      BY <1>1, <3>1, WokenFields, WaiterLeftFields
    <3> QED
      BY <1>1, <2>0, <2>1, <3>2 DEF Wake, WakeDone, WakeCancelled
  <2>2. CASE Release(c)
    <3>1. Mapped(e)
      BY <1>1, <2>2 DEF Release, IInv, UsedIsMapped
    <3>2. entry[e].refCount > 0
      <4>1. c \in Holders(e) /\ IsFiniteSet(Holders(e))
        BY <1>1, <2>2, CacheAssumption, FS_Subset DEF Release, Holders, Users, CacheAssumption
      <4> QED
        BY <1>1, <3>1, <4>1, FS_EmptySet, FS_CardinalityType
        DEF IInv, HoldersCounted, TrackEntry
    <3>3. Released(entry[e]).key = entry[e].key /\ Released(entry[e]).cut = entry[e].cut
      BY <1>1, <3>2, ReleasedFields
    <3> QED
      BY <1>1, <2>0, <2>2, <3>1, <3>3 DEF Release, Mapped
  <2> QED
    BY <2>1, <2>2
<1>3. Slices' = Slices
  BY <1>2, SlicesSame
<1>4. ASSUME NEW b \in Callers, b # c PROVE UseOf(b)' = UseOf(b)
  <2>1. caller'[b] = caller[b]
    BY <1>4 DEF Wake, WakeDone, WakeCancelled, Release, IInv, Shape
  <2> QED
    BY <1>2, <2>1, UseSame
<1>5. Uses[c] # Nothing
  BY <1>1 DEF Uses, UseOf, Nothing
<1>6. CASE caller'[c].pc = "idle"
  <2>1. UseOf(c)' = Nothing
    BY <1>6 DEF UseOf, Nothing
  <2>2. Uses' = [Uses EXCEPT ![c] = Nothing]
    BY <1>4, <2>1 DEF Uses
  <2>3. Promise!Leave(c)
    BY <1>2, <1>3, <1>5, <2>2 DEF Promise!Leave, Promise!Unused, Slices, Uses, Nothing
  <2> QED
    BY <2>3 DEF Promise!Next
<1>7. CASE caller'[c].pc # "idle"
  <2>1. /\ caller[c].pc = "waiting" /\ entry[e].cut = "ok"
        /\ caller'[c].pc = "holding" /\ caller'[c].at = e
    BY <1>1, <1>7 DEF Wake, WakeDone, WakeCancelled, Release, Done, At, Idle, IInv, Shape
  <2>2. Mapped(e) /\ entries[entry[e].key] # NoEntry
    BY <1>1, <2>1, CacheAssumption DEF IInv, UsedIsMapped, Mapped, CacheAssumption
  <2>3. Slices[entry[e].key] = "ready"
    BY <1>1, <2>1, <2>2, SliceIs DEF Slices, Mapped
  <2>4. /\ UseOf(c) = Having("waiting", entry[e].key)
        /\ UseOf(c)' = Having("holding", entry[e].key)
    BY <1>1, <1>2, <2>1 DEF UseOf, Having
  <2>5. Uses' = [Uses EXCEPT ![c] = Having("holding", entry[e].key)]
    BY <1>4, <2>4 DEF Uses
  <2>6. Promise!Obtain(c, entry[e].key)
    BY <1>1, <1>2, <1>3, <2>3, <2>4, <2>5
    DEF Promise!Obtain, Promise!Using, Slices, Uses, Having
  <2> QED
    BY <1>1, <2>6 DEF Promise!Next
<1> QED
  BY <1>6, <1>7

\* A cut that succeeds makes the slice ready.
LEMMA RunCutOkReadies ==
  ASSUME IInv, IInv', ~closed, NEW e \in EntryIds, RunCutOk(e)
  PROVE  Promise!Next
<1>1. PICK k \in Keys :
        /\ entry[e].key = k /\ entry[e] \in TrackEntry /\ entry[e].cut = "written"
        /\ entry \in [EntryIds -> TrackEntry]
        /\ entries[k] = e /\ e # NoEntry
  BY CacheAssumption
  DEF RunCutOk, IInv, Shape, TrackEntry, UsedIsMapped, Mapped, InFlight, CacheAssumption
<1>2. /\ entry'[e].key = k /\ entry'[e].cut = "ok"
      /\ \A d \in EntryIds : d # e => entry'[d] = entry[d]
      /\ entries' = entries /\ closed' = closed /\ caller' = caller
  BY <1>1, CutEndedFields DEF RunCutOk
<1>3. SliceOf(k) = "cutting" /\ SliceOf(k)' = "ready"
  <2>1. Mapped(e)'
    BY <1>1, <1>2 DEF Mapped
  <2> QED
    BY <1>1, <1>2, <2>1 DEF SliceOf, IInv, FileMatchesCut
<1>4. ASSUME NEW j \in Keys, j # k PROVE SliceOf(j)' = SliceOf(j)
  <2>1. file' = file /\ whole' = whole /\ (entries[j] # NoEntry => entries[j] \in EntryIds)
    BY DEF RunCutOk, IInv, Shape
  <2>2. entries[j] # e
    BY <1>1, <1>4 DEF IInv, MapSound
  <2> QED
    BY <1>2, <2>1, <2>2 DEF SliceOf
<1>5. \A c \in Callers : UseOf(c)' = UseOf(c)
  <2>1. \A d \in EntryIds : /\ entry'[d].key = entry[d].key
                            /\ (entry'[d].cut = "err" <=> entry[d].cut = "err")
    BY <1>1, <1>2
  <2> QED
    BY <1>2, <2>1, UseSame
<1>6. Slices' = [Slices EXCEPT ![k] = "ready"] /\ Uses' = Uses /\ Slices[k] = "cutting"
  BY <1>3, <1>4, <1>5 DEF Slices, Uses
<1>7. Promise!Ready(k)
  BY <1>2, <1>6 DEF Promise!Ready, Slices, Uses
<1> QED
  BY <1>7 DEF Promise!Next

\* A cut that fails fails for every caller that waits for it, and for no other.
LEMMA RunCutErrFails ==
  ASSUME IInv, IInv', ~closed, NEW e \in EntryIds, RunCutErr(e)
  PROVE  Promise!Next
<1>1. PICK k \in Keys :
        /\ entry[e].key = k /\ entry[e] \in TrackEntry /\ entry[e].cut = "failing"
        /\ entry \in [EntryIds -> TrackEntry] /\ entries \in [Keys -> EntryIds \cup {NoEntry}]
        /\ entries[k] = e /\ e # NoEntry
        /\ file \in [Keys -> EntryIds \cup {NoEntry}] /\ whole \in [Keys -> BOOLEAN]
  BY CacheAssumption
  DEF RunCutErr, IInv, Shape, TrackEntry, UsedIsMapped, Mapped, InFlight, CacheAssumption
<1>2. /\ entry'[e].key = k /\ entry'[e].cut = "err"
      /\ \A d \in EntryIds : d # e => entry'[d] = entry[d]
      /\ entries'[k] = NoEntry /\ closed' = closed /\ caller' = caller
      /\ \A j \in Keys : j # k => /\ entries'[j] = entries[j] /\ file'[j] = file[j]
                                  /\ whole'[j] = whole[j]
  BY <1>1 DEF RunCutErr, TrackEntry
<1>3. SliceOf(k) = "cutting" /\ SliceOf(k)' = "none"
  BY <1>1, <1>2 DEF SliceOf
<1>4. ASSUME NEW j \in Keys, j # k PROVE SliceOf(j)' = SliceOf(j)
  <2>1. entries[j] # e /\ (entries[j] # NoEntry => entries[j] \in EntryIds)
    BY <1>1, <1>4 DEF IInv, MapSound
  <2> QED
    BY <1>2, <1>4, <2>1 DEF SliceOf
<1>5. ASSUME NEW c \in Callers
      PROVE  UseOf(c)' = IF UseOf(c) = Having("waiting", k) THEN Having("failed", k) ELSE UseOf(c)
  <2>1. CASE caller[c].pc = "waiting" /\ caller[c].at = e
    BY <1>1, <1>2, <2>1 DEF UseOf, Having
  <2>2. CASE caller[c].pc = "waiting" /\ caller[c].at # e
    <3>1. PICK d \in EntryIds : d = caller[c].at /\ d # e
      BY <2>2 DEF IInv, CallersPlaced
    <3>2. entry[d].key = k => entry[d].cut = "err"
      BY <1>1, <2>2, <3>1 DEF IInv, UsedIsMapped, Mapped
    <3>3. UseOf(c)' = UseOf(c)
      BY <1>2, <3>1 DEF UseOf
    <3>4. UseOf(c) # Having("waiting", k)
      BY <2>2, <3>1, <3>2 DEF UseOf, Having
    <3> QED
      BY <3>3, <3>4
  <2>3. CASE caller[c].pc = "holding"
    <3>1. PICK d \in EntryIds : d = caller[c].at /\ d # e
      BY <1>1, <2>3 DEF IInv, CallersPlaced, UsedIsMapped
    <3>2. UseOf(c)' = UseOf(c)
      BY <1>2, <3>1 DEF UseOf
    <3>3. UseOf(c) # Having("waiting", k)
      BY <2>3 DEF UseOf, Having
    <3> QED
      BY <3>2, <3>3
  <2>4. CASE caller[c].pc \in {"idle", "statting"}
    BY <1>2, <2>4 DEF UseOf, Having
  <2> QED
    BY <2>1, <2>2, <2>3, <2>4 DEF IInv, Shape, Caller
<1>6. /\ Slices' = [Slices EXCEPT ![k] = "none"] /\ Slices[k] = "cutting"
      /\ Uses' = [c \in Callers |->
                    IF Uses[c] = Having("waiting", k) THEN Having("failed", k) ELSE Uses[c]]
  BY <1>3, <1>4, <1>5 DEF Slices, Uses
<1>7. Promise!Fail(k)
  BY <1>2, <1>6 DEF Promise!Fail, Promise!Using, Slices, Uses, Having
<1> QED
  BY <1>7 DEF Promise!Next

\* A timer callback evicts a ready slice without users, or does nothing.
LEMMA CallbackEvicts ==
  ASSUME IInv, IInv', ~closed, NEW e \in EntryIds, TimerCallback(e) \/ LateCallback(e)
  PROVE  Promise!Next \/ UNCHANGED Promise!vars
<1>1. PICK k \in Keys :
        /\ entry[e].key = k /\ entry[e] \in TrackEntry
        /\ entry \in [EntryIds -> TrackEntry] /\ entries \in [Keys -> EntryIds \cup {NoEntry}]
        /\ file \in [Keys -> EntryIds \cup {NoEntry}] /\ whole \in [Keys -> BOOLEAN]
        /\ entry[e].cut = "ok" /\ Waiters(e) = {} /\ e # NoEntry
  <2>1. entry[e].timer = "fired" \/ entry[e].late > 0
    BY DEF TimerCallback, LateCallback
  <2> QED
    BY <2>1, CacheAssumption DEF IInv, Shape, TrackEntry, TimersOnlyOnIdle, CacheAssumption
<1>2. /\ \A d \in EntryIds : entry'[d].key = entry[d].key /\ entry'[d].cut = entry[d].cut
      /\ closed' = closed /\ caller' = caller /\ Expire(e)
  <2>1. /\ closed' = closed /\ caller' = caller /\ Expire(e)
    BY DEF TimerCallback, LateCallback, Expire
  <2>2. \A d \in EntryIds : entry'[d].key = entry[d].key /\ entry'[d].cut = entry[d].cut
    BY <1>1 DEF TimerCallback, LateCallback, TrackEntry
  <2> QED
    BY <2>1, <2>2
<1>3. Uses' = Uses
  <2>1. \A c \in Callers : UseOf(c)' = UseOf(c)
    BY <1>2, UseSame
  <2> QED
    BY <2>1 DEF Uses
<1>4. CASE ~Evictable(e)
  <2>1. entries' = entries
    BY <1>2, <1>4 DEF Expire
  <2>2. Slices' = Slices
    BY <1>2, <2>1, SlicesSame
  <2> QED
    BY <1>2, <1>3, <2>2 DEF Promise!vars, Slices, Uses
<1>5. CASE Evictable(e)
  <2>1. /\ entries[k] = e /\ entry[e].refCount = 0 /\ Mapped(e)
        /\ entries'[k] = NoEntry
        /\ \A j \in Keys : j # k => /\ entries'[j] = entries[j] /\ file'[j] = file[j]
                                    /\ whole'[j] = whole[j]
    BY <1>1, <1>2, <1>5 DEF Expire, Evictable, Mapped
  <2>2. Slices[k] = "ready"
    BY <1>1, <2>1, SliceIs DEF Slices
  <2>3. SliceOf(k)' = "none"
    BY <2>1 DEF SliceOf
  <2>4. ASSUME NEW j \in Keys, j # k PROVE SliceOf(j)' = SliceOf(j)
    <3>1. entries[j] # NoEntry => entries[j] \in EntryIds
      BY <1>1
    <3> QED
      BY <1>2, <2>1, <2>4, <3>1 DEF SliceOf
  <2>5. Slices' = [Slices EXCEPT ![k] = "none"]
    BY <2>3, <2>4 DEF Slices
  <2>6. Holders(e) = {}
    <3>1. IsFiniteSet(Holders(e))
      BY CacheAssumption, FS_Subset DEF CacheAssumption, Holders, Users
    <3>2. Cardinality(Holders(e)) = 0
      BY <2>1 DEF IInv, HoldersCounted
    <3> QED
      BY <3>1, <3>2, FS_EmptySet
  <2>7. ASSUME NEW c \in Callers
        PROVE  UseOf(c) # Having("waiting", k) /\ UseOf(c) # Having("holding", k)
    <3>1. CASE caller[c].pc \in {"idle", "statting"}
      BY <3>1 DEF UseOf, Having
    <3>2. CASE caller[c].pc = "holding"
      <4>1. caller[c].at \in EntryIds /\ Mapped(caller[c].at) /\ caller[c].at # e
        BY <2>6, <3>2 DEF IInv, UsedIsMapped, CallersPlaced, Holders, Users
      <4> QED
        BY <2>1, <3>2, <4>1 DEF UseOf, Having, Mapped
    <3>3. CASE caller[c].pc = "waiting"
      <4>1. /\ caller[c].at \in EntryIds /\ caller[c].at # e
            /\ entry[caller[c].at].cut # "err" => Mapped(caller[c].at)
        BY <1>1, <3>3 DEF IInv, UsedIsMapped, CallersPlaced, Waiters, Users
      <4> QED
        BY <2>1, <3>3, <4>1 DEF UseOf, Having, Mapped
    <3> QED
      BY <3>1, <3>2, <3>3 DEF IInv, Shape, Caller
  <2>8. Promise!Evict(k)
    BY <1>2, <1>3, <2>2, <2>5, <2>7
    DEF Promise!Evict, Promise!Users, Promise!Using, Slices, Uses, Having
  <2> QED
    BY <2>8 DEF Promise!Next
<1> QED
  BY <1>4, <1>5

LEMMA ClosePromised ==
  ASSUME IInv, IInv', Close
  PROVE  Promise!Next
<1>1. \A k \in Keys : SliceOf(k)' = "none"
  BY DEF IInv, MapSound, SliceOf, Close
<1>2. \A c \in Callers : UseOf(c)' = Nothing
  BY DEF UseOf, Nothing, Close
<1>3. Promise!Close
  BY <1>1, <1>2 DEF Promise!Close, Promise!Unused, Nothing, Close
<1> QED
  BY <1>3 DEF Promise!Next, Close

LEMMA InitPromised == Init => Promise!Init
BY DEF Init, Promise!Init, Promise!Unused, SliceOf, UseOf, Idle

LEMMA StepPromised ==
  ASSUME IInv, IInv', [Next]_vars
  PROVE  [Promise!Next]_Promise!vars
<1>1. CASE closed /\ closed'
  BY <1>1, ClosedStutters DEF Promise!vars, Slices, Uses
<1>2. closed => closed'
  <2>1. ASSUME NEW c \in Callers, CallerStep(c) PROVE closed' = closed
    BY <2>1
    DEF CallerStep, AcquireNew, AcquireExisting, Lookup, AcquireRefused, CtxDone, Wake,
        WakeDone, WakeCancelled, Release, Stat, vars
  <2>2. ASSUME NEW e \in EntryIds, EntryStep(e) PROVE closed' = closed
    BY <2>2
    DEF EntryStep, CutStep, CutCreate, CutRetry, CutSucceed, CutFail, RunCut, RunCutOk,
        RunCutErr, TimerFire, TimerCallback, LateCallback, Expire
  <2> QED
    BY <2>1, <2>2 DEF Next, Close, RemoveFiles, RemoveDir, vars
<1>3. CASE ~closed
  <2>1. ASSUME NEW c \in Callers, CallerStep(c) PROVE [Promise!Next]_Promise!vars
    <3>1. CASE CtxDone(c) \/ Stat(c) \/ \E k \in Keys : Lookup(c, k)
      BY <1>3, <3>1, QuietSteps
    <3>2. CASE Wake(c) \/ Release(c)
      BY <1>3, <3>2, WakeObtainsOrLeaves
    <3>3. CASE \E k \in Keys : AcquireNew(c, k) \/ AcquireExisting(c, k)
      BY <3>3, AcquireAsks
    <3> QED
      BY <1>3, <2>1, <3>1, <3>2, <3>3 DEF CallerStep, AcquireRefused
  <2>2. ASSUME NEW e \in EntryIds, EntryStep(e) PROVE [Promise!Next]_Promise!vars
    <3>1. CASE CutStep(e) \/ TimerFire(e)
      BY <1>3, <3>1, QuietSteps
    <3>2. CASE RunCut(e)
      BY <1>3, <3>2, RunCutOkReadies, RunCutErrFails DEF RunCut
    <3>3. CASE TimerCallback(e) \/ LateCallback(e)
      BY <1>3, <3>3, CallbackEvicts
    <3> QED
      BY <2>2, <3>1, <3>2, <3>3 DEF EntryStep
  <2>3. CASE Close
    BY <2>3, ClosePromised
  <2>4. CASE UNCHANGED vars
    BY <1>3, <2>4, QuietSteps
  <2>5. ~RemoveFiles /\ ~RemoveDir
    BY <1>3 DEF RemoveFiles, RemoveDir, IInv, MapSound
  <2> QED
    BY <2>1, <2>2, <2>3, <2>4, <2>5 DEF Next
<1> QED
  BY <1>1, <1>2, <1>3

\* The manager keeps the promise of the cache.
THEOREM ManagerKeepsPromise == TTLCoversWakeup => (Spec => KeepsPromise)
<1> SUFFICES ASSUME TTLCoversWakeup PROVE Spec => KeepsPromise
  OBVIOUS
<1>1. Spec => []IInv
  BY Invariance
<1>2. Init => Promise!Init
  BY InitPromised
<1>3. IInv /\ IInv' /\ [Next]_vars => [Promise!Next]_Promise!vars
  BY StepPromised
<1> QED
  BY <1>1, <1>2, <1>3, PTL DEF Spec, KeepsPromise, Promise!Spec

=============================================================================
