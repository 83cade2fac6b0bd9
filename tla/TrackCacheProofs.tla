-------------------------- MODULE TrackCacheProofs --------------------------
(***************************************************************************)
(* Proofs about TrackCache, for every finite set of callers and all sets   *)
(* of keys and entries.                                                    *)
(***************************************************************************)
EXTENDS TrackCache, FiniteSetTheorems, TLAPS

(* The inductive invariant. What the counters count holds only together    *)
(* with where callers, cuts, files and timers of an entry may be.          *)

\* The shape of the state, without the sign of the counters.
Shape ==
  /\ entries \in [Keys -> EntryIds \cup {NoEntry}]
  /\ entry \in [EntryIds -> TrackEntry]
  /\ closed \in BOOLEAN
  /\ tempDir \in {"there", "emptied", "kept", "gone"}
  /\ file \in [Keys -> EntryIds \cup {NoEntry}]
  /\ whole \in [Keys -> BOOLEAN]
  /\ caller \in [Callers -> Caller]

\* A caller is at an entry unless it is idle, and only at one that was made.
CallersPlaced ==
  \A c \in Callers :
    /\ caller[c].pc = "idle" => caller[c].at = NoEntry
    /\ caller[c].pc # "idle" =>
         caller[c].at \in EntryIds /\ entry[caller[c].at].cut # "unused"

\* An entry in the map is in it at its own key, and its cut has not failed;
\* a closed manager has an empty map.
MapSound ==
  /\ \A k \in Keys : entries[k] # NoEntry =>
       entry[entries[k]].key = k /\ entry[entries[k]].cut \notin {"unused", "err"}
  /\ closed => \A k \in Keys : entries[k] = NoEntry
  /\ tempDir # "there" => closed

Mapped(e) == entries[entry[e].key] = e

\* An open manager keeps an entry in the map while its cut runs and while it
\* has users.
UsedIsMapped ==
  ~closed =>
    /\ \A e \in EntryIds : InFlight(e) => Mapped(e)
    /\ \A c \in Callers :
         LET e == caller[c].at IN
         /\ caller[c].pc = "holding" => Mapped(e) /\ entry[e].cut = "ok"
         /\ caller[c].pc = "waiting" /\ entry[e].cut # "err" => Mapped(e)

WaitersCounted ==
  \A e \in EntryIds : entry[e].activeWaiters = Cardinality(Waiters(e))

HoldersCounted ==
  \A e \in EntryIds : Mapped(e) => entry[e].refCount = Cardinality(Holders(e))

\* The output path of a mapped entry holds its own file from the moment the
\* cut makes it, complete once the cut has succeeded.
FileMatchesCut ==
  \A e \in EntryIds : Mapped(e) =>
    /\ entry[e].cut \in {"writing", "written", "ok"} => file[entry[e].key] = e
    /\ entry[e].cut \in {"written", "ok"} => whole[entry[e].key]

\* Timers belong to finished slices with no reference; once one has fired,
\* no waiter is left, and none can come back.
TimersOnlyOnIdle ==
  \A e \in EntryIds :
    /\ entry[e].timer # "none" => entry[e].cut = "ok" /\ entry[e].refCount = 0
    /\ entry[e].timer \in {"fired", "spent"} \/ entry[e].late > 0 =>
         entry[e].cut = "ok" /\ Waiters(e) = {}
    /\ Mapped(e) => entry[e].timer # "spent"

IInv ==
  /\ Shape
  /\ CallersPlaced
  /\ MapSound
  /\ UsedIsMapped
  /\ OneCutPerPath
  /\ WaitersCounted
  /\ HoldersCounted
  /\ FileMatchesCut
  /\ NoLeakedSlice
  /\ TimersOnlyOnIdle
  /\ IdleSliceExpires
  /\ AbandonedCutIsAborted

-----------------------------------------------------------------------------
(* Lemmas about the operators on one entry *)

\* Stopping a timer touches nothing but the timer and its late callbacks.
LEMMA StopTimerFields ==
  ASSUME NEW r \in TrackEntry
  PROVE  /\ StopTimer(r) \in TrackEntry
         /\ StopTimer(r).key = r.key
         /\ StopTimer(r).cut = r.cut
         /\ StopTimer(r).cancelled = r.cancelled
         /\ StopTimer(r).activeWaiters = r.activeWaiters
         /\ StopTimer(r).refCount = r.refCount
         /\ StopTimer(r).timer = "none"
         /\ StopTimer(r).late > 0 => r.timer = "fired" \/ r.late > 0
<1>1. (IF r.timer = "fired" THEN r.late + 1 ELSE r.late) \in Nat
  BY DEF TrackEntry
<1>2. StopTimer(r) \in TrackEntry
  BY <1>1 DEF StopTimer, TrackEntry, TimerStates
<1>3. StopTimer(r).late = IF r.timer = "fired" THEN r.late + 1 ELSE r.late
  BY DEF StopTimer, TrackEntry
<1> QED
  BY <1>2, <1>3 DEF StopTimer, TrackEntry

\* Starting a timer touches nothing but a timer that was nil.
LEMMA ScheduleFields ==
  ASSUME NEW r \in TrackEntry
  PROVE  /\ ScheduleTTL(r) \in TrackEntry
         /\ ScheduleTTL(r).key = r.key
         /\ ScheduleTTL(r).cut = r.cut
         /\ ScheduleTTL(r).cancelled = r.cancelled
         /\ ScheduleTTL(r).activeWaiters = r.activeWaiters
         /\ ScheduleTTL(r).refCount = r.refCount
         /\ ScheduleTTL(r).timer = IF r.timer = "none" THEN "armed" ELSE r.timer
         /\ ScheduleTTL(r).late = r.late
BY DEF ScheduleTTL, TrackEntry, TimerStates

\* A caller that comes to an entry in some role adds one to its users there.
LEMMA UserJoins ==
  ASSUME NEW c \in Callers, NEW pc, NEW e,
         \A b \in Callers : b # c => caller'[b] = caller[b],
         caller'[c].pc = pc, caller'[c].at = e, caller[c].pc # pc \/ caller[c].at # e
  PROVE  /\ Users(pc, e)' = Users(pc, e) \cup {c}
         /\ Cardinality(Users(pc, e)') = Cardinality(Users(pc, e)) + 1
<1>1. Users(pc, e)' = Users(pc, e) \cup {c} /\ c \notin Users(pc, e)
  BY DEF Users
<1>2. IsFiniteSet(Users(pc, e))
  BY CacheAssumption, FS_Subset DEF CacheAssumption, Users
<1>3. Cardinality(Users(pc, e) \cup {c}) = Cardinality(Users(pc, e)) + 1
  BY <1>1, <1>2, FS_AddElement
<1> QED
  BY <1>1, <1>3

\* One that leaves it takes one away.
LEMMA UserLeaves ==
  ASSUME NEW c \in Callers, NEW pc, NEW e,
         \A b \in Callers : b # c => caller'[b] = caller[b],
         caller[c].pc = pc, caller[c].at = e, caller'[c].pc # pc \/ caller'[c].at # e
  PROVE  /\ Users(pc, e)' = Users(pc, e) \ {c}
         /\ Cardinality(Users(pc, e)') = Cardinality(Users(pc, e)) - 1
         /\ Cardinality(Users(pc, e)) \in Nat \ {0}
         /\ Cardinality(Users(pc, e)') \in Nat
<1>1. Users(pc, e)' = Users(pc, e) \ {c} /\ c \in Users(pc, e)
  BY DEF Users
<1>2. IsFiniteSet(Users(pc, e))
  BY CacheAssumption, FS_Subset DEF CacheAssumption, Users
<1>3. IsFiniteSet(Users(pc, e)') /\ Cardinality(Users(pc, e)') = Cardinality(Users(pc, e)) - 1
  BY <1>1, <1>2, FS_RemoveElement
<1> QED
  BY <1>1, <1>2, <1>3, FS_CardinalityType

\* The users of every other role and entry stay the same.
LEMMA UsersElsewhere ==
  ASSUME NEW c \in Callers, NEW pc, NEW e,
         \A b \in Callers : b # c => caller'[b] = caller[b],
         caller[c].pc # pc \/ caller[c].at # e, caller'[c].pc # pc \/ caller'[c].at # e
  PROVE  Users(pc, e)' = Users(pc, e)
BY DEF Users

\* An entry nobody uses has no users, and counts none.
LEMMA NoUsers ==
  ASSUME NEW pc, NEW e, \A c \in Callers : caller[c].at # e
  PROVE  Users(pc, e) = {} /\ Cardinality(Users(pc, e)) = 0
BY FS_EmptySet DEF Users

\* A caller that finds an entry stops its timer and is counted.
LEMMA JoinedFields ==
  ASSUME NEW r \in TrackEntry, r.cut # "err"
  PROVE  /\ Joined(r) \in TrackEntry
         /\ Joined(r).key = r.key
         /\ Joined(r).cut = r.cut
         /\ Joined(r).cancelled = r.cancelled
         /\ Joined(r).activeWaiters = r.activeWaiters + (IF r.cut = "ok" THEN 0 ELSE 1)
         /\ Joined(r).refCount = r.refCount + (IF r.cut = "ok" THEN 1 ELSE 0)
         /\ Joined(r).timer = "none"
         /\ Joined(r).late > 0 => r.timer = "fired" \/ r.late > 0
<1>1. CASE r.cut = "ok"
  <2>1. Joined(r) = [StopTimer(r) EXCEPT !.refCount = @ + 1]
    BY <1>1 DEF Joined
  <2> QED
    BY <1>1, <2>1, StopTimerFields DEF TrackEntry
<1>2. CASE r.cut # "ok"
  <2>1. Joined(r) = [StopTimer(r) EXCEPT !.activeWaiters = @ + 1]
    BY <1>2 DEF Joined
  <2> QED
    BY <1>2, <2>1, StopTimerFields DEF TrackEntry
<1> QED
  BY <1>1, <1>2

\* A caller that wakes up stops waiting; unless the cut failed it stops the
\* timer and holds the slice.
LEMMA WokenFields ==
  ASSUME NEW r \in TrackEntry, r.activeWaiters > 0
  PROVE  /\ Woken(r) \in TrackEntry
         /\ Woken(r).key = r.key
         /\ Woken(r).cut = r.cut
         /\ Woken(r).cancelled = r.cancelled
         /\ Woken(r).activeWaiters = r.activeWaiters - 1
         /\ r.cut = "err" => /\ Woken(r).refCount = r.refCount
                             /\ Woken(r).timer = r.timer
                             /\ Woken(r).late = r.late
         /\ r.cut # "err" => /\ Woken(r).refCount = r.refCount + 1
                             /\ Woken(r).timer = "none"
                             /\ Woken(r).late > 0 => r.timer = "fired" \/ r.late > 0
<1> DEFINE s == [r EXCEPT !.activeWaiters = @ - 1]
<1>1. r.activeWaiters - 1 \in Nat
  BY DEF TrackEntry
<1>2. /\ s \in TrackEntry
      /\ s.activeWaiters = r.activeWaiters - 1
      /\ s.key = r.key /\ s.cut = r.cut /\ s.cancelled = r.cancelled
      /\ s.refCount = r.refCount /\ s.timer = r.timer /\ s.late = r.late
  BY <1>1 DEF TrackEntry
<1>3. CASE r.cut = "err"
  BY <1>2, <1>3 DEF Woken
<1>4. CASE r.cut # "err"
  <2>1. Woken(r) = [StopTimer(s) EXCEPT !.refCount = @ + 1]
    BY <1>4 DEF Woken
  <2> HIDE DEF s
  <2> QED
    BY <1>2, <1>4, <2>1, StopTimerFields DEF TrackEntry
<1> QED
  BY <1>3, <1>4

\* A caller that gives up stops waiting; the last one cancels the cut, or
\* starts the timer of a slice nobody holds.
LEMMA WaiterLeftFields ==
  ASSUME NEW r \in TrackEntry, r.activeWaiters > 0
  PROVE  /\ WaiterLeft(r) \in TrackEntry
         /\ WaiterLeft(r).key = r.key
         /\ WaiterLeft(r).cut = r.cut
         /\ WaiterLeft(r).cancelled = (r.cancelled \/ r.activeWaiters = 1)
         /\ WaiterLeft(r).activeWaiters = r.activeWaiters - 1
         /\ WaiterLeft(r).refCount = r.refCount
         /\ WaiterLeft(r).timer =
              IF r.activeWaiters = 1 /\ r.cut = "ok" /\ r.refCount = 0 /\ r.timer = "none"
                THEN "armed" ELSE r.timer
         /\ WaiterLeft(r).late = r.late
<1> DEFINE s == [r EXCEPT !.activeWaiters = @ - 1]
           t == [s EXCEPT !.cancelled = TRUE]
<1>1. r.activeWaiters - 1 \in Nat
  BY DEF TrackEntry
<1>2. /\ s \in TrackEntry
      /\ s.activeWaiters = r.activeWaiters - 1
      /\ s.key = r.key /\ s.cut = r.cut /\ s.cancelled = r.cancelled
      /\ s.refCount = r.refCount /\ s.timer = r.timer /\ s.late = r.late
  BY <1>1 DEF TrackEntry
<1>3. /\ t \in TrackEntry
      /\ t.activeWaiters = s.activeWaiters
      /\ t.key = r.key /\ t.cut = r.cut /\ t.cancelled = TRUE
      /\ t.refCount = r.refCount /\ t.timer = r.timer /\ t.late = r.late
  BY <1>2 DEF TrackEntry
<1>4. CASE r.activeWaiters > 1
  <2>1. s.activeWaiters > 0 /\ ~(r.activeWaiters = 1)
    BY <1>2, <1>4 DEF TrackEntry
  <2>2. WaiterLeft(r) = s
    BY <2>1 DEF WaiterLeft
  <2> HIDE DEF s, t
  <2> QED
    BY <1>2, <2>1, <2>2 DEF TrackEntry
<1>5. CASE r.activeWaiters = 1
  <2>1. ~(s.activeWaiters > 0)
    BY <1>2, <1>5
  <2> HIDE DEF t
  <2>2. CASE r.cut = "ok" /\ r.refCount = 0
    <3>1. WaiterLeft(r) = ScheduleTTL(t)
      BY <2>1, <2>2 DEF WaiterLeft, t
    <3>2. t.activeWaiters = r.activeWaiters - 1
      BY <1>2, <1>3
    <3> HIDE DEF s
    <3>3. /\ ScheduleTTL(t) \in TrackEntry
          /\ ScheduleTTL(t).key = t.key /\ ScheduleTTL(t).cut = t.cut
          /\ ScheduleTTL(t).cancelled = t.cancelled
          /\ ScheduleTTL(t).activeWaiters = t.activeWaiters
          /\ ScheduleTTL(t).refCount = t.refCount /\ ScheduleTTL(t).late = t.late
          /\ ScheduleTTL(t).timer = IF t.timer = "none" THEN "armed" ELSE t.timer
      BY <1>3, ScheduleFields
    <3> QED
      BY <1>3, <1>5, <2>2, <3>1, <3>2, <3>3
  <2>3. CASE ~(r.cut = "ok" /\ r.refCount = 0)
    <3>1. WaiterLeft(r) = t
      BY <2>1, <2>3 DEF WaiterLeft, t
    <3> QED
      BY <1>2, <1>3, <1>5, <2>3, <3>1
  <2> QED
    BY <2>2, <2>3
<1> QED
  BY <1>4, <1>5 DEF TrackEntry

\* A caller that releases a slice is no longer counted; the last one starts
\* the timer.
LEMMA ReleasedFields ==
  ASSUME NEW r \in TrackEntry, r.refCount > 0
  PROVE  /\ Released(r) \in TrackEntry
         /\ Released(r).key = r.key
         /\ Released(r).cut = r.cut
         /\ Released(r).cancelled = r.cancelled
         /\ Released(r).activeWaiters = r.activeWaiters
         /\ Released(r).refCount = r.refCount - 1
         /\ Released(r).timer = IF r.refCount = 1 /\ r.timer = "none" THEN "armed" ELSE r.timer
         /\ Released(r).late = r.late
<1>1. CASE r.refCount > 1
  <2>1. r.refCount - 1 \in Nat /\ Released(r) = [r EXCEPT !.refCount = r.refCount - 1]
    BY <1>1 DEF Released, TrackEntry
  <2> QED
    BY <1>1, <2>1 DEF TrackEntry
<1>2. CASE r.refCount = 1
  <2> DEFINE s == [r EXCEPT !.refCount = 0]
  <2>1. /\ s \in TrackEntry /\ s.refCount = 0 /\ s.activeWaiters = r.activeWaiters
        /\ s.key = r.key /\ s.cut = r.cut /\ s.cancelled = r.cancelled
        /\ s.timer = r.timer /\ s.late = r.late
    BY DEF TrackEntry
  <2>2. Released(r) = ScheduleTTL(s)
    BY <1>2 DEF Released
  <2> HIDE DEF s
  <2> QED
    BY <1>2, <2>1, <2>2, ScheduleFields
<1> QED
  BY <1>1, <1>2 DEF TrackEntry

\* A cut that succeeds with no user left starts the timer.
LEMMA CutEndedFields ==
  ASSUME NEW r \in TrackEntry
  PROVE  /\ CutEnded(r) \in TrackEntry
         /\ CutEnded(r).key = r.key
         /\ CutEnded(r).cut = "ok"
         /\ CutEnded(r).cancelled = r.cancelled
         /\ CutEnded(r).activeWaiters = r.activeWaiters
         /\ CutEnded(r).refCount = r.refCount
         /\ CutEnded(r).timer =
              IF r.activeWaiters = 0 /\ r.refCount = 0 /\ r.timer = "none"
                THEN "armed" ELSE r.timer
         /\ CutEnded(r).late = r.late
<1> DEFINE s == [r EXCEPT !.cut = "ok"]
<1>1. /\ s \in TrackEntry /\ s.refCount = r.refCount /\ s.activeWaiters = r.activeWaiters
      /\ s.key = r.key /\ s.cut = "ok" /\ s.cancelled = r.cancelled
      /\ s.timer = r.timer /\ s.late = r.late
  BY DEF TrackEntry, CutStates
<1>2. CutEnded(r) = IF r.refCount = 0 /\ r.activeWaiters = 0 THEN ScheduleTTL(s) ELSE s
  BY DEF CutEnded, TrackEntry
<1> HIDE DEF s
<1> QED
  BY <1>1, <1>2, ScheduleFields

\* Close stops the timer and cancels the cut.
LEMMA ShutDownFields ==
  ASSUME NEW r \in TrackEntry
  PROVE  /\ ShutDown(r) \in TrackEntry
         /\ ShutDown(r).key = r.key
         /\ ShutDown(r).cut = r.cut
         /\ ShutDown(r).cancelled = TRUE
         /\ ShutDown(r).activeWaiters = r.activeWaiters
         /\ ShutDown(r).refCount = r.refCount
         /\ ShutDown(r).timer = "none"
         /\ ShutDown(r).late > 0 => r.timer = "fired" \/ r.late > 0
<1> DEFINE s == StopTimer(r)
<1>1. ShutDown(r) = [s EXCEPT !.cancelled = TRUE]
  BY DEF ShutDown
<1>2. /\ s \in TrackEntry /\ s.key = r.key /\ s.cut = r.cut
      /\ s.activeWaiters = r.activeWaiters /\ s.refCount = r.refCount
      /\ s.timer = "none" /\ (s.late > 0 => r.timer = "fired" \/ r.late > 0)
  BY StopTimerFields
<1> HIDE DEF s
<1>3. ShutDown(r) \in TrackEntry
  BY <1>1, <1>2 DEF TrackEntry
<1>4. /\ ShutDown(r).key = s.key /\ ShutDown(r).cut = s.cut
      /\ ShutDown(r).cancelled = TRUE
      /\ ShutDown(r).activeWaiters = s.activeWaiters
      /\ ShutDown(r).refCount = s.refCount
      /\ ShutDown(r).timer = s.timer /\ ShutDown(r).late = s.late
  BY <1>1, <1>2 DEF TrackEntry
<1> QED
  BY <1>2, <1>3, <1>4

-----------------------------------------------------------------------------
(* Every action preserves the invariant. *)

\* A waiting caller is at an entry that counts it.
LEMMA WaiterPlaced ==
  ASSUME IInv, NEW c \in Callers, caller[c].pc = "waiting"
  PROVE  /\ caller[c].at \in EntryIds
         /\ caller[c].at # NoEntry
         /\ entry[caller[c].at] \in TrackEntry
         /\ entry[caller[c].at].cut # "unused"
         /\ c \in Waiters(caller[c].at)
         /\ entry[caller[c].at].activeWaiters > 0
<1> DEFINE e == caller[c].at
<1>1. e \in EntryIds /\ entry[e] \in TrackEntry /\ entry[e].cut # "unused"
  BY DEF IInv, CallersPlaced, Shape
<1>2. c \in Waiters(e)
  BY DEF Waiters, Users
<1>3. IsFiniteSet(Waiters(e))
  BY CacheAssumption, FS_Subset DEF CacheAssumption, Waiters, Users
<1>4. Cardinality(Waiters(e)) # 0 /\ Cardinality(Waiters(e)) \in Nat
  BY <1>2, <1>3, FS_EmptySet, FS_CardinalityType
<1> QED
  BY <1>1, <1>2, <1>4, CacheAssumption DEF IInv, WaitersCounted, CacheAssumption

LEMMA WakeDoneKeeps ==
  ASSUME IInv, NEW c \in Callers, WakeDone(c)
  PROVE  IInv'
<1> USE DEF IInv
<1>1. PICK e \in EntryIds :
        /\ caller[c].pc = "waiting" /\ caller[c].at = e /\ e # NoEntry
        /\ entry[e] \in TrackEntry /\ entry[e].activeWaiters > 0
        /\ entry[e].cut \in {"ok", "err"} /\ c \in Waiters(e)
  BY WaiterPlaced DEF WakeDone, Done
<1>2. PICK s \in TrackEntry :
        /\ entry' = [entry EXCEPT ![e] = s]
        /\ s.key = entry[e].key /\ s.cut = entry[e].cut /\ s.cancelled = entry[e].cancelled
        /\ s.activeWaiters = entry[e].activeWaiters - 1
        /\ s.cut = "err" => /\ s.refCount = entry[e].refCount
                            /\ s.timer = entry[e].timer /\ s.late = entry[e].late
        /\ s.cut = "ok" => /\ s.refCount = entry[e].refCount + 1 /\ s.timer = "none"
                           /\ s.late > 0 => entry[e].timer = "fired" \/ entry[e].late > 0
  <2>1. entry' = [entry EXCEPT ![e] = Woken(entry[e])]
    BY <1>1 DEF WakeDone
  <2> QED
    BY <1>1, <2>1, WokenFields
<1>3. PICK v \in Caller :
        /\ caller' = [caller EXCEPT ![c] = v]
        /\ entry[e].cut = "ok" => v.pc = "holding" /\ v.at = e
        /\ entry[e].cut = "err" => v.pc = "idle" /\ v.at = NoEntry
  <2> DEFINE w == IF entry[e].cut = "ok" THEN At("holding", e) ELSE Idle
  <2>1. /\ w \in Caller
        /\ entry[e].cut = "ok" => w.pc = "holding" /\ w.at = e
        /\ entry[e].cut = "err" => w.pc = "idle" /\ w.at = NoEntry
    BY <1>1 DEF Idle, At, Caller
  <2>2. caller' = [caller EXCEPT ![c] = w]
    BY <1>1 DEF WakeDone
  <2> QED
    BY <2>1, <2>2
<1>6. UNCHANGED <<entries, closed, tempDir, file, whole>>
  BY DEF WakeDone
<1>8. /\ entry \in [EntryIds -> TrackEntry] /\ caller \in [Callers -> Caller]
      /\ entry'[e] = s /\ \A d \in EntryIds : d # e => entry'[d] = entry[d]
      /\ \A d \in EntryIds : entry'[d].key = entry[d].key /\ entry'[d].cut = entry[d].cut
      /\ \A d \in EntryIds : entry'[d].cancelled = entry[d].cancelled
      /\ caller'[c] = v /\ \A b \in Callers : b # c => caller'[b] = caller[b]
  BY <1>1, <1>2, <1>3 DEF Shape
<1>9. /\ Waiters(e)' = Waiters(e) \ {c}
      /\ Cardinality(Waiters(e)') = Cardinality(Waiters(e)) - 1
  BY <1>1, <1>3, <1>8, UserLeaves DEF Waiters
<1>10. /\ entry[e].cut = "ok" => Holders(e)' = Holders(e) \cup {c}
                          /\ Cardinality(Holders(e)') = Cardinality(Holders(e)) + 1
       /\ entry[e].cut = "err" => Holders(e)' = Holders(e)
  <2>1. CASE entry[e].cut = "ok"
    BY <1>1, <1>3, <1>8, <2>1, UserJoins DEF Holders
  <2>2. CASE entry[e].cut = "err"
    BY <1>1, <1>3, <1>8, <2>2, UsersElsewhere DEF Holders
  <2> QED
    BY <2>1, <2>2
<1>11. ASSUME NEW d \in EntryIds, d # e
       PROVE  Waiters(d)' = Waiters(d) /\ Holders(d)' = Holders(d)
  BY <1>1, <1>3, <1>8, <1>11, UsersElsewhere DEF Waiters, Holders
<1>12. Shape'
  BY <1>1, <1>2, <1>3, <1>6 DEF Shape
<1>13. CallersPlaced'
  BY <1>1, <1>3, <1>8 DEF CallersPlaced
<1>14. MapSound'
  BY <1>6, <1>8 DEF MapSound, Shape
<1>15. UsedIsMapped'
  BY <1>1, <1>3, <1>6, <1>8 DEF UsedIsMapped, Mapped, InFlight, CallersPlaced
<1>16. OneCutPerPath'
  BY <1>8 DEF OneCutPerPath, InFlight
<1>17. WaitersCounted'
  <2>1. entry'[e].activeWaiters = Cardinality(Waiters(e)')
    BY <1>2, <1>8, <1>9 DEF WaitersCounted
  <2>2. ASSUME NEW d \in EntryIds, d # e
        PROVE  entry'[d].activeWaiters = Cardinality(Waiters(d)')
    BY <1>8, <1>11, <2>2 DEF WaitersCounted
  <2> QED
    BY <2>1, <2>2 DEF WaitersCounted
<1>18. HoldersCounted'
  BY <1>1, <1>2, <1>6, <1>8, <1>10, <1>11 DEF HoldersCounted, Mapped
<1>19. FileMatchesCut'
  BY <1>6, <1>8 DEF FileMatchesCut, Mapped
<1>20. NoLeakedSlice'
  BY <1>6 DEF NoLeakedSlice
<1>21. TimersOnlyOnIdle'
  <2>1. s.timer = "none" /\ ~(s.late > 0)
    BY <1>1, <1>2 DEF TimersOnlyOnIdle
  <2>2. ASSUME NEW d \in EntryIds, d # e
        PROVE  entry'[d] = entry[d] /\ Waiters(d)' = Waiters(d) /\ (Mapped(d)' <=> Mapped(d))
    BY <1>6, <1>8, <1>11, <2>2 DEF Mapped
  <2> QED
    BY <1>1, <1>2, <1>8, <2>1, <2>2 DEF TimersOnlyOnIdle
<1>22. IdleSliceExpires'
  <2>1. entry[e].cut = "ok" => s.refCount # 0
    BY <1>1, <1>2 DEF TrackEntry
  <2>2. ASSUME NEW k \in Keys, NEW d \in EntryIds, d # e, entries'[k] = d,
               entry'[d].cut = "ok", entry'[d].refCount = 0, Waiters(d)' = {}
        PROVE  entry'[d].timer \in {"armed", "fired"}
    BY <1>6, <1>8, <1>11, <2>2 DEF IdleSliceExpires
  <2> QED
    BY <1>1, <1>2, <1>8, <2>1, <2>2 DEF IdleSliceExpires
<1>23. AbandonedCutIsAborted'
  BY <1>1, <1>6, <1>8, <1>11 DEF AbandonedCutIsAborted
<1> QED
  BY <1>12, <1>13, <1>14, <1>15, <1>16, <1>17, <1>18, <1>19, <1>20, <1>21, <1>22, <1>23

LEMMA WakeCancelledKeeps ==
  ASSUME IInv, NEW c \in Callers, WakeCancelled(c)
  PROVE  IInv'
<1> USE DEF IInv
<1>1. PICK e \in EntryIds :
        /\ caller[c].pc = "waiting" /\ caller[c].at = e /\ e # NoEntry
        /\ entry[e] \in TrackEntry /\ entry[e].activeWaiters > 0 /\ c \in Waiters(e)
  BY WaiterPlaced DEF WakeCancelled
<1>2. PICK s \in TrackEntry :
        /\ entry' = [entry EXCEPT ![e] = s]
        /\ s.key = entry[e].key /\ s.cut = entry[e].cut
        /\ s.cancelled = (entry[e].cancelled \/ entry[e].activeWaiters = 1)
        /\ s.activeWaiters = entry[e].activeWaiters - 1
        /\ s.refCount = entry[e].refCount
        /\ s.timer = IF /\ entry[e].activeWaiters = 1 /\ entry[e].cut = "ok"
                        /\ entry[e].refCount = 0 /\ entry[e].timer = "none"
                       THEN "armed" ELSE entry[e].timer
        /\ s.late = entry[e].late
  <2>1. entry' = [entry EXCEPT ![e] = WaiterLeft(entry[e])]
    BY <1>1 DEF WakeCancelled
  <2> QED
    BY <1>1, <2>1, WaiterLeftFields
<1>3. PICK v \in Caller : caller' = [caller EXCEPT ![c] = v] /\ v.pc = "idle" /\ v.at = NoEntry
  <2>1. Idle \in Caller /\ Idle.pc = "idle" /\ Idle.at = NoEntry
    BY DEF Idle, Caller
  <2> QED
    BY <2>1 DEF WakeCancelled
<1>6. UNCHANGED <<entries, closed, tempDir, file, whole>>
  BY DEF WakeCancelled
<1>8. /\ entry \in [EntryIds -> TrackEntry] /\ caller \in [Callers -> Caller]
      /\ entry'[e] = s /\ \A d \in EntryIds : d # e => entry'[d] = entry[d]
      /\ \A d \in EntryIds : entry'[d].key = entry[d].key /\ entry'[d].cut = entry[d].cut
      /\ caller'[c] = v /\ \A b \in Callers : b # c => caller'[b] = caller[b]
  BY <1>1, <1>2, <1>3 DEF Shape
<1>9. /\ Waiters(e)' = Waiters(e) \ {c}
      /\ Cardinality(Waiters(e)') = Cardinality(Waiters(e)) - 1
  <2>1. caller[c].pc = "waiting" /\ caller[c].at = e /\ caller'[c].pc # "waiting"
    BY <1>1, <1>3, <1>8
  <2> QED
    BY <1>8, <2>1, UserLeaves DEF Waiters
<1>10. Waiters(e)' = {} => entry[e].activeWaiters = 1
  <2>1. entry[e].activeWaiters \in Nat
    BY <1>1 DEF TrackEntry
  <2>2. Waiters(e)' = {} => Cardinality(Waiters(e)') = 0
    BY FS_EmptySet
  <2> QED
    BY <1>9, <2>1, <2>2 DEF WaitersCounted
<1>11. /\ \A d \in EntryIds : d # e => Waiters(d)' = Waiters(d)
       /\ \A d \in EntryIds : Holders(d)' = Holders(d)
  BY <1>1, <1>3, <1>8, UsersElsewhere DEF Waiters, Holders
<1>12. Shape'
  BY <1>1, <1>2, <1>3, <1>6 DEF Shape
<1>13. CallersPlaced'
  BY <1>1, <1>3, <1>8 DEF CallersPlaced
<1>14. MapSound'
  BY <1>6, <1>8 DEF MapSound, Shape
<1>15. UsedIsMapped'
  BY <1>1, <1>3, <1>6, <1>8 DEF UsedIsMapped, Mapped, InFlight, CallersPlaced
<1>16. OneCutPerPath'
  BY <1>8 DEF OneCutPerPath, InFlight
<1>17. WaitersCounted'
  <2>1. entry'[e].activeWaiters = Cardinality(Waiters(e)')
    BY <1>2, <1>8, <1>9 DEF WaitersCounted
  <2>2. ASSUME NEW d \in EntryIds, d # e
        PROVE  entry'[d].activeWaiters = Cardinality(Waiters(d)')
    BY <1>8, <1>11, <2>2 DEF WaitersCounted
  <2> QED
    BY <2>1, <2>2 DEF WaitersCounted
<1>18. HoldersCounted'
  BY <1>1, <1>2, <1>6, <1>8, <1>11 DEF HoldersCounted, Mapped
<1>19. FileMatchesCut'
  BY <1>6, <1>8 DEF FileMatchesCut, Mapped
<1>20. NoLeakedSlice'
  BY <1>6 DEF NoLeakedSlice
<1>21. TimersOnlyOnIdle'
  <2>1. entry[e].timer \notin {"fired", "spent"} /\ ~(entry[e].late > 0)
    BY <1>1 DEF TimersOnlyOnIdle
  <2>2. ASSUME NEW d \in EntryIds, d # e
        PROVE  entry'[d] = entry[d] /\ Waiters(d)' = Waiters(d) /\ (Mapped(d)' <=> Mapped(d))
    BY <1>6, <1>8, <1>11, <2>2 DEF Mapped
  <2> QED
    BY <1>1, <1>2, <1>8, <2>1, <2>2 DEF TimersOnlyOnIdle
<1>22. IdleSliceExpires'
  <2>1. Waiters(e)' = {} /\ s.cut = "ok" /\ s.refCount = 0 => s.timer = "armed"
    BY <1>1, <1>2, <1>10 DEF TimersOnlyOnIdle, TrackEntry, TimerStates
  <2>2. ASSUME NEW k \in Keys, NEW d \in EntryIds, d # e, entries'[k] = d,
               entry'[d].cut = "ok", entry'[d].refCount = 0, Waiters(d)' = {}
        PROVE  entry'[d].timer \in {"armed", "fired"}
    BY <1>6, <1>8, <1>11, <2>2 DEF IdleSliceExpires
  <2> QED
    BY <1>1, <1>2, <1>8, <2>1, <2>2 DEF IdleSliceExpires
<1>23. AbandonedCutIsAborted'
  <2>1. ASSUME NEW d \in EntryIds, d # e, entry'[d].cut \in {"queued", "writing"},
               closed' \/ Waiters(d)' = {}
        PROVE  entry'[d].cancelled
    BY <1>6, <1>8, <1>11, <2>1 DEF AbandonedCutIsAborted
  <2>2. ASSUME entry'[e].cut \in {"queued", "writing"}, closed' \/ Waiters(e)' = {}
        PROVE  entry'[e].cancelled
    <3>1. CASE closed
      BY <1>1, <1>2, <1>8, <2>2, <3>1 DEF AbandonedCutIsAborted
    <3>2. CASE ~closed
      BY <1>2, <1>6, <1>8, <1>10, <2>2, <3>2
    <3> QED
      BY <3>1, <3>2
  <2> QED
    BY <2>1, <2>2 DEF AbandonedCutIsAborted
<1> QED
  BY <1>12, <1>13, <1>14, <1>15, <1>16, <1>17, <1>18, <1>19, <1>20, <1>21, <1>22, <1>23

\* Release finds the entry its caller holds, or a closed manager's empty map.
LEMMA ReleaseKeeps ==
  ASSUME IInv, NEW c \in Callers, Release(c)
  PROVE  IInv'
<1> USE DEF IInv
<1>1. PICK e \in EntryIds :
        /\ caller[c].pc = "holding" /\ caller[c].at = e
        /\ entry[e] \in TrackEntry /\ e # NoEntry /\ entry[e].key \in Keys
        /\ ~closed => Mapped(e) /\ entry[e].cut = "ok"
  BY CacheAssumption
  DEF CacheAssumption, Release, CallersPlaced, Shape, UsedIsMapped, TrackEntry
<1>2. PICK v \in Caller : caller' = [caller EXCEPT ![c] = v] /\ v.pc = "idle" /\ v.at = NoEntry
  <2>1. Idle \in Caller /\ Idle.pc = "idle" /\ Idle.at = NoEntry
    BY DEF Idle, Caller
  <2> QED
    BY <2>1 DEF Release
<1>3. UNCHANGED <<entries, closed, tempDir, file, whole>>
  BY DEF Release
<1>4. /\ entry \in [EntryIds -> TrackEntry] /\ caller \in [Callers -> Caller]
      /\ caller'[c] = v /\ \A b \in Callers : b # c => caller'[b] = caller[b]
  BY <1>2 DEF Shape
<1>5. /\ Holders(e)' = Holders(e) \ {c}
      /\ Cardinality(Holders(e)') = Cardinality(Holders(e)) - 1
      /\ Cardinality(Holders(e)) \in Nat \ {0}
  BY <1>1, <1>2, <1>4, UserLeaves DEF Holders
<1>6. /\ \A d \in EntryIds : d # e => Holders(d)' = Holders(d)
      /\ \A d \in EntryIds : Waiters(d)' = Waiters(d)
  BY <1>1, <1>2, <1>4, UsersElsewhere DEF Waiters, Holders
<1>7. CASE closed
  <2>1. /\ entry' = entry
        /\ \A d \in EntryIds : ~Mapped(d) /\ ~Mapped(d)'
    BY <1>1, <1>3, <1>7, CacheAssumption
    DEF CacheAssumption, Release, MapSound, Mapped, Shape, TrackEntry
  <2>2. Shape' /\ CallersPlaced' /\ MapSound'
    BY <1>1, <1>2, <1>3, <1>4, <2>1 DEF Shape, CallersPlaced, MapSound
  <2>3. UsedIsMapped' /\ OneCutPerPath' /\ NoLeakedSlice'
    BY <1>3, <1>7, <2>1 DEF UsedIsMapped, OneCutPerPath, InFlight, NoLeakedSlice
  <2>4. WaitersCounted' /\ HoldersCounted' /\ FileMatchesCut'
    BY <1>6, <2>1 DEF WaitersCounted, HoldersCounted, FileMatchesCut
  <2>5. TimersOnlyOnIdle' /\ AbandonedCutIsAborted'
    BY <1>3, <1>6, <2>1 DEF TimersOnlyOnIdle, AbandonedCutIsAborted
  <2>6. IdleSliceExpires'
    BY <1>3, <1>7, CacheAssumption DEF CacheAssumption, IdleSliceExpires, MapSound
  <2> QED
    BY <2>2, <2>3, <2>4, <2>5, <2>6
<1>8. CASE ~closed
  <2>1. entry[e].refCount > 0 /\ entry[e].timer = "none"
    BY <1>1, <1>5, <1>8 DEF HoldersCounted, TimersOnlyOnIdle
  <2>2. PICK s \in TrackEntry :
          /\ entry' = [entry EXCEPT ![e] = s]
          /\ s.key = entry[e].key /\ s.cut = entry[e].cut
          /\ s.cancelled = entry[e].cancelled
          /\ s.activeWaiters = entry[e].activeWaiters
          /\ s.refCount = entry[e].refCount - 1
          /\ s.timer = IF entry[e].refCount = 1 THEN "armed" ELSE "none"
          /\ s.late = entry[e].late
    <3>1. entry' = [entry EXCEPT ![e] = Released(entry[e])]
      BY <1>1, <1>8 DEF Release, Mapped
    <3>2. /\ Released(entry[e]) \in TrackEntry
          /\ Released(entry[e]).key = entry[e].key
          /\ Released(entry[e]).cut = entry[e].cut
          /\ Released(entry[e]).cancelled = entry[e].cancelled
          /\ Released(entry[e]).activeWaiters = entry[e].activeWaiters
          /\ Released(entry[e]).refCount = entry[e].refCount - 1
          /\ Released(entry[e]).timer = IF entry[e].refCount = 1 THEN "armed" ELSE "none"
          /\ Released(entry[e]).late = entry[e].late
      BY <1>1, <2>1, ReleasedFields
    <3> QED
      BY <3>1, <3>2
  <2>3. /\ entry'[e] = s /\ \A d \in EntryIds : d # e => entry'[d] = entry[d]
        /\ \A d \in EntryIds : entry'[d].key = entry[d].key /\ entry'[d].cut = entry[d].cut
        /\ \A d \in EntryIds : entry'[d].cancelled = entry[d].cancelled
        /\ \A d \in EntryIds : entry'[d].activeWaiters = entry[d].activeWaiters
    BY <1>4, <2>2
  <2>4. Shape'
    BY <1>1, <1>2, <1>3, <2>2 DEF Shape
  <2>5. CallersPlaced' /\ MapSound'
    BY <1>1, <1>2, <1>3, <1>4, <2>3 DEF CallersPlaced, MapSound, Shape
  <2>6. UsedIsMapped'
    BY <1>1, <1>2, <1>3, <1>4, <2>3 DEF UsedIsMapped, Mapped, InFlight, CallersPlaced
  <2>7. OneCutPerPath' /\ NoLeakedSlice'
    BY <1>3, <2>3 DEF OneCutPerPath, InFlight, NoLeakedSlice
  <2>8. WaitersCounted'
    BY <1>6, <2>3 DEF WaitersCounted
  <2>9. HoldersCounted'
    <3>1. \A d \in EntryIds : Mapped(d)' <=> Mapped(d)
      BY <1>3, <2>3 DEF Mapped
    <3>2. ASSUME NEW d \in EntryIds, d # e, Mapped(d)
          PROVE  entry'[d].refCount = Cardinality(Holders(d)')
      BY <1>6, <2>3, <3>2 DEF HoldersCounted
    <3>3. ASSUME Mapped(e)
          PROVE  entry'[e].refCount = Cardinality(Holders(e)')
      BY <1>1, <1>5, <2>2, <2>3, <3>3 DEF HoldersCounted
    <3> QED
      BY <3>1, <3>2, <3>3 DEF HoldersCounted
  <2>10. FileMatchesCut'
    BY <1>3, <2>3 DEF FileMatchesCut, Mapped
  <2>11. TimersOnlyOnIdle'
    <3>1. ASSUME NEW d \in EntryIds, d # e
          PROVE  entry'[d] = entry[d] /\ Waiters(d)' = Waiters(d) /\ (Mapped(d)' <=> Mapped(d))
      BY <1>3, <1>6, <2>3, <3>1 DEF Mapped
    <3>2. s.timer \in {"none", "armed"} /\ (s.timer # "none" => s.refCount = 0)
      BY <1>1, <2>2 DEF TrackEntry
    <3> QED
      BY <1>1, <1>6, <1>8, <2>2, <2>3, <3>1, <3>2 DEF TimersOnlyOnIdle
  <2>12. IdleSliceExpires'
    <3>1. s.refCount = 0 => s.timer = "armed"
      BY <1>1, <2>2 DEF TrackEntry
    <3>2. ASSUME NEW k \in Keys, NEW d \in EntryIds, d # e, entries'[k] = d,
                 entry'[d].cut = "ok", entry'[d].refCount = 0, Waiters(d)' = {}
          PROVE  entry'[d].timer \in {"armed", "fired"}
      BY <1>3, <1>6, <2>3, <3>2 DEF IdleSliceExpires
    <3> QED
      BY <2>3, <3>1, <3>2 DEF IdleSliceExpires
  <2>13. AbandonedCutIsAborted'
    BY <1>3, <1>6, <2>3 DEF AbandonedCutIsAborted
  <2> QED
    BY <2>4, <2>5, <2>6, <2>7, <2>8, <2>9, <2>10, <2>11, <2>12, <2>13
<1> QED
  BY <1>7, <1>8

LEMMA AcquireExistingKeeps ==
  ASSUME IInv, NEW c \in Callers, NEW k \in Keys, AcquireExisting(c, k)
  PROVE  IInv'
<1> USE DEF IInv
<1>1. PICK e \in EntryIds :
        /\ entries[k] = e /\ e # NoEntry /\ entry[e] \in TrackEntry
        /\ entry[e].key = k /\ entry[e].cut \notin {"unused", "err"}
        /\ caller[c].pc = "idle" /\ caller[c].at = NoEntry /\ ~closed
  BY DEF AcquireExisting, Shape, MapSound, CallersPlaced
<1>2. PICK s \in TrackEntry :
        /\ entry' = [entry EXCEPT ![e] = s]
        /\ s.key = entry[e].key /\ s.cut = entry[e].cut
        /\ s.cancelled = entry[e].cancelled
        /\ s.activeWaiters = entry[e].activeWaiters + (IF entry[e].cut = "ok" THEN 0 ELSE 1)
        /\ s.refCount = entry[e].refCount + (IF entry[e].cut = "ok" THEN 1 ELSE 0)
        /\ s.timer = "none"
        /\ s.late > 0 => entry[e].timer = "fired" \/ entry[e].late > 0
  <2>1. entry' = [entry EXCEPT ![e] = Joined(entry[e])]
    BY <1>1 DEF AcquireExisting
  <2> QED
    BY <1>1, <2>1, JoinedFields
<1>3. PICK v \in Caller :
        /\ caller' = [caller EXCEPT ![c] = v]
        /\ v.at = e
        /\ v.pc = IF entry[e].cut = "ok" THEN "holding" ELSE "waiting"
  <2> DEFINE w == At(IF entry[e].cut = "ok" THEN "holding" ELSE "waiting", e)
  <2>1. w \in Caller /\ w.at = e /\ w.pc = IF entry[e].cut = "ok" THEN "holding" ELSE "waiting"
    BY DEF At, Caller
  <2>2. caller' = [caller EXCEPT ![c] = w]
    BY <1>1 DEF AcquireExisting
  <2> QED
    BY <2>1, <2>2
<1>4. UNCHANGED <<entries, closed, tempDir, file, whole>>
  BY DEF AcquireExisting
<1>5. /\ entry \in [EntryIds -> TrackEntry] /\ caller \in [Callers -> Caller]
      /\ entry'[e] = s /\ \A d \in EntryIds : d # e => entry'[d] = entry[d]
      /\ \A d \in EntryIds : entry'[d].key = entry[d].key /\ entry'[d].cut = entry[d].cut
      /\ \A d \in EntryIds : entry'[d].cancelled = entry[d].cancelled
      /\ caller'[c] = v /\ \A b \in Callers : b # c => caller'[b] = caller[b]
  BY <1>1, <1>2, <1>3 DEF Shape
<1>6. /\ v.pc = "waiting" => /\ Waiters(e)' = Waiters(e) \cup {c}
                             /\ Cardinality(Waiters(e)') = Cardinality(Waiters(e)) + 1
      /\ v.pc = "holding" => Waiters(e)' = Waiters(e)
  <2>1. caller[c].pc # "waiting" /\ caller'[c] = v /\ v.at = e
    BY <1>1, <1>3, <1>5
  <2>2. CASE v.pc = "waiting"
    BY <1>5, <2>1, <2>2, UserJoins DEF Waiters
  <2>3. CASE v.pc = "holding"
    BY <1>5, <2>1, <2>3, UsersElsewhere DEF Waiters
  <2> QED
    BY <2>2, <2>3
<1>7. /\ v.pc = "holding" => /\ Holders(e)' = Holders(e) \cup {c}
                             /\ Cardinality(Holders(e)') = Cardinality(Holders(e)) + 1
      /\ v.pc = "waiting" => Holders(e)' = Holders(e)
  <2>1. caller[c].pc # "holding" /\ caller'[c] = v /\ v.at = e
    BY <1>1, <1>3, <1>5
  <2>2. CASE v.pc = "holding"
    BY <1>5, <2>1, <2>2, UserJoins DEF Holders
  <2>3. CASE v.pc = "waiting"
    BY <1>5, <2>1, <2>3, UsersElsewhere DEF Holders
  <2> QED
    BY <2>2, <2>3
<1>8. ASSUME NEW d \in EntryIds, d # e
      PROVE  Waiters(d)' = Waiters(d) /\ Holders(d)' = Holders(d)
  <2>1. caller[c].at # d /\ caller'[c].at # d
    BY <1>1, <1>3, <1>5, <1>8, CacheAssumption DEF CacheAssumption
  <2> QED
    BY <1>5, <2>1, UsersElsewhere DEF Waiters, Holders
<1>12. Shape'
  BY <1>1, <1>2, <1>3, <1>4 DEF Shape
<1>13. CallersPlaced'
  BY <1>1, <1>3, <1>5 DEF CallersPlaced
<1>14. MapSound'
  BY <1>4, <1>5 DEF MapSound, Shape
<1>15. UsedIsMapped'
  BY <1>1, <1>3, <1>4, <1>5 DEF UsedIsMapped, Mapped, InFlight, CallersPlaced
<1>16. OneCutPerPath'
  BY <1>5 DEF OneCutPerPath, InFlight
<1>17. WaitersCounted'
  <2>1. entry'[e].activeWaiters = Cardinality(Waiters(e)')
    BY <1>1, <1>2, <1>3, <1>5, <1>6 DEF WaitersCounted, TrackEntry
  <2>2. ASSUME NEW d \in EntryIds, d # e
        PROVE  entry'[d].activeWaiters = Cardinality(Waiters(d)')
    BY <1>5, <1>8, <2>2 DEF WaitersCounted
  <2> QED
    BY <2>1, <2>2 DEF WaitersCounted
<1>18. HoldersCounted'
  <2>1. entry'[e].refCount = Cardinality(Holders(e)')
    BY <1>1, <1>2, <1>3, <1>5, <1>7 DEF HoldersCounted, Mapped, TrackEntry
  <2>2. ASSUME NEW d \in EntryIds, d # e, Mapped(d)'
        PROVE  entry'[d].refCount = Cardinality(Holders(d)')
    BY <1>4, <1>5, <1>8, <2>2 DEF HoldersCounted, Mapped
  <2> QED
    BY <2>1, <2>2 DEF HoldersCounted
<1>19. FileMatchesCut'
  BY <1>4, <1>5 DEF FileMatchesCut, Mapped
<1>20. NoLeakedSlice'
  BY <1>4 DEF NoLeakedSlice
<1>21. TimersOnlyOnIdle'
  <2>1. s.late > 0 => entry[e].cut = "ok" /\ Waiters(e) = {} /\ Waiters(e)' = Waiters(e)
    BY <1>1, <1>2, <1>3, <1>6 DEF TimersOnlyOnIdle
  <2>2. ASSUME NEW d \in EntryIds, d # e
        PROVE  entry'[d] = entry[d] /\ Waiters(d)' = Waiters(d) /\ (Mapped(d)' <=> Mapped(d))
    BY <1>4, <1>5, <1>8, <2>2 DEF Mapped
  <2> QED
    BY <1>1, <1>2, <1>5, <2>1, <2>2 DEF TimersOnlyOnIdle
<1>22. IdleSliceExpires'
  <2>1. s.cut = "ok" => s.refCount # 0
    BY <1>1, <1>2 DEF TrackEntry
  <2>2. ASSUME NEW j \in Keys, NEW d \in EntryIds, d # e, entries'[j] = d,
               entry'[d].cut = "ok", entry'[d].refCount = 0, Waiters(d)' = {}
        PROVE  entry'[d].timer \in {"armed", "fired"}
    BY <1>4, <1>5, <1>8, <2>2 DEF IdleSliceExpires
  <2> QED
    BY <1>1, <1>2, <1>5, <2>1, <2>2 DEF IdleSliceExpires
<1>23. AbandonedCutIsAborted'
  <2>1. entry[e].cut \in {"queued", "writing"} => Waiters(e)' # {}
    BY <1>1, <1>3, <1>6
  <2> QED
    BY <1>1, <1>4, <1>5, <1>8, <2>1 DEF AbandonedCutIsAborted
<1> QED
  BY <1>12, <1>13, <1>14, <1>15, <1>16, <1>17, <1>18, <1>19, <1>20, <1>21, <1>22, <1>23

LEMMA AcquireNewKeeps ==
  ASSUME IInv, NEW c \in Callers, NEW k \in Keys, AcquireNew(c, k)
  PROVE  IInv'
<1> USE DEF IInv
<1>1. PICK e \in EntryIds :
        /\ Collected(e)
        /\ entries' = [entries EXCEPT ![k] = e]
        /\ entry' = [entry EXCEPT ![e] = NewEntry(k)]
        /\ caller' = [caller EXCEPT ![c] = At("waiting", e)]
  BY DEF AcquireNew
<1>2. PICK s \in TrackEntry :
        /\ s = NewEntry(k) /\ s.key = k /\ s.cut = "queued" /\ s.activeWaiters = 1
        /\ s.refCount = 0 /\ s.timer = "none" /\ s.late = 0
  <2>1. NewEntry(k) \in TrackEntry
    BY DEF NewEntry, TrackEntry, CutStates, TimerStates
  <2> QED
    BY <2>1 DEF NewEntry
<1>3. PICK v \in Caller : v = At("waiting", e) /\ v.pc = "waiting" /\ v.at = e
  <2>1. At("waiting", e) \in Caller
    BY DEF At, Caller
  <2> QED
    BY <2>1 DEF At
<1>4. /\ UNCHANGED <<closed, tempDir, file, whole>>
      /\ ~closed /\ entries[k] = NoEntry /\ e # NoEntry
  BY CacheAssumption DEF AcquireNew, CacheAssumption
<1>5. /\ entry'[e] = s /\ \A d \in EntryIds : d # e => entry'[d] = entry[d]
      /\ caller'[c] = v /\ \A b \in Callers : b # c => caller'[b] = caller[b]
      /\ entries'[k] = e /\ \A j \in Keys : j # k => entries'[j] = entries[j]
      /\ entry \in [EntryIds -> TrackEntry] /\ entries \in [Keys -> EntryIds \cup {NoEntry}]
      /\ \A d \in EntryIds : entry[d].key \in Keys
  BY <1>1, <1>2, <1>3 DEF Shape, TrackEntry
<1>6. /\ \A j \in Keys : entries[j] # e /\ file[j] # e
      /\ \A b \in Callers : caller[b].at # e
  BY <1>1 DEF Collected
<1>7. /\ Cardinality(Waiters(e)') = 1 /\ c \in Waiters(e)'
      /\ Holders(e)' = {} /\ Cardinality(Holders(e)') = 0
  <2>1. /\ Waiters(e)' = Waiters(e) \cup {c}
        /\ Cardinality(Waiters(e)') = Cardinality(Waiters(e)) + 1
    <3>1. caller[c].pc # "waiting" /\ caller'[c].pc = "waiting" /\ caller'[c].at = e
      BY <1>3, <1>5 DEF AcquireNew
    <3>2. \A b \in Callers : b # c => caller'[b] = caller[b]
      BY <1>5
    <3> HIDE DEF IInv
    <3> QED
      BY <3>1, <3>2, UserJoins DEF Waiters
  <2>2. Holders(e)' = Holders(e)
    <3>1. caller[c].at # e /\ caller'[c].pc # "holding"
      BY <1>3, <1>5, <1>6
    <3> QED
      BY <1>5, <3>1, UsersElsewhere DEF Holders
  <2>3. Cardinality(Waiters(e)) = 0 /\ Holders(e) = {} /\ Cardinality(Holders(e)) = 0
    BY <1>6, NoUsers DEF Waiters, Holders
  <2> QED
    BY <2>1, <2>2, <2>3
<1>8. ASSUME NEW d \in EntryIds, d # e
      PROVE  Waiters(d)' = Waiters(d) /\ Holders(d)' = Holders(d)
  <2>1. caller[c].pc = "idle" /\ caller'[c].at # d
    BY <1>3, <1>5, <1>8 DEF AcquireNew
  <2> QED
    BY <1>5, <2>1, UsersElsewhere DEF Waiters, Holders
<1>9. ASSUME NEW d \in EntryIds, d # e
      PROVE  Mapped(d)' <=> Mapped(d)
  BY <1>4, <1>5, <1>9, CacheAssumption DEF Mapped, CacheAssumption
<1>10. Mapped(e)'
  BY <1>2, <1>5 DEF Mapped
<1>12. Shape'
  BY <1>1, <1>2, <1>3, <1>4 DEF Shape
<1>13. CallersPlaced'
  BY <1>2, <1>3, <1>5, <1>6 DEF CallersPlaced
<1>14. MapSound'
  BY <1>2, <1>4, <1>5, <1>6 DEF MapSound, Shape
<1>15. UsedIsMapped'
  <2>1. ASSUME NEW d \in EntryIds, InFlight(d)'
        PROVE  Mapped(d)'
    BY <1>4, <1>5, <1>9, <1>10, <2>1 DEF UsedIsMapped, InFlight
  <2>2. ASSUME NEW b \in Callers, NEW d \in EntryIds, b # c, caller'[b].at = d,
               \/ caller'[b].pc = "holding"
               \/ caller'[b].pc = "waiting" /\ entry'[d].cut # "err"
        PROVE  Mapped(d)' /\ (caller'[b].pc = "holding" => entry'[d].cut = "ok")
    <3>1. d # e /\ caller'[b] = caller[b]
      BY <1>5, <1>6, <2>2
    <3>2. Mapped(d) /\ (caller[b].pc = "holding" => entry[d].cut = "ok")
      BY <1>4, <1>5, <2>2, <3>1 DEF UsedIsMapped
    <3> QED
      BY <1>5, <1>9, <3>1, <3>2
  <2>3. caller'[c].pc = "waiting" /\ caller'[c].at = e
    BY <1>3, <1>5
  <2> QED
    BY <1>10, <1>13, <2>1, <2>2, <2>3 DEF UsedIsMapped, CallersPlaced
<1>16. OneCutPerPath'
  <2>1. ASSUME NEW d \in EntryIds, d # e, InFlight(d)'
        PROVE  entry'[d].key # k
    BY <1>4, <1>5, <2>1, CacheAssumption
    DEF UsedIsMapped, InFlight, Mapped, CacheAssumption
  <2> QED
    BY <1>2, <1>5, <2>1 DEF OneCutPerPath, InFlight
<1>17. WaitersCounted'
  BY <1>2, <1>5, <1>7, <1>8 DEF WaitersCounted
<1>18. HoldersCounted'
  BY <1>2, <1>5, <1>7, <1>8, <1>9 DEF HoldersCounted
<1>19. FileMatchesCut'
  BY <1>2, <1>4, <1>5, <1>9 DEF FileMatchesCut
<1>20. NoLeakedSlice'
  BY <1>4, <1>5 DEF NoLeakedSlice
<1>21. TimersOnlyOnIdle'
  BY <1>2, <1>5, <1>8, <1>9 DEF TimersOnlyOnIdle
<1>22. IdleSliceExpires'
  BY <1>2, <1>5, <1>8 DEF IdleSliceExpires
<1>23. AbandonedCutIsAborted'
  BY <1>4, <1>5, <1>7, <1>8 DEF AbandonedCutIsAborted
<1> QED
  BY <1>12, <1>13, <1>14, <1>15, <1>16, <1>17, <1>18, <1>19, <1>20, <1>21, <1>22, <1>23

\* A step of Cut, of any kind: it changes how far the cut is and the file at
\* the cut's own path, which a failed attempt may remove.
LEMMA CutKeeps ==
  ASSUME IInv, NEW e \in EntryIds, NEW x \in {"queued", "writing", "written", "failing"},
         InFlight(e),
         x \in {"queued", "writing"} => entry[e].cut \in {"queued", "writing"},
         entry' = [entry EXCEPT ![e].cut = x],
         UNCHANGED <<entries, closed, tempDir, caller>>,
         NEW f \in {e, NoEntry, file[entry[e].key]}, NEW w \in BOOLEAN,
         file' = [file EXCEPT ![entry[e].key] = f],
         whole' = [whole EXCEPT ![entry[e].key] = w],
         ~closed /\ x \in {"writing", "written"} => f = e,
         ~closed /\ x = "written" => w
  PROVE  IInv'
<1> USE DEF IInv
<1>1. /\ entry[e] \in TrackEntry /\ e # NoEntry /\ entry[e].key \in Keys
      /\ entry \in [EntryIds -> TrackEntry] /\ file[entry[e].key] \in EntryIds \cup {NoEntry}
  BY CacheAssumption DEF CacheAssumption, Shape, TrackEntry
<1>2. PICK s \in TrackEntry :
        /\ s = [entry[e] EXCEPT !.cut = x]
        /\ s.key = entry[e].key /\ s.cut = x /\ s.cancelled = entry[e].cancelled
        /\ s.activeWaiters = entry[e].activeWaiters /\ s.refCount = entry[e].refCount
        /\ s.timer = entry[e].timer /\ s.late = entry[e].late
  <2>1. [entry[e] EXCEPT !.cut = x] \in TrackEntry
    BY <1>1 DEF TrackEntry, CutStates
  <2> QED
    BY <1>1, <2>1 DEF TrackEntry
<1>3. /\ entry'[e] = s /\ \A d \in EntryIds : d # e => entry'[d] = entry[d]
      /\ \A d \in EntryIds : entry'[d].key = entry[d].key
      /\ \A d \in EntryIds : entry'[d].cancelled = entry[d].cancelled
      /\ \A d \in EntryIds : entry'[d].activeWaiters = entry[d].activeWaiters
      /\ \A d \in EntryIds : entry'[d].refCount = entry[d].refCount
      /\ \A d \in EntryIds : entry'[d].timer = entry[d].timer
      /\ \A d \in EntryIds : entry'[d].late = entry[d].late
      /\ \A d \in EntryIds : InFlight(d)' <=> InFlight(d)
      /\ \A d \in EntryIds : Mapped(d)' <=> Mapped(d)
  BY <1>1, <1>2 DEF InFlight, Mapped
<1>4. \A d \in EntryIds : Waiters(d)' = Waiters(d) /\ Holders(d)' = Holders(d)
  BY DEF Waiters, Holders, Users
<1>5. ~closed => entries[entry[e].key] = e
  BY DEF UsedIsMapped, Mapped
<1>6. /\ \A k \in Keys : k # entry[e].key => file'[k] = file[k] /\ whole'[k] = whole[k]
      /\ file'[entry[e].key] = f /\ whole'[entry[e].key] = w
  BY <1>1 DEF Shape
<1>12. Shape'
  BY <1>1, <1>2 DEF Shape
<1>13. CallersPlaced'
  BY <1>2, <1>3 DEF CallersPlaced
<1>14. MapSound'
  BY <1>2, <1>3 DEF MapSound, Shape
<1>15. UsedIsMapped'
  <2>1. ASSUME NEW c \in Callers, ~closed, caller[c].pc \in {"holding", "waiting"}
        PROVE  /\ caller[c].at \in EntryIds
               /\ caller[c].pc = "holding" =>
                    entry'[caller[c].at].cut = "ok" /\ Mapped(caller[c].at)
               /\ caller[c].pc = "waiting" /\ entry'[caller[c].at].cut # "err" =>
                    Mapped(caller[c].at)
    BY <1>3, <1>5, <2>1 DEF UsedIsMapped, CallersPlaced, InFlight, Mapped
  <2> QED
    BY <1>3, <2>1 DEF UsedIsMapped, Mapped
<1>16. OneCutPerPath'
  BY <1>3 DEF OneCutPerPath
<1>17. WaitersCounted' /\ HoldersCounted'
  BY <1>3, <1>4 DEF WaitersCounted, HoldersCounted
<1>19. FileMatchesCut'
  <2>1. ASSUME NEW d \in EntryIds, d # e, Mapped(d)
        PROVE  entry[d].key # entry[e].key
    BY <1>1, <1>5, <2>1, CacheAssumption DEF Mapped, MapSound, Shape, CacheAssumption
  <2>2. Mapped(e) => ~closed
    BY <1>1 DEF Mapped, MapSound
  <2>3. ASSUME NEW d \in EntryIds, d # e, Mapped(d)'
        PROVE  /\ entry'[d].cut \in {"writing", "written", "ok"} => file'[entry'[d].key] = d
               /\ entry'[d].cut \in {"written", "ok"} => whole'[entry'[d].key]
    BY <1>3, <1>6, <2>1, <2>3 DEF FileMatchesCut, Shape, TrackEntry
  <2>4. ASSUME Mapped(e)'
        PROVE  /\ entry'[e].cut \in {"writing", "written", "ok"} => file'[entry'[e].key] = e
               /\ entry'[e].cut \in {"written", "ok"} => whole'[entry'[e].key]
    <3>1. ~closed /\ entry'[e].cut = x /\ entry'[e].key = entry[e].key
      BY <1>2, <1>3, <2>2, <2>4
    <3>2. x # "ok"
      OBVIOUS
    <3> QED
      BY <1>6, <3>1, <3>2
  <2> QED
    BY <2>3, <2>4 DEF FileMatchesCut
<1>20. NoLeakedSlice'
  BY <1>5, <1>6 DEF NoLeakedSlice
<1>21. TimersOnlyOnIdle'
  <2>1. entry[e].cut # "ok"
    BY DEF InFlight
  <2> QED
    BY <1>2, <1>3, <1>4, <2>1 DEF TimersOnlyOnIdle
<1>22. IdleSliceExpires'
  BY <1>2, <1>3, <1>4 DEF IdleSliceExpires
<1>23. AbandonedCutIsAborted'
  BY <1>2, <1>3, <1>4 DEF AbandonedCutIsAborted
<1> QED
  BY <1>12, <1>13, <1>14, <1>15, <1>16, <1>17, <1>19, <1>20, <1>21, <1>22, <1>23

LEMMA CutStepKeeps ==
  ASSUME IInv, NEW e \in EntryIds, CutStep(e)
  PROVE  IInv'
<1> DEFINE k == entry[e].key
<1>1. k \in Keys /\ file \in [Keys -> EntryIds \cup {NoEntry}] /\ whole \in [Keys -> BOOLEAN]
  BY DEF IInv, Shape, TrackEntry
<1>2. CASE CutCreate(e)
  BY <1>2, CutKeeps DEF CutCreate, InFlight
<1>3. CASE CutRetry(e)
  BY <1>3, CutKeeps DEF CutRetry, InFlight
<1>4. CASE CutSucceed(e)
  <2>1. ~closed => file[k] = e
    BY <1>4 DEF IInv, CutSucceed, UsedIsMapped, InFlight, FileMatchesCut
  <2>2. PICK w \in BOOLEAN : w = (whole[k] \/ file[k] = e)
    BY <1>1
  <2>3. /\ file' = [file EXCEPT ![k] = file[k]]
        /\ whole' = [whole EXCEPT ![k] = w]
    BY <1>1, <1>4, <2>2 DEF CutSucceed
  <2> QED
    BY <1>4, <2>1, <2>2, <2>3, CutKeeps DEF CutSucceed, InFlight
<1>5. CASE CutFail(e)
  <2>1. CASE UNCHANGED <<file, whole>>
    <3>1. /\ file' = [file EXCEPT ![k] = file[k]]
          /\ whole' = [whole EXCEPT ![k] = whole[k]]
          /\ whole[k] \in BOOLEAN
      BY <1>1, <2>1
    <3> QED
      BY <1>5, <3>1, CutKeeps DEF CutFail, InFlight
  <2>2. CASE ~UNCHANGED <<file, whole>>
    BY <1>5, <2>2, CutKeeps DEF CutFail, InFlight
  <2> QED
    BY <2>1, <2>2
<1> QED
  BY <1>2, <1>3, <1>4, <1>5 DEF CutStep

LEMMA RunCutOkKeeps ==
  ASSUME IInv, NEW e \in EntryIds, RunCutOk(e)
  PROVE  IInv'
<1> USE DEF IInv
<1>1. /\ entry[e] \in TrackEntry /\ entry \in [EntryIds -> TrackEntry]
      /\ entry[e].cut = "written" /\ entry[e].activeWaiters \in Nat
      /\ entry[e].timer = "none" /\ ~(entry[e].late > 0)
  BY DEF RunCutOk, Shape, TrackEntry, TimersOnlyOnIdle
<1>2. PICK s \in TrackEntry :
        /\ entry' = [entry EXCEPT ![e] = s]
        /\ s.key = entry[e].key /\ s.cut = "ok" /\ s.cancelled = entry[e].cancelled
        /\ s.activeWaiters = entry[e].activeWaiters /\ s.refCount = entry[e].refCount
        /\ s.timer = IF entry[e].activeWaiters = 0 /\ entry[e].refCount = 0
                       THEN "armed" ELSE "none"
        /\ s.late = entry[e].late
  <2>1. entry' = [entry EXCEPT ![e] = CutEnded(entry[e])]
    BY DEF RunCutOk
  <2>2. /\ CutEnded(entry[e]) \in TrackEntry
        /\ CutEnded(entry[e]).key = entry[e].key
        /\ CutEnded(entry[e]).cut = "ok"
        /\ CutEnded(entry[e]).cancelled = entry[e].cancelled
        /\ CutEnded(entry[e]).activeWaiters = entry[e].activeWaiters
        /\ CutEnded(entry[e]).refCount = entry[e].refCount
        /\ CutEnded(entry[e]).timer =
             IF entry[e].activeWaiters = 0 /\ entry[e].refCount = 0 THEN "armed" ELSE "none"
        /\ CutEnded(entry[e]).late = entry[e].late
    BY <1>1, CutEndedFields
  <2> QED
    BY <2>1, <2>2
<1>3. /\ entry'[e] = s /\ \A d \in EntryIds : d # e => entry'[d] = entry[d]
      /\ \A d \in EntryIds : entry'[d].key = entry[d].key
      /\ \A d \in EntryIds : entry'[d].activeWaiters = entry[d].activeWaiters
      /\ \A d \in EntryIds : entry'[d].refCount = entry[d].refCount
  BY <1>1, <1>2
<1>4. UNCHANGED <<entries, closed, tempDir, file, whole, caller>>
  BY DEF RunCutOk
<1>5. /\ \A d \in EntryIds : Waiters(d)' = Waiters(d) /\ Holders(d)' = Holders(d)
      /\ \A d \in EntryIds : Mapped(d)' <=> Mapped(d)
  BY <1>3, <1>4 DEF Waiters, Holders, Users, Mapped
<1>6. Waiters(e) = {} => entry[e].activeWaiters = 0
  BY FS_EmptySet DEF WaitersCounted
<1>12. Shape'
  BY <1>1, <1>2, <1>4 DEF Shape
<1>13. CallersPlaced'
  BY <1>2, <1>3, <1>4 DEF CallersPlaced
<1>14. MapSound'
  BY <1>2, <1>3, <1>4 DEF MapSound, Shape
<1>15. UsedIsMapped'
  <2>1. ASSUME NEW c \in Callers, caller[c].pc \in {"holding", "waiting"}
        PROVE  caller[c].at \in EntryIds
    BY <2>1 DEF CallersPlaced
  <2>2. ~closed => Mapped(e)
    BY <1>1 DEF UsedIsMapped, InFlight
  <2> QED
    BY <1>2, <1>3, <1>4, <1>5, <2>1, <2>2 DEF UsedIsMapped, InFlight, Mapped
<1>16. OneCutPerPath'
  BY <1>1, <1>2, <1>3 DEF OneCutPerPath, InFlight
<1>17. WaitersCounted' /\ HoldersCounted'
  BY <1>3, <1>5 DEF WaitersCounted, HoldersCounted
<1>19. FileMatchesCut'
  BY <1>1, <1>2, <1>3, <1>4, <1>5 DEF FileMatchesCut
<1>20. NoLeakedSlice'
  BY <1>4 DEF NoLeakedSlice
<1>21. TimersOnlyOnIdle'
  BY <1>1, <1>2, <1>3, <1>5 DEF TimersOnlyOnIdle
<1>22. IdleSliceExpires'
  BY <1>2, <1>3, <1>4, <1>5, <1>6 DEF IdleSliceExpires
<1>23. AbandonedCutIsAborted'
  BY <1>2, <1>3, <1>4, <1>5 DEF AbandonedCutIsAborted
<1> QED
  BY <1>12, <1>13, <1>14, <1>15, <1>16, <1>17, <1>19, <1>20, <1>21, <1>22, <1>23

LEMMA RunCutErrKeeps ==
  ASSUME IInv, NEW e \in EntryIds, RunCutErr(e)
  PROVE  IInv'
<1> USE DEF IInv
<1>1. PICK k \in Keys :
        /\ entry[e] \in TrackEntry /\ entry \in [EntryIds -> TrackEntry]
        /\ entry[e].cut = "failing" /\ entry[e].key = k
        /\ entry[e].timer = "none" /\ ~(entry[e].late > 0) /\ e # NoEntry
  BY CacheAssumption
  DEF RunCutErr, Shape, TrackEntry, TimersOnlyOnIdle, CacheAssumption
<1>2. PICK s \in TrackEntry :
        /\ entry' = [entry EXCEPT ![e] = s]
        /\ s.key = k /\ s.cut = "err" /\ s.cancelled = entry[e].cancelled
        /\ s.activeWaiters = entry[e].activeWaiters /\ s.refCount = entry[e].refCount
        /\ s.timer = "none" /\ s.late = entry[e].late
  <2> DEFINE s == [entry[e] EXCEPT !.cut = "err"]
  <2>1. /\ s \in TrackEntry
        /\ s.key = k /\ s.cut = "err" /\ s.cancelled = entry[e].cancelled
        /\ s.activeWaiters = entry[e].activeWaiters /\ s.refCount = entry[e].refCount
        /\ s.timer = "none" /\ s.late = entry[e].late
    BY <1>1 DEF TrackEntry, CutStates
  <2>2. entry' = [entry EXCEPT ![e] = s]
    BY DEF RunCutErr
  <2> QED
    BY <2>1, <2>2
<1>3. /\ entry'[e] = s /\ \A d \in EntryIds : d # e => entry'[d] = entry[d]
      /\ \A d \in EntryIds : entry'[d].key = entry[d].key /\ entry[d].key \in Keys
      /\ \A d \in EntryIds : entry'[d].activeWaiters = entry[d].activeWaiters
      /\ \A d \in EntryIds : entry'[d].refCount = entry[d].refCount
  BY <1>1, <1>2 DEF TrackEntry
<1>4. /\ UNCHANGED <<closed, tempDir, caller>>
      /\ entries' = [entries EXCEPT ![k] = NoEntry]
      /\ file' = [file EXCEPT ![k] = NoEntry]
      /\ whole' = [whole EXCEPT ![k] = FALSE]
      /\ \A j \in Keys : j # k => /\ entries'[j] = entries[j] /\ file'[j] = file[j]
                                  /\ whole'[j] = whole[j]
      /\ entries'[k] = NoEntry /\ file'[k] = NoEntry
  BY <1>1 DEF RunCutErr, Shape
<1>5. /\ \A d \in EntryIds : Waiters(d)' = Waiters(d) /\ Holders(d)' = Holders(d)
      /\ ~Mapped(e)'
      /\ \A d \in EntryIds : Mapped(d)' => Mapped(d) /\ entry[d].key # k
  BY <1>1, <1>2, <1>3, <1>4, CacheAssumption
  DEF Waiters, Holders, Users, Mapped, CacheAssumption
<1>6. ~closed => /\ entries[k] = e
                 /\ \A d \in EntryIds : d # e /\ Mapped(d) => Mapped(d)'
  BY <1>1, <1>3, <1>4 DEF UsedIsMapped, InFlight, Mapped
<1>12. Shape'
  BY <1>1, <1>2, <1>4 DEF Shape
<1>13. CallersPlaced'
  BY <1>2, <1>3, <1>4 DEF CallersPlaced
<1>14. MapSound'
  <2>1. ASSUME NEW j \in Keys, entries'[j] # NoEntry
        PROVE  entries'[j] = entries[j] /\ entries'[j] # e /\ entries'[j] \in EntryIds
    BY <1>1, <1>4, <2>1 DEF MapSound, Shape
  <2> QED
    BY <1>3, <1>4, <2>1 DEF MapSound
<1>15. UsedIsMapped'
  <2>1. ASSUME NEW c \in Callers, caller[c].pc \in {"holding", "waiting"}
        PROVE  caller[c].at \in EntryIds
    BY <2>1 DEF CallersPlaced
  <2>2. ASSUME NEW c \in Callers, ~closed, caller[c].pc = "holding"
        PROVE  caller[c].at # e
    BY <1>1, <2>2 DEF UsedIsMapped
  <2> QED
    BY <1>2, <1>3, <1>4, <1>6, <2>1, <2>2 DEF UsedIsMapped, InFlight
<1>16. OneCutPerPath'
  BY <1>1, <1>2, <1>3 DEF OneCutPerPath, InFlight
<1>17. WaitersCounted' /\ HoldersCounted'
  BY <1>3, <1>5 DEF WaitersCounted, HoldersCounted
<1>19. FileMatchesCut'
  BY <1>3, <1>4, <1>5 DEF FileMatchesCut
<1>20. NoLeakedSlice'
  BY <1>4 DEF NoLeakedSlice
<1>21. TimersOnlyOnIdle'
  BY <1>1, <1>2, <1>3, <1>5 DEF TimersOnlyOnIdle
<1>22. IdleSliceExpires'
  BY <1>2, <1>3, <1>4, <1>5, CacheAssumption DEF IdleSliceExpires, CacheAssumption
<1>23. AbandonedCutIsAborted'
  BY <1>2, <1>3, <1>4, <1>5 DEF AbandonedCutIsAborted
<1> QED
  BY <1>12, <1>13, <1>14, <1>15, <1>16, <1>17, <1>19, <1>20, <1>21, <1>22, <1>23

\* This is where the assumption on the TTL is used: a timer fires only when
\* no waiter is left.
LEMMA TimerFireKeeps ==
  ASSUME IInv, TTLCoversWakeup, NEW e \in EntryIds, TimerFire(e)
  PROVE  IInv'
<1> USE DEF IInv
<1>1. /\ entry[e] \in TrackEntry /\ entry \in [EntryIds -> TrackEntry]
      /\ entry[e].timer = "armed" /\ entry[e].cut = "ok" /\ entry[e].refCount = 0
      /\ Waiters(e) = {}
  BY DEF TimerFire, Shape, TimersOnlyOnIdle
<1>2. PICK s \in TrackEntry :
        /\ entry' = [entry EXCEPT ![e] = s]
        /\ s.key = entry[e].key /\ s.cut = "ok" /\ s.cancelled = entry[e].cancelled
        /\ s.activeWaiters = entry[e].activeWaiters /\ s.refCount = 0
        /\ s.timer = "fired" /\ s.late = entry[e].late
  <2> DEFINE s == [entry[e] EXCEPT !.timer = "fired"]
  <2>1. /\ s \in TrackEntry
        /\ s.key = entry[e].key /\ s.cut = "ok" /\ s.cancelled = entry[e].cancelled
        /\ s.activeWaiters = entry[e].activeWaiters /\ s.refCount = 0
        /\ s.timer = "fired" /\ s.late = entry[e].late
    BY <1>1 DEF TrackEntry, TimerStates
  <2>2. entry' = [entry EXCEPT ![e] = s]
    BY DEF TimerFire
  <2> QED
    BY <2>1, <2>2
<1>3. /\ entry'[e] = s /\ \A d \in EntryIds : d # e => entry'[d] = entry[d]
      /\ \A d \in EntryIds : entry'[d].key = entry[d].key /\ entry'[d].cut = entry[d].cut
      /\ \A d \in EntryIds : entry'[d].activeWaiters = entry[d].activeWaiters
      /\ \A d \in EntryIds : entry'[d].refCount = entry[d].refCount
      /\ \A d \in EntryIds : entry'[d].cancelled = entry[d].cancelled
  BY <1>1, <1>2
<1>4. UNCHANGED <<entries, closed, tempDir, file, whole, caller>>
  BY DEF TimerFire
<1>5. /\ \A d \in EntryIds : Waiters(d)' = Waiters(d) /\ Holders(d)' = Holders(d)
      /\ \A d \in EntryIds : Mapped(d)' <=> Mapped(d)
  BY <1>3, <1>4 DEF Waiters, Holders, Users, Mapped
<1>12. Shape' /\ CallersPlaced' /\ MapSound'
  BY <1>1, <1>2, <1>3, <1>4 DEF Shape, CallersPlaced, MapSound
<1>15. UsedIsMapped'
  <2>1. ASSUME NEW c \in Callers, caller[c].pc \in {"holding", "waiting"}
        PROVE  caller[c].at \in EntryIds
    BY <2>1 DEF CallersPlaced
  <2> QED
    BY <1>3, <1>4, <1>5, <2>1 DEF UsedIsMapped, InFlight
<1>16. OneCutPerPath' /\ NoLeakedSlice'
  BY <1>3, <1>4 DEF OneCutPerPath, InFlight, NoLeakedSlice
<1>17. WaitersCounted' /\ HoldersCounted' /\ FileMatchesCut'
  BY <1>3, <1>4, <1>5 DEF WaitersCounted, HoldersCounted, FileMatchesCut
<1>21. TimersOnlyOnIdle'
  BY <1>1, <1>2, <1>3, <1>5 DEF TimersOnlyOnIdle
<1>22. IdleSliceExpires' /\ AbandonedCutIsAborted'
  BY <1>2, <1>3, <1>4, <1>5 DEF IdleSliceExpires, AbandonedCutIsAborted
<1> QED
  BY <1>12, <1>15, <1>16, <1>17, <1>21, <1>22

\* A callback of either kind: it evicts only an entry without users.
LEMMA ExpireKeeps ==
  ASSUME IInv, NEW e \in EntryIds, NEW s \in TrackEntry,
         entry[e].timer = "fired" \/ entry[e].late > 0,
         entry' = [entry EXCEPT ![e] = s],
         s.key = entry[e].key, s.cut = entry[e].cut, s.cancelled = entry[e].cancelled,
         s.activeWaiters = entry[e].activeWaiters, s.refCount = entry[e].refCount,
         \/ s.timer = entry[e].timer
         \/ s.timer = "spent" /\ entry[e].timer = "fired",
         Expire(e)
  PROVE  IInv'
<1> USE DEF IInv
<1>1. PICK k \in Keys :
        /\ entry[e] \in TrackEntry /\ entry \in [EntryIds -> TrackEntry]
        /\ entry[e].key = k /\ e # NoEntry
        /\ entry[e].cut = "ok" /\ Waiters(e) = {}
        /\ entry[e].timer # "none" => entry[e].refCount = 0
  BY CacheAssumption DEF CacheAssumption, Shape, TrackEntry, TimersOnlyOnIdle
<1>2. /\ entry'[e] = s /\ \A d \in EntryIds : d # e => entry'[d] = entry[d]
      /\ \A d \in EntryIds : entry'[d].key = entry[d].key /\ entry'[d].cut = entry[d].cut
      /\ \A d \in EntryIds : entry'[d].activeWaiters = entry[d].activeWaiters
      /\ \A d \in EntryIds : entry'[d].refCount = entry[d].refCount
      /\ \A d \in EntryIds : entry'[d].cancelled = entry[d].cancelled
      /\ \A d \in EntryIds : entry[d].key \in Keys
  BY <1>1 DEF TrackEntry
<1>3. /\ UNCHANGED <<closed, tempDir, caller>>
      /\ \A d \in EntryIds : Waiters(d)' = Waiters(d) /\ Holders(d)' = Holders(d)
  BY DEF Expire, Waiters, Holders, Users
<1>4. WaitersCounted' /\ OneCutPerPath' /\ AbandonedCutIsAborted' /\ CallersPlaced'
  BY <1>2, <1>3
  DEF WaitersCounted, OneCutPerPath, InFlight, AbandonedCutIsAborted, CallersPlaced
<1>5. CASE ~Evictable(e)
  <2>1. /\ UNCHANGED <<entries, file, whole>>
        /\ \A d \in EntryIds : Mapped(d)' <=> Mapped(d)
    BY <1>2, <1>5 DEF Expire, Mapped
  <2>2. Mapped(e) => entry[e].timer = "none"
    BY <1>1, <1>5 DEF Evictable, Mapped
  <2>3. Shape' /\ MapSound' /\ NoLeakedSlice'
    BY <1>1, <1>2, <1>3, <2>1 DEF Shape, MapSound, NoLeakedSlice
  <2>4. UsedIsMapped'
    <3>1. ASSUME NEW c \in Callers, caller[c].pc \in {"holding", "waiting"}
          PROVE  caller[c].at \in EntryIds
      BY <3>1 DEF CallersPlaced
    <3> QED
      BY <1>2, <1>3, <2>1, <3>1 DEF UsedIsMapped, InFlight
  <2>5. HoldersCounted' /\ FileMatchesCut'
    BY <1>2, <1>3, <2>1 DEF HoldersCounted, FileMatchesCut
  <2>6. TimersOnlyOnIdle'
    <3>1. /\ s.timer # "none" => s.cut = "ok" /\ s.refCount = 0
          /\ Mapped(e) => s.timer # "spent"
      BY <1>1, <2>2
    <3> QED
      BY <1>1, <1>2, <1>3, <2>1, <3>1 DEF TimersOnlyOnIdle
  <2>7. IdleSliceExpires'
    <3>1. ASSUME NEW j \in Keys, NEW d \in EntryIds, entries[j] = d,
                 entry[d].cut = "ok", entry[d].refCount = 0, Waiters(d) = {}
          PROVE  d # e
      BY <1>1, <2>2, <3>1, CacheAssumption
      DEF IdleSliceExpires, MapSound, Mapped, CacheAssumption
    <3> QED
      BY <1>2, <1>3, <2>1, <3>1 DEF IdleSliceExpires
  <2> QED
    BY <1>4, <2>3, <2>4, <2>5, <2>6, <2>7
<1>6. CASE Evictable(e)
  <2>1. /\ entries[k] = e /\ entry[e].refCount = 0
        /\ entries' = [entries EXCEPT ![k] = NoEntry]
        /\ file' = [file EXCEPT ![k] = NoEntry]
        /\ whole' = [whole EXCEPT ![k] = FALSE]
    BY <1>1, <1>6 DEF Evictable, Expire
  <2>2. /\ \A j \in Keys : j # k => /\ entries'[j] = entries[j] /\ file'[j] = file[j]
                                    /\ whole'[j] = whole[j]
        /\ entries'[k] = NoEntry /\ file'[k] = NoEntry
    BY <2>1 DEF Shape
  <2>3. /\ ~Mapped(e)'
        /\ \A d \in EntryIds : Mapped(d)' => Mapped(d) /\ entry[d].key # k
        /\ \A d \in EntryIds : d # e /\ Mapped(d) => Mapped(d)'
    BY <1>1, <1>2, <2>1, <2>2, CacheAssumption DEF Mapped, CacheAssumption
  <2>4. Holders(e) = {}
    <3>1. IsFiniteSet(Holders(e))
      BY CacheAssumption, FS_Subset DEF CacheAssumption, Holders, Users
    <3>2. Cardinality(Holders(e)) = 0
      BY <1>1, <2>1 DEF HoldersCounted, Mapped
    <3> QED
      BY <3>1, <3>2, FS_EmptySet
  <2>5. Shape'
    BY <1>1, <1>3, <2>1 DEF Shape
  <2>6. MapSound'
    <3>1. ASSUME NEW j \in Keys, entries'[j] # NoEntry
          PROVE  entries'[j] = entries[j] /\ entries'[j] \in EntryIds
      BY <2>2, <3>1 DEF Shape
    <3> QED
      BY <1>2, <1>3, <2>2, <3>1 DEF MapSound
  <2>7. UsedIsMapped'
    <3>1. ASSUME NEW c \in Callers, caller[c].pc \in {"holding", "waiting"}
          PROVE  caller[c].at \in EntryIds /\ caller[c].at # e
      BY <1>1, <2>4, <3>1 DEF CallersPlaced, Waiters, Holders, Users
    <3>2. ~InFlight(e)
      BY <1>1 DEF InFlight
    <3> QED
      BY <1>2, <1>3, <2>3, <3>1, <3>2 DEF UsedIsMapped, InFlight
  <2>8. HoldersCounted'
    BY <1>2, <1>3, <2>3 DEF HoldersCounted
  <2>9. FileMatchesCut'
    BY <1>2, <2>2, <2>3 DEF FileMatchesCut
  <2>10. NoLeakedSlice'
    BY <1>3, <2>2 DEF NoLeakedSlice
  <2>11. TimersOnlyOnIdle'
    BY <1>1, <1>2, <1>3, <2>1, <2>3 DEF TimersOnlyOnIdle
  <2>12. IdleSliceExpires'
    <3>1. ASSUME NEW j \in Keys, NEW d \in EntryIds, entries'[j] = d
          PROVE  entries[j] = d /\ d # e
      BY <1>1, <2>1, <2>2, <3>1, CacheAssumption DEF MapSound, CacheAssumption
    <3> QED
      BY <1>2, <1>3, <3>1 DEF IdleSliceExpires
  <2> QED
    BY <1>4, <2>5, <2>6, <2>7, <2>8, <2>9, <2>10, <2>11, <2>12
<1> QED
  BY <1>5, <1>6

LEMMA CallbackKeeps ==
  ASSUME IInv, NEW e \in EntryIds, TimerCallback(e) \/ LateCallback(e)
  PROVE  IInv'
<1>1. entry[e] \in TrackEntry
  BY DEF IInv, Shape
<1>2. CASE TimerCallback(e)
  <2> DEFINE s == [entry[e] EXCEPT !.timer = "spent"]
  <2>1. /\ s \in TrackEntry
        /\ s.key = entry[e].key /\ s.cut = entry[e].cut /\ s.cancelled = entry[e].cancelled
        /\ s.activeWaiters = entry[e].activeWaiters /\ s.refCount = entry[e].refCount
        /\ s.timer = "spent"
    BY <1>1 DEF TrackEntry, TimerStates
  <2>2. entry' = [entry EXCEPT ![e] = s] /\ entry[e].timer = "fired" /\ Expire(e)
    BY <1>2 DEF TimerCallback
  <2> HIDE DEF s
  <2> QED
    BY <2>1, <2>2, ExpireKeeps
<1>3. CASE LateCallback(e)
  <2> DEFINE s == [entry[e] EXCEPT !.late = @ - 1]
  <2>0. entry[e].late > 0 /\ entry[e].late - 1 \in Nat
    BY <1>1, <1>3 DEF TrackEntry, LateCallback
  <2>1. /\ s \in TrackEntry
        /\ s.key = entry[e].key /\ s.cut = entry[e].cut /\ s.cancelled = entry[e].cancelled
        /\ s.activeWaiters = entry[e].activeWaiters /\ s.refCount = entry[e].refCount
        /\ s.timer = entry[e].timer
    BY <1>1, <2>0 DEF TrackEntry
  <2>2. entry' = [entry EXCEPT ![e] = s] /\ Expire(e)
    BY <1>3 DEF LateCallback
  <2> HIDE DEF s
  <2> QED
    BY <2>0, <2>1, <2>2, ExpireKeeps
<1> QED
  BY <1>2, <1>3

LEMMA CloseKeeps ==
  ASSUME IInv, Close
  PROVE  IInv'
<1> USE DEF IInv
<1>1. /\ ~closed /\ closed' = TRUE /\ UNCHANGED <<tempDir, file, whole, caller>>
      /\ entries' = [k \in Keys |-> NoEntry]
      /\ entry \in [EntryIds -> TrackEntry]
      /\ \A e \in EntryIds : entry[e].key \in Keys
  BY DEF Close, Shape, TrackEntry
<1>2. entry' = [e \in EntryIds |-> IF Mapped(e) THEN ShutDown(entry[e]) ELSE entry[e]]
  BY DEF Close, Mapped
<1>3. ASSUME NEW e \in EntryIds
      PROVE  /\ entry'[e] \in TrackEntry
             /\ entry'[e].key = entry[e].key /\ entry'[e].cut = entry[e].cut
             /\ entry'[e].activeWaiters = entry[e].activeWaiters
             /\ entry'[e].refCount = entry[e].refCount
             /\ entry'[e].timer \in {"none", entry[e].timer}
             /\ entry'[e].late > 0 => entry[e].timer = "fired" \/ entry[e].late > 0
             /\ entry'[e].cancelled = (entry[e].cancelled \/ Mapped(e))
  <2>1. entry[e] \in TrackEntry
    BY <1>1
  <2>2. CASE Mapped(e)
    BY <1>2, <2>1, <2>2, ShutDownFields
  <2>3. CASE ~Mapped(e)
    <3>1. entry'[e] = entry[e] /\ entry[e].cancelled \in BOOLEAN
      BY <1>2, <2>1, <2>3 DEF TrackEntry
    <3> QED
      BY <2>1, <2>3, <3>1
  <2> QED
    BY <2>2, <2>3
<1>4. /\ \A e \in EntryIds : ~Mapped(e)'
      /\ \A k \in Keys : entries'[k] = NoEntry
      /\ \A d \in EntryIds : Waiters(d)' = Waiters(d) /\ Holders(d)' = Holders(d)
  BY <1>1, <1>3, CacheAssumption DEF Mapped, CacheAssumption, Waiters, Holders, Users
<1>5. Shape'
  BY <1>1, <1>2, <1>3 DEF Shape
<1>6. CallersPlaced' /\ MapSound' /\ UsedIsMapped'
  BY <1>1, <1>3, <1>4 DEF CallersPlaced, MapSound, UsedIsMapped
<1>7. OneCutPerPath' /\ WaitersCounted' /\ HoldersCounted'
  BY <1>3, <1>4 DEF OneCutPerPath, InFlight, WaitersCounted, HoldersCounted
<1>8. FileMatchesCut' /\ NoLeakedSlice' /\ IdleSliceExpires'
  BY <1>1, <1>4, CacheAssumption
  DEF FileMatchesCut, NoLeakedSlice, IdleSliceExpires, CacheAssumption
<1>9. TimersOnlyOnIdle'
  BY <1>3, <1>4 DEF TimersOnlyOnIdle
<1>10. AbandonedCutIsAborted'
  <2>1. ASSUME NEW e \in EntryIds, entry'[e].cut \in {"queued", "writing"}
        PROVE  entry'[e].cancelled
    <3>1. InFlight(e)
      BY <1>3, <2>1 DEF InFlight
    <3>2. Mapped(e)
      BY <1>1, <3>1 DEF UsedIsMapped
    <3> QED
      BY <1>3, <3>2
  <2> QED
    BY <2>1 DEF AbandonedCutIsAborted
<1> QED
  BY <1>5, <1>6, <1>7, <1>8, <1>9, <1>10

\* The directory is removed only after Close, when no entry is mapped.
LEMMA RemoveKeeps ==
  ASSUME IInv, RemoveFiles \/ RemoveDir
  PROVE  IInv'
<1> USE DEF IInv
<1>1. /\ closed /\ UNCHANGED <<entries, entry, closed, caller>>
      /\ \A d \in EntryIds : Waiters(d)' = Waiters(d) /\ Holders(d)' = Holders(d)
  BY DEF RemoveFiles, RemoveDir, MapSound, Waiters, Holders, Users
<1>2. Shape'
  BY <1>1 DEF Shape, RemoveFiles, RemoveDir
<1>3. /\ CallersPlaced' /\ MapSound' /\ UsedIsMapped' /\ OneCutPerPath'
      /\ WaitersCounted' /\ HoldersCounted' /\ NoLeakedSlice'
      /\ TimersOnlyOnIdle' /\ IdleSliceExpires' /\ AbandonedCutIsAborted'
  BY <1>1
  DEF CallersPlaced, MapSound, UsedIsMapped, OneCutPerPath, InFlight, WaitersCounted,
      HoldersCounted, NoLeakedSlice, TimersOnlyOnIdle, Mapped, IdleSliceExpires,
      AbandonedCutIsAborted
<1>4. FileMatchesCut'
  <2>1. \A d \in EntryIds : ~Mapped(d)'
    BY <1>1, CacheAssumption DEF Mapped, MapSound, Shape, TrackEntry, CacheAssumption
  <2> QED
    BY <2>1 DEF FileMatchesCut
<1> QED
  BY <1>2, <1>3, <1>4

\* A step of one caller that moves it neither to nor from waiting or holding.
LEMMA CallerOnlyKeeps ==
  ASSUME IInv, NEW c \in Callers, CtxDone(c) \/ Stat(c) \/ \E k \in Keys : Lookup(c, k)
  PROVE  IInv'
<1> USE DEF IInv
<1>1. UNCHANGED <<entries, entry, closed, tempDir, file, whole>>
  BY DEF CtxDone, Stat, Lookup
<1>2. PICK v \in Caller :
        /\ caller' = [caller EXCEPT ![c] = v]
        /\ v.pc = "idle" => v.at = NoEntry
        /\ v.pc # "idle" => v.at \in EntryIds /\ entry[v.at].cut # "unused"
        /\ \/ caller[c].pc = v.pc /\ caller[c].at = v.at
           \/ caller[c].pc \in {"idle", "statting"} /\ v.pc \in {"idle", "statting"}
  <2>1. CASE CtxDone(c)
    <3> DEFINE v == [caller[c] EXCEPT !.ctxDone = TRUE]
    <3>1. caller[c] \in Caller /\ caller[c].pc = "waiting"
      BY <2>1 DEF CtxDone, Shape
    <3>2. v \in Caller /\ v.pc = "waiting" /\ v.at = caller[c].at
      BY <3>1 DEF Caller
    <3>3. caller' = [caller EXCEPT ![c] = v]
      BY <2>1 DEF CtxDone
    <3> HIDE DEF v
    <3> QED
      BY <3>1, <3>2, <3>3 DEF CallersPlaced
  <2>2. CASE Stat(c)
    <3>1. Idle \in Caller /\ Idle.pc = "idle" /\ Idle.at = NoEntry
      BY DEF Idle, Caller
    <3> QED
      BY <2>2, <3>1 DEF Stat
  <2>3. CASE \E k \in Keys : Lookup(c, k)
    <3>1. PICK k \in Keys : Lookup(c, k)
      BY <2>3
    <3>2. PICK v \in Caller : v = At("statting", entries[k])
      <4>1. entries[k] \in EntryIds
        BY <3>1 DEF Lookup, Shape
      <4> QED
        BY <4>1 DEF At, Caller
    <3>3. /\ caller' = [caller EXCEPT ![c] = v] /\ caller[c].pc = "idle"
          /\ v.pc = "statting" /\ v.at \in EntryIds /\ entry[v.at].cut # "unused"
      BY <3>1, <3>2 DEF Lookup, At, Shape, MapSound
    <3> QED
      BY <3>3
  <2> QED
    BY <2>1, <2>2, <2>3
<1>3. /\ caller \in [Callers -> Caller]
      /\ caller'[c] = v /\ \A b \in Callers : b # c => caller'[b] = caller[b]
  BY <1>2 DEF Shape
<1>4. \A d \in EntryIds : Waiters(d)' = Waiters(d) /\ Holders(d)' = Holders(d)
  BY <1>2, <1>3 DEF Waiters, Holders, Users
<1>5. Shape' /\ CallersPlaced'
  BY <1>1, <1>2, <1>3 DEF Shape, CallersPlaced
<1>6. UsedIsMapped'
  BY <1>1, <1>2, <1>3 DEF UsedIsMapped, InFlight, Mapped
<1>7. /\ MapSound' /\ OneCutPerPath' /\ WaitersCounted' /\ HoldersCounted'
      /\ FileMatchesCut' /\ NoLeakedSlice' /\ TimersOnlyOnIdle' /\ IdleSliceExpires'
      /\ AbandonedCutIsAborted'
  BY <1>1, <1>4
  DEF MapSound, OneCutPerPath, InFlight, WaitersCounted, HoldersCounted, FileMatchesCut,
      Mapped, NoLeakedSlice, TimersOnlyOnIdle, IdleSliceExpires, AbandonedCutIsAborted
<1> QED
  BY <1>5, <1>6, <1>7

-----------------------------------------------------------------------------
(* The invariant and what follows from it *)

LEMMA InitHolds == Init => IInv
<1> SUFFICES ASSUME Init PROVE IInv
  OBVIOUS
<1>1. PICK k0 \in Keys :
        entry = [e \in EntryIds |->
                   [NewEntry(k0) EXCEPT !.cut = "unused", !.activeWaiters = 0]]
  BY DEF Init
<1>2. ASSUME NEW e \in EntryIds
      PROVE  /\ entry[e] \in TrackEntry /\ entry[e].cut = "unused"
             /\ entry[e].activeWaiters = 0 /\ entry[e].timer = "none" /\ entry[e].late = 0
  BY <1>1 DEF NewEntry, TrackEntry, CutStates, TimerStates
<1>3. entry \in [EntryIds -> TrackEntry]
  BY <1>1, <1>2
<1>4. /\ entries = [k \in Keys |-> NoEntry] /\ file = [k \in Keys |-> NoEntry]
      /\ whole = [k \in Keys |-> FALSE] /\ closed = FALSE /\ tempDir = "there"
      /\ caller = [c \in Callers |-> Idle] /\ Idle \in Caller
      /\ Idle.pc = "idle" /\ Idle.at = NoEntry
  BY DEF Init, Idle, Caller
<1>5. \A e \in EntryIds : ~Mapped(e) /\ ~InFlight(e)
  BY <1>2, <1>4, CacheAssumption DEF Mapped, InFlight, TrackEntry, CacheAssumption
<1>6. \A e \in EntryIds : Waiters(e) = {} /\ Cardinality(Waiters(e)) = 0
  BY <1>4, NoUsers, CacheAssumption DEF Waiters, CacheAssumption
<1>7. Shape /\ CallersPlaced /\ MapSound /\ UsedIsMapped
  BY <1>3, <1>4, <1>5 DEF Shape, CallersPlaced, MapSound, UsedIsMapped
<1>8. OneCutPerPath /\ WaitersCounted /\ HoldersCounted /\ FileMatchesCut
  BY <1>2, <1>5, <1>6 DEF OneCutPerPath, WaitersCounted, HoldersCounted, FileMatchesCut
<1>9. NoLeakedSlice /\ TimersOnlyOnIdle
  BY <1>2, <1>4, <1>5 DEF NoLeakedSlice, TimersOnlyOnIdle
<1>10. IdleSliceExpires /\ AbandonedCutIsAborted
  BY <1>2 DEF IdleSliceExpires, AbandonedCutIsAborted
<1> QED
  BY <1>7, <1>8, <1>9, <1>10 DEF IInv

LEMMA StutterKeeps == IInv /\ UNCHANGED vars => IInv'
<1> SUFFICES ASSUME IInv, UNCHANGED vars PROVE IInv'
  OBVIOUS
<1>1. \A e \in EntryIds : Waiters(e)' = Waiters(e) /\ Holders(e)' = Holders(e)
  BY DEF vars, Waiters, Holders, Users
<1> QED
  BY <1>1
  DEF vars, IInv, Shape, CallersPlaced, MapSound, UsedIsMapped, OneCutPerPath, InFlight,
      WaitersCounted, HoldersCounted, FileMatchesCut, NoLeakedSlice, TimersOnlyOnIdle,
      Mapped, IdleSliceExpires, AbandonedCutIsAborted

LEMMA NextKeeps == TTLCoversWakeup /\ IInv /\ [Next]_vars => IInv'
<1> SUFFICES ASSUME TTLCoversWakeup, IInv, [Next]_vars PROVE IInv'
  OBVIOUS
<1>1. ASSUME NEW c \in Callers, CallerStep(c) PROVE IInv'
  <2>1. CASE \E k \in Keys : AcquireNew(c, k)
    BY <2>1, AcquireNewKeeps
  <2>2. CASE \E k \in Keys : AcquireExisting(c, k)
    BY <2>2, AcquireExistingKeeps
  <2>3. CASE CtxDone(c) \/ Stat(c) \/ \E k \in Keys : Lookup(c, k)
    BY <2>3, CallerOnlyKeeps
  <2>4. CASE AcquireRefused(c)
    BY <2>4, StutterKeeps DEF AcquireRefused
  <2>5. CASE Wake(c)
    BY <2>5, WakeDoneKeeps, WakeCancelledKeeps DEF Wake
  <2>6. CASE Release(c)
    BY <2>6, ReleaseKeeps
  <2> QED
    BY <1>1, <2>1, <2>2, <2>3, <2>4, <2>5, <2>6 DEF CallerStep
<1>2. ASSUME NEW e \in EntryIds, EntryStep(e) PROVE IInv'
  <2>1. CASE CutStep(e)
    BY <2>1, CutStepKeeps
  <2>2. CASE RunCut(e)
    BY <2>2, RunCutOkKeeps, RunCutErrKeeps DEF RunCut
  <2>3. CASE TimerFire(e)
    BY <2>3, TimerFireKeeps
  <2>4. CASE TimerCallback(e) \/ LateCallback(e)
    BY <2>4, CallbackKeeps
  <2> QED
    BY <1>2, <2>1, <2>2, <2>3, <2>4 DEF EntryStep
<1>3. CASE Close
  BY <1>3, CloseKeeps
<1>4. CASE RemoveFiles \/ RemoveDir
  BY <1>4, RemoveKeeps
<1>5. CASE UNCHANGED vars
  BY <1>5, StutterKeeps
<1> QED
  BY <1>1, <1>2, <1>3, <1>4, <1>5 DEF Next

\* If the TTL covers the wake-up of waiters, the invariant holds for ever.
THEOREM Invariance == TTLCoversWakeup => (Spec => []IInv)
<1> SUFFICES ASSUME TTLCoversWakeup PROVE Spec => []IInv
  OBVIOUS
<1>1. Init => IInv
  BY InitHolds
<1>2. IInv /\ [Next]_vars => IInv'
  BY NextKeeps
<1> QED
  BY <1>1, <1>2, PTL DEF Spec

\* The data keep their shape, and no counter ever becomes negative.
THEOREM TypeCorrect == TTLCoversWakeup => (Spec => []TypeOK)
<1>1. IInv => TypeOK
  BY DEF IInv, Shape, TypeOK
<1> QED
  BY <1>1, Invariance, PTL

\* Each live entry counts exactly its holders and its waiters.
THEOREM CountersExact == TTLCoversWakeup => (Spec => []RefsMatchUsers)
<1>1. IInv => RefsMatchUsers
  BY CacheAssumption
  DEF IInv, RefsMatchUsers, Mapped, MapSound, HoldersCounted, WaitersCounted,
      CacheAssumption
<1> QED
  BY <1>1, Invariance, PTL

\* What a caller holds stays complete and at its path until it gives it back.
THEOREM HeldSliceSafe == TTLCoversWakeup => (Spec => []HeldSliceIntact)
<1>1. IInv => HeldSliceIntact
  <2> SUFFICES ASSUME IInv, NEW c \in Callers, caller[c].pc = "holding", ~closed
               PROVE  LET e == caller[c].at
                          k == entry[e].key
                      IN  entries[k] = e /\ file[k] = e /\ whole[k]
    BY DEF HeldSliceIntact
  <2>1. /\ caller[c].at \in EntryIds
        /\ Mapped(caller[c].at) /\ entry[caller[c].at].cut = "ok"
    BY DEF IInv, CallersPlaced, UsedIsMapped
  <2> QED
    BY <2>1 DEF IInv, FileMatchesCut, Mapped
<1> QED
  BY <1>1, Invariance, PTL

\* At most one cut works on an output path at any time.
THEOREM CutsExclusive == TTLCoversWakeup => (Spec => []OneCutPerPath)
<1>1. IInv => OneCutPerPath
  BY DEF IInv
<1> QED
  BY <1>1, Invariance, PTL

\* No file of an open manager is orphaned.
THEOREM NothingLeaks == TTLCoversWakeup => (Spec => []NoLeakedSlice)
<1>1. IInv => NoLeakedSlice
  BY DEF IInv
<1> QED
  BY <1>1, Invariance, PTL

\* A finished slice that nobody holds or waits for is on its timer.
THEOREM IdleSlicesExpire == TTLCoversWakeup => (Spec => []IdleSliceExpires)
<1>1. IInv => IdleSliceExpires
  BY DEF IInv
<1> QED
  BY <1>1, Invariance, PTL

\* A cut nobody waits for any more has been told to stop.
THEOREM AbandonedCutsStop == TTLCoversWakeup => (Spec => []AbandonedCutIsAborted)
<1>1. IInv => AbandonedCutIsAborted
  BY DEF IInv
<1> QED
  BY <1>1, Invariance, PTL

=============================================================================
