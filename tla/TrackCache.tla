----------------------------- MODULE TrackCache -----------------------------
(***************************************************************************)
(* The reference-counted slice cache of internal/cutter/manager.go.        *)
(*                                                                         *)
(* A caller asks for the slice of a key (Acquire), waits until the one cut *)
(* of that key ends, holds the slice's path and gives it back (Release).   *)
(* An idle slice is removed by a TTL timer; Close shuts the manager down.  *)
(* Every action below is one critical section of m.mu, or one step of the  *)
(* world outside it: the cutter, the timers, the contexts, os.RemoveAll.   *)
(***************************************************************************)
EXTENDS Integers, FiniteSets

CONSTANTS
  Callers,         \* goroutines that call the manager
  Keys,            \* cache keys (track.Slice.Key)
  EntryIds,        \* *trackEntry objects that can be alive at once
  NoEntry,         \* the nil entry, and the file that is not there
  MaxLate,         \* bound on callbacks of one entry that run although stopped
  TTLCoversWakeup  \* the TTL never elapses before a runnable waiter resumes

ASSUME CacheAssumption ==
  /\ IsFiniteSet(Callers)
  /\ NoEntry \notin EntryIds \cup Keys
  /\ MaxLate \in Nat
  /\ TTLCoversWakeup \in BOOLEAN

VARIABLES
  entries,  \* m.entries: the entry of each key, or NoEntry
  entry,    \* the trackEntry objects
  closed,   \* m.closed
  tempDir,  \* m.tempDir: there, emptied (by os.RemoveAll), kept or gone
  file,     \* which entry's cut made the file at the key's path, or NoEntry
  whole,    \* is that file completely written?
  caller    \* the callers' program counters

vars == <<entries, entry, closed, tempDir, file, whole, caller>>

-----------------------------------------------------------------------------
(* trackEntry. `cut` is the goroutine runCut together with done and err:   *)
(* queued, writing = inside Cut, before and after it created the output;   *)
(* written, failing = Cut has returned, runCut waits for the lock;         *)
(* ok, err = done is closed and err is nil or not. cancelled = cancelCut   *)
(* was called and cleared. `timer` is the *time.Timer: none (nil), armed,  *)
(* fired (its callback waits for the lock), spent (its callback has run);  *)
(* `late` counts callbacks that had fired when the timer was stopped.      *)
CutStates == {"unused", "queued", "writing", "written", "failing", "ok", "err"}
TimerStates == {"none", "armed", "fired", "spent"}

TrackEntry ==
  [key : Keys, cut : CutStates, cancelled : BOOLEAN, activeWaiters : Nat,
   refCount : Nat, timer : TimerStates, late : Nat]

NewEntry(k) ==
  [key |-> k, cut |-> "queued", cancelled |-> FALSE, activeWaiters |-> 1,
   refCount |-> 0, timer |-> "none", late |-> 0]

Caller ==
  [pc : {"idle", "waiting", "holding", "statting"},
   at : EntryIds \cup {NoEntry}, ctxDone : BOOLEAN]

Idle == [pc |-> "idle", at |-> NoEntry, ctxDone |-> FALSE]
At(pc, e) == [pc |-> pc, at |-> e, ctxDone |-> FALSE]

Done(e) == entry[e].cut \in {"ok", "err"}
InFlight(e) == entry[e].cut \in {"queued", "writing", "written", "failing"}

\* The callers that wait for e, and those that hold its slice.
Users(pc, e) == {c \in Callers : caller[c].pc = pc /\ caller[c].at = e}
Waiters(e) == Users("waiting", e)
Holders(e) == Users("holding", e)

\* Nothing refers to e any more, so its id can stand for a new object.
Collected(e) ==
  /\ ~InFlight(e)
  /\ entry[e].timer \notin {"armed", "fired"}
  /\ entry[e].late = 0
  /\ \A k \in Keys : entries[k] # e /\ file[k] # e
  /\ \A c \in Callers : caller[c].at # e

\* NewManager
Init ==
  /\ entries = [k \in Keys |-> NoEntry]
  /\ \E k \in Keys : entry = [e \in EntryIds |->
       [NewEntry(k) EXCEPT !.cut = "unused", !.activeWaiters = 0]]
  /\ closed = FALSE
  /\ tempDir = "there"
  /\ file = [k \in Keys |-> NoEntry]
  /\ whole = [k \in Keys |-> FALSE]
  /\ caller = [c \in Callers |-> Idle]

-----------------------------------------------------------------------------
(* What the critical sections do to one entry.                             *)

\* Operators named Bad... are slips that were not made: the properties below
\* refute each of them.
BadStopTimer(r) == r

\* entry.timer.Stop(); entry.timer = nil. A callback that has fired runs on.
StopTimer(r) ==
  [r EXCEPT !.timer = "none", !.late = IF r.timer = "fired" THEN @ + 1 ELSE @]

ScheduleTTL(r) == IF r.timer = "none" THEN [r EXCEPT !.timer = "armed"] ELSE r

BadJoined(r) ==
  IF r.cut = "ok" THEN [StopTimer(r) EXCEPT !.refCount = @ + 1]
                  ELSE StopTimer(r)

\* getOrCreateEntry finds the entry r.
Joined(r) ==
  LET s == StopTimer(r) IN
  CASE r.cut = "ok"  -> [s EXCEPT !.refCount = @ + 1]
    [] r.cut = "err" -> s
    [] OTHER         -> [s EXCEPT !.activeWaiters = @ + 1]

BadWoken(r) ==
  IF r.cut = "err" THEN [r EXCEPT !.activeWaiters = @ - 1]
                   ELSE [StopTimer(r) EXCEPT !.activeWaiters = @ - 1]

\* waitForEntry, after done was closed.
Woken(r) ==
  LET s == [r EXCEPT !.activeWaiters = @ - 1] IN
  IF r.cut = "err" THEN s ELSE [StopTimer(s) EXCEPT !.refCount = @ + 1]

BadWaiterLeftNoTTL(r) ==
  IF r.activeWaiters > 1 THEN [r EXCEPT !.activeWaiters = @ - 1]
  ELSE [r EXCEPT !.activeWaiters = @ - 1, !.cancelled = TRUE]

BadWaiterLeftNoCancel(r) ==
  LET s == [r EXCEPT !.activeWaiters = @ - 1] IN
  IF s.activeWaiters = 0 /\ r.cut = "ok" /\ r.refCount = 0
    THEN ScheduleTTL(s) ELSE s

\* cancelWaiterLocked
WaiterLeft(r) ==
  LET s == [r EXCEPT !.activeWaiters = @ - 1]
      t == [s EXCEPT !.cancelled = TRUE]
  IN  IF s.activeWaiters > 0 THEN s
      ELSE IF r.cut = "ok" /\ r.refCount = 0 THEN ScheduleTTL(t) ELSE t

\* Release
Released(r) ==
  IF r.refCount > 1 THEN [r EXCEPT !.refCount = @ - 1]
                    ELSE ScheduleTTL([r EXCEPT !.refCount = 0])

\* runCut, after Cut returned without an error.
CutEnded(r) ==
  LET s == [r EXCEPT !.cut = "ok"] IN
  IF r.refCount = 0 /\ r.activeWaiters <= 0 THEN ScheduleTTL(s) ELSE s

\* Close
ShutDown(r) == [StopTimer(r) EXCEPT !.cancelled = TRUE]

BadEvictableHeld(e) == entries[entry[e].key] = e

BadEvictableOther(e) ==
  LET d == entries[entry[e].key] IN d # NoEntry /\ entry[d].refCount = 0

\* The test of the TTL callback.
Evictable(e) == entries[entry[e].key] = e /\ entry[e].refCount = 0

-----------------------------------------------------------------------------
(* Acquire *)

\* getOrCreateEntry makes a new entry and starts its cut.
AcquireNew(c, k) ==
  /\ caller[c].pc = "idle"
  /\ ~closed
  /\ entries[k] = NoEntry
  /\ \E e \in EntryIds :
       /\ Collected(e)
       /\ entries' = [entries EXCEPT ![k] = e]
       /\ entry' = [entry EXCEPT ![e] = NewEntry(k)]
       /\ caller' = [caller EXCEPT ![c] = At("waiting", e)]
  /\ UNCHANGED <<closed, tempDir, file, whole>>

BadAcquireExisting(c, k) ==
  LET e == entries[k] IN
  /\ caller[c].pc = "idle"
  /\ ~closed
  /\ e # NoEntry
  /\ entry' = [entry EXCEPT ![e] = [StopTimer(@) EXCEPT !.refCount = @ + 1]]
  /\ caller' = [caller EXCEPT ![c] = At("holding", e)]
  /\ UNCHANGED <<entries, closed, tempDir, file, whole>>

\* getOrCreateEntry finds an entry: a hit when its cut is done, a wait if not.
AcquireExisting(c, k) ==
  LET e == entries[k] IN
  /\ caller[c].pc = "idle"
  /\ ~closed
  /\ e # NoEntry
  /\ entry' = [entry EXCEPT ![e] = Joined(@)]
  /\ caller' = [caller EXCEPT ![c] =
       CASE entry[e].cut = "ok"  -> At("holding", e)
         [] entry[e].cut = "err" -> Idle
         [] OTHER                -> At("waiting", e)]
  /\ UNCHANGED <<entries, closed, tempDir, file, whole>>

\* Acquire on a closed manager is refused.
AcquireRefused(c) ==
  /\ caller[c].pc = "idle"
  /\ closed
  /\ UNCHANGED vars

\* The context of a waiting caller is cancelled or times out.
CtxDone(c) ==
  /\ caller[c].pc = "waiting"
  /\ ~caller[c].ctxDone
  /\ caller' = [caller EXCEPT ![c].ctxDone = TRUE]
  /\ UNCHANGED <<entries, entry, closed, tempDir, file, whole>>

\* waitForEntry takes the <-entry.done branch.
WakeDone(c) ==
  LET e == caller[c].at IN
  /\ caller[c].pc = "waiting"
  /\ Done(e)
  /\ entry' = [entry EXCEPT ![e] = Woken(@)]
  /\ caller' = [caller EXCEPT ![c] =
       IF entry[e].cut = "ok" THEN At("holding", e) ELSE Idle]
  /\ UNCHANGED <<entries, closed, tempDir, file, whole>>

\* waitForEntry takes the <-ctx.Done() branch, whether or not the cut is done.
WakeCancelled(c) ==
  LET e == caller[c].at IN
  /\ caller[c].pc = "waiting"
  /\ caller[c].ctxDone
  /\ entry' = [entry EXCEPT ![e] = WaiterLeft(@)]
  /\ caller' = [caller EXCEPT ![c] = Idle]
  /\ UNCHANGED <<entries, closed, tempDir, file, whole>>

-----------------------------------------------------------------------------
(* The cutter (any implementation of the Cutter interface) and runCut.     *)

\* Cut opens its output file.
CutCreate(e) ==
  LET k == entry[e].key IN
  /\ entry[e].cut = "queued"
  /\ tempDir # "gone"
  /\ entry' = [entry EXCEPT ![e].cut = "writing"]
  /\ file' = [file EXCEPT ![k] = e]
  /\ whole' = [whole EXCEPT ![k] = FALSE]
  /\ UNCHANGED <<entries, closed, tempDir, caller>>

\* Cut removes a failed attempt and starts over without the artwork.
CutRetry(e) ==
  LET k == entry[e].key IN
  /\ entry[e].cut = "writing"
  /\ entry' = [entry EXCEPT ![e].cut = "queued"]
  /\ file' = [file EXCEPT ![k] = NoEntry]
  /\ whole' = [whole EXCEPT ![k] = FALSE]
  /\ UNCHANGED <<entries, closed, tempDir, caller>>

\* Cut succeeds. If the path was unlinked or reused, that file is not touched.
CutSucceed(e) ==
  LET k == entry[e].key IN
  /\ entry[e].cut = "writing"
  /\ entry' = [entry EXCEPT ![e].cut = "written"]
  /\ whole' = [whole EXCEPT ![k] = @ \/ file[k] = e]
  /\ UNCHANGED <<entries, closed, tempDir, file, caller>>

\* Cut fails (error, timeout or cancelled context); it may remove its output.
CutFail(e) ==
  LET k == entry[e].key IN
  /\ entry[e].cut \in {"queued", "writing"}
  /\ entry' = [entry EXCEPT ![e].cut = "failing"]
  /\ \/ UNCHANGED <<file, whole>>
     \/ /\ entry[e].cut = "writing"
        /\ file' = [file EXCEPT ![k] = NoEntry]
        /\ whole' = [whole EXCEPT ![k] = FALSE]
  /\ UNCHANGED <<entries, closed, tempDir, caller>>

\* The critical section of runCut after a success: done is closed.
RunCutOk(e) ==
  /\ entry[e].cut = "written"
  /\ entry' = [entry EXCEPT ![e] = CutEnded(@)]
  /\ UNCHANGED <<entries, closed, tempDir, file, whole, caller>>

BadRunCutErrKeepsFile(e) ==
  /\ entry[e].cut = "failing"
  /\ entry' = [entry EXCEPT ![e].cut = "err"]
  /\ entries' = [entries EXCEPT ![entry[e].key] = NoEntry]
  /\ UNCHANGED <<closed, tempDir, file, whole, caller>>

BadRunCutErrNotDone(e) ==
  LET k == entry[e].key IN
  /\ entry[e].cut = "failing"
  /\ entries' = [entries EXCEPT ![k] = NoEntry]
  /\ file' = [file EXCEPT ![k] = NoEntry]
  /\ whole' = [whole EXCEPT ![k] = FALSE]
  /\ UNCHANGED <<entry, closed, tempDir, caller>>

\* The critical section of runCut after an error: the key's entry and file go.
RunCutErr(e) ==
  LET k == entry[e].key IN
  /\ entry[e].cut = "failing"
  /\ entry' = [entry EXCEPT ![e].cut = "err"]
  /\ entries' = [entries EXCEPT ![k] = NoEntry]
  /\ file' = [file EXCEPT ![k] = NoEntry]
  /\ whole' = [whole EXCEPT ![k] = FALSE]
  /\ UNCHANGED <<closed, tempDir, caller>>

-----------------------------------------------------------------------------
(* Release and the TTL *)

\* Release(key) acts on the entry the key has now.
Release(c) ==
  LET e == entries[entry[caller[c].at].key] IN
  /\ caller[c].pc = "holding"
  /\ entry' = IF e = NoEntry THEN entry
                             ELSE [entry EXCEPT ![e] = Released(@)]
  /\ caller' = [caller EXCEPT ![c] = Idle]
  /\ UNCHANGED <<entries, closed, tempDir, file, whole>>

\* The TTL elapses: the callback starts and goes for the lock.
TimerFire(e) ==
  /\ entry[e].timer = "armed"
  /\ entry[e].late < MaxLate
  /\ TTLCoversWakeup => Waiters(e) = {}
  /\ entry' = [entry EXCEPT ![e].timer = "fired"]
  /\ UNCHANGED <<entries, closed, tempDir, file, whole, caller>>

\* What a callback of e does once it has the lock.
Expire(e) ==
  LET k == entry[e].key IN
  /\ entries' = IF Evictable(e) THEN [entries EXCEPT ![k] = NoEntry] ELSE entries
  /\ file' = IF Evictable(e) THEN [file EXCEPT ![k] = NoEntry] ELSE file
  /\ whole' = IF Evictable(e) THEN [whole EXCEPT ![k] = FALSE] ELSE whole
  /\ UNCHANGED <<closed, tempDir, caller>>

TimerCallback(e) ==
  /\ entry[e].timer = "fired"
  /\ entry' = [entry EXCEPT ![e].timer = "spent"]
  /\ Expire(e)

\* A callback whose timer was stopped after it had fired.
LateCallback(e) ==
  /\ entry[e].late > 0
  /\ entry' = [entry EXCEPT ![e].late = @ - 1]
  /\ Expire(e)

-----------------------------------------------------------------------------
(* GetExisting and Close *)

\* GetExisting looks the entry up under the lock ...
Lookup(c, k) ==
  /\ caller[c].pc = "idle"
  /\ entries[k] # NoEntry
  /\ caller' = [caller EXCEPT ![c] = At("statting", entries[k])]
  /\ UNCHANGED <<entries, entry, closed, tempDir, file, whole>>

\* ... and, without the lock, tests done and err and stats the path.
Stat(c) ==
  /\ caller[c].pc = "statting"
  /\ caller' = [caller EXCEPT ![c] = Idle]
  /\ UNCHANGED <<entries, entry, closed, tempDir, file, whole>>

Close ==
  /\ ~closed
  /\ closed' = TRUE
  /\ entry' = [e \in EntryIds |->
       IF entries[entry[e].key] = e THEN ShutDown(entry[e]) ELSE entry[e]]
  /\ entries' = [k \in Keys |-> NoEntry]
  /\ UNCHANGED <<tempDir, file, whole, caller>>

\* The os.RemoveAll with which Close ends, outside the lock: it unlinks the
\* files it finds, then removes the directory, which must be empty by then.
RemoveFiles ==
  /\ closed
  /\ tempDir = "there"
  /\ tempDir' = "emptied"
  /\ file' = [k \in Keys |-> NoEntry]
  /\ whole' = [k \in Keys |-> FALSE]
  /\ UNCHANGED <<entries, entry, closed, caller>>

\* If a cut made a file in between, Close returns the error and both stay.
RemoveDir ==
  /\ tempDir = "emptied"
  /\ tempDir' = IF \A k \in Keys : file[k] = NoEntry THEN "gone" ELSE "kept"
  /\ UNCHANGED <<entries, entry, closed, file, whole, caller>>

-----------------------------------------------------------------------------
CutStep(e) == CutCreate(e) \/ CutRetry(e) \/ CutSucceed(e) \/ CutFail(e)
CutReturn(e) == CutSucceed(e) \/ CutFail(e)
Wake(c) == WakeDone(c) \/ WakeCancelled(c)
RunCut(e) == RunCutOk(e) \/ RunCutErr(e)

CallerStep(c) ==
  \/ \E k \in Keys : AcquireNew(c, k) \/ AcquireExisting(c, k) \/ Lookup(c, k)
  \/ AcquireRefused(c)
  \/ CtxDone(c)
  \/ Wake(c)
  \/ Release(c)
  \/ Stat(c)

EntryStep(e) ==
  \/ CutStep(e)
  \/ RunCut(e)
  \/ TimerFire(e)
  \/ TimerCallback(e)
  \/ LateCallback(e)

Next ==
  \/ \E c \in Callers : CallerStep(c)
  \/ \E e \in EntryIds : EntryStep(e)
  \/ Close
  \/ RemoveFiles
  \/ RemoveDir

Spec == Init /\ [][Next]_vars

\* Goroutines run, the cutter returns (each cut has a timeout) and timers
\* elapse. Whether a caller calls, gives up or releases is its own affair.
Fairness ==
  /\ \A c \in Callers : WF_vars(Wake(c)) /\ WF_vars(Stat(c))
  /\ \A e \in EntryIds :
       /\ WF_vars(CutReturn(e))
       /\ WF_vars(RunCut(e))
       /\ WF_vars(TimerFire(e))
       /\ WF_vars(TimerCallback(e))
       /\ WF_vars(LateCallback(e))
  /\ WF_vars(RemoveFiles)
  /\ WF_vars(RemoveDir)

FairSpec == Spec /\ Fairness

-----------------------------------------------------------------------------
(* Properties *)

\* Every variable keeps the shape of the code's data; a reference count is
\* never negative.
TypeOK ==
  /\ entries \in [Keys -> EntryIds \cup {NoEntry}]
  /\ entry \in [EntryIds -> TrackEntry]
  /\ closed \in BOOLEAN
  /\ tempDir \in {"there", "emptied", "kept", "gone"}
  /\ file \in [Keys -> EntryIds \cup {NoEntry}]
  /\ whole \in [Keys -> BOOLEAN]
  /\ caller \in [Callers -> Caller]

\* The counters of a live entry are exactly its users: refCount the callers
\* that hold its slice, activeWaiters those that still wait for it. They are
\* moved in five critical sections (131, 192, 202, 216, 251).
RefsMatchUsers ==
  \A k \in Keys : \A e \in EntryIds :
    entries[k] = e =>
      /\ entry[e].refCount = Cardinality(Holders(e))
      /\ entry[e].activeWaiters = Cardinality(Waiters(e))

\* While the manager is open, a caller between Acquire and Release has the
\* complete file of its own cut at the path it was given, and the manager
\* still counts it: no expiry, failed cut or second cut took it away.
HeldSliceIntact ==
  \A c \in Callers :
    LET e == caller[c].at
        k == entry[e].key
    IN  caller[c].pc = "holding" /\ ~closed =>
          entries[k] = e /\ file[k] = e /\ whole[k]

\* Two cuts never work on one output path at the same time.
OneCutPerPath ==
  \A d, e \in EntryIds :
    entry[d].key = entry[e].key /\ InFlight(d) /\ InFlight(e) => d = e

\* A file in the temporary directory of an open manager belongs to the entry
\* of its key: none is left behind that nothing would ever remove.
NoLeakedSlice ==
  \A k \in Keys : ~closed /\ file[k] # NoEntry => entries[k] = file[k]

\* A finished slice that nobody holds or waits for has its TTL running, so it
\* is going to be removed (each of 181, 223, 260 must have started it).
IdleSliceExpires ==
  \A k \in Keys : \A e \in EntryIds :
    entries[k] = e /\ entry[e].cut = "ok" /\ entry[e].refCount = 0
                   /\ Waiters(e) = {}
      => entry[e].timer \in {"armed", "fired"}

\* A cut that still runs although every caller gave up, or that the manager
\* was closed over, has been told to stop.
AbandonedCutIsAborted ==
  \A e \in EntryIds :
    entry[e].cut \in {"queued", "writing"} /\ (closed \/ Waiters(e) = {})
      => entry[e].cancelled

\* When GetExisting reports a size, the file it has measured is complete.
GetExistingExact ==
  \A c \in Callers :
    LET e == caller[c].at
        k == entry[e].key
    IN  caller[c].pc = "statting" /\ entry[e].cut = "ok" /\ file[k] # NoEntry
          => whole[k]

\* No Acquire waits for ever: the one cut of its key ends, and every waiter of
\* it is woken, those included that joined while it ran or after it was
\* cancelled.
EveryAcquireReturns ==
  \A c \in Callers : caller[c].pc = "waiting" ~> caller[c].pc # "waiting"

\* While the manager is open, a file that nobody waits for or holds does not
\* stay on the disk: callers come back to it or it is removed, whatever
\* happened to its timers.
IdleSliceReclaimed ==
  \A k \in Keys :
    []<>(\/ closed
         \/ file[k] = NoEntry
         \/ \E e \in EntryIds :
              entry[e].key = k /\ Waiters(e) \cup Holders(e) # {})

\* After Close nothing of a cut that failed or was stopped stays on the disk: what
\* os.RemoveAll came too early for, its own cut removes. Only the complete slice of a
\* cut that ended well although it was cancelled can stay.
ClosedCleansUp ==
  closed ~> [](\A k \in Keys : file[k] # NoEntry => whole[k] /\ entry[file[k]].cut = "ok")

\* "Close terminates the manager, stops all timers, and removes all temporary files."
CloseRemovesAll == closed ~> [](\A k \in Keys : file[k] = NoEntry)

-----------------------------------------------------------------------------
(* The promise of the cache, SliceCache, that this module implements. A    *)
(* slice is ready only while its complete file is at its path.             *)
SliceOf(k) ==
  LET e == entries[k] IN
  IF e = NoEntry THEN "none"
  ELSE IF entry[e].cut # "ok" THEN "cutting"
  ELSE IF file[k] = e /\ whole[k] THEN "ready" ELSE "broken"

UseOf(c) ==
  LET e == caller[c].at IN
  IF closed \/ caller[c].pc \in {"idle", "statting"}
    THEN [status |-> "idle", key |-> NoEntry]
    ELSE [status |-> IF caller[c].pc = "holding" THEN "holding"
                     ELSE IF entry[e].cut = "err" THEN "failed" ELSE "waiting",
          key |-> entry[e].key]

Promise == INSTANCE SliceCache WITH
  NoKey <- NoEntry,
  slice <- [k \in Keys |-> SliceOf(k)],
  use <- [c \in Callers |-> UseOf(c)],
  open <- ~closed

\* Every step of the manager is a step of the promise: all callers of a key
\* share one cut and its outcome, and what they hold or wait for is not evicted.
KeepsPromise == Promise!Spec
=============================================================================
