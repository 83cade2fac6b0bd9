----------------------------- MODULE VfsHandles -----------------------------
(***************************************************************************)
(* The open files of the VFS (internal/vfs/fs.go: Open, Read, Getattr,     *)
(* Release, Destroy) on top of a slice cache. The cache is its promise,    *)
(* SliceCache, which TrackCache implements; a claim is one Acquire and     *)
(* what it obtained until the matching Release, whoever carries it: the    *)
(* thread in Open, the handle, or the thread in Release.                   *)
(***************************************************************************)
EXTENDS Naturals, FiniteSets

CONSTANTS
  Threads,     \* FUSE worker threads
  Claims,      \* claims that can be alive at once
  Keys,        \* CutterKeys of the virtual tracks
  None,        \* no key (a real file), no claim
  MaxHandles   \* bound on nextHandle

ASSUME HandlesAssumption ==
  /\ IsFiniteSet(Threads)
  /\ None \notin Keys \cup Claims
  /\ MaxHandles \in Nat

VARIABLES
  slice, use, open,  \* the slice cache
  thread,      \* what each FUSE thread is doing
  openFiles,   \* the handles in v.openFiles
  handle,      \* the fileHandle objects, by their number
  nextHandle,  \* v.nextHandle
  destroy      \* progress of Destroy; v.ctx is cancelled from "cancelled" on

cache == <<slice, use, open>>
files == <<openFiles, handle, nextHandle>>
vars == <<cache, thread, files, destroy>>

Slicer == INSTANCE SliceCache WITH Callers <- Claims, NoKey <- None

-----------------------------------------------------------------------------
FHs == 1 .. MaxHandles

\* `file` is the atomic pointer (is it set?), `fd` whether the file it pointed
\* to is still open, `whole` whether that file is a complete slice.
FileHandle ==
  [key : Keys \cup {None}, claim : Claims \cup {None},
   file : BOOLEAN, fd : BOOLEAN, whole : BOOLEAN]

NoHandle ==
  [key |-> None, claim |-> None, file |-> FALSE, fd |-> FALSE, whole |-> FALSE]

\* Open: asking, acquiring (in Acquire), opening (has the path), publishing
\* (has the file), unwinding. Read: found (the handle), reading (its file).
\* Getattr of a track: loading (has a handle of it), statting (its file),
\* peeking (asks the cache), measuring (it has the entry, and may stat its
\* path), answering; `whole` then says that the size is that of the complete
\* slice. `found` is what became of the entry since it was looked up, and
\* `seen`, for HonestSize alone, the handles of the track open at that time.
\* Release: removed (from openFiles), leaving (about to release the slice).
Opening == {"asking", "acquiring", "opening", "publishing"}

Thread ==
  [pc : {"idle", "unwinding", "found", "reading", "loading", "statting", "peeking",
         "measuring", "answering", "removed", "leaving"} \cup Opening,
   key : Keys \cup {None}, claim : Claims \cup {None},
   fh : FHs \cup {0}, whole : BOOLEAN,
   found : {"current", "failed", "expired"}, seen : SUBSET FHs]

Idle ==
  [pc |-> "idle", key |-> None, claim |-> None, fh |-> 0, whole |-> FALSE,
   found |-> "current", seen |-> {}]

Goes(t, r) == thread' = [thread EXCEPT ![t] = r]
Ends(t) == Goes(t, Idle)

CtxErr == destroy # "no"

\* slicer.Release: on a closed cache it does nothing.
ReleaseSlice(c) == IF open THEN Slicer!Leave(c) ELSE UNCHANGED cache

\* New
Init ==
  /\ Slicer!Init
  /\ thread = [t \in Threads |-> Idle]
  /\ openFiles = {}
  /\ handle = [fh \in FHs |-> NoHandle]
  /\ nextHandle = 0
  /\ destroy = "no"

-----------------------------------------------------------------------------
(* Open *)

MayOpen(t) ==
  /\ thread[t].pc = "idle"
  /\ nextHandle + Cardinality({u \in Threads : thread[u].pc \in Opening}) < MaxHandles

\* The path is a virtual track, and Acquire finds the context alive.
OpenVirtual(t, k) ==
  /\ MayOpen(t)
  /\ ~CtxErr
  /\ Goes(t, [Idle EXCEPT !.pc = "asking", !.key = k])
  /\ UNCHANGED <<cache, files, destroy>>

\* An operation that ends in an error (or, of Release, in nothing) before it
\* changed anything: EACCES, ENOENT, EISDIR, ENOSYS, EBADF, a cancelled context.
Refused(t) == thread[t].pc = "idle" /\ UNCHANGED vars

\* Acquire joins or starts a cut, has a hit, or is refused by a closed cache.
Ask(t) ==
  LET k == thread[t].key IN
  /\ thread[t].pc = "asking"
  /\ \/ /\ open
        /\ \E c \in Claims :
             /\ \A fh \in FHs : handle[fh].claim # c
             /\ Slicer!Ask(c, k)
             /\ Goes(t, [thread[t] EXCEPT !.claim = c,
                  !.pc = IF slice[k] = "ready" THEN "opening" ELSE "acquiring"])
     \/ /\ ~open
        /\ Ends(t)
        /\ UNCHANGED cache
  /\ UNCHANGED <<files, destroy>>

BadAcquireOk(t) ==
  /\ thread[t].pc = "acquiring"
  /\ Goes(t, [thread[t] EXCEPT !.pc = "opening"])
  /\ UNCHANGED <<cache, files, destroy>>

\* Acquire returns the path. A cut that succeeds just as the cache is closed
\* still returns one.
AcquireOk(t) ==
  /\ thread[t].pc = "acquiring"
  /\ IF open THEN Slicer!Obtain(thread[t].claim, thread[t].key) ELSE UNCHANGED cache
  /\ Goes(t, [thread[t] EXCEPT !.pc = "opening"])
  /\ UNCHANGED <<files, destroy>>

BadAcquireErr(t) ==
  /\ thread[t].pc = "acquiring"
  /\ use[thread[t].claim].status = "failed"
  /\ Slicer!Leave(thread[t].claim)
  /\ Ends(t)
  /\ UNCHANGED <<files, destroy>>

\* Acquire returns an error: the cut failed, or v.ctx was cancelled.
AcquireErr(t) ==
  /\ thread[t].pc = "acquiring"
  /\ CtxErr \/ use[thread[t].claim].status = "failed"
  /\ ReleaseSlice(thread[t].claim)
  /\ Ends(t)
  /\ UNCHANGED <<files, destroy>>

\* os.Open(tempPath). After Close the path has the complete file or none.
OpenTemp(t) ==
  /\ thread[t].pc = "opening"
  /\ Goes(t, [thread[t] EXCEPT !.pc = "publishing",
       !.whole = ~open \/ slice[thread[t].key] = "ready"])
  /\ UNCHANGED <<cache, files, destroy>>

BadOpenTempFails(t) ==
  /\ thread[t].pc = "opening"
  /\ Ends(t)
  /\ UNCHANGED <<cache, files, destroy>>

OpenTempFails(t) ==
  /\ thread[t].pc = "opening"
  /\ ReleaseSlice(thread[t].claim)
  /\ Ends(t)
  /\ UNCHANGED <<files, destroy>>

\* The path is a real or mirrored file, which was opened.
OpenReal(t) ==
  /\ MayOpen(t)
  /\ Goes(t, [Idle EXCEPT !.pc = "publishing", !.whole = TRUE])
  /\ UNCHANGED <<cache, files, destroy>>

BadRegister(t) ==
  /\ openFiles' = openFiles \cup {nextHandle + 1}
  /\ handle' = [handle EXCEPT ![nextHandle + 1] =
       [key |-> thread[t].key, claim |-> thread[t].claim,
        file |-> TRUE, fd |-> TRUE, whole |-> thread[t].whole]]
  /\ Ends(t)
  /\ UNCHANGED nextHandle

Register(t) ==
  /\ nextHandle' = nextHandle + 1
  /\ openFiles' = openFiles \cup {nextHandle'}
  /\ handle' = [handle EXCEPT ![nextHandle'] =
       [key |-> thread[t].key, claim |-> thread[t].claim,
        file |-> TRUE, fd |-> TRUE, whole |-> thread[t].whole]]
  /\ Ends(t)

BadPublishVirtual(t) ==
  /\ thread[t].pc = "publishing"
  /\ thread[t].key # None
  /\ Register(t)
  /\ UNCHANGED <<cache, destroy>>

\* The handle of a virtual track is registered unless the VFS is going down.
PublishVirtual(t) ==
  /\ thread[t].pc = "publishing"
  /\ thread[t].key # None
  /\ IF CtxErr THEN Goes(t, [thread[t] EXCEPT !.pc = "unwinding"]) /\ UNCHANGED files
               ELSE Register(t)
  /\ UNCHANGED <<cache, destroy>>

\* ... and then the slice is released and ENODEV returned.
Unwind(t) ==
  /\ thread[t].pc = "unwinding"
  /\ ReleaseSlice(thread[t].claim)
  /\ Ends(t)
  /\ UNCHANGED <<files, destroy>>

PublishReal(t) ==
  /\ thread[t].pc = "publishing"
  /\ thread[t].key = None
  /\ Register(t)
  /\ UNCHANGED <<cache, destroy>>

-----------------------------------------------------------------------------
(* Read *)

ReadLookup(t, fh) ==
  /\ thread[t].pc = "idle"
  /\ fh \in openFiles
  /\ Goes(t, [Idle EXCEPT !.pc = "found", !.fh = fh])
  /\ UNCHANGED <<cache, files, destroy>>

\* h.file.Load(): EBADF if another thread has swapped it out.
ReadLoad(t) ==
  LET h == handle[thread[t].fh] IN
  /\ thread[t].pc = "found"
  /\ IF h.file THEN Goes(t, [Idle EXCEPT !.pc = "reading", !.whole = h.whole])
               ELSE Ends(t)
  /\ UNCHANGED <<cache, files, destroy>>

\* f.ReadAt: the bytes of the file, or EIO if it was closed.
ReadAt(t) ==
  /\ thread[t].pc = "reading"
  /\ Ends(t)
  /\ UNCHANGED <<cache, files, destroy>>

-----------------------------------------------------------------------------
(* Getattr of a virtual track *)

Peeks(t, k) == Goes(t, [Idle EXCEPT !.pc = "peeking", !.key = k])
Answers(t, exact) == Goes(t, [Idle EXCEPT !.pc = "answering", !.whole = exact])

HandlesOf(k) == {fh \in openFiles : handle[fh].key = k}

\* Getattr with an open handle of this track uses it; with none, or one of
\* another file, it asks the cache.
Getattr(t, k) ==
  /\ thread[t].pc = "idle"
  /\ \/ Peeks(t, k)
     \/ \E fh \in HandlesOf(k) :
          Goes(t, [Idle EXCEPT !.pc = "loading", !.key = k, !.fh = fh])
  /\ UNCHANGED <<cache, files, destroy>>

\* h.file.Load()
GetattrLoad(t) ==
  /\ thread[t].pc = "loading"
  /\ IF handle[thread[t].fh].file THEN Goes(t, [thread[t] EXCEPT !.pc = "statting"])
                                 ELSE Peeks(t, thread[t].key)
  /\ UNCHANGED <<cache, files, destroy>>

BadGetattrStat(t) ==
  LET h == handle[thread[t].fh] IN
  /\ thread[t].pc = "statting"
  /\ Answers(t, h.fd /\ h.whole)
  /\ UNCHANGED <<cache, files, destroy>>

\* f.Stat(), unless another thread has closed it.
GetattrStat(t) ==
  LET h == handle[thread[t].fh] IN
  /\ thread[t].pc = "statting"
  /\ IF h.fd THEN Answers(t, h.whole) ELSE Peeks(t, thread[t].key)
  /\ UNCHANGED <<cache, files, destroy>>

\* GetExisting looks the entry up under the cache's lock, be it still cutting;
\* with no entry the estimate is the answer.
Peek(t) ==
  /\ thread[t].pc = "peeking"
  /\ IF open /\ slice[thread[t].key] # "none"
       THEN Goes(t, [thread[t] EXCEPT !.pc = "measuring",
                                      !.seen = HandlesOf(thread[t].key)])
       ELSE Answers(t, FALSE)
  /\ UNCHANGED <<cache, files, destroy>>

\* Without the lock it tests done and err of the entry and stats its path. The
\* entry may still be cutting, or have failed: then the estimate is the answer.
\* If it has expired the path may have the slice of another entry, be half cut
\* again, or be gone. A closed cache may or may not have removed the file.
Measure(t) ==
  LET r == thread[t] IN
  /\ r.pc = "measuring"
  /\ \E exact \in IF r.found = "failed" THEN {FALSE}
                   ELSE IF open THEN {slice[r.key] = "ready"} ELSE BOOLEAN :
       Answers(t, exact)
  /\ UNCHANGED <<cache, files, destroy>>

Answer(t) ==
  /\ thread[t].pc = "answering"
  /\ Ends(t)
  /\ UNCHANGED <<cache, files, destroy>>

-----------------------------------------------------------------------------
(* Release and Destroy *)

ReleaseRemove(t, fh) ==
  /\ thread[t].pc = "idle"
  /\ fh \in openFiles
  /\ openFiles' = openFiles \ {fh}
  /\ Goes(t, [Idle EXCEPT !.pc = "removed", !.fh = fh])
  /\ UNCHANGED <<cache, handle, nextHandle, destroy>>

Closed(h) == [h EXCEPT !.file = FALSE, !.fd = FALSE, !.claim = None]

\* h.file.Swap(nil), and f.Close() by the thread that got f.
ReleaseSwap(t) ==
  LET h == handle[thread[t].fh] IN
  /\ thread[t].pc = "removed"
  /\ handle' = [handle EXCEPT ![thread[t].fh] = Closed(h)]
  /\ IF h.file /\ h.key # None
       THEN Goes(t, [Idle EXCEPT !.pc = "leaving", !.key = h.key, !.claim = h.claim])
       ELSE Ends(t)
  /\ UNCHANGED <<cache, openFiles, nextHandle, destroy>>

ReleaseLeave(t) ==
  /\ thread[t].pc = "leaving"
  /\ ReleaseSlice(thread[t].claim)
  /\ Ends(t)
  /\ UNCHANGED <<files, destroy>>

\* Destroy: v.cancel(), ...
DestroyCancel ==
  /\ destroy = "no"
  /\ destroy' = "cancelled"
  /\ UNCHANGED <<cache, thread, files>>

BadDestroySweep ==
  /\ destroy = "cancelled"
  /\ destroy' = "swept"
  /\ openFiles' = {}
  /\ UNCHANGED <<cache, thread, handle, nextHandle>>

\* ... under the lock every handle is removed and its file closed, ...
DestroySweep ==
  /\ destroy = "cancelled"
  /\ destroy' = "swept"
  /\ openFiles' = {}
  /\ handle' = [fh \in FHs |-> IF fh \in openFiles THEN Closed(handle[fh]) ELSE handle[fh]]
  /\ UNCHANGED <<cache, thread, nextHandle>>

\* ... and the slices still held go with the cache.
DestroyClose ==
  /\ destroy = "swept"
  /\ destroy' = "done"
  /\ Slicer!Close
  /\ UNCHANGED <<thread, files>>

-----------------------------------------------------------------------------
\* The entry of k is deleted; a Getattr that has looked it up keeps it.
Outlived(k, how) ==
  thread' = [t \in Threads |->
    IF /\ thread[t].pc = "measuring" /\ thread[t].key = k
       /\ thread[t].found = "current"
      THEN [thread[t] EXCEPT !.found = how] ELSE thread[t]]

\* Cuts end and idle slices are evicted.
SlicerStep ==
  /\ open
  /\ \E k \in Keys :
       \/ Slicer!Ready(k) /\ UNCHANGED thread
       \/ Slicer!Fail(k) /\ Outlived(k, "failed")
       \/ Slicer!Evict(k) /\ Outlived(k, "expired")
  /\ UNCHANGED <<files, destroy>>

OpenStep(t) ==
  \/ Ask(t)
  \/ AcquireOk(t)
  \/ AcquireErr(t)
  \/ OpenTemp(t)
  \/ OpenTempFails(t)
  \/ PublishVirtual(t)
  \/ Unwind(t)
  \/ PublishReal(t)

GetattrStep(t) ==
  \/ GetattrLoad(t)
  \/ GetattrStat(t)
  \/ Peek(t)
  \/ Measure(t)
  \/ Answer(t)

ThreadStep(t) ==
  \/ OpenStep(t)
  \/ ReadLoad(t)
  \/ ReadAt(t)
  \/ GetattrStep(t)
  \/ ReleaseSwap(t)
  \/ ReleaseLeave(t)

Request(t) ==
  \/ \E k \in Keys : OpenVirtual(t, k) \/ Getattr(t, k)
  \/ OpenReal(t)
  \/ Refused(t)
  \/ \E fh \in FHs : ReadLookup(t, fh) \/ ReleaseRemove(t, fh)

DestroyStep == DestroyCancel \/ DestroySweep \/ DestroyClose

Next ==
  \/ \E t \in Threads : Request(t) \/ ThreadStep(t)
  \/ DestroyStep
  \/ SlicerStep

Spec == Init /\ [][Next]_vars

\* Threads that are not blocked go on, and so does a Destroy that has begun.
\* Cuts need not end, so only an open cache that has the slice lets Acquire
\* succeed; nor need requests come.
Fairness ==
  /\ \A t \in Threads :
       /\ WF_vars(ThreadStep(t) /\ thread[t].pc # "acquiring")
       /\ WF_vars(AcquireOk(t) /\ open)
       /\ WF_vars(AcquireErr(t))
  /\ WF_vars(DestroySweep)
  /\ WF_vars(DestroyClose)

FairSpec == Spec /\ Fairness

-----------------------------------------------------------------------------
(* Properties *)

\* The variables keep the shape of the code's data, and openFiles has only
\* handles that were given out.
TypeOK ==
  /\ thread \in [Threads -> Thread]
  /\ nextHandle \in FHs \cup {0}
  /\ openFiles \subseteq 1 .. nextHandle
  /\ handle \in [FHs -> FileHandle]
  /\ destroy \in {"no", "cancelled", "swept", "done"}

\* Who will release the claim c.
Owners(c) ==
  {t \in Threads : thread[t].claim = c} \cup
  {fh \in FHs : handle[fh].claim = c /\ handle[fh].file}

\* Until the cache is closed every Acquire that was not refused is matched by
\* one Release to come: no error path drops a reference, and no Release, racing
\* another one, a Read or Destroy, gives back a reference twice. (References of
\* handles that Destroy swept go with the cache.)
OneOwnerPerClaim ==
  destroy \in {"no", "cancelled"} =>
    \A c \in Claims :
      IF use[c].status = "idle" THEN Owners(c) = {}
                                ELSE Cardinality(Owners(c)) = 1

\* A handle of a virtual track never reads from anything but the complete
\* slice, although the cache may expire, recut and close while it is open.
VirtualFileIsWhole ==
  /\ \A fh \in FHs : handle[fh].file => handle[fh].whole
  /\ \A t \in Threads : thread[t].pc = "reading" => thread[t].whole

\* Once Destroy has swept the handles, no Open that was in flight can add one
\* for a virtual track.
NoGhostTrack ==
  destroy \in {"swept", "done"} => \A fh \in openFiles : handle[fh].key = None

\* Every file that is open can still be closed: its handle is in openFiles, or
\* a Release is about to close it.
NoLeakedFile ==
  \A fh \in FHs : handle[fh].fd =>
    /\ handle[fh].file
    /\ fh \in openFiles \/ \E t \in Threads : thread[t].pc = "removed" /\ thread[t].fh = fh

\* "Reported sizes are honest after the first slice": while a handle of a track
\* is open, no Getattr, with that handle, with another one that is released under
\* it or with none, comes to the estimate or to the size of half a slice; unless
\* every such handle was opened after the Getattr had looked the slice up.
HonestSize ==
  [][\A t \in Threads :
       thread[t].pc # "answering" /\ thread'[t].pc = "answering" /\ ~thread'[t].whole =>
         \A fh \in HandlesOf(thread[t].key) :
           thread[t].pc = "measuring" /\ fh \notin thread[t].seen]_vars

\* Destroy sets every Open free that waits for a slice, even if its cut hangs,
\* and none waits after it.
DestroyUnblocks ==
  destroy = "cancelled" ~> [](\A t \in Threads : thread[t].pc # "acquiring")
=============================================================================
