-------------------------- MODULE VfsHandlesProofs --------------------------
(***************************************************************************)
(* Proofs about the open files of the VFS, for any number of threads,      *)
(* claims, keys and handles.                                               *)
(*                                                                         *)
(* The properties are not inductive. IInv adds where a claim may be at     *)
(* each point of Open and Release (ThreadsPlaced, HandlesPlaced), that     *)
(* nobody else has it and the cache knows of it (ClaimsUnique, FreeClaims, *)
(* UsedClaims), and that a caller on its way from Acquire to the           *)
(* registration of its handle, and from then on the handle, keeps the slice*)
(* from being evicted (HeldIsReady, OpeningHolds, HandlesHold,             *)
(* OpenFilesLive). For HonestSize, SeenIsCurrent adds that the entry which *)
(* a Getattr has looked up lives on while a handle is open that it saw.    *)
(***************************************************************************)
EXTENDS VfsHandles, FiniteSetTheorems, TLAPS

Carrying == {"acquiring", "opening", "unwinding", "leaving"}

CacheType ==
  /\ slice \in [Keys -> {"none", "cutting", "ready"}]
  /\ use \in [Claims -> Slicer!Use]
  /\ \A c \in Claims : use[c].status # "idle" <=> use[c].key # None
  /\ open \in BOOLEAN /\ (open <=> destroy # "done")

\* Which thread has a claim, a key, a handle, a whole file.
Placed(th) ==
  /\ th.claim # None <=> (th.pc \in Carrying \/ (th.pc = "publishing" /\ th.key # None))
  /\ th.pc \in {"asking", "acquiring", "opening", "leaving", "loading", "statting", "peeking",
                "measuring"} => th.key # None
  /\ th.pc \in {"found", "removed", "loading", "statting"} => th.fh \in 1 .. nextHandle
  /\ th.pc \in {"publishing", "reading"} => th.whole

ThreadsPlaced == \A t \in Threads : Placed(thread[t])

HandlesPlaced ==
  \A fh \in FHs :
    /\ handle[fh].claim # None <=> (handle[fh].file /\ handle[fh].key # None)
    /\ handle[fh].fd => handle[fh].file
    /\ handle[fh].file => handle[fh].whole /\ fh <= nextHandle

\* Threads in Open still have numbers for their handles.
OpeningThreads == {u \in Threads : thread[u].pc \in Opening}
NumbersLeft == nextHandle + Cardinality(OpeningThreads) <= MaxHandles

\* No claim has two owners.
ClaimsUnique ==
  /\ \A t, u \in Threads : thread[t].claim = thread[u].claim /\ thread[t].claim # None => t = u
  /\ \A t \in Threads, fh \in FHs : thread[t].claim = handle[fh].claim => thread[t].claim = None
  /\ \A fh, gh \in FHs : handle[fh].claim = handle[gh].claim /\ handle[fh].claim # None => fh = gh

Owned(c) == (\E t \in Threads : thread[t].claim = c) \/ (\E fh \in FHs : handle[fh].claim = c)

FreeClaims == open => \A c \in Claims : use[c].status = "idle" => ~Owned(c)
UsedClaims ==
  destroy \in {"no", "cancelled"} => \A c \in Claims : use[c].status # "idle" => Owned(c)

HeldIsReady == \A c \in Claims : use[c].status = "holding" => slice[use[c].key] = "ready"
OpeningHolds ==
  open => \A t \in Threads :
    /\ thread[t].pc = "acquiring" => use[thread[t].claim].key = thread[t].key
    /\ thread[t].pc = "opening" \/ (thread[t].pc = "publishing" /\ thread[t].key # None) =>
         use[thread[t].claim] = Slicer!Using("holding", thread[t].key)

\* A handle of a track holds its slice, and is in openFiles until a Release
\* removes it or Destroy sweeps it.
HandlesHold ==
  open => \A fh \in FHs : handle[fh].claim # None =>
    use[handle[fh].claim] = Slicer!Using("holding", handle[fh].key)
OpenFilesLive ==
  /\ \A fh \in openFiles : handle[fh].file
  /\ \A t \in Threads : thread[t].pc = "removed" => thread[t].fh \notin openFiles

IInv ==
  /\ TypeOK /\ CacheType
  /\ ThreadsPlaced /\ HandlesPlaced /\ NumbersLeft
  /\ ClaimsUnique /\ FreeClaims /\ UsedClaims
  /\ HeldIsReady /\ OpeningHolds /\ HandlesHold /\ OpenFilesLive
  /\ NoGhostTrack /\ NoLeakedFile

-----------------------------------------------------------------------------
(* Counting the threads in Open *)

LEMMA OpeningFinite ==
  ASSUME TypeOK
  PROVE  IsFiniteSet(OpeningThreads) /\ Cardinality(OpeningThreads) \in Nat
<1>1. OpeningThreads \subseteq Threads BY DEF OpeningThreads
<1> QED BY <1>1, FS_Subset, FS_CardinalityType, HandlesAssumption

\* A step of one thread adds that thread to those in Open, takes it out, or
\* neither.
LEMMA OpeningCount ==
  ASSUME TypeOK, NEW t \in Threads, NEW r \in Thread, Goes(t, r)
  PROVE  LET N == Cardinality(OpeningThreads) IN
         /\ N \in Nat /\ N' \in Nat
         /\ r.pc \in Opening /\ thread[t].pc \in Opening => N' = N
         /\ r.pc \notin Opening /\ thread[t].pc \notin Opening => N' = N
         /\ r.pc \in Opening /\ thread[t].pc \notin Opening => N' = N + 1
         /\ r.pc \notin Opening /\ thread[t].pc \in Opening => N' = N - 1
<1>1. \A u \in Threads : thread'[u] = IF u = t THEN r ELSE thread[u]
  BY DEF Goes, TypeOK
<1>2. IsFiniteSet(OpeningThreads) /\ Cardinality(OpeningThreads) \in Nat
  BY OpeningFinite
<1>3. OpeningThreads' = {u \in Threads : thread'[u].pc \in Opening}
  BY DEF OpeningThreads, Opening
<1>4. CASE (r.pc \in Opening) = (thread[t].pc \in Opening)
  <2>1. OpeningThreads' = OpeningThreads BY <1>1, <1>3, <1>4 DEF OpeningThreads
  <2> QED BY <2>1, <1>2, <1>4
<1>5. CASE r.pc \in Opening /\ thread[t].pc \notin Opening
  <2>1. OpeningThreads' = OpeningThreads \cup {t} /\ t \notin OpeningThreads
    BY <1>1, <1>3, <1>5 DEF OpeningThreads
  <2>2. Cardinality(OpeningThreads') = Cardinality(OpeningThreads) + 1
    BY <2>1, <1>2, FS_AddElement
  <2> QED BY <2>2, <1>2, <1>5
<1>6. CASE r.pc \notin Opening /\ thread[t].pc \in Opening
  <2>1. OpeningThreads' = OpeningThreads \ {t} /\ t \in OpeningThreads
    BY <1>1, <1>3, <1>6 DEF OpeningThreads
  <2>2. IsFiniteSet(OpeningThreads \ {t})
        /\ Cardinality(OpeningThreads \ {t}) = Cardinality(OpeningThreads) - 1
    BY <2>1, <1>2, FS_RemoveElement
  <2>3. Cardinality(OpeningThreads \ {t}) \in Nat BY <2>2, FS_CardinalityType
  <2> QED BY <2>1, <2>2, <2>3, <1>2, <1>6
<1> QED BY <1>4, <1>5, <1>6

-----------------------------------------------------------------------------
(* Initial states *)

LEMMA InitKeeps == Init => IInv
<1> SUFFICES ASSUME Init PROVE IInv OBVIOUS
<1> USE DEF Init, Slicer!Init
<1>1. /\ \A t \in Threads : thread[t] = Idle
      /\ \A fh \in FHs : handle[fh] = NoHandle
      /\ \A c \in Claims : use[c] = Slicer!Unused
  OBVIOUS
<1>2. TypeOK
  <2>1. Idle \in Thread /\ NoHandle \in FileHandle
    BY DEF Idle, NoHandle, Thread, FileHandle, Opening
  <2> QED BY <2>1 DEF TypeOK
<1>3. CacheType BY DEF CacheType, Slicer!Use, Slicer!Status, Slicer!Unused
<1>4. ThreadsPlaced /\ HandlesPlaced
  BY <1>1 DEF ThreadsPlaced, HandlesPlaced, Placed, Carrying, Idle, NoHandle
<1>5. NumbersLeft
  <2>1. OpeningThreads = {} BY <1>1 DEF OpeningThreads, Opening, Idle
  <2> QED BY <2>1, FS_EmptySet, HandlesAssumption DEF NumbersLeft
<1>6. ClaimsUnique /\ FreeClaims /\ UsedClaims
  BY <1>1, HandlesAssumption DEF ClaimsUnique, FreeClaims, UsedClaims, Owned, Idle, NoHandle, Slicer!Unused
<1>7. HeldIsReady /\ OpeningHolds
  BY <1>1 DEF HeldIsReady, OpeningHolds, Slicer!Unused, Idle
<1>8. HandlesHold /\ OpenFilesLive
  BY <1>1 DEF HandlesHold, OpenFilesLive, NoHandle, Idle
<1>9. NoGhostTrack /\ NoLeakedFile
  BY <1>1 DEF NoGhostTrack, NoLeakedFile, NoHandle
<1> QED BY <1>2, <1>3, <1>4, <1>5, <1>6, <1>7, <1>8, <1>9 DEF IInv

-----------------------------------------------------------------------------
(* Steps of one thread that leave the cache, the files and its claim alone *)

LEMMA ThreadMoves ==
  ASSUME IInv, NEW t \in Threads, NEW r \in Thread,
         Goes(t, r), UNCHANGED <<cache, files, destroy>>,
         r.claim = thread[t].claim, Placed(r),
         thread[t].pc # "removed", r.pc \notin {"acquiring", "opening", "removed"},
         r.pc = "publishing" /\ r.key # None =>
           thread[t].pc = "opening" /\ r.key = thread[t].key,
         r.pc \in Opening => thread[t].pc \in Opening \/ MayOpen(t)
  PROVE  IInv'
<1> USE DEF IInv, cache, files
<1>1. \A u \in Threads : thread'[u] = IF u = t THEN r ELSE thread[u]
  BY DEF Goes, TypeOK
<1>2. TypeOK' BY DEF TypeOK, Goes
<1>3. CacheType' BY DEF CacheType
<1>4. ThreadsPlaced' BY <1>1 DEF ThreadsPlaced, Placed
<1>5. HandlesPlaced' BY DEF HandlesPlaced
<1>6. NumbersLeft'
  BY OpeningCount, HandlesAssumption DEF NumbersLeft, MayOpen, OpeningThreads, TypeOK, FHs
<1>7. \A u \in Threads : thread'[u].claim = thread[u].claim BY <1>1
<1>8. ClaimsUnique' BY <1>7 DEF ClaimsUnique
<1>9. FreeClaims' /\ UsedClaims' BY <1>7 DEF FreeClaims, UsedClaims, Owned
<1>10. HeldIsReady' BY DEF HeldIsReady
<1>11. OpeningHolds' BY <1>1 DEF OpeningHolds
<1>12. NoGhostTrack' BY DEF NoGhostTrack
<1>13. NoLeakedFile' BY <1>1 DEF NoLeakedFile
<1>14. HandlesHold' /\ OpenFilesLive' BY <1>1 DEF HandlesHold, OpenFilesLive
<1> QED BY <1>2, <1>3, <1>4, <1>5, <1>6, <1>8, <1>9, <1>10, <1>11, <1>12, <1>13, <1>14

LEMMA OpenVirtualKeeps ==
  ASSUME IInv, NEW t \in Threads, NEW k \in Keys, OpenVirtual(t, k)
  PROVE  IInv'
<1> DEFINE r == [Idle EXCEPT !.pc = "asking", !.key = k]
<1>1. r \in Thread /\ r.pc = "asking" /\ r.claim = None /\ r.key = k
  BY DEF Idle, Thread, Opening
<1>2. thread[t].claim = None /\ thread[t].pc = "idle"
  BY DEF OpenVirtual, MayOpen, IInv, ThreadsPlaced, Placed, Carrying
<1>3. Placed(r) BY <1>1, HandlesAssumption DEF Placed, Carrying
<1> QED BY <1>1, <1>2, <1>3, ThreadMoves DEF OpenVirtual

LEMMA OpenRealKeeps ==
  ASSUME IInv, NEW t \in Threads, OpenReal(t)
  PROVE  IInv'
<1> DEFINE r == [Idle EXCEPT !.pc = "publishing", !.whole = TRUE]
<1>1. r \in Thread /\ r.pc = "publishing" /\ r.claim = None /\ r.key = None /\ r.whole
  BY DEF Idle, Thread, Opening
<1>2. thread[t].claim = None /\ thread[t].pc = "idle"
  BY DEF OpenReal, MayOpen, IInv, ThreadsPlaced, Placed, Carrying
<1>3. Placed(r) BY <1>1 DEF Placed, Carrying
<1> QED BY <1>1, <1>2, <1>3, ThreadMoves DEF OpenReal

\* The slice is there while the cache is open, since the claim is holding it.
LEMMA OpenTempKeeps ==
  ASSUME IInv, NEW t \in Threads, OpenTemp(t)
  PROVE  IInv'
<1> DEFINE r == [thread[t] EXCEPT !.pc = "publishing",
                   !.whole = ~open \/ slice[thread[t].key] = "ready"]
<1>1. thread[t] \in Thread BY DEF IInv, TypeOK
<1>2. thread[t].pc = "opening" /\ thread[t].claim # None /\ thread[t].key # None
  BY DEF OpenTemp, IInv, ThreadsPlaced, Placed, Carrying
<1>3. open => slice[thread[t].key] = "ready"
  <2> SUFFICES ASSUME open PROVE slice[thread[t].key] = "ready" OBVIOUS
  <2>1. thread[t].claim \in Claims BY <1>1, <1>2 DEF Thread
  <2>2. use[thread[t].claim] = Slicer!Using("holding", thread[t].key)
    BY <1>2 DEF IInv, OpeningHolds
  <2> QED BY <2>1, <2>2 DEF IInv, HeldIsReady, Slicer!Using
<1>4. r \in Thread /\ r.pc = "publishing" /\ r.claim = thread[t].claim
      /\ r.key = thread[t].key /\ r.whole
  BY <1>1, <1>3 DEF Thread, Opening, IInv, CacheType
<1>5. Placed(r) BY <1>2, <1>4 DEF Placed, Carrying
<1> QED BY <1>2, <1>4, <1>5, ThreadMoves DEF OpenTemp, Opening

LEMMA ReadLookupKeeps ==
  ASSUME IInv, NEW t \in Threads, NEW fh \in FHs, ReadLookup(t, fh)
  PROVE  IInv'
<1> DEFINE r == [Idle EXCEPT !.pc = "found", !.fh = fh]
<1>1. r \in Thread /\ r.pc = "found" /\ r.claim = None /\ r.fh = fh
  BY DEF Idle, Thread, Opening
<1>2. thread[t].claim = None /\ thread[t].pc = "idle"
  BY DEF ReadLookup, IInv, ThreadsPlaced, Placed, Carrying
<1>3. fh \in 1 .. nextHandle BY DEF ReadLookup, IInv, TypeOK
<1>4. Placed(r) BY <1>1, <1>3 DEF Placed, Carrying
<1> QED BY <1>1, <1>2, <1>4, ThreadMoves DEF ReadLookup, Opening

LEMMA ReadLoadKeeps ==
  ASSUME IInv, NEW t \in Threads, ReadLoad(t)
  PROVE  IInv'
<1> DEFINE h == handle[thread[t].fh]
           r == [Idle EXCEPT !.pc = "reading", !.whole = h.whole]
<1>1. thread[t] \in Thread /\ h \in FileHandle /\ thread[t].pc = "found"
      /\ thread[t].claim = None /\ thread[t].fh \in 1 .. nextHandle /\ thread[t].fh \in FHs
  BY HandlesAssumption DEF ReadLoad, IInv, TypeOK, ThreadsPlaced, Placed, Carrying, FHs
<1>2. Idle \in Thread /\ Placed(Idle) /\ Idle.claim = None /\ Idle.pc = "idle"
  BY DEF Idle, Thread, Placed, Carrying
<1>3. CASE h.file
  <2>1. h.whole BY <1>1, <1>3 DEF IInv, HandlesPlaced
  <2>2. r \in Thread /\ r.pc = "reading" /\ r.claim = None /\ r.whole
    BY <1>1, <2>1 DEF Idle, Thread, FileHandle, Opening
  <2>3. Placed(r) BY <1>1, <2>2 DEF Placed, Carrying
  <2> QED BY <1>1, <1>3, <2>2, <2>3, ThreadMoves DEF ReadLoad, Opening
<1>4. CASE ~h.file
  BY <1>1, <1>2, <1>4, ThreadMoves DEF ReadLoad, Ends, Opening
<1> QED BY <1>3, <1>4

LEMMA ReadAtKeeps ==
  ASSUME IInv, NEW t \in Threads, ReadAt(t)
  PROVE  IInv'
<1>1. Idle \in Thread /\ Placed(Idle) /\ Idle.claim = None /\ Idle.pc = "idle"
  BY DEF Idle, Thread, Placed, Carrying
<1>2. thread[t].pc = "reading" /\ thread[t].claim = None
  BY DEF ReadAt, IInv, ThreadsPlaced, Placed, Carrying
<1> QED BY <1>1, <1>2, ThreadMoves DEF ReadAt, Ends, Opening

LEMMA PeeksKeeps ==
  ASSUME IInv, NEW t \in Threads, NEW k \in Keys, Peeks(t, k), thread[t].claim = None,
         thread[t].pc # "removed", UNCHANGED <<cache, files, destroy>>
  PROVE  IInv'
<1> DEFINE r == [Idle EXCEPT !.pc = "peeking", !.key = k]
<1>1. r \in Thread /\ r.pc = "peeking" /\ r.claim = None /\ r.key = k
  BY DEF Idle, Thread, Opening
<1>2. Placed(r) BY <1>1, HandlesAssumption DEF Placed, Carrying
<1> QED BY <1>1, <1>2, ThreadMoves DEF Peeks, Opening

LEMMA AnswersKeeps ==
  ASSUME IInv, NEW t \in Threads, NEW exact \in BOOLEAN, Answers(t, exact),
         thread[t].claim = None, thread[t].pc # "removed", UNCHANGED <<cache, files, destroy>>
  PROVE  IInv'
<1> DEFINE r == [Idle EXCEPT !.pc = "answering", !.whole = exact]
<1>1. r \in Thread /\ r.pc = "answering" /\ r.claim = None
  BY DEF Idle, Thread, Opening
<1>2. Placed(r) BY <1>1 DEF Placed, Carrying
<1> QED BY <1>1, <1>2, ThreadMoves DEF Answers, Opening

LEMMA GetattrKeeps ==
  ASSUME IInv, NEW t \in Threads, NEW k \in Keys, Getattr(t, k)
  PROVE  IInv'
<1>1. thread[t].claim = None /\ thread[t].pc = "idle"
  BY DEF Getattr, IInv, ThreadsPlaced, Placed, Carrying
<1>2. CASE Peeks(t, k)
  BY <1>1, <1>2, PeeksKeeps DEF Getattr
<1>3. ASSUME NEW fh \in HandlesOf(k), Goes(t, [Idle EXCEPT !.pc = "loading", !.key = k, !.fh = fh])
      PROVE  IInv'
  <2> DEFINE r == [Idle EXCEPT !.pc = "loading", !.key = k, !.fh = fh]
  <2>1. fh \in FHs /\ fh \in 1 .. nextHandle
    BY HandlesAssumption DEF HandlesOf, IInv, TypeOK, FHs
  <2>2. r \in Thread /\ r.pc = "loading" /\ r.claim = None /\ r.key = k /\ r.fh = fh
    BY <2>1 DEF Idle, Thread, Opening
  <2>3. Placed(r) BY <2>1, <2>2, HandlesAssumption DEF Placed, Carrying
  <2> QED BY <1>1, <1>3, <2>2, <2>3, ThreadMoves DEF Getattr, Opening
<1> QED BY <1>2, <1>3 DEF Getattr

LEMMA GetattrStepKeeps ==
  ASSUME IInv, NEW t \in Threads, GetattrStep(t)
  PROVE  IInv'
<1> DEFINE k == thread[t].key
           sizing == thread[t].pc \in {"loading", "statting", "peeking", "measuring"}
<1>1. thread[t] \in Thread /\ Placed(thread[t]) BY DEF IInv, TypeOK, ThreadsPlaced
<1>2. UNCHANGED <<cache, files, destroy>>
  BY DEF GetattrStep, GetattrLoad, GetattrStat, Peek, Measure, Answer
<1>3. sizing => k \in Keys /\ thread[t].claim = None
  BY <1>1 DEF Placed, Carrying, Thread
<1>4. CASE sizing /\ Peeks(t, k)
  BY <1>2, <1>3, <1>4, PeeksKeeps
<1>5. CASE sizing /\ \E exact \in BOOLEAN : Answers(t, exact)
  BY <1>2, <1>3, <1>5, AnswersKeeps
<1>6. ASSUME sizing, NEW pc \in {"statting", "measuring"}, NEW seen \in SUBSET FHs,
             pc = "statting" => thread[t].pc = "loading",
             Goes(t, [thread[t] EXCEPT !.pc = pc, !.seen = seen])
      PROVE  IInv'
  <2> DEFINE r == [thread[t] EXCEPT !.pc = pc, !.seen = seen]
  <2>1. /\ r \in Thread /\ r.pc = pc /\ r.claim = thread[t].claim
        /\ r.key = k /\ r.fh = thread[t].fh
    BY <1>1 DEF Thread
  <2>2. Placed(r) BY <1>1, <1>6, <2>1 DEF Placed, Carrying
  <2> QED BY <1>2, <1>6, <2>1, <2>2, ThreadMoves DEF Opening
<1>7. CASE Answer(t)
  <2>1. Idle \in Thread /\ Placed(Idle) /\ Idle.claim = None /\ Idle.pc = "idle"
    BY DEF Idle, Thread, Placed, Carrying
  <2>2. thread[t].pc = "answering" /\ thread[t].claim = None
    BY <1>1, <1>7 DEF Answer, Placed, Carrying
  <2> QED BY <1>2, <1>7, <2>1, <2>2, ThreadMoves DEF Answer, Ends, Opening
<1>8. CASE GetattrLoad(t)
  <2>1. thread[t].seen \in SUBSET FHs BY <1>1 DEF Thread
  <2>2. [thread[t] EXCEPT !.pc = "statting", !.seen = thread[t].seen]
          = [thread[t] EXCEPT !.pc = "statting"]
    BY <1>1 DEF Thread
  <2> QED BY <1>4, <1>6, <1>8, <2>1, <2>2 DEF GetattrLoad
<1>9. CASE GetattrStat(t)
  <2>1. thread[t].fh \in FHs
    BY <1>1, <1>9, HandlesAssumption DEF GetattrStat, Placed, IInv, TypeOK, FHs
  <2>2. handle[thread[t].fh].whole \in BOOLEAN BY <2>1 DEF IInv, TypeOK, FileHandle
  <2> QED BY <1>4, <1>5, <1>9, <2>2 DEF GetattrStat
<1>10. CASE Peek(t)
  <2>1. openFiles \subseteq FHs BY HandlesAssumption DEF IInv, TypeOK, FHs
  <2>2. HandlesOf(k) \in SUBSET FHs BY <2>1 DEF HandlesOf
  <2> QED BY <1>5, <1>6, <1>10, <2>2 DEF Peek
<1>11. CASE Measure(t)
  <2>1. PICK exact \in BOOLEAN : Answers(t, exact) BY <1>11 DEF Measure
  <2> QED BY <1>5, <1>11, <2>1 DEF Measure
<1> QED BY <1>7, <1>8, <1>9, <1>10, <1>11 DEF GetattrStep

-----------------------------------------------------------------------------
(* Steps of one thread that give its claim back                            *)

LEMMA ClaimLeaves ==
  ASSUME IInv, NEW t \in Threads, thread[t].pc \in Carrying,
         ReleaseSlice(thread[t].claim), Ends(t), UNCHANGED <<files, destroy>>
  PROVE  IInv'
<1> USE DEF IInv, files
<1>1. Idle \in Thread /\ Placed(Idle) /\ Idle.claim = None /\ Idle.pc = "idle"
  BY DEF Idle, Thread, Placed, Carrying
<1>2. \A u \in Threads : thread'[u] = IF u = t THEN Idle ELSE thread[u]
  BY DEF Ends, Goes, TypeOK
<1>3. PICK c \in Claims : c = thread[t].claim
  BY DEF TypeOK, Thread, ThreadsPlaced, Placed
<1>4. /\ slice' = slice /\ open' = open
      /\ \A d \in Claims : use'[d] = IF open /\ d = c THEN Slicer!Unused ELSE use[d]
      /\ use' \in [Claims -> Slicer!Use]
  BY <1>3 DEF ReleaseSlice, cache, Slicer!Leave, CacheType, Slicer!Use, Slicer!Unused, Slicer!Status
<1>5. TypeOK'
  <2>1. thread' \in [Threads -> Thread] BY <1>1 DEF TypeOK, Ends, Goes
  <2> QED BY <2>1 DEF TypeOK
<1>6. CacheType' BY <1>4 DEF CacheType, Slicer!Unused
<1>7. ThreadsPlaced' BY <1>1, <1>2 DEF ThreadsPlaced, Placed
<1>8. HandlesPlaced' BY DEF HandlesPlaced
<1>9. NumbersLeft'
  BY <1>1, OpeningCount, HandlesAssumption
     DEF NumbersLeft, OpeningThreads, TypeOK, FHs, Ends, Opening
<1>10. /\ \A u \in Threads : thread'[u].claim = IF u = t THEN None ELSE thread[u].claim
       /\ \A d \in Claims \ {c} : Owned(d)' <=> Owned(d)
  <2>1. \A u \in Threads : thread'[u].claim = IF u = t THEN None ELSE thread[u].claim
    BY <1>1, <1>2
  <2>2. ASSUME NEW d \in Claims \ {c} PROVE Owned(d)' <=> Owned(d)
    <3>1. d # None /\ d # thread[t].claim BY <1>3, HandlesAssumption
    <3> QED BY <2>1, <3>1 DEF Owned
  <2> QED BY <2>1, <2>2
<1>11. ClaimsUnique' BY <1>10 DEF ClaimsUnique
<1>12. ~Owned(c)' BY <1>3, <1>10, HandlesAssumption DEF Owned, ClaimsUnique
<1>13. FreeClaims'
  <2> SUFFICES ASSUME open', NEW d \in Claims, use'[d].status = "idle" PROVE ~Owned(d)'
    BY DEF FreeClaims
  <2>1. open BY <1>4
  <2>2. CASE d = c BY <2>2, <1>12
  <2>3. CASE d # c
    <3>1. use[d].status = "idle" BY <1>4, <2>3
    <3>2. ~Owned(d) BY <2>1, <3>1 DEF FreeClaims
    <3> QED BY <3>2, <2>3, <1>10
  <2> QED BY <2>2, <2>3
<1>14. UsedClaims'
  <2> SUFFICES ASSUME destroy \in {"no", "cancelled"}, NEW d \in Claims, use'[d].status # "idle"
               PROVE  Owned(d)'
    BY DEF UsedClaims
  <2>1. open BY DEF CacheType
  <2>2. d # c /\ use[d].status # "idle" BY <2>1, <1>4 DEF Slicer!Unused
  <2>3. Owned(d) BY <2>2 DEF UsedClaims
  <2> QED BY <2>2, <2>3, <1>10
<1>15. HeldIsReady' BY <1>4 DEF HeldIsReady, Slicer!Unused
<1>16. OpeningHolds'
  <2> SUFFICES ASSUME open', NEW u \in Threads,
                      \/ thread'[u].pc \in {"acquiring", "opening"}
                      \/ thread'[u].pc = "publishing" /\ thread'[u].key # None
               PROVE  u # t /\ thread'[u] = thread[u] /\ use'[thread[u].claim] = use[thread[u].claim]
    <3>1. open' => open BY <1>4
    <3> QED BY <3>1 DEF OpeningHolds
  <2>1. u # t /\ thread'[u] = thread[u] BY <1>1, <1>2
  <2>2. thread[u].claim \in Claims \ {c}
    BY <2>1, <1>3, HandlesAssumption
       DEF ClaimsUnique, ThreadsPlaced, Placed, Carrying, TypeOK, Thread
  <2> QED BY <2>1, <2>2, <1>4
<1>17. NoGhostTrack' BY DEF NoGhostTrack
<1>18. NoLeakedFile' BY <1>2 DEF NoLeakedFile, Carrying
<1>19. HandlesHold'
  <2> SUFFICES ASSUME open', NEW fh \in FHs, handle[fh].claim # None
               PROVE  use'[handle[fh].claim] = use[handle[fh].claim]
    <3>1. open' => open BY <1>4
    <3> QED BY <3>1 DEF HandlesHold
  <2>1. handle[fh].claim \in Claims \ {c}
    BY <1>3 DEF ClaimsUnique, TypeOK, FileHandle
  <2> QED BY <2>1, <1>4
<1>20. OpenFilesLive' BY <1>1, <1>2 DEF OpenFilesLive
<1> QED BY <1>5, <1>6, <1>7, <1>8, <1>9, <1>11, <1>13, <1>14, <1>15, <1>16, <1>17, <1>18,
          <1>19, <1>20

LEMMA ErrorsKeep ==
  ASSUME IInv, NEW t \in Threads,
         AcquireErr(t) \/ OpenTempFails(t) \/ Unwind(t) \/ ReleaseLeave(t)
  PROVE  IInv'
BY ClaimLeaves DEF AcquireErr, OpenTempFails, Unwind, ReleaseLeave, Carrying

-----------------------------------------------------------------------------
(* Steps that move a claim: from Acquire to the thread, on to the handle,  *)
(* and from the handle to the thread that releases it                      *)

LEMMA AskKeeps ==
  ASSUME IInv, NEW t \in Threads, Ask(t)
  PROVE  IInv'
<1> USE DEF IInv, files
<1>1. thread[t] \in Thread /\ thread[t].pc = "asking" /\ thread[t].claim = None /\ thread[t].key \in Keys
  BY HandlesAssumption DEF Ask, TypeOK, Thread, ThreadsPlaced, Placed, Carrying
<1>2. CASE Ends(t) /\ UNCHANGED <<cache, files, destroy>>
  <2>1. Idle \in Thread /\ Placed(Idle) /\ Idle.claim = None /\ Idle.pc = "idle"
    BY DEF Idle, Thread, Placed, Carrying
  <2> QED BY <1>1, <1>2, <2>1, ThreadMoves DEF Ends, Opening
<1>3. ASSUME open, UNCHANGED <<files, destroy>>, NEW c \in Claims, Slicer!Ask(c, thread[t].key),
             Goes(t, [thread[t] EXCEPT !.claim = c,
               !.pc = IF slice[thread[t].key] = "ready" THEN "opening" ELSE "acquiring"])
      PROVE  IInv'
  <2> DEFINE k == thread[t].key
             r == [thread[t] EXCEPT !.claim = c,
                     !.pc = IF slice[k] = "ready" THEN "opening" ELSE "acquiring"]
  <2>1. /\ r \in Thread /\ r.claim = c /\ r.key = k
        /\ r.pc = IF slice[k] = "ready" THEN "opening" ELSE "acquiring"
    BY <1>1 DEF Thread, Opening
  <2>2. /\ \A u \in Threads : thread'[u] = IF u = t THEN r ELSE thread[u]
        /\ thread' \in [Threads -> Thread]
    BY <1>3, <2>1 DEF Goes, TypeOK
  <2>3. /\ open' = open
        /\ use[c].status = "idle"
        /\ \A d \in Claims : d # c => use'[d] = use[d]
        /\ use'[c] = Slicer!Using(IF slice[k] = "ready" THEN "holding" ELSE "waiting", k)
        /\ use' \in [Claims -> Slicer!Use]
        /\ \A j \in Keys : slice[j] = "ready" => slice'[j] = "ready"
        /\ slice' \in [Keys -> {"none", "cutting", "ready"}]
    BY <1>1, <1>3 DEF Slicer!Ask, CacheType, Slicer!Use, Slicer!Using, Slicer!Unused, Slicer!Status
  <2>4. ~Owned(c) BY <1>3, <2>3 DEF FreeClaims
  <2>5. /\ \A u \in Threads : thread'[u].claim = IF u = t THEN c ELSE thread[u].claim
        /\ \A d \in Claims : d # c => (Owned(d)' <=> Owned(d))
        /\ Owned(c)'
    <3>1. \A u \in Threads : thread'[u].claim = IF u = t THEN c ELSE thread[u].claim
      BY <2>1, <2>2
    <3>2. ASSUME NEW d \in Claims, d # c PROVE Owned(d)' <=> Owned(d)
      <4>1. d # thread[t].claim BY <1>1, HandlesAssumption
      <4> QED BY <3>1, <3>2, <4>1, <1>3 DEF Owned
    <3> QED BY <3>1, <3>2 DEF Owned
  <2>6. TypeOK' BY <1>3, <2>2 DEF TypeOK
  <2>7. CacheType'
    <3>1. open' \in BOOLEAN /\ (open' <=> destroy' # "done") BY <1>3, <2>3 DEF CacheType
    <3> QED BY <1>1, <2>3, <3>1, HandlesAssumption DEF CacheType, Slicer!Using
  <2>8. ThreadsPlaced' /\ HandlesPlaced'
    <3> HIDE DEF r
    <3>1. Placed(r) BY <1>1, <2>1, HandlesAssumption DEF Placed, Carrying
    <3>2. ThreadsPlaced' BY <1>3, <2>2, <3>1 DEF ThreadsPlaced, Placed
    <3> QED BY <1>3, <3>2 DEF HandlesPlaced
  <2>9. NumbersLeft'
    BY <1>1, <1>3, <2>1, OpeningCount DEF NumbersLeft, Opening, OpeningThreads
  <2>10. ClaimsUnique' BY <1>3, <2>4, <2>5, HandlesAssumption DEF ClaimsUnique, Owned
  <2>11. FreeClaims'
    <3>1. ASSUME NEW d \in Claims, use'[d].status = "idle" PROVE ~Owned(d)'
      <4>1. d # c BY <3>1, <2>3 DEF Slicer!Using
      <4> QED BY <3>1, <4>1, <1>3, <2>3, <2>5 DEF FreeClaims
    <3> QED BY <3>1 DEF FreeClaims
  <2>12. UsedClaims' BY <1>3, <2>3, <2>5 DEF UsedClaims
  <2>13. HeldIsReady'
    BY <2>3, <1>1, HandlesAssumption
       DEF HeldIsReady, Slicer!Using, CacheType, Slicer!Use
  <2>14. OpeningHolds'
    <3> HIDE DEF r
    <3>1. /\ thread'[t].pc = "acquiring" => use'[thread'[t].claim].key = thread'[t].key
          /\ thread'[t].pc # "publishing"
          /\ thread'[t].pc = "opening" =>
               use'[thread'[t].claim] = Slicer!Using("holding", thread'[t].key)
      BY <2>1, <2>2, <2>3 DEF Slicer!Using
    <3>2. ASSUME NEW u \in Threads, u # t
          PROVE  /\ thread'[u].pc = "acquiring" => use'[thread'[u].claim].key = thread'[u].key
                 /\ thread'[u].pc = "opening"
                      \/ (thread'[u].pc = "publishing" /\ thread'[u].key # None) =>
                      use'[thread'[u].claim] = Slicer!Using("holding", thread'[u].key)
      <4>1. thread'[u] = thread[u] BY <3>2, <2>2
      <4>2. /\ thread[u].pc = "acquiring" => use[thread[u].claim].key = thread[u].key
            /\ thread[u].pc = "opening"
                 \/ (thread[u].pc = "publishing" /\ thread[u].key # None) =>
                 use[thread[u].claim] = Slicer!Using("holding", thread[u].key)
        BY <1>3 DEF OpeningHolds
      <4>3. CASE \/ thread[u].pc \in {"acquiring", "opening"}
                 \/ thread[u].pc = "publishing" /\ thread[u].key # None
        <5>1. thread[u].claim \in Claims
          BY <4>3, HandlesAssumption DEF ThreadsPlaced, Placed, Carrying, TypeOK, Thread
        <5>2. use'[thread[u].claim] = use[thread[u].claim] BY <5>1, <2>3, <2>4 DEF Owned
        <5> QED BY <4>1, <4>2, <5>2
      <4> QED BY <4>1, <4>3
    <3> QED BY <3>1, <3>2 DEF OpeningHolds
  <2>15. NoGhostTrack' BY <1>3 DEF NoGhostTrack
  <2>16. NoLeakedFile' BY <1>1, <1>3, <2>2 DEF NoLeakedFile
  <2>17. HandlesHold'
    <3> SUFFICES ASSUME NEW fh \in FHs, handle[fh].claim # None
                 PROVE  use'[handle[fh].claim] = use[handle[fh].claim]
      BY <1>3 DEF HandlesHold
    <3>1. handle[fh].claim \in Claims \ {c} BY <2>4 DEF Owned, TypeOK, FileHandle
    <3> QED BY <3>1, <2>3
  <2>18. OpenFilesLive'
    <3>1. r.pc # "removed" BY <2>1
    <3> HIDE DEF r
    <3> QED BY <1>3, <2>2, <3>1 DEF OpenFilesLive
  <2> QED BY <2>6, <2>7, <2>8, <2>9, <2>10, <2>11, <2>12, <2>13, <2>14, <2>15, <2>16,
            <2>17, <2>18
<1> QED BY <1>2, <1>3 DEF Ask

LEMMA AcquireOkKeeps ==
  ASSUME IInv, NEW t \in Threads, AcquireOk(t)
  PROVE  IInv'
<1> DEFINE r == [thread[t] EXCEPT !.pc = "opening"]
<1> USE DEF IInv, files
<1>1. /\ thread[t] \in Thread /\ thread[t].pc = "acquiring"
      /\ thread[t].claim \in Claims /\ thread[t].key \in Keys /\ Placed(thread[t])
  BY HandlesAssumption DEF AcquireOk, TypeOK, Thread, ThreadsPlaced, Placed, Carrying
<1>2. PICK c \in Claims : c = thread[t].claim BY <1>1
<1>3. r \in Thread /\ r.claim = c /\ r.key = thread[t].key /\ r.pc = "opening"
  BY <1>1, <1>2 DEF Thread, Opening
<1>4. /\ \A u \in Threads : thread'[u] = IF u = t THEN r ELSE thread[u]
      /\ thread' \in [Threads -> Thread]
      /\ \A u \in Threads : thread'[u].claim = thread[u].claim
  <2> HIDE DEF r
  <2>1. Goes(t, r) BY DEF AcquireOk, r
  <2>2. /\ \A u \in Threads : thread'[u] = IF u = t THEN r ELSE thread[u]
        /\ thread' \in [Threads -> Thread]
    BY <1>3, <2>1 DEF Goes, TypeOK
  <2> QED BY <2>2, <1>2, <1>3
<1> HIDE DEF r
<1>5. UNCHANGED <<files, destroy>> /\ slice' = slice /\ (open' <=> open) /\ open' \in BOOLEAN
  BY <1>1 DEF AcquireOk, cache, Slicer!Obtain, CacheType
<1>6. /\ use' \in [Claims -> Slicer!Use]
      /\ \A d \in Claims : d # c => use'[d] = use[d]
      /\ use'[c].status = "idle" <=> use[c].status = "idle"
      /\ use'[c].status # "idle" <=> use'[c].key # None
      /\ use'[c].status = "holding" => slice[use'[c].key] = "ready"
      /\ open => use'[c] = Slicer!Using("holding", thread[t].key)
  <2>1. CASE ~open /\ UNCHANGED cache
    BY <2>1 DEF cache, CacheType, HeldIsReady
  <2>2. CASE open /\ Slicer!Obtain(c, thread[t].key)
    BY <1>1, <2>2, HandlesAssumption
       DEF CacheType, Slicer!Obtain, Slicer!Using, Slicer!Use, Slicer!Status
  <2> QED BY <1>2, <2>1, <2>2 DEF AcquireOk
<1>7. TypeOK' BY <1>4, <1>5 DEF TypeOK
<1>8. CacheType' BY <1>5, <1>6 DEF CacheType
<1>9. ThreadsPlaced' /\ HandlesPlaced'
  <2>1. Placed(r) BY <1>1, <1>2, <1>3 DEF Placed, Carrying
  <2> QED BY <1>4, <1>5, <2>1 DEF ThreadsPlaced, HandlesPlaced, Placed
<1>10. NumbersLeft'
  <2>1. Goes(t, r) BY DEF AcquireOk, r
  <2> QED BY <1>1, <1>3, <1>5, <2>1, OpeningCount DEF NumbersLeft, Opening, OpeningThreads
<1>11. ClaimsUnique' /\ \A d \in Claims : Owned(d)' <=> Owned(d)
  BY <1>4, <1>5 DEF ClaimsUnique, Owned
<1>12. \A d \in Claims : use'[d].status = "idle" <=> use[d].status = "idle" BY <1>6
<1>13. FreeClaims' /\ UsedClaims' BY <1>5, <1>11, <1>12 DEF FreeClaims, UsedClaims
<1>14. HeldIsReady' BY <1>5, <1>6 DEF HeldIsReady
<1>15. OpeningHolds'
  <2>1. ASSUME open, NEW u \in Threads
        PROVE  /\ thread'[u].pc = "acquiring" => use'[thread'[u].claim].key = thread'[u].key
               /\ thread'[u].pc = "opening"
                    \/ (thread'[u].pc = "publishing" /\ thread'[u].key # None) =>
                    use'[thread'[u].claim] = Slicer!Using("holding", thread'[u].key)
    <3>1. CASE u = t BY <1>3, <1>4, <1>6, <2>1, <3>1
    <3>2. CASE u # t /\ (\/ thread[u].pc \in {"acquiring", "opening"}
                         \/ thread[u].pc = "publishing" /\ thread[u].key # None)
      <4>1. thread'[u] = thread[u] /\ thread[u].claim \in Claims
        BY <1>4, <3>2, HandlesAssumption DEF ThreadsPlaced, Placed, Carrying, TypeOK, Thread
      <4>2. thread[u].claim # c BY <1>2, <3>2, <4>1, HandlesAssumption DEF ClaimsUnique
      <4>3. use'[thread[u].claim] = use[thread[u].claim] BY <4>1, <4>2, <1>6
      <4> QED BY <2>1, <4>1, <4>3 DEF OpeningHolds
    <3> QED BY <1>4, <3>1, <3>2
  <2> QED BY <1>5, <2>1 DEF OpeningHolds
<1>16. NoGhostTrack' /\ NoLeakedFile' BY <1>1, <1>4, <1>5 DEF NoGhostTrack, NoLeakedFile
<1>17. HandlesHold'
  <2> SUFFICES ASSUME open, NEW fh \in FHs, handle[fh].claim # None
               PROVE  use'[handle[fh].claim] = use[handle[fh].claim]
    BY <1>5 DEF HandlesHold
  <2>1. handle[fh].claim \in Claims \ {c}
    BY <1>2 DEF ClaimsUnique, TypeOK, FileHandle
  <2> QED BY <2>1, <1>6
<1>18. OpenFilesLive' BY <1>1, <1>3, <1>4, <1>5 DEF OpenFilesLive
<1> QED BY <1>7, <1>8, <1>9, <1>10, <1>11, <1>13, <1>14, <1>15, <1>16, <1>17, <1>18

\* The registered handle has a number of its own.
LEMMA Registered ==
  ASSUME IInv, NEW t \in Threads, thread[t].pc = "publishing", Register(t),
         thread[t].key = None \/ destroy = "no", UNCHANGED <<cache, destroy>>
  PROVE  IInv'
<1> USE DEF IInv, cache
<1>1. Idle \in Thread /\ Placed(Idle) /\ Idle.claim = None /\ Idle.pc = "idle"
  BY DEF Idle, Thread, Placed, Carrying
<1>2. /\ \A u \in Threads : thread'[u] = IF u = t THEN Idle ELSE thread[u]
      /\ thread' \in [Threads -> Thread]
  BY <1>1 DEF Register, Ends, Goes, TypeOK
<1>3. /\ thread[t] \in Thread /\ thread[t].whole
      /\ thread[t].claim # None <=> thread[t].key # None
  BY DEF TypeOK, ThreadsPlaced, Placed, Carrying
<1>4. /\ nextHandle' + Cardinality(OpeningThreads') <= MaxHandles
      /\ Cardinality(OpeningThreads') \in Nat /\ nextHandle \in Nat
  BY <1>1, OpeningCount DEF NumbersLeft, OpeningThreads, Opening, Register, Ends, TypeOK, FHs
<1>5. PICK n \in FHs : n = nextHandle + 1 /\ n = nextHandle'
  BY <1>4, HandlesAssumption DEF Register, FHs
<1> DEFINE h == [key |-> thread[t].key, claim |-> thread[t].claim,
                 file |-> TRUE, fd |-> TRUE, whole |-> thread[t].whole]
<1>6. h \in FileHandle BY <1>3 DEF Thread, FileHandle
<1>7. /\ \A fh \in FHs : handle'[fh] = IF fh = n THEN h ELSE handle[fh]
      /\ handle' \in [FHs -> FileHandle]
      /\ openFiles' = openFiles \cup {n}
  BY <1>5, <1>6 DEF Register, TypeOK
<1>8. h.key = thread[t].key /\ h.claim = thread[t].claim /\ h.file /\ h.fd /\ h.whole
  BY <1>3
<1> HIDE DEF h
<1>9. handle[n].claim = None /\ ~handle[n].fd
  BY <1>4, <1>5 DEF HandlesPlaced
<1>10. TypeOK' BY <1>2, <1>4, <1>5, <1>7 DEF TypeOK, FHs
<1>11. CacheType' BY DEF CacheType
<1>12. ThreadsPlaced'
  <2>1. \A u \in Threads : Placed(thread'[u]) BY <1>1, <1>2 DEF ThreadsPlaced
  <2>2. 1 .. nextHandle \subseteq 1 .. nextHandle' BY <1>4, <1>5
  <2> QED BY <1>1, <1>2, <2>2 DEF ThreadsPlaced, Placed, Idle
<1>13. HandlesPlaced' BY <1>3, <1>4, <1>5, <1>7, <1>8 DEF HandlesPlaced, FHs
<1>14. NumbersLeft' BY <1>4 DEF NumbersLeft
<1>15. /\ \A u \in Threads : thread'[u].claim = IF u = t THEN None ELSE thread[u].claim
       /\ \A fh \in FHs : handle'[fh].claim = IF fh = n THEN thread[t].claim ELSE handle[fh].claim
  BY <1>1, <1>2, <1>7, <1>8
<1>16. ClaimsUnique' BY <1>15 DEF ClaimsUnique
<1>17. ASSUME NEW d \in Claims PROVE Owned(d)' <=> Owned(d)
  BY <1>9, <1>15, HandlesAssumption DEF Owned
<1>18. FreeClaims' /\ UsedClaims' BY <1>17 DEF FreeClaims, UsedClaims
<1>19. HeldIsReady' BY DEF HeldIsReady
<1>20. OpeningHolds' BY <1>1, <1>2 DEF OpeningHolds
<1>21. NoGhostTrack'
  <2> SUFFICES ASSUME destroy \in {"swept", "done"}, NEW fh \in openFiles' PROVE handle'[fh].key = None
    BY DEF NoGhostTrack
  <2>1. CASE fh = n BY <2>1, <1>7, <1>8
  <2>2. CASE fh # n
    <3>1. fh \in openFiles /\ fh \in FHs BY <2>2, <1>4, <1>5, <1>7, HandlesAssumption DEF TypeOK, FHs
    <3> QED BY <2>2, <3>1, <1>7 DEF NoGhostTrack
  <2> QED BY <2>1, <2>2
<1>22. NoLeakedFile' BY <1>2, <1>7, <1>8 DEF NoLeakedFile
<1>23. HandlesHold' BY <1>3, <1>7, <1>8 DEF HandlesHold, OpeningHolds
<1>24. OpenFilesLive'
  <2>1. \A fh \in openFiles : fh \in FHs /\ fh # n
    BY <1>4, <1>5, HandlesAssumption DEF TypeOK, FHs
  <2>2. \A u \in Threads : thread[u].pc = "removed" => thread[u].fh # n
    BY <1>4, <1>5 DEF ThreadsPlaced, Placed
  <2> QED BY <1>1, <1>2, <1>5, <1>7, <1>8, <2>1, <2>2 DEF OpenFilesLive
<1> QED BY <1>10, <1>11, <1>12, <1>13, <1>14, <1>16, <1>18, <1>19, <1>20, <1>21, <1>22,
          <1>23, <1>24

LEMMA PublishVirtualKeeps ==
  ASSUME IInv, NEW t \in Threads, PublishVirtual(t)
  PROVE  IInv'
<1>1. CASE ~CtxErr
  BY <1>1, Registered DEF PublishVirtual, CtxErr
<1>2. CASE CtxErr
  <2> DEFINE r == [thread[t] EXCEPT !.pc = "unwinding"]
  <2>1. thread[t] \in Thread /\ thread[t].pc = "publishing" /\ Placed(thread[t]) /\ thread[t].key # None
    BY DEF PublishVirtual, IInv, TypeOK, ThreadsPlaced
  <2>2. r \in Thread /\ r.pc = "unwinding" /\ r.claim = thread[t].claim /\ r.key = thread[t].key
    BY <2>1 DEF Thread
  <2>3. Placed(r) BY <2>1, <2>2 DEF Placed, Carrying
  <2> QED BY <1>2, <2>1, <2>2, <2>3, ThreadMoves DEF PublishVirtual, Opening
<1> QED BY <1>1, <1>2

LEMMA PublishRealKeeps ==
  ASSUME IInv, NEW t \in Threads, PublishReal(t)
  PROVE  IInv'
BY Registered DEF PublishReal

LEMMA ReleaseRemoveKeeps ==
  ASSUME IInv, NEW t \in Threads, NEW fh \in FHs, ReleaseRemove(t, fh)
  PROVE  IInv'
<1> DEFINE r == [Idle EXCEPT !.pc = "removed", !.fh = fh]
<1> USE DEF IInv, cache, ReleaseRemove
<1>1. /\ thread[t].pc = "idle" /\ thread[t].claim = None
      /\ r \in Thread /\ r.pc = "removed" /\ r.claim = None /\ r.fh = fh
      /\ fh \in 1 .. nextHandle
  BY DEF Idle, Thread, ThreadsPlaced, Placed, Carrying, TypeOK
<1>2. Goes(t, r) OBVIOUS
<1> HIDE DEF r
<1>3. /\ \A u \in Threads : thread'[u] = IF u = t THEN r ELSE thread[u]
      /\ thread' \in [Threads -> Thread]
      /\ \A u \in Threads : thread'[u].claim = thread[u].claim
  <2>1. /\ \A u \in Threads : thread'[u] = IF u = t THEN r ELSE thread[u]
        /\ thread' \in [Threads -> Thread]
    BY <1>1, <1>2 DEF Goes, TypeOK
  <2> QED BY <1>1, <2>1
<1>4. TypeOK' BY <1>3 DEF TypeOK
<1>5. CacheType' BY DEF CacheType
<1>6. ThreadsPlaced' /\ HandlesPlaced'
  <2>1. Placed(r) BY <1>1 DEF Placed, Carrying
  <2> QED BY <1>3, <2>1 DEF ThreadsPlaced, HandlesPlaced, Placed
<1>7. NumbersLeft' BY <1>1, <1>2, OpeningCount DEF NumbersLeft, OpeningThreads, Opening
<1>8. ClaimsUnique' /\ FreeClaims' /\ UsedClaims'
  BY <1>3 DEF ClaimsUnique, FreeClaims, UsedClaims, Owned
<1>9. HeldIsReady' /\ OpeningHolds' BY <1>1, <1>3 DEF HeldIsReady, OpeningHolds
<1>10. NoGhostTrack' BY DEF NoGhostTrack
<1>11. NoLeakedFile'
  <2> SUFFICES ASSUME NEW gh \in FHs, handle[gh].fd
               PROVE  gh \in openFiles' \/ \E u \in Threads : thread'[u].pc = "removed" /\ thread'[u].fh = gh
    BY DEF NoLeakedFile
  <2>1. CASE gh = fh BY <2>1, <1>1, <1>3
  <2>2. CASE gh \in openFiles /\ gh # fh BY <2>2
  <2>3. CASE \E u \in Threads : thread[u].pc = "removed" /\ thread[u].fh = gh
    BY <2>3, <1>1, <1>3
  <2> QED BY <2>1, <2>2, <2>3 DEF NoLeakedFile
<1>12. HandlesHold' /\ OpenFilesLive' BY <1>1, <1>3 DEF HandlesHold, OpenFilesLive
<1> QED BY <1>4, <1>5, <1>6, <1>7, <1>8, <1>9, <1>10, <1>11, <1>12

\* Only the thread that swaps the file out gets the handle's claim.
LEMMA ReleaseSwapKeeps ==
  ASSUME IInv, NEW t \in Threads, ReleaseSwap(t)
  PROVE  IInv'
<1> USE DEF IInv, cache
<1>1. thread[t] \in Thread /\ thread[t].pc = "removed" /\ thread[t].claim = None
  BY DEF ReleaseSwap, TypeOK, ThreadsPlaced, Placed, Carrying
<1>2. PICK fh \in FHs : fh = thread[t].fh
  BY <1>1, HandlesAssumption DEF ThreadsPlaced, Placed, TypeOK, FHs
<1>3. PICK h \in FileHandle : h = handle[fh] BY DEF TypeOK
<1>4. PICK r \in Thread :
        /\ Goes(t, r) /\ Placed(r) /\ r.pc \in {"idle", "leaving"}
        /\ r.claim = IF h.file /\ h.key # None THEN h.claim ELSE None
  <2>1. CASE h.file /\ h.key # None
    <3> DEFINE s == [Idle EXCEPT !.pc = "leaving", !.key = h.key, !.claim = h.claim]
    <3>1. Goes(t, s) BY <1>2, <1>3, <2>1 DEF ReleaseSwap
    <3>2. s \in Thread /\ s.pc = "leaving" /\ s.claim = h.claim /\ s.key = h.key
      BY DEF Idle, Thread, FileHandle, Opening
    <3>3. h.claim # None BY <1>3, <2>1 DEF HandlesPlaced
    <3> HIDE DEF s
    <3>4. Placed(s) BY <2>1, <3>2, <3>3 DEF Placed, Carrying
    <3> QED BY <2>1, <3>1, <3>2, <3>4
  <2>2. CASE ~(h.file /\ h.key # None)
    <3>1. Goes(t, Idle) BY <1>2, <1>3, <2>2 DEF ReleaseSwap, Ends
    <3>2. Idle \in Thread /\ Placed(Idle) /\ Idle.claim = None /\ Idle.pc = "idle"
      BY DEF Idle, Thread, Placed, Carrying
    <3> QED BY <2>2, <3>1, <3>2
  <2> QED BY <2>1, <2>2
<1>5. r.claim = h.claim BY <1>3, <1>4 DEF HandlesPlaced
<1>6. /\ \A u \in Threads : thread'[u] = IF u = t THEN r ELSE thread[u]
      /\ thread' \in [Threads -> Thread]
  BY <1>4 DEF Goes, TypeOK
<1>7. /\ Closed(h) \in FileHandle /\ ~Closed(h).file /\ ~Closed(h).fd /\ Closed(h).claim = None
      /\ Closed(h).key = h.key
  BY DEF Closed, FileHandle
<1>8. /\ \A gh \in FHs : handle'[gh] = IF gh = fh THEN Closed(h) ELSE handle[gh]
      /\ handle' \in [FHs -> FileHandle]
  BY <1>2, <1>3, <1>7 DEF ReleaseSwap, TypeOK
<1>9. UNCHANGED <<cache, openFiles, nextHandle, destroy>> BY DEF ReleaseSwap
<1>10. TypeOK' BY <1>6, <1>8, <1>9 DEF TypeOK
<1>11. CacheType' BY <1>9 DEF CacheType
<1>12. ThreadsPlaced' BY <1>4, <1>6, <1>9 DEF ThreadsPlaced, Placed
<1>13. HandlesPlaced' BY <1>7, <1>8, <1>9 DEF HandlesPlaced
<1>14. NumbersLeft'
  BY <1>1, <1>4, <1>9, OpeningCount DEF NumbersLeft, OpeningThreads, Opening
<1>15. /\ \A u \in Threads : thread'[u].claim = IF u = t THEN h.claim ELSE thread[u].claim
       /\ \A gh \in FHs : handle'[gh].claim = IF gh = fh THEN None ELSE handle[gh].claim
  BY <1>5, <1>6, <1>7, <1>8
<1>16. ClaimsUnique' BY <1>3, <1>15 DEF ClaimsUnique
<1>17. ASSUME NEW d \in Claims PROVE Owned(d)' <=> Owned(d)
  BY <1>1, <1>3, <1>15, HandlesAssumption DEF Owned
<1>18. FreeClaims' /\ UsedClaims' BY <1>9, <1>17 DEF FreeClaims, UsedClaims
<1>19. HeldIsReady' /\ OpeningHolds' BY <1>4, <1>6, <1>9 DEF HeldIsReady, OpeningHolds
<1>20. NoGhostTrack'
  <2>1. \A gh \in FHs : handle'[gh].key = handle[gh].key BY <1>3, <1>7, <1>8
  <2>2. openFiles \subseteq FHs BY HandlesAssumption DEF TypeOK, FHs
  <2> QED BY <1>9, <2>1, <2>2 DEF NoGhostTrack
<1>21. NoLeakedFile' BY <1>1, <1>2, <1>6, <1>7, <1>8, <1>9 DEF NoLeakedFile
<1>22. HandlesHold' BY <1>7, <1>8, <1>9 DEF HandlesHold
<1>23. OpenFilesLive'
  <2>1. openFiles \subseteq FHs \ {fh}
    BY <1>1, <1>2, HandlesAssumption DEF OpenFilesLive, TypeOK, FHs
  <2> QED BY <1>4, <1>6, <1>8, <1>9, <2>1 DEF OpenFilesLive
<1> QED BY <1>10, <1>11, <1>12, <1>13, <1>14, <1>16, <1>18, <1>19, <1>20, <1>21, <1>22, <1>23

-----------------------------------------------------------------------------
(* Destroy and the cache *)

LEMMA DestroyCancelKeeps == ASSUME IInv, DestroyCancel PROVE IInv'
<1> USE DEF IInv, cache, files, DestroyCancel
<1>1. TypeOK' BY DEF TypeOK
<1>2. CacheType' BY DEF CacheType
<1>3. ThreadsPlaced' /\ HandlesPlaced' BY DEF ThreadsPlaced, HandlesPlaced, Placed
<1>4. NumbersLeft' BY DEF NumbersLeft, OpeningThreads
<1>5. ClaimsUnique' /\ FreeClaims' /\ UsedClaims'
  BY DEF ClaimsUnique, FreeClaims, UsedClaims, Owned
<1>6. HeldIsReady' /\ OpeningHolds' BY DEF HeldIsReady, OpeningHolds
<1>7. NoGhostTrack' /\ NoLeakedFile' BY DEF NoGhostTrack, NoLeakedFile
<1>8. HandlesHold' /\ OpenFilesLive' BY DEF HandlesHold, OpenFilesLive
<1> QED BY <1>1, <1>2, <1>3, <1>4, <1>5, <1>6, <1>7, <1>8

LEMMA DestroySweepKeeps == ASSUME IInv, DestroySweep PROVE IInv'
<1> USE DEF IInv, cache
<1>1. UNCHANGED <<cache, thread, nextHandle>> /\ destroy' = "swept" /\ openFiles' = {}
  BY DEF DestroySweep
<1>2. \A fh \in FHs : handle'[fh] = IF fh \in openFiles THEN Closed(handle[fh]) ELSE handle[fh]
  BY DEF DestroySweep
<1>3. ASSUME NEW fh \in FHs
      PROVE  /\ Closed(handle[fh]) \in FileHandle
             /\ ~Closed(handle[fh]).file /\ ~Closed(handle[fh]).fd
             /\ Closed(handle[fh]).claim = None
  BY DEF Closed, FileHandle, TypeOK
<1>4. handle' \in [FHs -> FileHandle] BY <1>3 DEF DestroySweep, TypeOK
<1>5. TypeOK' BY <1>1, <1>4 DEF TypeOK
<1>6. CacheType' BY <1>1 DEF CacheType, DestroySweep
<1>7. ThreadsPlaced' /\ HandlesPlaced'
  BY <1>1, <1>2, <1>3 DEF ThreadsPlaced, HandlesPlaced, Placed
<1>8. NumbersLeft' BY <1>1 DEF NumbersLeft, OpeningThreads
<1>9. \A fh \in FHs : handle'[fh].claim = handle[fh].claim \/ handle'[fh].claim = None
  BY <1>2, <1>3
<1>10. ClaimsUnique' BY <1>1, <1>9 DEF ClaimsUnique
<1>11. FreeClaims'
  <2>1. ASSUME NEW d \in Claims, Owned(d)' PROVE Owned(d)
    BY <2>1, <1>1, <1>9, HandlesAssumption DEF Owned
  <2> QED BY <1>1, <2>1 DEF FreeClaims
<1>12. UsedClaims' BY <1>1 DEF UsedClaims
<1>13. HeldIsReady' /\ OpeningHolds' BY <1>1 DEF HeldIsReady, OpeningHolds
<1>14. NoGhostTrack' BY <1>1 DEF NoGhostTrack
<1>15. NoLeakedFile' BY <1>1, <1>2, <1>3 DEF NoLeakedFile
<1>16. HandlesHold' BY <1>1, <1>2, <1>3 DEF HandlesHold
<1>17. OpenFilesLive' BY <1>1 DEF OpenFilesLive
<1> QED BY <1>5, <1>6, <1>7, <1>8, <1>10, <1>11, <1>12, <1>13, <1>14, <1>15, <1>16, <1>17

LEMMA DestroyCloseKeeps == ASSUME IInv, DestroyClose PROVE IInv'
<1> USE DEF IInv, files
<1>1. UNCHANGED <<thread, files>> /\ destroy' = "done" /\ destroy = "swept" /\ open' = FALSE
  BY DEF DestroyClose, Slicer!Close
<1>2. /\ \A c \in Claims : use'[c] = Slicer!Unused
      /\ use' \in [Claims -> Slicer!Use]
      /\ slice' \in [Keys -> {"none", "cutting", "ready"}]
  BY DEF DestroyClose, Slicer!Close, Slicer!Unused, Slicer!Use, Slicer!Status
<1>3. TypeOK' BY <1>1 DEF TypeOK
<1>4. CacheType'
  <2>1. open' \in BOOLEAN /\ (open' <=> destroy' # "done") BY <1>1
  <2>2. \A c \in Claims : use'[c].status = "idle" /\ use'[c].key = None
    BY <1>2 DEF Slicer!Unused
  <2> QED BY <1>2, <2>1, <2>2 DEF CacheType
<1>5. ThreadsPlaced' /\ HandlesPlaced' BY <1>1 DEF ThreadsPlaced, HandlesPlaced, Placed
<1>6. NumbersLeft' BY <1>1 DEF NumbersLeft, OpeningThreads
<1>7. ClaimsUnique' /\ FreeClaims' /\ UsedClaims'
  BY <1>1 DEF ClaimsUnique, FreeClaims, UsedClaims
<1>8. HeldIsReady' /\ OpeningHolds' BY <1>1, <1>2 DEF HeldIsReady, OpeningHolds, Slicer!Unused
<1>9. NoGhostTrack' /\ NoLeakedFile' BY <1>1 DEF NoGhostTrack, NoLeakedFile
<1>10. HandlesHold' /\ OpenFilesLive' BY <1>1 DEF HandlesHold, OpenFilesLive
<1> QED BY <1>3, <1>4, <1>5, <1>6, <1>7, <1>8, <1>9, <1>10

\* The cache touches no thread; a Getattr may find its entry outdated.
SameButFound(th, next) ==
  /\ next.pc = th.pc /\ next.key = th.key /\ next.claim = th.claim
  /\ next.fh = th.fh /\ next.whole = th.whole /\ next.seen = th.seen

LEMMA OnlyFoundChanges ==
  ASSUME TypeOK, SlicerStep
  PROVE  /\ thread' \in [Threads -> Thread]
         /\ \A u \in Threads : SameButFound(thread[u], thread'[u])
<1>0. ASSUME NEW th \in Thread, NEW how \in {"failed", "expired"}
      PROVE  [th EXCEPT !.found = how] \in Thread
  BY <1>0 DEF Thread
<1>1. CASE UNCHANGED thread BY <1>1 DEF TypeOK, Thread, SameButFound
<1>2. ASSUME NEW k \in Keys, NEW how \in {"failed", "expired"}, Outlived(k, how)
      PROVE  /\ thread' \in [Threads -> Thread]
             /\ \A u \in Threads : SameButFound(thread[u], thread'[u])
  <2>1. \A u \in Threads : thread'[u] \in {thread[u], [thread[u] EXCEPT !.found = how]}
    BY <1>2 DEF Outlived
  <2>2. thread' = [u \in Threads |-> thread'[u]] BY <1>2 DEF Outlived
  <2>3. ASSUME NEW u \in Threads
        PROVE  thread'[u] \in Thread /\ SameButFound(thread[u], thread'[u])
    <3>1. thread[u] \in Thread BY DEF TypeOK
    <3>2. CASE thread'[u] = thread[u] BY <3>1, <3>2 DEF SameButFound
    <3>3. CASE thread'[u] = [thread[u] EXCEPT !.found = how]
      BY <1>0, <3>1, <3>3 DEF Thread, SameButFound
    <3> QED BY <2>1, <3>2, <3>3
  <2> QED BY <2>2, <2>3
<1> QED BY <1>1, <1>2 DEF SlicerStep

\* A cut that fails was not ready, so nobody held its slice, and a slice is
\* evicted only when nobody holds it.
LEMMA SlicerKeeps == ASSUME IInv, SlicerStep PROVE IInv'
<1> USE DEF IInv, files, SlicerStep
<1>1. PICK k \in Keys : Slicer!Ready(k) \/ Slicer!Fail(k) \/ Slicer!Evict(k) OBVIOUS
<1>2. UNCHANGED <<files, destroy>> /\ (open' <=> open) /\ open' \in BOOLEAN
  BY <1>1 DEF Slicer!Ready, Slicer!Fail, Slicer!Evict, CacheType
<1>0. /\ thread' \in [Threads -> Thread]
      /\ \A u \in Threads : SameButFound(thread[u], thread'[u])
  BY OnlyFoundChanges
<1>3. /\ slice' \in [Keys -> {"none", "cutting", "ready"}]
      /\ use' \in [Claims -> Slicer!Use]
      /\ \A c \in Claims :
           /\ use'[c].key = use[c].key
           /\ use'[c].status = "idle" <=> use[c].status = "idle"
           /\ use'[c].status = "holding" <=> use[c].status = "holding"
           /\ use[c].status = "holding" => use'[c] = use[c]
  <2>1. CASE Slicer!Ready(k) \/ Slicer!Evict(k)
    BY <2>1 DEF Slicer!Ready, Slicer!Evict, CacheType
  <2>2. CASE Slicer!Fail(k)
    <3> DEFINE failed == Slicer!Using("failed", k)
               waiting == Slicer!Using("waiting", k)
    <3>1. \A c \in Claims : use'[c] = IF use[c] = waiting THEN failed ELSE use[c]
      BY <2>2 DEF Slicer!Fail
    <3>2. /\ failed \in Slicer!Use /\ failed.status = "failed" /\ failed.key = k
          /\ waiting.status = "waiting" /\ waiting.key = k
      BY DEF Slicer!Using, Slicer!Use, Slicer!Status
    <3>3. slice' \in [Keys -> {"none", "cutting", "ready"}]
      BY <2>2 DEF Slicer!Fail, CacheType
    <3>4. use' = [c \in Claims |-> IF use[c] = waiting THEN failed ELSE use[c]]
      BY <2>2 DEF Slicer!Fail
    <3> HIDE DEF failed, waiting
    <3>5. use' \in [Claims -> Slicer!Use] BY <3>2, <3>4 DEF CacheType
    <3> QED BY <3>1, <3>2, <3>3, <3>5
  <2> QED BY <1>1, <2>1, <2>2
<1>4. TypeOK' BY <1>0, <1>2 DEF TypeOK
<1>5. CacheType' BY <1>2, <1>3 DEF CacheType
<1>6. ThreadsPlaced' /\ HandlesPlaced'
  BY <1>0, <1>2 DEF ThreadsPlaced, HandlesPlaced, Placed, SameButFound
<1>7. NumbersLeft'
  <2>1. OpeningThreads' = OpeningThreads BY <1>0 DEF OpeningThreads, SameButFound
  <2> QED BY <1>2, <2>1 DEF NumbersLeft
<1>8. ClaimsUnique' /\ FreeClaims' /\ UsedClaims'
  BY <1>0, <1>2, <1>3 DEF ClaimsUnique, FreeClaims, UsedClaims, Owned, SameButFound
<1>9. HeldIsReady'
  <2> SUFFICES ASSUME NEW c \in Claims, use'[c].status = "holding" PROVE slice'[use'[c].key] = "ready"
    BY DEF HeldIsReady
  <2>1. use'[c] = use[c] /\ use[c].status = "holding" /\ use[c].key \in Keys
    BY <1>3, HandlesAssumption DEF CacheType, Slicer!Use
  <2>2. slice[use[c].key] = "ready" BY <2>1 DEF HeldIsReady
  <2>3. ~(Slicer!Evict(k) /\ use[c].key = k)
    BY <2>1 DEF Slicer!Evict, Slicer!Users, Slicer!Using, CacheType, Slicer!Use
  <2>4. slice'[use[c].key] = slice[use[c].key]
    BY <1>1, <2>1, <2>2, <2>3 DEF Slicer!Ready, Slicer!Fail, Slicer!Evict, CacheType
  <2> QED BY <2>1, <2>2, <2>4
<1>10. OpeningHolds'
  <2>1. ASSUME NEW u \in Threads, open
        PROVE  /\ thread[u].pc = "acquiring" => use'[thread[u].claim].key = thread[u].key
               /\ thread[u].pc = "opening" \/ (thread[u].pc = "publishing" /\ thread[u].key # None) =>
                    use'[thread[u].claim] = Slicer!Using("holding", thread[u].key)
    <3> HIDE DEF SlicerStep
    <3>1. thread[u].pc \in {"acquiring", "opening"}
            \/ (thread[u].pc = "publishing" /\ thread[u].key # None) => thread[u].claim \in Claims
      BY HandlesAssumption DEF ThreadsPlaced, Placed, Carrying, TypeOK, Thread
    <3> QED BY <2>1, <3>1, <1>3 DEF OpeningHolds, Slicer!Using
  <2> QED BY <1>0, <1>2, <2>1 DEF OpeningHolds, SameButFound
<1>11. NoGhostTrack' /\ NoLeakedFile'
  BY <1>0, <1>2 DEF NoGhostTrack, NoLeakedFile, SameButFound
<1>12. HandlesHold'
  <2>1. \A fh \in FHs : handle[fh].claim # None => handle[fh].claim \in Claims
    BY DEF TypeOK, FileHandle
  <2> QED BY <2>1, <1>2, <1>3 DEF HandlesHold, Slicer!Using
<1>13. OpenFilesLive' BY <1>0, <1>2 DEF OpenFilesLive, SameButFound
<1> QED BY <1>4, <1>5, <1>6, <1>7, <1>8, <1>9, <1>10, <1>11, <1>12, <1>13

-----------------------------------------------------------------------------
(* The invariant *)

LEMMA NextKeeps == IInv /\ [Next]_vars => IInv'
<1> SUFFICES ASSUME IInv, [Next]_vars PROVE IInv' OBVIOUS
<1>1. CASE UNCHANGED vars
  BY <1>1 DEF vars, cache, files, IInv, TypeOK, CacheType, ThreadsPlaced, HandlesPlaced, Placed,
     NumbersLeft, OpeningThreads, ClaimsUnique, FreeClaims, UsedClaims, Owned, HeldIsReady,
     OpeningHolds, HandlesHold, OpenFilesLive, NoGhostTrack, NoLeakedFile
<1>2. ASSUME NEW t \in Threads, Request(t) PROVE IInv'
  BY <1>1, <1>2, OpenVirtualKeeps, OpenRealKeeps, ReadLookupKeeps, GetattrKeeps,
     ReleaseRemoveKeeps DEF Request, Refused
<1>3. ASSUME NEW t \in Threads, ThreadStep(t) PROVE IInv'
  BY <1>3, AskKeeps, AcquireOkKeeps, OpenTempKeeps, PublishVirtualKeeps, PublishRealKeeps,
     ErrorsKeep, ReadLoadKeeps, ReadAtKeeps, GetattrStepKeeps, ReleaseSwapKeeps
     DEF ThreadStep, OpenStep
<1>4. CASE DestroyStep
  BY <1>4, DestroyCancelKeeps, DestroySweepKeeps, DestroyCloseKeeps DEF DestroyStep
<1>5. CASE SlicerStep BY <1>5, SlicerKeeps
<1> QED BY <1>1, <1>2, <1>3, <1>4, <1>5 DEF Next

\* IInv holds in every state the VFS can reach.
THEOREM Invariance == Spec => []IInv
<1>1. Init => IInv BY InitKeeps
<1>2. IInv /\ [Next]_vars => IInv' BY NextKeeps
<1> QED BY <1>1, <1>2, PTL DEF Spec

\* fileHandle, openFiles and nextHandle keep their shape in every state.
THEOREM TypeCorrect == Spec => []TypeOK
<1>1. IInv => TypeOK BY DEF IInv
<1> QED BY <1>1, Invariance, PTL

LEMMA OwnersOf ==
  ASSUME IInv, destroy \in {"no", "cancelled"}, NEW c \in Claims
  PROVE  IF use[c].status = "idle" THEN Owners(c) = {} ELSE Cardinality(Owners(c)) = 1
<1>1. open BY DEF IInv, CacheType
<1>2. c # None BY HandlesAssumption
<1>3. \A fh \in FHs : handle[fh].claim = c => handle[fh].file
  BY <1>2 DEF IInv, HandlesPlaced
<1>4. CASE use[c].status = "idle"
  <2>1. ~Owned(c) BY <1>1, <1>4 DEF IInv, FreeClaims
  <2> QED BY <1>4, <2>1 DEF Owned, Owners
<1>5. CASE use[c].status # "idle"
  <2>1. Owned(c) BY <1>5 DEF IInv, UsedClaims
  <2>2. PICK x : x \in Owners(c) BY <2>1, <1>3 DEF Owned, Owners
  <2>3. ASSUME NEW y \in Owners(c) PROVE y = x
    BY <1>2, <2>2 DEF Owners, IInv, ClaimsUnique
  <2>4. Owners(c) = {x} BY <2>2, <2>3
  <2> QED BY <1>5, <2>4, FS_Singleton
<1> QED BY <1>4, <1>5

\* Every Acquire that succeeded is matched by exactly one Release to come:
\* Open's error paths, Release and Destroy neither drop nor repeat one.
THEOREM ClaimsAreOwned == Spec => []OneOwnerPerClaim
<1>1. IInv => OneOwnerPerClaim BY OwnersOf DEF OneOwnerPerClaim
<1> QED BY <1>1, Invariance, PTL

\* Handles and Reads use complete slices only, whatever the cache does.
THEOREM FilesAreWhole == Spec => []VirtualFileIsWhole
<1>1. IInv => VirtualFileIsWhole
  BY DEF IInv, HandlesPlaced, ThreadsPlaced, Placed, VirtualFileIsWhole
<1> QED BY <1>1, Invariance, PTL

\* After Destroy's sweep no Open in flight registers a virtual track.
THEOREM NoTrackAfterSweep == Spec => []NoGhostTrack
<1>1. IInv => NoGhostTrack BY DEF IInv
<1> QED BY <1>1, Invariance, PTL

\* Only a step of its Getattr makes a thread answer.
LEMMA OnlyGetattrAnswers ==
  ASSUME TypeOK, Next, NEW t \in Threads,
         thread[t].pc # "answering", thread'[t].pc = "answering"
  PROVE  GetattrStep(t)
<1>1. thread'[t] # thread[t] OBVIOUS
<1>2. PICK u \in Threads : Request(u) \/ ThreadStep(u)
  <2>1. ~SlicerStep BY OnlyFoundChanges DEF SameButFound
  <2> QED BY <1>1, <2>1 DEF Next, DestroyStep, DestroyCancel, DestroySweep, DestroyClose
<1>3. thread \in [Threads -> Thread] BY DEF TypeOK
<1>4. ~Ends(u) BY <1>3 DEF Ends, Goes, Idle
<1>5. ASSUME Request(u) PROVE FALSE
  <2>1. CASE \E k \in Keys : OpenVirtual(u, k) BY <1>3, <2>1 DEF OpenVirtual, Goes, Idle
  <2>2. CASE \E k \in Keys : Getattr(u, k) BY <1>3, <2>2 DEF Getattr, Peeks, Goes, Idle
  <2>3. CASE OpenReal(u) BY <1>3, <2>3 DEF OpenReal, Goes, Idle
  <2>4. CASE Refused(u) BY <1>1, <2>4 DEF Refused, vars
  <2>5. CASE \E fh \in FHs : ReadLookup(u, fh) BY <1>3, <2>5 DEF ReadLookup, Goes, Idle
  <2>6. CASE \E fh \in FHs : ReleaseRemove(u, fh) BY <1>3, <2>6 DEF ReleaseRemove, Goes, Idle
  <2> QED BY <1>5, <2>1, <2>2, <2>3, <2>4, <2>5, <2>6 DEF Request
<1>6. ASSUME OpenStep(u) PROVE FALSE
  <2>1. CASE Ask(u) BY <1>3, <1>4, <2>1 DEF Ask, Goes, Thread
  <2>2. CASE AcquireOk(u) BY <1>3, <2>2 DEF AcquireOk, Goes, Thread
  <2>3. CASE AcquireErr(u) BY <1>4, <2>3 DEF AcquireErr
  <2>4. CASE OpenTemp(u) BY <1>3, <2>4 DEF OpenTemp, Goes, Thread
  <2>5. CASE OpenTempFails(u) BY <1>4, <2>5 DEF OpenTempFails
  <2>6. CASE PublishVirtual(u)
    BY <1>3, <1>4, <2>6 DEF PublishVirtual, Register, Goes, Thread
  <2>7. CASE Unwind(u) BY <1>4, <2>7 DEF Unwind
  <2>8. CASE PublishReal(u) BY <1>4, <2>8 DEF PublishReal, Register
  <2> QED BY <1>6, <2>1, <2>2, <2>3, <2>4, <2>5, <2>6, <2>7, <2>8 DEF OpenStep
<1>7. ASSUME ReadLoad(u) \/ ReadAt(u) \/ ReleaseSwap(u) \/ ReleaseLeave(u) PROVE FALSE
  <2>1. CASE ReadLoad(u) BY <1>3, <1>4, <2>1 DEF ReadLoad, Goes, Idle
  <2>2. CASE ReadAt(u) BY <1>4, <2>2 DEF ReadAt
  <2>3. CASE ReleaseSwap(u) BY <1>3, <1>4, <2>3 DEF ReleaseSwap, Goes, Idle
  <2>4. CASE ReleaseLeave(u) BY <1>4, <2>4 DEF ReleaseLeave
  <2> QED BY <1>7, <2>1, <2>2, <2>3, <2>4
<1>8. GetattrStep(u) BY <1>2, <1>5, <1>6, <1>7 DEF ThreadStep
<1>9. u = t
  <2>1. \E r : Goes(u, r)
    BY <1>8 DEF GetattrStep, GetattrLoad, GetattrStat, Peek, Measure, Answer, Peeks, Answers, Ends
  <2> QED BY <1>1, <1>3, <2>1 DEF Goes
<1> QED BY <1>8, <1>9

\* An open handle of a track holds its slice, so the cache has it.
LEMMA HandleMeansReady ==
  ASSUME IInv, NEW fh \in openFiles, handle[fh].key # None
  PROVE  open /\ handle[fh].key \in Keys /\ slice[handle[fh].key] = "ready"
<1>1. fh \in FHs BY HandlesAssumption DEF IInv, TypeOK, FHs
<1>2. handle[fh] \in FileHandle BY <1>1 DEF IInv, TypeOK
<1>3. open BY DEF IInv, CacheType, NoGhostTrack, TypeOK
<1>4. handle[fh].claim \in Claims
  BY <1>1, <1>2 DEF IInv, OpenFilesLive, HandlesPlaced, FileHandle
<1>5. use[handle[fh].claim] = Slicer!Using("holding", handle[fh].key)
  BY <1>1, <1>3, <1>4, HandlesAssumption DEF IInv, HandlesHold
<1> QED BY <1>2, <1>3, <1>4, <1>5 DEF IInv, HeldIsReady, Slicer!Using, FileHandle

\* While a handle is open that a Getattr saw when it looked the slice up, the
\* entry it found is still the entry of the cache.
SeenIsCurrent ==
  \A t \in Threads :
    /\ thread[t].pc # "measuring" => thread[t].found = "current"
    /\ thread[t].seen \subseteq 1 .. nextHandle
    /\ \A fh \in thread[t].seen \cap openFiles :
         handle[fh].key = thread[t].key => thread[t].found = "current"

\* A step of a thread leaves the others alone, and only Peek makes it measure.
LEMMA ThreadLooksUp ==
  ASSUME IInv, SeenIsCurrent, NEW u \in Threads, Request(u) \/ ThreadStep(u), NEW t \in Threads
  PROVE  \/ thread'[t] = thread[t]
         \/ thread'[t].found = "current" /\ thread'[t].seen \subseteq 1 .. nextHandle
<1>0. TypeOK BY DEF IInv
<1>1. thread \in [Threads -> Thread] /\ thread[u] \in Thread BY <1>0 DEF TypeOK
<1> DEFINE Current(r) == r.found = "current" /\ r.seen \subseteq 1 .. nextHandle
<1>2. ASSUME NEW r, Goes(u, r), Current(r) PROVE thread'[t] = thread[t] \/ Current(thread'[t])
  BY <1>1, <1>2 DEF Goes
<1>3. Current(Idle) BY DEF Idle
<1>4. thread[u].pc # "measuring" => Current(thread[u]) BY DEF SeenIsCurrent
<1>5. CASE Request(u)
  <2>1. ASSUME NEW k \in Keys, OpenVirtual(u, k) \/ Getattr(u, k)
        PROVE  thread'[t] = thread[t] \/ Current(thread'[t])
    BY <1>2, <2>1 DEF OpenVirtual, Getattr, Peeks, Idle
  <2>2. CASE OpenReal(u) BY <1>2, <2>2 DEF OpenReal, Idle
  <2>3. CASE Refused(u) BY <2>3 DEF Refused, vars
  <2>4. ASSUME NEW fh \in FHs, ReadLookup(u, fh) \/ ReleaseRemove(u, fh)
        PROVE  thread'[t] = thread[t] \/ Current(thread'[t])
    BY <1>2, <2>4 DEF ReadLookup, ReleaseRemove, Idle
  <2> QED BY <1>5, <2>1, <2>2, <2>3, <2>4 DEF Request
<1>6. CASE Ends(u) BY <1>2, <1>3, <1>6 DEF Ends
<1>7. CASE OpenStep(u)
  <2>1. CASE Ask(u)
    <3>1. CASE \E c \in Claims : Goes(u, [thread[u] EXCEPT !.claim = c,
                 !.pc = IF slice[thread[u].key] = "ready" THEN "opening" ELSE "acquiring"])
      <4>1. Current(thread[u]) BY <1>4, <2>1 DEF Ask
      <4> QED BY <1>1, <1>2, <3>1, <4>1 DEF Thread
    <3> QED BY <1>6, <2>1, <3>1 DEF Ask
  <2>2. CASE AcquireOk(u) BY <1>1, <1>2, <1>4, <2>2 DEF AcquireOk, Thread
  <2>3. CASE OpenTemp(u) BY <1>1, <1>2, <1>4, <2>3 DEF OpenTemp, Thread
  <2>4. CASE PublishVirtual(u)
    BY <1>1, <1>2, <1>4, <1>6, <2>4 DEF PublishVirtual, Register, Thread
  <2>5. CASE AcquireErr(u) \/ OpenTempFails(u) \/ Unwind(u) \/ PublishReal(u)
    BY <1>6, <2>5 DEF AcquireErr, OpenTempFails, Unwind, PublishReal, Register
  <2> QED BY <1>7, <2>1, <2>2, <2>3, <2>4, <2>5 DEF OpenStep
<1>8. CASE GetattrStep(u)
  <2>1. ASSUME NEW k, Peeks(u, k) PROVE thread'[t] = thread[t] \/ Current(thread'[t])
    BY <1>2, <2>1 DEF Peeks, Idle
  <2>2. ASSUME NEW exact, Answers(u, exact) PROVE thread'[t] = thread[t] \/ Current(thread'[t])
    BY <1>2, <2>2 DEF Answers, Idle
  <2>3. CASE GetattrLoad(u) BY <1>1, <1>2, <1>4, <2>1, <2>3 DEF GetattrLoad, Thread
  <2>4. CASE GetattrStat(u) BY <2>1, <2>2, <2>4 DEF GetattrStat
  <2>5. CASE Peek(u)
    <3>1. CASE Answers(u, FALSE) BY <2>2, <3>1
    <3>2. CASE Goes(u, [thread[u] EXCEPT !.pc = "measuring",
                                         !.seen = HandlesOf(thread[u].key)])
      <4>1. thread[u].found = "current" BY <1>4, <2>5 DEF Peek
      <4>2. HandlesOf(thread[u].key) \subseteq 1 .. nextHandle
        BY <1>0 DEF TypeOK, HandlesOf
      <4> QED BY <1>1, <1>2, <3>2, <4>1, <4>2 DEF Thread
    <3> QED BY <2>5, <3>1, <3>2 DEF Peek
  <2>6. CASE Measure(u) BY <2>2, <2>6 DEF Measure
  <2>7. CASE Answer(u) BY <1>6, <2>7 DEF Answer
  <2> QED BY <1>8, <2>3, <2>4, <2>5, <2>6, <2>7 DEF GetattrStep
<1>9. CASE ReadLoad(u) \/ ReadAt(u) \/ ReleaseSwap(u) \/ ReleaseLeave(u)
  <2>1. CASE ReadLoad(u) BY <1>2, <1>6, <2>1 DEF ReadLoad, Idle
  <2>2. CASE ReleaseSwap(u) BY <1>2, <1>6, <2>2 DEF ReleaseSwap, Idle
  <2>3. CASE ReadAt(u) \/ ReleaseLeave(u) BY <1>6, <2>3 DEF ReadAt, ReleaseLeave
  <2> QED BY <1>9, <2>1, <2>2, <2>3
<1> QED BY <1>5, <1>7, <1>8, <1>9 DEF ThreadStep

\* Handles that were given out do not open again or change their track.
LEMMA OldHandles ==
  ASSUME TypeOK, [Next]_vars
  PROVE  /\ nextHandle <= nextHandle' /\ nextHandle' \in Nat
         /\ \A fh \in 1 .. nextHandle : fh \in openFiles' =>
              fh \in openFiles /\ handle'[fh].key = handle[fh].key
<1> DEFINE Old == /\ nextHandle <= nextHandle' /\ nextHandle' \in Nat
                  /\ \A fh \in 1 .. nextHandle : fh \in openFiles' =>
                       fh \in openFiles /\ handle'[fh].key = handle[fh].key
<1>1. nextHandle \in Nat /\ 1 .. nextHandle \subseteq FHs
  BY HandlesAssumption DEF TypeOK, FHs
<1>2. CASE UNCHANGED files BY <1>1, <1>2 DEF files
<1>3. ASSUME NEW t \in Threads, Register(t) PROVE Old
  BY <1>1, <1>3 DEF Register, TypeOK
<1>4. ASSUME NEW t \in Threads, NEW gh \in FHs, ReleaseRemove(t, gh) PROVE Old
  BY <1>1, <1>4 DEF ReleaseRemove
<1>5. ASSUME NEW t \in Threads, ReleaseSwap(t) PROVE Old
  <2>1. \A fh \in FHs : handle'[fh].key = handle[fh].key
    BY <1>5 DEF ReleaseSwap, Closed, TypeOK, FileHandle
  <2> QED BY <1>1, <1>5, <2>1 DEF ReleaseSwap
<1>6. CASE DestroySweep BY <1>1, <1>6 DEF DestroySweep
<1>7. ASSUME NEW t \in Threads, Request(t)
      PROVE  UNCHANGED files \/ \E gh \in FHs : ReleaseRemove(t, gh)
  BY <1>7 DEF Request, OpenVirtual, Getattr, OpenReal, Refused, ReadLookup, vars, files
<1>8. ASSUME NEW t \in Threads, ThreadStep(t)
      PROVE  UNCHANGED files \/ Register(t) \/ ReleaseSwap(t)
  BY <1>8 DEF ThreadStep, OpenStep, Ask, AcquireOk, AcquireErr, OpenTemp, OpenTempFails,
              PublishVirtual, Unwind, PublishReal, ReadLoad, ReadAt, GetattrStep, GetattrLoad,
              GetattrStat, Peek, Measure, Answer, ReleaseLeave
<1>9. CASE DestroyCancel \/ DestroyClose \/ SlicerStep \/ UNCHANGED vars
  BY <1>2, <1>9 DEF DestroyCancel, DestroyClose, SlicerStep, vars
<1> QED BY <1>2, <1>3, <1>4, <1>5, <1>6, <1>7, <1>8, <1>9 DEF Next, DestroyStep

\* A cut that fails or a slice that is evicted is not that of an open handle.
LEMMA CacheKeepsSeen ==
  ASSUME IInv, SeenIsCurrent, SlicerStep, NEW t \in Threads, NEW fh \in openFiles,
         handle[fh].key = thread[t].key, thread[t].found = "current"
  PROVE  thread'[t].found = "current"
<1>1. thread[t] \in Thread BY DEF IInv, TypeOK
<1>2. PICK k \in Keys :
        \/ UNCHANGED thread
        \/ Slicer!Fail(k) /\ Outlived(k, "failed")
        \/ Slicer!Evict(k) /\ Outlived(k, "expired")
  BY DEF SlicerStep
<1>3. CASE UNCHANGED thread BY <1>3
<1>4. CASE thread[t].key # k BY <1>2, <1>4 DEF Outlived
<1>5. CASE thread[t].key = k
  <2>1. fh \in FHs BY HandlesAssumption DEF IInv, TypeOK, FHs
  <2>2. handle[fh].key # None BY <1>5, HandlesAssumption
  <2>3. open /\ slice[k] = "ready" BY <1>5, <2>2, HandleMeansReady
  <2>4. handle[fh].claim \in Claims
    BY <2>1, <2>2, HandlesAssumption DEF IInv, OpenFilesLive, HandlesPlaced, TypeOK, FileHandle
  <2>5. use[handle[fh].claim] = Slicer!Using("holding", k)
    BY <1>5, <2>1, <2>3, <2>4, HandlesAssumption DEF IInv, HandlesHold
  <2>6. ~Slicer!Fail(k) BY <2>3 DEF Slicer!Fail
  <2>7. ~Slicer!Evict(k) BY <2>4, <2>5 DEF Slicer!Evict, Slicer!Users
  <2> QED BY <1>2, <2>6, <2>7
<1> QED BY <1>3, <1>4, <1>5

LEMMA SeenKeeps == IInv /\ SeenIsCurrent /\ [Next]_vars => SeenIsCurrent'
<1> SUFFICES ASSUME IInv, SeenIsCurrent, [Next]_vars, NEW t \in Threads
             PROVE  /\ thread'[t].pc # "measuring" => thread'[t].found = "current"
                    /\ thread'[t].seen \subseteq 1 .. nextHandle'
                    /\ \A fh \in thread'[t].seen \cap openFiles' :
                         handle'[fh].key = thread'[t].key => thread'[t].found = "current"
  BY DEF SeenIsCurrent
<1>0. TypeOK BY DEF IInv
<1>1. 1 .. nextHandle \subseteq 1 .. nextHandle'
  <2>1. nextHandle \in Nat BY <1>0, HandlesAssumption DEF TypeOK, FHs
  <2> QED BY <1>0, <2>1, OldHandles
<1>2. CASE thread'[t] = thread[t]
  BY <1>0, <1>1, <1>2, OldHandles DEF SeenIsCurrent
<1>3. CASE thread'[t].found = "current" /\ thread'[t].seen \subseteq 1 .. nextHandle
  BY <1>1, <1>3
<1>4. CASE SlicerStep
  <2>1. SameButFound(thread[t], thread'[t]) /\ UNCHANGED files
    BY <1>0, <1>4, OnlyFoundChanges DEF SlicerStep
  <2>2. thread'[t].pc # "measuring" => thread'[t] = thread[t]
    BY <1>4, <2>1 DEF SlicerStep, Outlived, SameButFound
  <2>3. \A fh \in thread[t].seen \cap openFiles :
          handle[fh].key = thread[t].key => thread'[t].found = "current"
    BY <1>4, CacheKeepsSeen DEF SeenIsCurrent
  <2> QED BY <1>1, <2>1, <2>2, <2>3 DEF SeenIsCurrent, SameButFound, files
<1>5. CASE DestroyStep \/ UNCHANGED vars
  BY <1>2, <1>5 DEF DestroyStep, DestroyCancel, DestroySweep, DestroyClose, vars
<1> QED BY <1>2, <1>3, <1>4, <1>5, ThreadLooksUp DEF Next

\* A Getattr that comes to a size that is not the whole slice's finds the cache
\* without it (or closed), since the file of a handle is whole; or the entry it
\* has looked up has failed, and the handles have come after it.
LEMMA SizeStep ==
  ASSUME IInv, SeenIsCurrent, Next, NEW t \in Threads,
         thread[t].pc # "answering", thread'[t].pc = "answering", ~thread'[t].whole,
         NEW fh \in HandlesOf(thread[t].key)
  PROVE  thread[t].pc = "measuring" /\ fh \notin thread[t].seen
<1> DEFINE k == thread[t].key
<1>1. /\ TypeOK /\ thread \in [Threads -> Thread]
      /\ thread[t] \in Thread /\ Placed(thread[t])
      /\ fh \in openFiles /\ handle[fh].key = k
  BY DEF IInv, TypeOK, ThreadsPlaced, HandlesOf
<1>2. GetattrStep(t) BY <1>1, OnlyGetattrAnswers
<1>3. k # None
  <2>1. thread[t].pc \in {"loading", "statting", "peeking", "measuring"}
    BY <1>2 DEF GetattrStep, GetattrLoad, GetattrStat, Peek, Measure, Answer
  <2> QED BY <1>1, <2>1 DEF Placed
<1>4. ASSUME NEW exact, Answers(t, exact) PROVE exact = thread'[t].whole
  BY <1>1, <1>4 DEF Answers, Goes, Idle
<1>5. open /\ slice[k] = "ready" BY <1>1, <1>3, HandleMeansReady
<1>6. ~Peeks(t, k) BY <1>1 DEF Peeks, Goes, Idle
<1>7. ~GetattrLoad(t)
  <2>1. ~Goes(t, [thread[t] EXCEPT !.pc = "statting"]) BY <1>1 DEF Goes, Thread
  <2> QED BY <1>6, <2>1 DEF GetattrLoad
<1>8. ~GetattrStat(t)
  <2> SUFFICES ASSUME GetattrStat(t) PROVE FALSE OBVIOUS
  <2>1. thread[t].fh \in FHs
    BY <1>1, HandlesAssumption DEF GetattrStat, Placed, IInv, TypeOK, FHs
  <2>2. handle[thread[t].fh].fd /\ Answers(t, handle[thread[t].fh].whole)
    BY <1>6 DEF GetattrStat
  <2> QED BY <1>4, <2>1, <2>2 DEF IInv, HandlesPlaced
<1>9. ~Peek(t)
  <2>1. ~Goes(t, [thread[t] EXCEPT !.pc = "measuring", !.seen = HandlesOf(k)])
    BY <1>1 DEF Goes, Thread
  <2> QED BY <1>5, <2>1 DEF Peek
<1>10. Measure(t) BY <1>2, <1>7, <1>8, <1>9 DEF GetattrStep, Answer
<1>11. thread[t].found = "failed" BY <1>4, <1>5, <1>10 DEF Measure
<1> QED BY <1>1, <1>10, <1>11 DEF Measure, SeenIsCurrent

\* Sizes are honest after the first slice, for any number of threads, handles
\* and tracks.
THEOREM SizesAreHonest == Spec => HonestSize
<1> DEFINE Honest ==
      \A t \in Threads :
        thread[t].pc # "answering" /\ thread'[t].pc = "answering" /\ ~thread'[t].whole =>
          \A fh \in HandlesOf(thread[t].key) :
            thread[t].pc = "measuring" /\ fh \notin thread[t].seen
<1>1. Init => SeenIsCurrent BY DEF Init, SeenIsCurrent, Idle
<1>2. IInv /\ SeenIsCurrent /\ [Next]_vars => [Honest]_vars BY SizeStep
<1>3. HonestSize <=> [][Honest]_vars BY DEF HonestSize
<1> HIDE DEF Honest
<1> QED BY <1>1, <1>2, <1>3, SeenKeeps, Invariance, PTL DEF Spec

\* Every open file is in openFiles or in the hands of a Release.
THEOREM FilesAreClosed == Spec => []NoLeakedFile
<1>1. IInv => NoLeakedFile BY DEF IInv
<1> QED BY <1>1, Invariance, PTL

=============================================================================
