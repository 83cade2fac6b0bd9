---------------------------- MODULE FFmpegCutter ----------------------------
(***************************************************************************)
(* FFmpeg.Cut of internal/cutter/ffmpeg.go: a bounded number of ffmpeg     *)
(* processes, a timeout that starts with the call, and one more try        *)
(* without the artwork. Its calls come from TrackCacheManager.runCut: one  *)
(* at a time for a path, and on a path without a file.                     *)
(***************************************************************************)
EXTENDS Integers, FiniteSets

CONSTANTS
  Paths,       \* output paths; the call for a path is known by it
  Sound,       \* those whose audio ffmpeg, left alone, cuts without the artwork
  Concurrency  \* arguments of SetMaxConcurrency

ASSUME CutterAssumption ==
  IsFiniteSet(Paths) /\ Sound \subseteq Paths /\ Concurrency \subseteq Int

VARIABLES
  cap,     \* cap(c.sem)
  sem,     \* len(c.sem)
  call,    \* the calls of Cut
  output   \* the file at each path

vars == <<cap, sem, call, output>>

-----------------------------------------------------------------------------
(* A call is queued for a slot, then its process is starting, running (its *)
(* output is not open yet), writing, and exited when it failed. A call     *)
(* that is returning runs its deferred functions. `art`: does this try     *)
(* embed the artwork? `second`: is it the second try? `ctxDone`: is the    *)
(* context of the call cancelled or past its deadline?                     *)
Processing == {"starting", "running", "writing", "exited"}
InSlot == Processing \cup {"returning"}

Call ==
  [pc : {"idle", "queued", "returned"} \cup InSlot,
   art : BOOLEAN, second : BOOLEAN, ctxDone : BOOLEAN,
   result : {"none", "ok", "failed", "ctx"}]

NoCall ==
  [pc |-> "idle", art |-> FALSE, second |-> FALSE, ctxDone |-> FALSE,
   result |-> "none"]

Returning(r, result) == [r EXCEPT !.pc = "returning", !.result = result]

\* NewFFmpeg
Init ==
  /\ cap = 2
  /\ sem = 0
  /\ call = [p \in Paths |-> NoCall]
  /\ output = [p \in Paths |-> "none"]

\* Called, if at all, before the first cut.
SetMaxConcurrency(n) ==
  /\ \A p \in Paths : call[p] = NoCall
  /\ cap' = IF n <= 0 THEN 1 ELSE n
  /\ sem' = 0
  /\ UNCHANGED <<call, output>>

\* runCut calls Cut; the timeout starts.
Cut(p) ==
  /\ call[p].pc = "idle"
  /\ \E art \in BOOLEAN :
       call' = [call EXCEPT ![p] = [NoCall EXCEPT !.pc = "queued", !.art = art]]
  /\ UNCHANGED <<cap, sem, output>>

\* The manager cancels the cut, or its timeout elapses.
CtxDone(p) ==
  /\ call[p].pc \in {"queued"} \cup Processing
  /\ ~call[p].ctxDone
  /\ call' = [call EXCEPT ![p].ctxDone = TRUE]
  /\ UNCHANGED <<cap, sem, output>>

BadTakeSlot(p) ==
  /\ call[p].pc = "queued"
  /\ sem <= cap
  /\ sem' = sem + 1
  /\ call' = [call EXCEPT ![p].pc = "starting"]
  /\ UNCHANGED <<cap, output>>

\* select takes the slot, even when the context is done as well ...
TakeSlot(p) ==
  /\ call[p].pc = "queued"
  /\ sem < cap
  /\ sem' = sem + 1
  /\ call' = [call EXCEPT ![p].pc = "starting"]
  /\ UNCHANGED <<cap, output>>

BadLoseWaitDeaf(p) == call[p].pc = "queued" /\ call[p].ctxDone /\ UNCHANGED vars

BadLoseWaitFreesSlot(p) ==
  /\ call[p].pc = "queued"
  /\ call[p].ctxDone
  /\ call' = [call EXCEPT ![p] = Returning(@, "ctx")]
  /\ UNCHANGED <<cap, sem, output>>

\* ... or returns ctx.Err() without one.
LoseWait(p) ==
  /\ call[p].pc = "queued"
  /\ call[p].ctxDone
  /\ call' = [call EXCEPT ![p].pc = "returned", ![p].result = "ctx"]
  /\ UNCHANGED <<cap, sem, output>>

-----------------------------------------------------------------------------
(* execCut: exec.CommandContext(...).CombinedOutput()                      *)

\* A command whose context is done is not started.
ExecStart(p) ==
  /\ call[p].pc = "starting"
  /\ call' = [call EXCEPT ![p].pc = IF call[p].ctxDone THEN "exited" ELSE "running"]
  /\ UNCHANGED <<cap, sem, output>>

OpenOutput(p) ==
  /\ call[p].pc = "running"
  /\ call' = [call EXCEPT ![p].pc = "writing"]
  /\ output' = [output EXCEPT ![p] = "partial"]
  /\ UNCHANGED <<cap, sem>>

\* ffmpeg succeeds, be it in the moment its context is done.
ExitOk(p) ==
  /\ call[p].pc = "writing"
  /\ call' = [call EXCEPT ![p] = Returning(@, "ok")]
  /\ output' = [output EXCEPT ![p] = "whole"]
  /\ UNCHANGED <<cap, sem>>

\* ffmpeg is killed because the context is done, or fails by itself: it
\* cannot cut this audio, or not with that artwork.
ExitFail(p) ==
  /\ call[p].pc \in {"running", "writing"}
  /\ call[p].ctxDone \/ p \notin Sound \/ call[p].art
  /\ call' = [call EXCEPT ![p].pc = "exited"]
  /\ UNCHANGED <<cap, sem, output>>

-----------------------------------------------------------------------------
(* What Cut does with a failed try. ctx.Err() is read only now.            *)

BadGiveUp(p) ==
  /\ call[p].pc = "exited"
  /\ call[p].ctxDone
  /\ call' = [call EXCEPT ![p] = Returning(@, "ctx")]
  /\ UNCHANGED <<cap, sem, output>>

GiveUp(p) ==
  /\ call[p].pc = "exited"
  /\ call[p].ctxDone
  /\ output' = [output EXCEPT ![p] = "none"]
  /\ call' = [call EXCEPT ![p] = Returning(@, "ctx")]
  /\ UNCHANGED <<cap, sem>>

MayRetry(r) == ~r.second /\ r.art

BadRetryWithoutArtwork(p) ==
  /\ call[p].pc = "exited"
  /\ ~call[p].ctxDone
  /\ MayRetry(call[p])
  /\ output' = [output EXCEPT ![p] = "none"]
  /\ call' = [call EXCEPT ![p].pc = "starting", ![p].second = TRUE]
  /\ UNCHANGED <<cap, sem>>

\* The second execCut, with ArtworkPath = "".
RetryWithoutArtwork(p) ==
  /\ call[p].pc = "exited"
  /\ ~call[p].ctxDone
  /\ MayRetry(call[p])
  /\ output' = [output EXCEPT ![p] = "none"]
  /\ call' = [call EXCEPT ![p].pc = "starting", ![p].second = TRUE, ![p].art = FALSE]
  /\ UNCHANGED <<cap, sem>>

BadReportSuccess(p) ==
  /\ call[p].pc = "exited"
  /\ ~call[p].ctxDone
  /\ ~MayRetry(call[p])
  /\ call' = [call EXCEPT ![p] = Returning(@, "ok")]
  /\ UNCHANGED <<cap, sem, output>>

\* The output stays: runCut removes it.
ReportFailure(p) ==
  /\ call[p].pc = "exited"
  /\ ~call[p].ctxDone
  /\ ~MayRetry(call[p])
  /\ call' = [call EXCEPT ![p] = Returning(@, "failed")]
  /\ UNCHANGED <<cap, sem, output>>

\* The deferred <-c.sem.
Return(p) ==
  /\ call[p].pc = "returning"
  /\ sem' = sem - 1
  /\ call' = [call EXCEPT ![p].pc = "returned"]
  /\ UNCHANGED <<cap, output>>

\* The manager: runCut removes the output of a failed cut, the TTL that of a
\* successful one, before the path is cut again.
Forget(p) ==
  /\ call[p].pc = "returned"
  /\ call' = [call EXCEPT ![p] = NoCall]
  /\ output' = [output EXCEPT ![p] = "none"]
  /\ UNCHANGED <<cap, sem>>

-----------------------------------------------------------------------------
AfterFailedTry(p) == GiveUp(p) \/ RetryWithoutArtwork(p) \/ ReportFailure(p)

CallStep(p) ==
  \/ Cut(p)
  \/ CtxDone(p)
  \/ TakeSlot(p)
  \/ LoseWait(p)
  \/ ExecStart(p)
  \/ OpenOutput(p)
  \/ ExitOk(p)
  \/ ExitFail(p)
  \/ AfterFailedTry(p)
  \/ Return(p)
  \/ Forget(p)

Next ==
  \/ \E n \in Concurrency : SetMaxConcurrency(n)
  \/ \E p \in Paths : CallStep(p)

Spec == Init /\ [][Next]_vars

\* The timeout of NewFFmpeg is positive, so every context ends; a process
\* whose context is done is killed; Cut itself runs. Nothing is assumed of
\* ffmpeg: it may hang, and so may every process ahead in the queue.
Fairness ==
  \A p \in Paths :
    /\ WF_vars(CtxDone(p))
    /\ WF_vars(LoseWait(p))
    /\ WF_vars(ExecStart(p))
    /\ WF_vars(ExitFail(p) /\ call[p].ctxDone)
    /\ WF_vars(AfterFailedTry(p))
    /\ WF_vars(Return(p))

FairSpec == Spec /\ Fairness

-----------------------------------------------------------------------------
(* Properties *)

\* The variables keep the shape of the code's data; a channel's length and
\* capacity are never negative.
TypeOK ==
  /\ cap \in Nat
  /\ sem \in Nat
  /\ call \in [Paths -> Call]
  /\ output \in [Paths -> {"none", "partial", "whole"}]

\* Every path through Cut gives back exactly the slot it took (156), so there
\* are never more processes than the configured limit, and never fewer slots
\* than the limit allows.
SlotsMatchCuts ==
  /\ sem = Cardinality({p \in Paths : call[p].pc \in InSlot})
  /\ sem <= cap

\* A cut that ends with its context's error leaves no file, whether it ended in
\* the queue, before or after ffmpeg opened the file, or in the second try.
CancelledLeavesNothing ==
  \A p \in Paths :
    call[p].pc = "returned" /\ call[p].result = "ctx" => output[p] = "none"

\* Cut is graceful about artwork (143-145): a track that ffmpeg can cut without
\* it is never reported as failed, whichever of the two tries fails and
\* wherever the timeout falls between them.
ArtworkNeverFatal ==
  \A p \in Paths : call[p].result = "failed" => p \notin Sound

\* Every call returns, whatever ffmpeg does and however long the queue is.
EveryCutReturns ==
  \A p \in Paths : call[p].pc = "queued" ~> call[p].pc = "returned"

-----------------------------------------------------------------------------
(* FFmpeg.Cut is a Cutter.                                                 *)
CutOf(p) ==
  IF call[p].pc = "idle" THEN "idle"
  ELSE IF call[p].result = "ok" THEN "written"
  ELSE IF call[p].result # "none" THEN "failing"
  ELSE IF output[p] = "partial" THEN "writing" ELSE "queued"

Contract == INSTANCE Cutter WITH cut <- [p \in Paths |-> CutOf(p)]

\* Every step of a call is a step the cache allows a cutter: no success
\* without a complete file, no write after the result.
ImplementsCutter == Contract!Spec
=============================================================================
