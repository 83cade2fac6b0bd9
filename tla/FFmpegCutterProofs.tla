------------------------- MODULE FFmpegCutterProofs -------------------------
(***************************************************************************)
(* For any number of calls and any limit, FFmpeg.Cut keeps count of its    *)
(* slots, leaves no file after a cancellation, fails no track for the sake *)
(* of its artwork, and is the Cutter that the slice cache relies on.       *)
(***************************************************************************)
EXTENDS FFmpegCutter, FiniteSetTheorems, TLAPS

\* What a call has done to its output, at each point of Cut.
Matches(p) ==
  /\ call[p].pc = "idle" => call[p] = NoCall /\ output[p] = "none"
  /\ call[p].pc \in {"queued", "starting", "running"} =>
       call[p].result = "none" /\ output[p] = "none"
  /\ call[p].pc = "writing" => call[p].result = "none" /\ output[p] = "partial"
  /\ call[p].pc = "exited" => call[p].result = "none" /\ output[p] # "whole"
  /\ call[p].pc \in {"returning", "returned"} => call[p].result # "none"
  /\ call[p].result = "ok" => output[p] = "whole"
  /\ call[p].result = "ctx" => output[p] = "none"
  /\ call[p].second => ~call[p].art
  /\ call[p].pc = "exited" /\ ~call[p].ctxDone /\ p \in Sound => call[p].art
  /\ call[p].result = "failed" => p \notin Sound

OutputMatchesCall == \A p \in Paths : Matches(p)

\* The inductive invariant.
IInv == TypeOK /\ SlotsMatchCuts /\ OutputMatchesCall

\* The calls that have a slot.
Holders == {p \in Paths : call[p].pc \in InSlot}

-----------------------------------------------------------------------------
(* Lemmas about the count of slots *)

LEMMA HoldersFinite == IsFiniteSet(Holders)
  BY CutterAssumption, FS_Subset DEF Holders, CutterAssumption

\* A step of one call outside TakeSlot and Return leaves the count right.
LEMMA SameSlots ==
  ASSUME SlotsMatchCuts, NEW p \in Paths, UNCHANGED <<cap, sem>>,
         \A q \in Paths \ {p} : call'[q] = call[q],
         call'[p].pc \in InSlot <=> call[p].pc \in InSlot
  PROVE  SlotsMatchCuts'
<1>1. {q \in Paths : call'[q].pc \in InSlot} = {q \in Paths : call[q].pc \in InSlot}
  OBVIOUS
<1> QED
  BY <1>1 DEF SlotsMatchCuts

\* A call that has a slot is counted.
LEMMA HolderCounted ==
  ASSUME TypeOK, SlotsMatchCuts, NEW p \in Paths, call[p].pc \in InSlot
  PROVE  /\ sem \in Nat \ {0}
         /\ Cardinality(Holders \ {p}) = sem - 1
<1>1. p \in Holders
  BY DEF Holders
<1>2. Cardinality(Holders \ {p}) = Cardinality(Holders) - 1
  BY <1>1, HoldersFinite, FS_RemoveElement
<1>3. Cardinality(Holders \ {p}) \in Nat
  BY HoldersFinite, FS_RemoveElement, FS_CardinalityType
<1>4. Cardinality(Holders) = sem
  BY DEF SlotsMatchCuts, Holders
<1> QED
  BY <1>2, <1>3, <1>4 DEF TypeOK

-----------------------------------------------------------------------------
(* Initially *)

LEMMA InitIInv == Init => IInv
<1> SUFFICES ASSUME Init PROVE IInv
  OBVIOUS
<1>1. TypeOK
  BY DEF Init, TypeOK, Call, NoCall
<1>2. SlotsMatchCuts
  <2>1. {p \in Paths : call[p].pc \in InSlot} = {}
    BY DEF Init, NoCall, InSlot, Processing
  <2> QED
    BY <2>1, FS_EmptySet DEF Init, SlotsMatchCuts
<1>3. OutputMatchesCall
  BY DEF Init, OutputMatchesCall, Matches, NoCall
<1> QED
  BY <1>1, <1>2, <1>3 DEF IInv

-----------------------------------------------------------------------------
(* Each action of one call preserves the invariant *)

\* What is left to show of a step of the call p that keeps its slot or lack of
\* one: its new record, its new output, and how they match.
LEMMA OneCall ==
  ASSUME IInv, NEW p \in Paths, UNCHANGED <<cap, sem>>,
         NEW r \in Call, call' = [call EXCEPT ![p] = r],
         r.pc \in InSlot <=> call[p].pc \in InSlot,
         NEW data \in {"none", "partial", "whole"}, output' = [output EXCEPT ![p] = data],
         Matches(p)'
  PROVE  IInv'
<1> USE DEF IInv
<1>1. TypeOK'
  BY DEF TypeOK
<1>2. /\ call'[p] = r
      /\ \A q \in Paths \ {p} : call'[q] = call[q] /\ output'[q] = output[q]
  BY DEF TypeOK
<1>3. SlotsMatchCuts'
  BY <1>2, SameSlots
<1>4. OutputMatchesCall'
  <2>1. ASSUME NEW q \in Paths PROVE Matches(q)'
    <3>1. CASE q = p
      BY <3>1
    <3>2. CASE q # p
      BY <3>2, <1>2 DEF OutputMatchesCall, Matches
    <3> QED
      BY <3>1, <3>2
  <2> QED
    BY <2>1 DEF OutputMatchesCall
<1> QED
  BY <1>1, <1>3, <1>4

\* The steps that take or give back no slot.
LEMMA SlotlessStep ==
  ASSUME IInv, NEW p \in Paths,
         \/ Cut(p) \/ CtxDone(p) \/ LoseWait(p) \/ ExecStart(p) \/ OpenOutput(p)
         \/ ExitOk(p) \/ ExitFail(p) \/ AfterFailedTry(p) \/ Forget(p)
  PROVE  IInv'
<1> USE DEF InSlot, Processing
<1>0. /\ call \in [Paths -> Call] /\ call[p] \in Call
      /\ output \in [Paths -> {"none", "partial", "whole"}]
      /\ output = [output EXCEPT ![p] = output[p]]
      /\ Matches(p)
  BY DEF IInv, TypeOK, OutputMatchesCall
<1>1. CASE Cut(p)
  <2>1. PICK art \in BOOLEAN :
          call' = [call EXCEPT ![p] = [NoCall EXCEPT !.pc = "queued", !.art = art]]
    BY <1>1 DEF Cut
  <2> DEFINE r == [NoCall EXCEPT !.pc = "queued", !.art = art]
  <2>2. r \in Call
    BY DEF NoCall, Call
  <2>3. Matches(p)'
    BY <1>0, <1>1, <2>1 DEF Cut, Matches, NoCall
  <2> QED
    BY <1>0, <1>1, <2>1, <2>2, <2>3, OneCall DEF Cut, NoCall
<1>2. CASE CtxDone(p)
  <2> DEFINE r == [call[p] EXCEPT !.ctxDone = TRUE]
  <2>1. r \in Call /\ call' = [call EXCEPT ![p] = r] /\ r.pc = call[p].pc
    BY <1>0, <1>2 DEF CtxDone, Call
  <2>2. Matches(p)'
    BY <1>0, <1>2, <2>1 DEF CtxDone, Matches, Call
  <2> QED
    BY <1>0, <1>2, <2>1, <2>2, OneCall DEF CtxDone
<1>3. CASE LoseWait(p)
  <2> DEFINE r == [call[p] EXCEPT !.pc = "returned", !.result = "ctx"]
  <2>1. r \in Call /\ call' = [call EXCEPT ![p] = r] /\ r.pc = "returned"
    BY <1>0, <1>3 DEF LoseWait, Call
  <2>2. Matches(p)'
    BY <1>0, <1>3, <2>1 DEF LoseWait, Matches, Call
  <2> QED
    BY <1>0, <1>3, <2>1, <2>2, OneCall DEF LoseWait
<1>4. CASE ExecStart(p)
  <2> DEFINE r == [call[p] EXCEPT !.pc = IF call[p].ctxDone THEN "exited" ELSE "running"]
  <2>1. r \in Call /\ call' = [call EXCEPT ![p] = r] /\ r.pc \in {"exited", "running"}
    BY <1>0, <1>4 DEF ExecStart, Call
  <2>2. Matches(p)'
    BY <1>0, <1>4, <2>1 DEF ExecStart, Matches, Call
  <2> QED
    BY <1>0, <1>4, <2>1, <2>2, OneCall DEF ExecStart
<1>5. CASE OpenOutput(p)
  <2> DEFINE r == [call[p] EXCEPT !.pc = "writing"]
  <2>1. r \in Call /\ call' = [call EXCEPT ![p] = r] /\ r.pc = "writing"
    BY <1>0, <1>5 DEF OpenOutput, Call
  <2>2. Matches(p)'
    BY <1>0, <1>5, <2>1 DEF OpenOutput, Matches, Call
  <2> QED
    BY <1>0, <1>5, <2>1, <2>2, OneCall DEF OpenOutput
<1>6. CASE ExitOk(p)
  <2> DEFINE r == Returning(call[p], "ok")
  <2>1. r \in Call /\ call' = [call EXCEPT ![p] = r] /\ r.pc = "returning"
    BY <1>0, <1>6 DEF ExitOk, Returning, Call
  <2>2. Matches(p)'
    BY <1>0, <1>6, <2>1 DEF ExitOk, Matches, Returning, Call
  <2> QED
    BY <1>0, <1>6, <2>1, <2>2, OneCall DEF ExitOk
<1>7. CASE ExitFail(p)
  <2> DEFINE r == [call[p] EXCEPT !.pc = "exited"]
  <2>1. r \in Call /\ call' = [call EXCEPT ![p] = r] /\ r.pc = "exited"
    BY <1>0, <1>7 DEF ExitFail, Call
  <2>2. Matches(p)'
    BY <1>0, <1>7, <2>1 DEF ExitFail, Matches, Call
  <2> QED
    BY <1>0, <1>7, <2>1, <2>2, OneCall DEF ExitFail
<1>8. CASE GiveUp(p)
  <2> DEFINE r == Returning(call[p], "ctx")
  <2>1. r \in Call /\ call' = [call EXCEPT ![p] = r] /\ r.pc = "returning"
    BY <1>0, <1>8 DEF GiveUp, Returning, Call
  <2>2. Matches(p)'
    BY <1>0, <1>8, <2>1 DEF GiveUp, Matches, Returning, Call
  <2> QED
    BY <1>0, <1>8, <2>1, <2>2, OneCall DEF GiveUp
<1>9. CASE RetryWithoutArtwork(p)
  <2> DEFINE r == [call[p] EXCEPT !.pc = "starting", !.second = TRUE, !.art = FALSE]
  <2>1. r \in Call /\ call' = [call EXCEPT ![p] = r] /\ r.pc = "starting"
    BY <1>0, <1>9 DEF RetryWithoutArtwork, Call
  <2>2. Matches(p)'
    BY <1>0, <1>9, <2>1 DEF RetryWithoutArtwork, Matches, Call
  <2> QED
    BY <1>0, <1>9, <2>1, <2>2, OneCall DEF RetryWithoutArtwork
<1>10. CASE ReportFailure(p)
  <2> DEFINE r == Returning(call[p], "failed")
  <2>1. r \in Call /\ call' = [call EXCEPT ![p] = r] /\ r.pc = "returning"
    BY <1>0, <1>10 DEF ReportFailure, Returning, Call
  <2>2. Matches(p)'
    BY <1>0, <1>10, <2>1 DEF ReportFailure, MayRetry, Matches, Returning, Call
  <2> QED
    BY <1>0, <1>10, <2>1, <2>2, OneCall DEF ReportFailure
<1>11. CASE Forget(p)
  <2>1. NoCall \in Call
    BY DEF NoCall, Call
  <2>2. Matches(p)'
    BY <1>0, <1>11 DEF Forget, Matches, NoCall
  <2> QED
    BY <1>0, <1>11, <2>1, <2>2, OneCall DEF Forget, NoCall
<1> QED
  BY <1>1, <1>2, <1>3, <1>4, <1>5, <1>6, <1>7, <1>8, <1>9, <1>10, <1>11 DEF AfterFailedTry

\* A call takes a slot.
LEMMA TakeSlotStep ==
  ASSUME IInv, NEW p \in Paths, TakeSlot(p)
  PROVE  IInv'
<1> USE DEF IInv, TakeSlot
<1>1. TypeOK'
  BY DEF TypeOK, Call, InSlot, Processing
<1>2. SlotsMatchCuts'
  <2>1. p \notin Holders
    BY DEF Holders, InSlot, Processing
  <2>2. Cardinality(Holders \cup {p}) = Cardinality(Holders) + 1
    BY <2>1, HoldersFinite, FS_AddElement
  <2>3. {q \in Paths : call'[q].pc \in InSlot} = Holders \cup {p}
    BY DEF TypeOK, Call, Holders, InSlot, Processing
  <2>4. Cardinality(Holders) = sem
    BY DEF SlotsMatchCuts, Holders
  <2>5. Cardinality({q \in Paths : call'[q].pc \in InSlot}) = sem + 1
    BY <2>2, <2>3, <2>4
  <2>6. sem' = sem + 1 /\ sem' <= cap'
    BY DEF TypeOK
  <2> QED
    BY <2>5, <2>6 DEF SlotsMatchCuts
<1>3. OutputMatchesCall'
  BY DEF TypeOK, Call, OutputMatchesCall, Matches, NoCall
<1> QED
  BY <1>1, <1>2, <1>3

\* A call gives its slot back.
LEMMA ReturnStep ==
  ASSUME IInv, NEW p \in Paths, Return(p)
  PROVE  IInv'
<1> USE DEF IInv, Return
<1>0. call[p].pc \in InSlot
  BY DEF InSlot, Processing
<1>1. TypeOK'
  <2>1. sem \in Nat \ {0}
    BY <1>0, HolderCounted
  <2>2. sem' \in Nat
    BY <2>1
  <2>3. call' \in [Paths -> Call]
    BY DEF TypeOK, Call
  <2> QED
    BY <2>2, <2>3 DEF TypeOK
<1>2. SlotsMatchCuts'
  <2>1. {q \in Paths : call'[q].pc \in InSlot} = Holders \ {p}
    BY DEF TypeOK, Call, Holders, InSlot, Processing
  <2> QED
    BY <1>0, <2>1, HolderCounted DEF TypeOK, SlotsMatchCuts
<1>3. OutputMatchesCall'
  BY DEF TypeOK, Call, OutputMatchesCall, Matches, NoCall
<1> QED
  BY <1>1, <1>2, <1>3

\* SetMaxConcurrency finds no slot taken.
LEMMA SetMaxConcurrencyStep ==
  ASSUME IInv, NEW n \in Concurrency, SetMaxConcurrency(n)
  PROVE  IInv'
<1> USE DEF IInv, SetMaxConcurrency
<1>1. TypeOK'
  BY CutterAssumption DEF CutterAssumption, TypeOK
<1>2. SlotsMatchCuts'
  <2>1. {q \in Paths : call'[q].pc \in InSlot} = {}
    BY DEF NoCall, InSlot, Processing
  <2> QED
    BY <2>1, <1>1, FS_EmptySet DEF TypeOK, SlotsMatchCuts
<1>3. OutputMatchesCall'
  BY DEF OutputMatchesCall, Matches
<1> QED
  BY <1>1, <1>2, <1>3

-----------------------------------------------------------------------------
(* The invariant *)

LEMMA NextIInv == IInv /\ [Next]_vars => IInv'
<1> SUFFICES ASSUME IInv, [Next]_vars PROVE IInv'
  OBVIOUS
<1>1. ASSUME NEW n \in Concurrency, SetMaxConcurrency(n) PROVE IInv'
  BY <1>1, SetMaxConcurrencyStep
<1>2. ASSUME NEW p \in Paths, CallStep(p) PROVE IInv'
  BY <1>2, SlotlessStep, TakeSlotStep, ReturnStep DEF CallStep
<1>3. CASE UNCHANGED vars
  BY <1>3 DEF IInv, TypeOK, SlotsMatchCuts, OutputMatchesCall, Matches, vars
<1> QED
  BY <1>1, <1>2, <1>3 DEF Next

\* IInv holds in every reachable state of the cutter.
THEOREM CutterInvariance == Spec => []IInv
  BY InitIInv, NextIInv, PTL DEF Spec

\* cap, sem and the calls keep their types: sem is given back only after it
\* was taken, so it is never negative.
THEOREM TypeCorrect == Spec => []TypeOK
<1>1. IInv => TypeOK
  BY DEF IInv
<1> QED
  BY <1>1, CutterInvariance, PTL

\* Every path through Cut gives back exactly the slot it took, for any number
\* of calls and any limit.
THEOREM SlotsExact == Spec => []SlotsMatchCuts
<1>1. IInv => SlotsMatchCuts
  BY DEF IInv
<1> QED
  BY <1>1, CutterInvariance, PTL

\* A cut that its context ended leaves no file behind.
THEOREM CancelledIsClean == Spec => []CancelledLeavesNothing
<1>1. IInv => CancelledLeavesNothing
  BY DEF IInv, OutputMatchesCall, Matches, CancelledLeavesNothing
<1> QED
  BY <1>1, CutterInvariance, PTL

\* A track that ffmpeg can cut without its artwork never fails: the first try
\* fails for the artwork or the context, the second for the context alone.
THEOREM ArtworkTolerated == Spec => []ArtworkNeverFatal
<1>1. IInv => ArtworkNeverFatal
  BY DEF IInv, OutputMatchesCall, Matches, ArtworkNeverFatal
<1> QED
  BY <1>1, CutterInvariance, PTL

-----------------------------------------------------------------------------
(* FFmpegCutter implements Cutter *)

\* The cut of Cutter that the variables stand for.
Cuts == [p \in Paths |-> CutOf(p)]

LEMMA InitContract == Init => Contract!Init
  BY DEF Init, Contract!Init, CutOf, NoCall

\* A step of one call is the step of its cut and of no other.
LEMMA OneCut ==
  ASSUME NEW p \in Paths, NEW data, output \in [Paths -> {"none", "partial", "whole"}],
         output' = [output EXCEPT ![p] = data],
         \A q \in Paths \ {p} : call'[q] = call[q]
  PROVE  /\ Cuts' = [Cuts EXCEPT ![p] = CutOf(p)']
         /\ Cuts[p] = CutOf(p)
<1>1. \A q \in Paths \ {p} : CutOf(q)' = CutOf(q)
  BY DEF CutOf
<1> QED
  BY <1>1 DEF Cuts

LEMMA CallContract ==
  ASSUME IInv, NEW p \in Paths, CallStep(p)
  PROVE  [Contract!Next]_<<Cuts, output>>
<1>0. /\ call \in [Paths -> Call] /\ call[p] \in Call
      /\ output \in [Paths -> {"none", "partial", "whole"}]
      /\ Matches(p)
  BY DEF IInv, TypeOK, OutputMatchesCall
<1> USE DEF Contract!Next, Contract!Becomes, Cuts
<1>1. CASE Cut(p)
  <2>1. CutOf(p) = "idle" /\ CutOf(p)' = "queued" /\ output[p] = "none"
    BY <1>0, <1>1 DEF Cut, CutOf, Matches, NoCall
  <2>2. Contract!Start(p)
    BY <1>0, <1>1, <2>1, OneCut DEF Cut, Contract!Start
  <2> QED
    BY <2>2
<1>2. CASE LoseWait(p) \/ GiveUp(p) \/ ReportFailure(p)
  <2>1. CutOf(p) \in {"queued", "writing"} /\ CutOf(p)' = "failing"
    <3>1. /\ call[p].pc \in {"queued", "exited"}
          /\ call'[p].pc # "idle" /\ call'[p].result \in {"ctx", "failed"}
      <4>1. CASE LoseWait(p)
        BY <1>0, <4>1 DEF LoseWait, Call
      <4>2. CASE GiveUp(p)
        BY <1>0, <4>2 DEF GiveUp, Returning, Call
      <4>3. CASE ReportFailure(p)
        BY <1>0, <4>3 DEF ReportFailure, Returning, Call
      <4> QED
        BY <1>2, <4>1, <4>2, <4>3
    <3>2. CutOf(p) \in {"queued", "writing"}
      BY <1>0, <3>1 DEF CutOf, Matches
    <3> QED
      BY <3>1, <3>2 DEF CutOf
  <2>2. PICK data \in {"none", output[p]} : output' = [output EXCEPT ![p] = data]
    BY <1>0, <1>2 DEF LoseWait, GiveUp, ReportFailure
  <2>3. \A q \in Paths \ {p} : call'[q] = call[q]
    BY <1>0, <1>2 DEF LoseWait, GiveUp, ReportFailure
  <2>4. Contract!Fail(p)
    BY <1>0, <2>1, <2>2, <2>3, OneCut DEF Contract!Fail
  <2> QED
    BY <2>4
<1>3. CASE OpenOutput(p)
  <2>1. CutOf(p) = "queued" /\ CutOf(p)' = "writing"
    BY <1>0, <1>3 DEF OpenOutput, CutOf, Matches, Call
  <2>2. Contract!Create(p)
    BY <1>0, <1>3, <2>1, OneCut DEF OpenOutput, Contract!Create
  <2> QED
    BY <2>2
<1>4. CASE ExitOk(p)
  <2>1. CutOf(p) = "writing" /\ CutOf(p)' = "written"
    BY <1>0, <1>4 DEF ExitOk, Returning, CutOf, Matches, Call
  <2>2. Contract!Succeed(p)
    BY <1>0, <1>4, <2>1, OneCut DEF ExitOk, Contract!Succeed
  <2> QED
    BY <2>2
<1>5. CASE RetryWithoutArtwork(p)
  <2>1. CutOf(p) \in {"queued", "writing"} /\ CutOf(p)' = "queued"
    BY <1>0, <1>5 DEF RetryWithoutArtwork, CutOf, Matches, Call
  <2>2. Contract!Retry(p)
    BY <1>0, <1>5, <2>1, OneCut DEF RetryWithoutArtwork, Contract!Retry
  <2> QED
    BY <2>2
<1>6. CASE Forget(p)
  <2>1. CutOf(p) \in {"written", "failing"} /\ CutOf(p)' = "idle"
    BY <1>0, <1>6 DEF Forget, CutOf, Matches, NoCall, Call
  <2>2. Contract!Forget(p)
    BY <1>0, <1>6, <2>1, OneCut DEF Forget, Contract!Forget
  <2> QED
    BY <2>2
<1>7. CASE CtxDone(p) \/ TakeSlot(p) \/ ExecStart(p) \/ ExitFail(p) \/ Return(p)
  <2>1. CutOf(p)' = CutOf(p)
    BY <1>0, <1>7 DEF CtxDone, TakeSlot, ExecStart, ExitFail, Return, CutOf, Matches, Call
  <2>2. output' = output /\ \A q \in Paths \ {p} : call'[q] = call[q]
    BY <1>0, <1>7 DEF CtxDone, TakeSlot, ExecStart, ExitFail, Return
  <2>3. Cuts' = Cuts
    BY <2>1, <2>2 DEF CutOf
  <2> QED
    BY <2>2, <2>3
<1> QED
  BY <1>1, <1>2, <1>3, <1>4, <1>5, <1>6, <1>7 DEF CallStep, AfterFailedTry

LEMMA NextContract ==
  ASSUME IInv, [Next]_vars
  PROVE  [Contract!Next]_<<Cuts, output>>
<1>1. ASSUME NEW n \in Concurrency, SetMaxConcurrency(n) PROVE UNCHANGED <<Cuts, output>>
  BY <1>1 DEF SetMaxConcurrency, Cuts, CutOf
<1>2. CASE UNCHANGED vars
  BY <1>2 DEF vars, Cuts, CutOf
<1> QED
  BY <1>1, <1>2, CallContract DEF Next

\* FFmpeg.Cut keeps the contract on which TrackCache relies: no success without
\* a complete file, no write after the result, at most one result per call.
THEOREM FFmpegIsACutter == Spec => ImplementsCutter
<1>1. IInv /\ [Next]_vars => [Contract!Next]_<<Cuts, output>>
  BY NextContract
<1> QED
  BY <1>1, InitContract, CutterInvariance, PTL DEF Spec, ImplementsCutter, Contract!Spec, Cuts
=============================================================================
