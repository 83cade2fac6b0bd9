------------------------------- MODULE Cutter -------------------------------
(***************************************************************************)
(* What the slice cache relies on in a Cutter: the steps CutCreate,        *)
(* CutRetry, CutSucceed and CutFail of TrackCache, seen from one output    *)
(* path. FFmpegCutter implements this module.                              *)
(***************************************************************************)
CONSTANT Paths

VARIABLES
  cut,    \* the cut of each path
  output  \* the file at each path

Init ==
  /\ cut = [p \in Paths |-> "idle"]
  /\ output = [p \in Paths |-> "none"]

Becomes(p, state, data) ==
  /\ cut' = [cut EXCEPT ![p] = state]
  /\ output' = [output EXCEPT ![p] = data]

\* The cache starts a cut only where no file is left.
Start(p) == cut[p] = "idle" /\ output[p] = "none" /\ Becomes(p, "queued", "none")

Create(p) == cut[p] = "queued" /\ Becomes(p, "writing", "partial")

Retry(p) == cut[p] \in {"queued", "writing"} /\ Becomes(p, "queued", "none")

\* Success means a complete file: a cut that has not written cannot succeed.
Succeed(p) == cut[p] = "writing" /\ Becomes(p, "written", "whole")

Fail(p) ==
  /\ cut[p] \in {"queued", "writing"}
  /\ \E data \in {"none", output[p]} : Becomes(p, "failing", data)

\* The cache has taken note of the result and the path is free again.
Forget(p) == cut[p] \in {"written", "failing"} /\ Becomes(p, "idle", "none")

Next ==
  \E p \in Paths :
    Start(p) \/ Create(p) \/ Retry(p) \/ Succeed(p) \/ Fail(p) \/ Forget(p)

Spec == Init /\ [][Next]_<<cut, output>>
=============================================================================
