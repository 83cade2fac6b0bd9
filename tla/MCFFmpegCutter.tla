--------------------------- MODULE MCFFmpegCutter ---------------------------
(* A small instance of FFmpegCutter for TLC.                               *)
EXTENDS FFmpegCutter

\* A value SetMaxConcurrency replaces and one it takes.
MCConcurrency == {-1, 2}
=============================================================================
