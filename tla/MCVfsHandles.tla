---------------------------- MODULE MCVfsHandles ----------------------------
(* A small instance of VfsHandles for TLC.                                 *)
EXTENDS VfsHandles

\* Two handles of one track, or of a track and a real file.
MCMaxHandles == 2
=============================================================================
