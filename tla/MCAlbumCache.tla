---------------------------- MODULE MCAlbumCache ----------------------------
(* A small instance of AlbumCache for TLC.                                 *)
EXTENDS AlbumCache

\* One change is enough for a state, a label and a view of before and of after it.
MCMaxChanges == 1
=============================================================================
