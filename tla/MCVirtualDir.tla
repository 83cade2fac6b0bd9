---------------------------- MODULE MCVirtualDir ----------------------------
(* A small instance of VirtualDir for TLC: two cue sheets, audio files they *)
(* may mean, and files and a directory with the names tracks and discs want.*)
EXTENDS VirtualDir, SequencesExt

Name(stem, ext) == [stem |-> stem, suffixes |-> <<>>, ext |-> ext, form |-> "plain"]
Accented(stem, ext, form) == [Name(stem, ext) EXCEPT !.form = form]
T == Accented("T", "flac", "nfc")
U == Name("U", "flac")
A == Accented("a", "flac", "nfc")
B == Name("b", "flac")
CD1 == Name("CD1", "")

NFD(name) == InForm(name, "nfd")

MCFiles == {A, NFD(A), WithExt(A, "wav"), B, NFD(T), AddSuffix(T, 2), Accented("cover", "jpg", "nfd")}
MCSubdirs == {CD1}
MCCues == {WithExt(A, "cue"), Name("x", "cue")}
MCBelow == {<<CD1, T>>}
MCLost == {{}, MCFiles \cup MCSubdirs \cup MCCues}
MCPaths == SUBSET {"nfc", "nfd"}

File(declared, names) == [declared |-> declared, names |-> names]
In(n) == <<n>>

Sheet(disc, files) ==
  [disc |-> disc,
   files |-> [f \in DOMAIN files |-> files[f].declared],
   tracks |-> FlattenSeq([f \in DOMAIN files |->
                [i \in DOMAIN files[f].names |->
                   [name |-> files[f].names[i], file |-> f, indexed |-> TRUE]]])]

MCSheets == {
  None,
  Sheet(None, <<File(In(A), <<T, T>>)>>),
  Sheet(CD1, <<File(In(B), <<AddSuffix(T, 2), T, T>>)>>),
  Sheet(CD1, <<File(None, <<U>>)>>),
  Sheet(None, <<File(In(A), <<T>>), File(In(B), <<U>>)>>),
  Sheet(None, <<File(In(A), <<T, U>>), File(In(B), <<>>), File(In(B), <<T>>)>>),
  Sheet(None, <<File(<<CD1, T>>, <<T, U>>), File(<<CD1, B>>, <<T>>)>>)}

\* Albums whose audio files came from a system that writes NFD.
NfdFiles == {NFD(A), B}
PlainPath == {{}}

\* Sheets of a set of two discs, with the number written as 1/2 and 2/2.
MCCompound == {"CD1/2", "CD2/2"}
MCSheetsOfSet ==
  {Sheet(Name(stem, ""), <<File(None, <<T>>)>>) : stem \in MCCompound}
=============================================================================
