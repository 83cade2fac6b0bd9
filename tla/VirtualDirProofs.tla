-------------------------- MODULE VirtualDirProofs --------------------------
(***************************************************************************)
(* Proofs about a directory, for any files, subdirectories, cue sheets and *)
(* names.                                                                  *)
(*                                                                         *)
(* The invariant follows the loops of buildDirState. While sheets are read *)
(* (LoopPlaced, AlbumsPlaced), the files found for the FILEs of the current*)
(* sheet differ from each other and from those that are claimed. While     *)
(* names are given (NamesPlaced), those given so far differ from each other*)
(* and from the names they are put beside, and stand for the first tracks. *)
(* FallbackPlaced says when a FILE is given what it does not declare, and   *)
(* CompletePlaced is about sheets that declare files of their own: what is *)
(* found for them is what they declare, as long as nobody took it.         *)
(***************************************************************************)
EXTENDS VirtualDir, FiniteSetTheorems, TLAPS

Entry == Files \cup Subdirs \cup Cues

Place == {<<n>> : n \in Entry} \cup Below

Album == [cue : Cues, sources : UNION {[F -> Place] : F \in SUBSET Nat}]

Suffixed(names) == names \cup {AddSuffix(n, k) : n \in names, k \in Nat}

\* All names that a directory or a track may get.
DirNames == Suffixed({DiscName(s, i) : s \in Sheets \ {None}, i \in Nat})
TrackNames ==
  Suffixed(UNION {{Nfc(s.tracks[i].name) : i \in DOMAIN s.tracks} : s \in Sheets \ {None}})

DiskPlaced ==
  /\ entries \subseteq Entry
  /\ below \subseteq {p \in Below : p[1] \in entries}
  /\ DOMAIN sheets \subseteq Cues \cap entries
  /\ \A c \in DOMAIN sheets : sheets[c] \in Sheets
  /\ path \subseteq {"nfc", "nfd"}

LoopPlaced ==
  /\ todo \subseteq DOMAIN sheets
  /\ reading \in todo \cup {None}
  /\ reading = None => found = <<>>
  /\ reading # None => Exact(<<reading>>) /\ Usable(sheets[reading])
  /\ found \in [DOMAIN found -> There \ claimed]
  /\ reading # None => DOMAIN found \subseteq Used(sheets[reading])
  /\ IsInjective(found)

AlbumsPlaced ==
  /\ albums \in Seq(Album)
  /\ \A a \in DOMAIN albums :
       /\ albums[a].cue \in DOMAIN sheets \ todo /\ Usable(sheets[albums[a].cue])
       /\ DOMAIN albums[a].sources \subseteq Used(sheets[albums[a].cue])
  /\ Sources = claimed /\ claimed \subseteq There
  /\ SourcesAreExclusive

NamesPlaced ==
  state # None =>
    /\ todo = {} /\ albums # <<>>
    /\ state = [hidden |-> Hidden, listed |-> state.listed,
                dirs |-> state.dirs, names |-> state.names]
    /\ state.listed \subseteq entries
    /\ state.dirs \in Seq(DirNames) /\ state.names \in Seq(Seq(TrackNames))
    /\ Len(state.names) <= Len(albums)
    /\ Flat => state.dirs = <<>> /\ Len(state.names) = 1
    /\ ~Flat => Len(state.dirs) = Len(state.names)
    /\ IsInjective(state.dirs) /\ Range(state.dirs) \cap RealNames = {}
    /\ \A a \in DOMAIN state.names :
         /\ Len(state.names[a]) <= Len(TracksOf(a))
         /\ a < Len(state.names) => Len(state.names[a]) = Len(TracksOf(a))
         /\ IsInjective(state.names[a])
         /\ Range(state.names[a]) \cap Occupied = {}

IInv == DiskPlaced /\ LoopPlaced /\ AlbumsPlaced /\ NamesPlaced

-----------------------------------------------------------------------------
(* Helpers                                                                 *)

\* A set of natural numbers has a least one.
LEMMA LeastNumber ==
  ASSUME NEW S \in SUBSET Nat, S # {}
  PROVE  Min(S) \in S /\ \A y \in S : Min(S) <= y
<1>1. PICK x \in S : \A y \in S : <<y, x>> \notin OpToRel(<, Nat)
  BY NatLessThanWellFounded, WFMin
<1>2. \A y \in S : ~(y < x)
  BY <1>1 DEF OpToRel
<1>3. \A y \in S : x <= y
  BY <1>2
<1> QED
  BY <1>3 DEF Min

\* What the operators on names make of names.
LEMMA NameForms ==
  ASSUME NEW n, IsName(n)
  PROVE  /\ \A form \in Forms \ {"plain"} :
              /\ IsName(InForm(n, form))
              /\ InForm(n, form).form = (IF n.form = "plain" THEN "plain" ELSE form)
         /\ n.form \in {"plain", "nfc"} => Nfc(n) = n
         /\ Nfc(Nfc(n)) = Nfc(n) /\ Nfc(n).form \in {"plain", "nfc"}
         /\ Nfc(InForm(n, "nfd")) = Nfc(n)
         /\ InForm(Nfc(n), "nfd") = InForm(n, "nfd")
         /\ n.form = "nfd" => InForm(n, "nfd") = n
<1> USE DEF IsName, InForm, Nfc, Forms
<1> QED OBVIOUS

\* Suffixes keep the form of a name, and different ones make different names.
LEMMA SuffixForms ==
  ASSUME NEW n, IsName(n), NEW k \in Nat
  PROVE  /\ IsName(AddSuffix(n, k)) /\ AddSuffix(n, k).form = n.form
         /\ AddSuffix(n, k).stem = n.stem
         /\ \A j \in Nat : AddSuffix(n, k) = AddSuffix(n, j) => k = j
<1>1. AddSuffix(n, k) = [stem |-> n.stem, suffixes |-> Append(n.suffixes, k),
                         ext |-> n.ext, form |-> n.form]
  <2>1. \A s : [n EXCEPT !.suffixes = s] =
                 [stem |-> n.stem, suffixes |-> s, ext |-> n.ext, form |-> n.form]
    BY DEF IsName
  <2> QED
    BY <2>1 DEF AddSuffix
<1>2. ASSUME NEW j \in Nat, AddSuffix(n, k) = AddSuffix(n, j) PROVE k = j
  <2>1. AddSuffix(n, j).suffixes = Append(n.suffixes, j)
    BY DEF IsName, AddSuffix
  <2> QED
    BY <1>1, <1>2, <2>1 DEF IsName
<1> QED
  BY <1>1, <1>2 DEF IsName

\* The search for a free name finds one: fewer names are taken than are tried.
LEMMA FreeName ==
  ASSUME NEW n, IsName(n), NEW taken, IsFiniteSet(taken)
  PROVE  Free(n, taken) \notin taken /\ Free(n, taken) \in Suffixed({n})
<1> DEFINE tried == 2 .. Cardinality(taken) + 2
           good == {k \in tried : AddSuffix(n, k) \notin taken}
<1>1. Cardinality(taken) \in Nat
  BY FS_CardinalityType
<1>2. IsFiniteSet(tried) /\ Cardinality(tried) = Cardinality(taken) + 1
  BY <1>1, FS_Interval
<1>3. good # {}
  <2> SUFFICES ASSUME good = {} PROVE FALSE
    OBVIOUS
  <2> DEFINE f == [k \in tried |-> AddSuffix(n, k)]
  <2>1. f \in [tried -> taken]
    OBVIOUS
  <2>2. Cardinality(taken) < Cardinality(tried)
    BY <1>1, <1>2
  <2>3. PICK j, k \in tried : j # k /\ f[j] = f[k]
    <3> HIDE DEF f, tried
    <3> QED BY <1>2, <2>1, <2>2, FS_PigeonHole
  <2>4. j \in Nat /\ k \in Nat /\ AddSuffix(n, j) = AddSuffix(n, k)
    BY <1>1, <2>3
  <2> QED
    BY <2>3, <2>4, SuffixForms
<1>4. good \in SUBSET Nat
  BY <1>1
<1>5. Min(good) \in good
  BY <1>3, <1>4, LeastNumber
<1> QED
  BY <1>4, <1>5 DEF Free, Suffixed

\* The values of a function on a finite set are finitely many.
LEMMA FiniteRange ==
  ASSUME NEW f, f = [x \in DOMAIN f |-> f[x]], IsFiniteSet(DOMAIN f)
  PROVE  IsFiniteSet(Range(f))
<1>1. f \in Surjection(DOMAIN f, Range(f))
  BY DEF Surjection, Range
<1> QED
  BY <1>1, FS_Surjection

LEMMA FiniteSequence ==
  ASSUME NEW S, NEW s \in Seq(S)
  PROVE  IsFiniteSet(Range(s))
<1>1. s = [x \in DOMAIN s |-> s[x]] /\ DOMAIN s = 1 .. Len(s) /\ Len(s) \in Nat
  OBVIOUS
<1>2. IsFiniteSet(1 .. Len(s))
  <2>1. 1 \in Int /\ Len(s) \in Int
    BY <1>1
  <2> QED
    BY <2>1, FS_Interval
<1>3. s \in Surjection(1 .. Len(s), Range(s))
  BY <1>1 DEF Surjection, Range
<1> QED
  BY <1>2, <1>3, FS_Surjection

\* The entries have finitely many names.
LEMMA FiniteNames ==
  ASSUME DiskPlaced, state.listed \subseteq entries
  PROVE  IsFiniteSet(RealNames) /\ IsFiniteSet(Mirrored)
<1>1. IsFiniteSet(state.listed) /\ IsFiniteSet(Artwork)
  BY DirAssumption, FS_Subset DEF DiskPlaced, Entry, Artwork
<1> DEFINE f == [n \in state.listed |-> Nfc(n)]
           g == [n \in Artwork |-> Nfc(n)]
<1>2. IsFiniteSet(Range(f)) /\ IsFiniteSet(Range(g))
  BY <1>1, FiniteRange
<1> QED
  BY <1>2 DEF Range, RealNames, Mirrored

\* Tries: a sequence that starts with what the sheet declares.
LEMMA TriesInOrder ==
  ASSUME NEW cue, NEW declared
  PROVE  /\ DOMAIN Tries(cue, declared) \in SUBSET Nat
         /\ declared # None =>
              /\ 1 \in DOMAIN Tries(cue, declared) /\ Tries(cue, declared)[1] = declared
              /\ \A i \in DOMAIN Tries(cue, declared) : 1 <= i
<1> DEFINE s == SameStem(cue)
           b == <<BaseOf(declared)>>
           d == SameStem(BaseOf(declared))
           Tried == {s[1], s[2], d[1], d[2], declared, b}
<1>1. s \in Seq(Tried) /\ d \in Seq(Tried) /\ <<declared, b>> \in Seq(Tried) /\ <<>> \in Seq(Tried)
      /\ Len(<<declared, b>>) = 2 /\ <<declared, b>>[1] = declared
  BY DEF SameStem
<1>2. <<declared, b>> \o d \in Seq(Tried) /\ Len(<<declared, b>> \o d) >= 1
      /\ (<<declared, b>> \o d)[1] = declared
  <2> HIDE DEF s, d, b, Tried
  <2> QED BY <1>1
<1>3. \A r \in Seq(Tried) :
        /\ r \o s \in Seq(Tried)
        /\ Len(r) >= 1 => (r \o s)[1] = r[1] /\ Len(r \o s) >= 1
  <2> HIDE DEF s, d, b, Tried
  <2> QED BY <1>1
<1>4. Tries(cue, declared) \in Seq(Tried)
  BY <1>1, <1>2, <1>3 DEF Tries
<1>5. declared # None => Tries(cue, declared)[1] = declared /\ Len(Tries(cue, declared)) >= 1
  BY <1>1, <1>2, <1>3 DEF Tries
<1>6. DOMAIN Tries(cue, declared) = 1 .. Len(Tries(cue, declared))
      /\ Len(Tries(cue, declared)) \in Nat
  <2> HIDE DEF Tried
  <2> QED BY <1>4
<1> QED
  BY <1>5, <1>6

\* The first of some paths that is a file and not taken is not taken.
LEMMA FirstIsFree ==
  ASSUME NEW tries, DOMAIN tries \in SUBSET Nat, NEW taken, FirstFile(tries, taken) # None
  PROVE  FirstFile(tries, taken) \notin taken
<1> DEFINE there == {i \in DOMAIN tries : tries[i] \notin taken /\ Lookup(tries[i]) \in FilePaths}
<1>1. there # {} /\ FirstFile(tries, taken) = tries[Min(there)]
  BY DEF FirstFile
<1>2. Min(there) \in there
  <2> there \in SUBSET Nat
    OBVIOUS
  <2> QED
    BY <1>1, LeastNumber
<1> QED
  BY <1>1, <1>2

\* The audio found for a FILE is not one of those that are taken.
LEMMA FoundIsFree ==
  ASSUME NEW cue, NEW declared, NEW taken, NEW listed,
         FindAudio(cue, declared, taken, listed) # None
  PROVE  FindAudio(cue, declared, taken, listed) \notin taken
<1> DEFINE first == FirstFile(Tries(cue, declared), taken)
           unclaimed == Unclaimed(listed, taken)
<1>1. CASE first # None
  BY <1>1, TriesInOrder, FirstIsFree DEF FindAudio
<1>2. CASE first = None
  <2>1. Cardinality(unclaimed) = 1
        /\ FindAudio(cue, declared, taken, listed) = CHOOSE p \in unclaimed : TRUE
    BY <1>2 DEF FindAudio
  <2>2. unclaimed # {}
    BY <2>1, FS_EmptySet
  <2>3. (CHOOSE p \in unclaimed : TRUE) \in unclaimed
    <3> HIDE DEF unclaimed
    <3> QED BY <2>2
  <2> QED
    BY <2>1, <2>3 DEF Unclaimed
<1> QED
  BY <1>1, <1>2

\* A declared file that is there and not taken is the one that is found.
LEMMA DeclaredIsFound ==
  ASSUME NEW cue, NEW declared, NEW taken, NEW listed,
         declared # None, declared \notin taken, Lookup(declared) \in FilePaths
  PROVE  FindAudio(cue, declared, taken, listed) = declared
<1> DEFINE tries == Tries(cue, declared)
           there == {i \in DOMAIN tries : tries[i] \notin taken /\ Lookup(tries[i]) \in FilePaths}
<1>1. 1 \in there /\ there \in SUBSET Nat /\ \A i \in there : 1 <= i
  BY TriesInOrder
<1>2. Min(there) \in there /\ Min(there) <= 1
  BY <1>1, LeastNumber
<1>3. Min(there) = 1
  BY <1>1, <1>2
<1>4. FirstFile(tries, taken) = declared
  BY <1>1, <1>3, TriesInOrder DEF FirstFile
<1> QED
  BY <1>4 DEF FindAudio

\* The path of an entry has one name, and that of a file below more.
LEMMA EntryPaths ==
  ASSUME DiskPlaced, NEW n
  PROVE  /\ BaseOf(<<n>>) = n /\ \A form : PathIn(<<n>>, form) = <<InForm(n, form)>>
         /\ <<n>> \in There <=> n \in entries
         /\ Exact(<<n>>) <=> path \subseteq {"nfc"} /\ n \in entries
<1>1. \A m : <<n>> = <<m>> => n = m
  OBVIOUS
<1>2. <<n>> \notin below
  <2>1. Len(<<n>>) = 1 /\ ~(1 > 1)
    OBVIOUS
  <2>2. \A p \in below : Len(p) > 1
    BY DirAssumption DEF DiskPlaced
  <2> QED
    BY <2>1, <2>2
<1>3. <<n>> \in There <=> n \in entries
  BY <1>1, <1>2 DEF There
<1>4. BaseOf(<<n>>) = n /\ \A form : PathIn(<<n>>, form) = <<InForm(n, form)>>
  BY DEF BaseOf, PathIn
<1> QED
  BY <1>3, <1>4 DEF Exact

\* If the names of a path have one form, every entry is found by its name in NFC.
LEMMA EntriesAreFound ==
  ASSUME DiskPlaced, OneForm, NEW n \in entries
  PROVE  Lookup(<<Nfc(n)>>) = <<n>>
<1>1. IsName(n) /\ n.form \in Forms
  BY DirAssumption DEF DiskPlaced, Entry, IsName
<1>2. \A m \in entries : Nfc(m) = Nfc(n) => m = n
  BY DEF OneForm
<1> DEFINE m == Nfc(n)
           d == InForm(n, "nfd")
<1>3. /\ Exact(<<m>>) <=> path \subseteq {"nfc"} /\ m \in entries
      /\ PathIn(<<m>>, "nfd") = <<d>> /\ PathIn(<<m>>, "nfc") = <<m>>
      /\ <<d>> \in There <=> d \in entries
  BY <1>1, EntryPaths, NameForms DEF Nfc
<1>4. /\ m \in entries => m = n
      /\ d \in entries => d = n
  BY <1>1, <1>2, NameForms
<1>5. Lookup(<<m>>) = IF path \subseteq {"nfc"} /\ m \in entries THEN <<m>>
                      ELSE IF path \subseteq {"nfd"} /\ d \in entries THEN <<d>>
                      ELSE None
  BY <1>3 DEF Lookup
<1>6. path = {} \/ path = {"nfc"} \/ path = {"nfd"}
  <2>1. path # {"nfc", "nfd"} /\ path \subseteq {"nfc", "nfd"}
    BY DEF OneForm, Reached, DiskPlaced
  <2> QED
    BY <2>1
<1>7. \/ path \subseteq {"nfc"} /\ m \in entries
      \/ path \subseteq {"nfd"} /\ d \in entries
  <2>1. path # {} => n.form \in path \cup {"plain"}
    BY DEF OneForm
  <2>2. CASE n.form = "plain"
    BY <1>6, <2>2 DEF Nfc, InForm
  <2>3. CASE n.form = "nfc"
    BY <1>1, <1>6, <2>1, <2>3, NameForms
  <2>4. CASE n.form = "nfd"
    BY <1>1, <1>6, <2>1, <2>4, NameForms
  <2> QED
    BY <1>1, <2>2, <2>3, <2>4 DEF Forms
<1> QED
  BY <1>4, <1>5, <1>7

\* The names that a directory or a track gets are in NFC.
LEMMA VirtualNames ==
  ASSUME NEW n \in DirNames \cup TrackNames
  PROVE  IsName(n) /\ Nfc(n) = n
<1>1. \A s \in Sheets \ {None}, i \in Nat :
        IsName(DiscName(s, i)) /\ DiscName(s, i).form \in {"plain", "nfc"}
  <2> TAKE s \in Sheets \ {None}, i \in Nat
  <2>1. CASE s.disc = None
    BY <2>1 DEF DiscName, DefaultDisc, IsName, Forms
  <2>2. CASE s.disc # None
    BY <2>2, DirAssumption, NameForms DEF IsSheet, DiscName, Nfc, Forms
  <2> QED
    BY <2>1, <2>2
<1>2. \A s \in Sheets \ {None} : \A i \in DOMAIN s.tracks :
        IsName(Nfc(s.tracks[i].name)) /\ Nfc(s.tracks[i].name).form \in {"plain", "nfc"}
  BY DirAssumption, NameForms DEF IsSheet, Nfc, Forms
<1>3. PICK m : /\ IsName(m) /\ m.form \in {"plain", "nfc"}
               /\ n = m \/ \E k \in Nat : n = AddSuffix(m, k)
  <2>1. CASE n \in DirNames
    BY <1>1, <2>1 DEF DirNames, Suffixed
  <2>2. CASE n \in TrackNames
    BY <1>2, <2>2 DEF TrackNames, Suffixed
  <2> QED
    BY <2>1, <2>2
<1>4. IsName(n) /\ n.form \in {"plain", "nfc"}
  BY <1>3, SuffixForms
<1> QED
  BY <1>4, NameForms

-----------------------------------------------------------------------------
(* The invariant: reading the sheets                                       *)

LEMMA InitPlaced == Init => IInv
<1> SUFFICES ASSUME Init PROVE IInv
  OBVIOUS
<1>1. DiskPlaced
  BY DirAssumption DEF Init, DiskPlaced, Entry
<1>2. LoopPlaced
  BY DEF Init, LoopPlaced, IsInjective
<1>3. AlbumsPlaced
  <2>1. albums \in Seq(Album) /\ DOMAIN albums = {}
    BY DEF Init
  <2> QED
    BY <2>1 DEF Init, AlbumsPlaced, Sources, SourcesAreExclusive
<1>4. NamesPlaced
  BY DEF Init, NamesPlaced
<1> QED
  BY <1>1, <1>2, <1>3, <1>4 DEF IInv

\* While there are sheets to do, no directory state is begun.
LEMMA NotBegun ==
  ASSUME IInv, todo # {} \/ reading # None
  PROVE  state = None
BY DEF IInv, LoopPlaced, NamesPlaced

\* What a step of the loop that finds no album has to keep.
LEMMA AlbumsKept ==
  ASSUME IInv, UNCHANGED <<disk, claimed, albums, state>>, state = None,
         todo' \subseteq todo
  PROVE  DiskPlaced' /\ AlbumsPlaced' /\ NamesPlaced'
<1>1. DiskPlaced'
  BY DEF IInv, DiskPlaced, disk
<1>2. AlbumsPlaced'
  <2>1. \A a \in DOMAIN albums' :
          /\ albums'[a].cue \in DOMAIN sheets' \ todo' /\ Usable(sheets'[albums'[a].cue])
          /\ DOMAIN albums'[a].sources \subseteq Used(sheets'[albums'[a].cue])
    BY DEF IInv, AlbumsPlaced, disk
  <2> QED
    BY <2>1 DEF IInv, AlbumsPlaced, Sources, SourcesAreExclusive, There, disk
<1>3. NamesPlaced'
  BY DEF NamesPlaced
<1> QED
  BY <1>1, <1>2, <1>3

LEMMA SkipCueStep ==
  ASSUME IInv, NEW cue \in todo, SkipCue(cue)
  PROVE  IInv'
<1>1. state = None
  BY NotBegun
<1>2. LoopPlaced'
  BY DEF IInv, LoopPlaced, SkipCue, There, IsInjective, disk
<1> QED
  BY <1>1, <1>2, AlbumsKept DEF IInv, SkipCue

LEMMA OpenCueStep ==
  ASSUME IInv, NEW cue \in todo, OpenCue(cue)
  PROVE  IInv'
<1>1. state = None
  BY NotBegun
<1>2. cue # None
  BY DirAssumption DEF IInv, LoopPlaced, DiskPlaced
<1>3. LoopPlaced'
  <2>1. /\ reading' = cue /\ cue \in todo' /\ cue \in DOMAIN sheets'
        /\ Usable(sheets'[reading']) /\ Exact(<<reading>>)'
    BY DEF IInv, LoopPlaced, OpenCue, Exact, There, disk
  <2>2. found' = <<>> /\ found' = found
    BY DEF IInv, LoopPlaced, OpenCue
  <2> QED
    BY <1>2, <2>1, <2>2 DEF IInv, LoopPlaced, OpenCue, There, IsInjective, disk
<1> QED
  BY <1>1, <1>3, AlbumsKept DEF IInv, OpenCue

\* The sheet that is being read.
LEMMA SheetRead ==
  ASSUME IInv, NEW c \in DOMAIN sheets, Usable(sheets[c])
  PROVE  /\ sheets[c] \in Sheets \ {None} /\ IsSheet(sheets[c])
         /\ Used(sheets[c]) \subseteq DOMAIN sheets[c].files
         /\ Used(sheets[c]) \in SUBSET Nat
<1>1. sheets[c] \in Sheets \ {None}
  BY DEF IInv, DiskPlaced, Usable
<1>2. IsSheet(sheets[c])
  BY <1>1, DirAssumption
<1>3. DOMAIN sheets[c].files \in SUBSET Nat
  <2> DEFINE files == sheets[c].files
  <2>1. files \in Seq(Range(files))
    BY <1>2 DEF IsSheet
  <2>2. \A R : files \in Seq(R) => DOMAIN files \in SUBSET Nat
    <3> HIDE DEF files
    <3> QED OBVIOUS
  <2> QED
    BY <2>1, <2>2
<1>4. Used(sheets[c]) \subseteq DOMAIN sheets[c].files
  BY <1>2 DEF IsSheet, Used
<1> QED
  BY <1>1, <1>2, <1>3, <1>4

\* The next FILE is one that is not done.
LEMMA FileIsNext ==
  ASSUME IInv, reading # None, ~AllFound
  PROVE  NextFile \in Used(sheets[reading]) \ DOMAIN found
<1>1. reading \in DOMAIN sheets /\ Usable(sheets[reading])
      /\ DOMAIN found \subseteq Used(sheets[reading])
  BY DEF IInv, LoopPlaced
<1>2. Used(sheets[reading]) \ DOMAIN found \in SUBSET Nat
  BY <1>1, SheetRead
<1>3. Used(sheets[reading]) \ DOMAIN found # {}
  BY <1>1 DEF AllFound
<1> QED
  BY <1>2, <1>3, LeastNumber DEF NextFile

LEMMA FindSourceStep ==
  ASSUME IInv, FindSource
  PROVE  IInv'
<1> PICK listed \in Listings :
      /\ NextAudio(listed) # None /\ Exact(NextAudio(listed))
      /\ found' = [g \in DOMAIN found \cup {NextFile} |->
                     IF g = NextFile THEN NextAudio(listed) ELSE found[g]]
  BY DEF FindSource
<1> DEFINE f == NextFile
           a == NextAudio(listed)
<1>1. state = None
  BY NotBegun DEF FindSource
<1>2. f \in Used(sheets[reading]) \ DOMAIN found
  BY FileIsNext DEF FindSource
<1>3. a \notin claimed \cup Range(found) /\ a \in There
  BY FoundIsFree DEF NextAudio, Exact
<1>4. /\ DOMAIN found' = DOMAIN found \cup {f}
      /\ found' = [g \in DOMAIN found \cup {f} |-> IF g \in DOMAIN found THEN found[g] ELSE a]
  <2> HIDE DEF f, a
  <2> QED BY <1>2 DEF f, a
<1>5. /\ found' \in [DOMAIN found' -> There \ claimed]
      /\ IsInjective(found')
  <2> HIDE DEF f, a
  <2> QED BY <1>2, <1>3, <1>4 DEF IInv, LoopPlaced, IsInjective, Range
<1>6. LoopPlaced'
  BY <1>2, <1>4, <1>5
     DEF IInv, LoopPlaced, FindSource, Exact, There, Used, disk
<1> QED
  BY <1>1, <1>6, AlbumsKept DEF IInv, FindSource

LEMMA SkipMissingStep ==
  ASSUME IInv, SkipMissing
  PROVE  IInv'
<1>1. state = None
  BY NotBegun DEF SkipMissing
<1>2. LoopPlaced'
  BY DEF IInv, LoopPlaced, SkipMissing, Finish, There, IsInjective, disk
<1> QED
  BY <1>1, <1>2, AlbumsKept DEF IInv, SkipMissing, Finish

LEMMA AddAlbumStep ==
  ASSUME IInv, AddAlbum
  PROVE  IInv'
<1> DEFINE new == [cue |-> reading, sources |-> found]
<1>1. state = None
  BY NotBegun DEF AddAlbum
<1>2. /\ reading \in todo /\ reading \in DOMAIN sheets /\ Usable(sheets[reading])
      /\ DOMAIN found \subseteq Used(sheets[reading])
      /\ found \in [DOMAIN found -> There \ claimed] /\ IsInjective(found)
  BY DEF IInv, LoopPlaced, AddAlbum
<1>3. new \in Album
  <2>1. DOMAIN found \in SUBSET Nat
    BY <1>2, SheetRead
  <2>2. found \in [DOMAIN found -> Place] /\ reading \in Cues
    BY <1>2 DEF IInv, DiskPlaced, There, Place
  <2> QED
    BY <2>1, <2>2 DEF Album
<1>4. /\ albums \in Seq(Album) /\ albums' = Append(albums, new)
      /\ albums' \in Seq(Album) /\ Len(albums') = Len(albums) + 1 /\ Len(albums) \in Nat
      /\ DOMAIN albums = 1 .. Len(albums) /\ DOMAIN albums' = 1 .. Len(albums) + 1
      /\ \A b \in DOMAIN albums : albums'[b] = albums[b]
      /\ albums'[Len(albums) + 1] = new
  <2> HIDE DEF new
  <2> QED BY <1>3 DEF IInv, AlbumsPlaced, AddAlbum, new
<1>5. DiskPlaced'
  BY DEF IInv, DiskPlaced, AddAlbum, disk
<1>6. LoopPlaced'
  BY DEF IInv, LoopPlaced, AddAlbum, Finish, There, IsInjective, disk
<1>7. AlbumsPlaced'
  <2>1. Sources' = claimed' /\ claimed' \subseteq There'
    <3>1. Sources' = Sources \cup Range(found)
      BY <1>4 DEF Sources
    <3> QED
      BY <1>2, <3>1 DEF IInv, AlbumsPlaced, AddAlbum, There, disk, Range
  <2>2. \A b \in DOMAIN albums' :
          /\ albums'[b].cue \in DOMAIN sheets' \ todo' /\ Usable(sheets'[albums'[b].cue])
          /\ DOMAIN albums'[b].sources \subseteq Used(sheets'[albums'[b].cue])
    BY <1>2, <1>4 DEF IInv, AlbumsPlaced, AddAlbum, Finish, disk
  <2>3. SourcesAreExclusive'
    <3>1. \A b \in DOMAIN albums : \A g \in DOMAIN albums[b].sources :
            albums[b].sources[g] \in claimed
      BY DEF IInv, AlbumsPlaced, Sources, Range
    <3>2. SourcesAreExclusive
      BY DEF IInv, AlbumsPlaced
    <3> QED
      BY <1>2, <1>4, <3>1, <3>2 DEF SourcesAreExclusive, IsInjective
  <2> QED
    BY <1>4, <2>1, <2>2, <2>3 DEF AlbumsPlaced
<1>8. NamesPlaced'
  BY <1>1 DEF NamesPlaced, AddAlbum
<1> QED
  BY <1>5, <1>6, <1>7, <1>8 DEF IInv

-----------------------------------------------------------------------------
(* The invariant: giving names                                             *)

\* What the steps that give names leave alone.
LEMMA LoopDone ==
  ASSUME IInv, UNCHANGED <<disk, todo, reading, found, claimed, albums>>
  PROVE  /\ DiskPlaced' /\ LoopPlaced' /\ AlbumsPlaced' /\ Hidden' = Hidden
         /\ Flat' = Flat /\ \A a : TracksOf(a)' = TracksOf(a)
         /\ state'.listed = state.listed => RealNames' = RealNames /\ Occupied' = Occupied
<1>1. DiskPlaced'
  BY DEF IInv, DiskPlaced, disk
<1>2. LoopPlaced'
  BY DEF IInv, LoopPlaced, Exact, There, IsInjective, disk
<1>3. AlbumsPlaced'
  BY DEF IInv, AlbumsPlaced, Sources, SourcesAreExclusive, There, disk
<1>4. /\ Hidden' = Hidden /\ Flat' = Flat /\ \A a : TracksOf(a)' = TracksOf(a)
  BY DEF Hidden, Sources, Flat, TracksOf, disk
<1>5. state'.listed = state.listed => RealNames' = RealNames /\ Occupied' = Occupied
  BY <1>4 DEF Occupied, RealNames, Mirrored, Artwork
<1> QED
  BY <1>1, <1>2, <1>3, <1>4, <1>5

\* The albums and their tracks are sequences.
LEMMA AlbumTracks ==
  ASSUME IInv
  PROVE  /\ Len(albums) \in Nat /\ DOMAIN albums = 1 .. Len(albums)
         /\ \A a \in DOMAIN albums :
              /\ sheets[albums[a].cue] \in Sheets \ {None}
              /\ IsSheet(sheets[albums[a].cue])
              /\ Len(TracksOf(a)) \in Nat /\ DOMAIN TracksOf(a) = 1 .. Len(TracksOf(a))
<1>1. albums \in Seq(Album)
  BY DEF IInv, AlbumsPlaced
<1>2. Len(albums) \in Nat /\ DOMAIN albums = 1 .. Len(albums)
  BY <1>1
<1>3. ASSUME NEW a \in DOMAIN albums
      PROVE  /\ sheets[albums[a].cue] \in Sheets \ {None}
             /\ IsSheet(sheets[albums[a].cue])
             /\ Len(TracksOf(a)) \in Nat /\ DOMAIN TracksOf(a) = 1 .. Len(TracksOf(a))
  <2>1. /\ sheets[albums[a].cue] \in Sheets \ {None}
        /\ IsSheet(sheets[albums[a].cue])
    BY SheetRead DEF IInv, AlbumsPlaced
  <2> DEFINE tracks == TracksOf(a)
  <2>2. tracks \in Seq(Range(tracks))
    BY <2>1 DEF IsSheet, TracksOf
  <2>3. \A R : tracks \in Seq(R) => Len(tracks) \in Nat /\ DOMAIN tracks = 1 .. Len(tracks)
    <3> HIDE DEF tracks
    <3> QED OBVIOUS
  <2> QED
    BY <2>1, <2>2, <2>3
<1> QED
  BY <1>2, <1>3

LEMMA CollectStep ==
  ASSUME IInv, Collect
  PROVE  IInv'
<1>1. /\ DiskPlaced' /\ LoopPlaced' /\ AlbumsPlaced' /\ Hidden' = Hidden
      /\ Flat' = Flat /\ \A a : TracksOf(a)' = TracksOf(a)
  BY LoopDone DEF Collect
<1>2. /\ todo' = {} /\ albums' # <<>> /\ albums' = albums /\ Len(albums) \in Nat
      /\ DOMAIN albums = 1 .. Len(albums)
  BY AlbumTracks DEF Collect
<1>3. /\ state'.hidden = Hidden /\ state'.dirs = <<>> /\ state'.listed \subseteq entries'
      /\ state'.names = (IF Flat THEN <<<<>>>> ELSE <<>>)
      /\ state' = [hidden |-> state'.hidden, listed |-> state'.listed,
                   dirs |-> state'.dirs, names |-> state'.names]
  BY DEF Collect, disk
<1>4. Len(albums) >= 1
  BY <1>2 DEF IInv, AlbumsPlaced
<1>5. CASE Flat
  <2>1. /\ state'.names = <<<<>>>> /\ state'.names \in Seq(Seq(TrackNames))
        /\ Len(state'.names) = 1 /\ DOMAIN state'.names = {1} /\ state'.names[1] = <<>>
    BY <1>3, <1>5
  <2>2. 1 \in DOMAIN albums /\ Len(TracksOf(1)) \in Nat
    BY <1>2, <1>4, AlbumTracks
  <2> QED
    BY <1>1, <1>2, <1>3, <1>4, <1>5, <2>1, <2>2 DEF IInv, NamesPlaced, IsInjective, Range
<1>6. CASE ~Flat
  BY <1>1, <1>2, <1>3, <1>4, <1>6 DEF IInv, NamesPlaced, IsInjective, Range
<1> QED
  BY <1>5, <1>6

\* A name that is given is a new one, and one that a directory or track may get.
LEMMA NewDirName ==
  ASSUME IInv, state # None, NEW s \in Sheets \ {None}, NEW i \in Nat
  PROVE  LET name == Free(DiscName(s, i), RealNames \cup Range(state.dirs)) IN
         name \in DirNames /\ name \notin RealNames \cup Range(state.dirs)
<1> DEFINE disc == DiscName(s, i)
           taken == RealNames \cup Range(state.dirs)
<1>1. IsFiniteSet(taken)
  <2>1. state.dirs \in Seq(DirNames)
    BY DEF IInv, NamesPlaced
  <2>2. IsFiniteSet(Range(state.dirs))
    BY <2>1, FiniteSequence
  <2> QED
    BY <2>2, FiniteNames, FS_Union DEF IInv, NamesPlaced
<1>2. disc \in DirNames /\ IsName(disc)
  BY VirtualNames DEF DirNames, Suffixed
<1>3. Free(disc, taken) \notin taken /\ Free(disc, taken) \in Suffixed({disc})
  <2> HIDE DEF disc, taken
  <2> QED BY <1>1, <1>2, FreeName
<1>4. Suffixed({disc}) \subseteq DirNames
  BY DEF DirNames, Suffixed
<1> QED
  BY <1>3, <1>4

LEMMA NewTrackName ==
  ASSUME IInv, state # None, NEW s \in Sheets \ {None}, NEW i \in DOMAIN s.tracks,
         NEW a \in DOMAIN state.names
  PROVE  LET name == Free(Nfc(s.tracks[i].name), Occupied \cup Range(state.names[a])) IN
         name \in TrackNames /\ name \notin Occupied \cup Range(state.names[a])
<1> DEFINE base == Nfc(s.tracks[i].name)
           names == state.names[a]
           taken == Occupied \cup Range(names)
<1>1. IsFiniteSet(taken)
  <2>1. names \in Seq(TrackNames)
    BY DEF IInv, NamesPlaced
  <2>2. IsFiniteSet(Range(names))
    <3> HIDE DEF names
    <3> QED BY <2>1, FiniteSequence
  <2> QED
    BY <2>2, FiniteNames, FS_Union DEF IInv, NamesPlaced, Occupied
<1>2. base \in TrackNames /\ IsName(base)
  <2>1. base \in TrackNames
    BY DEF TrackNames, Suffixed
  <2> QED
    BY <2>1, VirtualNames
<1>3. Free(base, taken) \notin taken /\ Free(base, taken) \in Suffixed({base})
  <2> HIDE DEF base, taken
  <2> QED BY <1>1, <1>2, FreeName
<1>4. Suffixed({base}) \subseteq TrackNames
  BY DEF TrackNames, Suffixed
<1> QED
  BY <1>3, <1>4

LEMMA AddSubdirStep ==
  ASSUME IInv, AddSubdir
  PROVE  IInv'
<1> DEFINE a == Len(state.dirs) + 1
           name == Free(DiscName(sheets[albums[a].cue], a), RealNames \cup Range(state.dirs))
<1>0. state'.listed = state.listed /\ state'.listed \subseteq entries'
  BY DEF AddSubdir, IInv, NamesPlaced, disk
<1>1. /\ DiskPlaced' /\ LoopPlaced' /\ AlbumsPlaced'
      /\ Hidden' = Hidden /\ RealNames' = RealNames /\ Occupied' = Occupied
      /\ Flat' = Flat /\ \A b : TracksOf(b)' = TracksOf(b)
  BY <1>0, LoopDone DEF AddSubdir
<1>2. /\ state # None /\ NamesDone /\ Len(state.names) < Len(albums)
      /\ state.dirs \in Seq(DirNames) /\ state.names \in Seq(Seq(TrackNames))
      /\ Len(state.dirs) \in Nat /\ Len(state.names) \in Nat
      /\ DOMAIN state.dirs = 1 .. Len(state.dirs) /\ DOMAIN state.names = 1 .. Len(state.names)
  BY DEF IInv, NamesPlaced, AddSubdir
<1>3. ~Flat /\ Len(state.dirs) = Len(state.names)
  BY <1>2 DEF IInv, NamesPlaced, Flat
<1>4. a \in DOMAIN albums /\ a \in Nat
  BY <1>2, <1>3, AlbumTracks
<1>5. name \in DirNames /\ name \notin RealNames \cup Range(state.dirs)
  BY <1>2, <1>4, AlbumTracks, NewDirName
<1>6. /\ state'.hidden = state.hidden
      /\ state'.dirs = Append(state.dirs, name)
      /\ state'.names = Append(state.names, <<>>)
      /\ state' = [hidden |-> state'.hidden, listed |-> state'.listed,
                   dirs |-> state'.dirs, names |-> state'.names]
  <2>1. state = [hidden |-> Hidden, listed |-> state.listed,
                 dirs |-> state.dirs, names |-> state.names]
    BY <1>2 DEF IInv, NamesPlaced
  <2>2. state' = [state EXCEPT !.dirs = Append(state.dirs, name),
                               !.names = Append(state.names, <<>>)]
    BY DEF AddSubdir
  <2> HIDE DEF name
  <2> QED
    BY <2>1, <2>2
<1>7. /\ state'.dirs \in Seq(DirNames) /\ Len(state'.dirs) = Len(state.dirs) + 1
      /\ \A b \in DOMAIN state.dirs : state'.dirs[b] = state.dirs[b]
      /\ state'.dirs[a] = name /\ DOMAIN state'.dirs = DOMAIN state.dirs \cup {a}
  <2> HIDE DEF name
  <2> QED BY <1>2, <1>5, <1>6
<1>8. /\ state'.names \in Seq(Seq(TrackNames)) /\ Len(state'.names) = Len(state.names) + 1
      /\ \A b \in DOMAIN state.names : state'.names[b] = state.names[b]
      /\ state'.names[a] = <<>> /\ DOMAIN state'.names = DOMAIN state.names \cup {a}
  <2>1. <<>> \in Seq(TrackNames)
    OBVIOUS
  <2> QED
    BY <1>2, <1>3, <1>6, <2>1
<1>9. IsInjective(state'.dirs) /\ Range(state'.dirs) \cap RealNames = {}
  <2>1. IsInjective(state.dirs) /\ Range(state.dirs) \cap RealNames = {}
    BY <1>2 DEF IInv, NamesPlaced
  <2>2. \A b \in DOMAIN state.dirs : state.dirs[b] \in Range(state.dirs)
    BY DEF Range
  <2> HIDE DEF name
  <2>3. IsInjective(state'.dirs)
    BY <1>5, <1>7, <2>1, <2>2 DEF IsInjective
  <2>4. Range(state'.dirs) \cap RealNames = {}
    BY <1>5, <1>7, <2>1, <2>2 DEF Range
  <2> QED
    BY <2>3, <2>4
<1>10. \A b \in DOMAIN state'.names :
         /\ Len(state'.names[b]) <= Len(TracksOf(b))
         /\ b < Len(state'.names) => Len(state'.names[b]) = Len(TracksOf(b))
         /\ IsInjective(state'.names[b])
         /\ Range(state'.names[b]) \cap Occupied = {}
  <2> TAKE b \in DOMAIN state'.names
  <2>1. CASE b \in DOMAIN state.names
    BY <1>2, <1>8, <2>1 DEF IInv, NamesPlaced, NamesDone
  <2>2. CASE b = a
    <3>1. Len(TracksOf(a)) \in Nat
      BY <1>4, AlbumTracks
    <3> QED
      BY <1>3, <1>8, <2>2, <3>1 DEF IsInjective, Range
  <2> QED
    BY <1>8, <2>1, <2>2
<1>11. NamesPlaced'
  <2>1. todo' = {} /\ albums' = albums /\ albums # <<>> /\ state.hidden = Hidden
    BY <1>2 DEF IInv, NamesPlaced, AddSubdir
  <2>2. Len(state'.names) <= Len(albums)
    BY <1>2, <1>8, AlbumTracks
  <2> QED
    BY <1>0, <1>1, <1>3, <1>6, <1>7, <1>8, <1>9, <1>10, <2>1, <2>2 DEF NamesPlaced
<1> QED
  BY <1>1, <1>11 DEF IInv

LEMMA SequenceUpdate ==
  ASSUME NEW S, NEW s \in Seq(S), NEW k \in DOMAIN s, NEW x \in S
  PROVE  LET t == [s EXCEPT ![k] = x] IN
         /\ t \in Seq(S) /\ Len(t) = Len(s) /\ DOMAIN t = DOMAIN s /\ t[k] = x
         /\ \A j \in DOMAIN s : j # k => t[j] = s[j]
OBVIOUS

LEMMA NameTrackStep ==
  ASSUME IInv, NameTrack
  PROVE  IInv'
<1> DEFINE a == Len(state.names)
           i == Len(state.names[a]) + 1
           name == Free(Nfc(TracksOf(a)[i].name), Occupied \cup Range(state.names[a]))
<1>0. state'.listed = state.listed /\ state'.listed \subseteq entries'
  BY DEF NameTrack, IInv, NamesPlaced, disk
<1>1. /\ DiskPlaced' /\ LoopPlaced' /\ AlbumsPlaced'
      /\ Hidden' = Hidden /\ RealNames' = RealNames /\ Occupied' = Occupied
      /\ Flat' = Flat /\ \A b : TracksOf(b)' = TracksOf(b)
  BY <1>0, LoopDone DEF NameTrack
<1>2. /\ state # None /\ ~NamesDone
      /\ state.dirs \in Seq(DirNames) /\ state.names \in Seq(Seq(TrackNames))
      /\ a \in Nat /\ a <= Len(albums) /\ DOMAIN state.names = 1 .. a
  BY DEF IInv, NamesPlaced, NameTrack
<1>3. /\ a \in DOMAIN state.names /\ a \in DOMAIN albums
      /\ Len(state.names[a]) < Len(TracksOf(a))
  <2>1. PICK b \in DOMAIN state.names : Len(state.names[b]) # Len(TracksOf(b))
    BY <1>2 DEF NamesDone
  <2>2. b = a
    BY <1>2, <2>1 DEF IInv, NamesPlaced
  <2>3. a \in DOMAIN albums
    BY <1>2, <2>1, <2>2, AlbumTracks
  <2>4. Len(state.names[a]) \in Nat /\ Len(TracksOf(a)) \in Nat
        /\ Len(state.names[a]) <= Len(TracksOf(a))
    BY <1>2, <2>1, <2>2, <2>3, AlbumTracks DEF IInv, NamesPlaced
  <2> QED
    BY <2>1, <2>2, <2>3, <2>4
<1>4. /\ state.names[a] \in Seq(TrackNames) /\ Len(state.names[a]) \in Nat
      /\ DOMAIN state.names[a] = 1 .. Len(state.names[a])
      /\ i \in DOMAIN TracksOf(a) /\ sheets[albums[a].cue] \in Sheets \ {None}
  BY <1>2, <1>3, AlbumTracks
<1>5. name \in TrackNames /\ name \notin Occupied \cup Range(state.names[a])
  BY <1>2, <1>3, <1>4, NewTrackName DEF TracksOf
<1>6. /\ state'.hidden = state.hidden
      /\ state'.dirs = state.dirs
      /\ state'.names = [state.names EXCEPT ![a] = Append(state.names[a], name)]
      /\ state' = [hidden |-> state'.hidden, listed |-> state'.listed,
                   dirs |-> state'.dirs, names |-> state'.names]
  <2>1. state = [hidden |-> Hidden, listed |-> state.listed,
                 dirs |-> state.dirs, names |-> state.names]
    BY <1>2 DEF IInv, NamesPlaced
  <2>2. state' = [state EXCEPT !.names[a] = Append(state.names[a], name)]
    BY DEF NameTrack
  <2> HIDE DEF name, a
  <2> QED
    BY <2>1, <2>2
<1> DEFINE longer == Append(state.names[a], name)
<1>7. /\ longer \in Seq(TrackNames) /\ Len(longer) = i
      /\ \A j \in DOMAIN state.names[a] : longer[j] = state.names[a][j]
      /\ longer[i] = name /\ DOMAIN longer = DOMAIN state.names[a] \cup {i}
  <2> HIDE DEF name, a
  <2> QED BY <1>4, <1>5
<1>8. /\ state'.names \in Seq(Seq(TrackNames)) /\ Len(state'.names) = a
      /\ DOMAIN state'.names = DOMAIN state.names
      /\ state'.names[a] = longer
      /\ \A b \in DOMAIN state.names : b # a => state'.names[b] = state.names[b]
  <2> HIDE DEF longer, a
  <2>1. /\ state.names \in Seq(Seq(TrackNames)) /\ a \in DOMAIN state.names
        /\ longer \in Seq(TrackNames) /\ a = Len(state.names)
        /\ state'.names = [state.names EXCEPT ![a] = longer]
    BY <1>2, <1>3, <1>6, <1>7 DEF longer, a
  <2> QED
    BY <2>1, SequenceUpdate
<1>9. IsInjective(longer) /\ Range(longer) \cap Occupied = {}
  <2>1. IsInjective(state.names[a]) /\ Range(state.names[a]) \cap Occupied = {}
    BY <1>2, <1>3 DEF IInv, NamesPlaced
  <2> HIDE DEF longer, name, a
  <2> QED BY <1>5, <1>7, <2>1 DEF IsInjective, Range
<1>10. \A b \in DOMAIN state'.names :
         /\ Len(state'.names[b]) <= Len(TracksOf(b))
         /\ b < Len(state'.names) => Len(state'.names[b]) = Len(TracksOf(b))
         /\ IsInjective(state'.names[b])
         /\ Range(state'.names[b]) \cap Occupied = {}
  <2> TAKE b \in DOMAIN state'.names
  <2>1. CASE b # a
    BY <1>2, <1>8, <2>1 DEF IInv, NamesPlaced
  <2>2. CASE b = a
    <3>1. Len(TracksOf(a)) \in Nat /\ i <= Len(TracksOf(a))
      BY <1>3, <1>4, AlbumTracks
    <3>2. state'.names[b] = longer /\ Len(longer) = i /\ ~(b < Len(state'.names))
      BY <1>2, <1>7, <1>8, <2>2
    <3> HIDE DEF longer, a, i
    <3> QED
      BY <1>9, <2>2, <3>1, <3>2
  <2> QED
    BY <2>1, <2>2
<1>11. NamesPlaced'
  <2>1. todo' = {} /\ albums' = albums /\ albums # <<>> /\ state.hidden = Hidden
    BY <1>2 DEF IInv, NamesPlaced, NameTrack
  <2>2. /\ Flat => state.dirs = <<>> /\ a = 1
        /\ ~Flat => Len(state.dirs) = a
        /\ IsInjective(state.dirs) /\ Range(state.dirs) \cap RealNames = {}
    BY <1>2 DEF IInv, NamesPlaced
  <2> HIDE DEF a
  <2> QED
    BY <1>0, <1>1, <1>2, <1>6, <1>8, <1>10, <2>1, <2>2 DEF NamesPlaced
<1> QED
  BY <1>1, <1>11 DEF IInv

THEOREM Invariance == Spec => []IInv
<1>1. IInv /\ UNCHANGED vars => IInv'
  <2> SUFFICES ASSUME IInv, UNCHANGED vars PROVE IInv'
    OBVIOUS
  <2>1. /\ DiskPlaced' /\ LoopPlaced' /\ AlbumsPlaced'
        /\ Hidden' = Hidden /\ RealNames' = RealNames /\ Occupied' = Occupied
        /\ Flat' = Flat /\ \A b : TracksOf(b)' = TracksOf(b)
    BY LoopDone DEF vars, disk
  <2>2. NamesPlaced'
    BY <2>1 DEF IInv, NamesPlaced, vars, disk
  <2> QED
    BY <2>1, <2>2 DEF IInv
<1>2. IInv /\ Next => IInv'
  BY SkipCueStep, OpenCueStep, FindSourceStep, SkipMissingStep, AddAlbumStep,
     CollectStep, AddSubdirStep, NameTrackStep DEF Next
<1> QED
  BY <1>1, <1>2, InitPlaced, PTL DEF Spec

-----------------------------------------------------------------------------
(* What names lead to                                                      *)

\* A name in a sequence without repetitions is at one place.
LEMMA PlaceOfName ==
  ASSUME NEW s, DOMAIN s \in SUBSET Nat, IsInjective(s), NEW i \in DOMAIN s
  PROVE  At(s, s[i]) = i
<1>1. {j \in DOMAIN s : s[j] = s[i]} = {i}
  BY DEF IsInjective
<1>2. i \in Nat
  OBVIOUS
<1> QED
  BY <1>1, <1>2 DEF At, Max

\* The name of an entry is not that of a directory or track, so that it leads to the
\* entry unless it is hidden.
LEMMA RealNamesFirst ==
  ASSUME IInv, state # None => state.listed = entries, NEW n \in entries
  PROVE  /\ Nfc(n) \notin ListedDirs \cup ListedTracks
         /\ Nfc(Nfc(n)) = Nfc(n)
         /\ OneForm /\ ~IsHidden(Nfc(n)) => Resolve(n) = Real(n)
<1>1. state # None => Nfc(n) \in RealNames
  BY DEF RealNames
<1>2. IsName(n) /\ n # None
  BY DirAssumption DEF IInv, DiskPlaced, Entry
<1>3. Nfc(n) \notin ListedDirs
  BY <1>1 DEF IInv, NamesPlaced, ListedDirs
<1>4. Nfc(n) \notin ListedTracks
  <2> SUFFICES ASSUME state # None, Flat PROVE Nfc(n) \notin Range(state.names[1])
    BY DEF ListedTracks
  <2>1. 1 \in DOMAIN state.names
    BY DEF IInv, NamesPlaced
  <2> QED
    BY <1>1, <2>1 DEF IInv, NamesPlaced, Occupied
<1>5. OneForm => OnDisk(Nfc(n)) = Real(n)
  <2>1. /\ BaseOf(<<n>>) = n /\ <<n>> \in There
        /\ OneForm => Lookup(<<Nfc(n)>>) = <<n>>
    BY EntriesAreFound, EntryPaths DEF IInv
  <2> QED
    BY <2>1 DEF OnDisk
<1> QED
  BY <1>2, <1>3, <1>4, <1>5, NameForms DEF Resolve, IsSubdir

\* In the flat layout the name of a track leads to it, unless it is hidden by the name
\* of a source in a subdirectory.
LEMMA FlatNames ==
  ASSUME IInv, state # None, state.listed = entries, Flat, NEW i \in DOMAIN state.names[1]
  PROVE  IF HiddenByNamesake(state.names[1][i])
         THEN Resolve(state.names[1][i]) = Absent
         ELSE Resolve(state.names[1][i]) = Track(1, i)
<1> DEFINE names == state.names[1]
           n == names[i]
<1>1. /\ 1 \in DOMAIN state.names /\ names \in Seq(TrackNames) /\ state.dirs = <<>>
      /\ IsInjective(names) /\ Range(names) \cap RealNames = {} /\ state.hidden = Hidden
      /\ i \in DOMAIN names
  BY DEF IInv, NamesPlaced, Occupied
<1>2. n \in TrackNames /\ DOMAIN names \in SUBSET Nat
  <2> HIDE DEF names
  <2> QED BY <1>1
<1>3. Nfc(n) = n
  BY <1>2, VirtualNames
<1>4. n \in Range(names)
  BY DEF Range
<1>5. At(names, n) = i
  <2> HIDE DEF names
  <2> QED BY <1>1, <1>2, PlaceOfName
<1>6. IsHidden(n) => HiddenByNamesake(n)
  <2> SUFFICES ASSUME IsHidden(n) PROVE \E p \in Sources : Len(p) > 1 /\ n = Nfc(BaseOf(p))
    BY DEF HiddenByNamesake
  <2>1. PICK p \in Sources : n = Nfc(BaseOf(p))
    BY <1>1 DEF IsHidden, Hidden
  <2>2. p \in There
    BY DEF IInv, AlbumsPlaced
  <2>3. CASE p \in below
    BY <2>1, <2>3, DirAssumption DEF IInv, DiskPlaced
  <2>4. ASSUME NEW m \in entries, p = <<m>> PROVE FALSE
    <3>1. n = Nfc(m) /\ Nfc(m) \in RealNames
      BY <2>1, <2>4, EntryPaths DEF IInv, RealNames
    <3> QED
      BY <1>1, <1>4, <3>1
  <2> QED
    BY <2>2, <2>3, <2>4 DEF There
<1>7. ~IsSubdir(n)
  BY <1>1 DEF IsSubdir, ListedDirs, Range
<1>8. ListedTracks = Range(names)
  BY DEF ListedTracks
<1>9. HiddenByNamesake(n) => IsHidden(n)
  BY DEF HiddenByNamesake
<1> HIDE DEF n, names
<1>10. Resolve(n) = IF IsHidden(n) THEN Absent ELSE Track(1, At(state.names[1], n))
  BY <1>3, <1>4, <1>7, <1>8 DEF Resolve
<1> QED
  BY <1>5, <1>6, <1>9, <1>10 DEF n, names

\* In a subdirectory the name of a track leads to it.
LEMMA SubdirNames ==
  ASSUME IInv, state # None, ~Flat, NEW a \in DOMAIN state.names
  PROVE  /\ a \in DOMAIN state.dirs /\ NamesIn(state.dirs[a]) = state.names[a]
         /\ \A i \in DOMAIN state.names[a] :
              ResolveIn(state.dirs[a], state.names[a][i]) = Track(a, i)
<1> DEFINE names == state.names[a]
           d == state.dirs[a]
<1>1. /\ names \in Seq(TrackNames) /\ state.dirs \in Seq(DirNames)
      /\ a \in DOMAIN state.dirs /\ DOMAIN state.dirs \in SUBSET Nat
      /\ IsInjective(names) /\ IsInjective(state.dirs)
  BY DEF IInv, NamesPlaced
<1>2. At(state.dirs, d) = a /\ NamesIn(d) = names
  BY <1>1, PlaceOfName DEF NamesIn
<1>3. ASSUME NEW i \in DOMAIN names
      PROVE  ResolveIn(d, names[i]) = Track(a, i)
  <2>1. names[i] \in TrackNames /\ DOMAIN names \in SUBSET Nat
    <3> HIDE DEF names
    <3> QED BY <1>1, <1>3
  <2>2. Nfc(names[i]) = names[i]
    BY <2>1, VirtualNames
  <2>3. At(names, names[i]) = i
    <3> HIDE DEF names
    <3> QED BY <1>1, <1>3, <2>1, PlaceOfName
  <2>4. names[i] \in Range(names)
    BY <1>3 DEF Range
  <2> HIDE DEF names, d
  <2> QED
    BY <1>2, <2>2, <2>3, <2>4 DEF ResolveIn
<1> QED
  BY <1>1, <1>2, <1>3

-----------------------------------------------------------------------------
(* The properties                                                          *)

\* The variables keep the shape of the code's data.
THEOREM TypeCorrect == Spec => []TypeOK
<1>1. IInv => TypeOK
  BY DEF IInv, DiskPlaced, LoopPlaced, AlbumsPlaced, TypeOK, Entry, Range
<1> QED
  BY <1>1, Invariance, PTL

\* No audio file is the source of two albums or of two FILEs of one.
THEOREM SourcesOnce == Spec => []SourcesAreExclusive
<1>1. IInv => SourcesAreExclusive
  BY DEF IInv, AlbumsPlaced
<1> QED
  BY <1>1, Invariance, PTL

\* Every real entry that is not cut into tracks can be found.
THEOREM EntriesSurvive == Spec => []RealEntriesSurvive
<1>1. IInv => RealEntriesSurvive
  <2> SUFFICES ASSUME IInv, OneForm, state # None => state.listed = entries,
                      NEW n \in entries, <<n>> \notin Sources, ~HiddenByNamesake(Nfc(n))
               PROVE  Resolve(n) = Real(n)
    BY DEF RealEntriesSurvive, Named
  <2>1. ASSUME state # None, NEW p \in Sources, Nfc(BaseOf(p)) = Nfc(n), Len(p) <= 1 PROVE FALSE
    <3>1. p \in There /\ p \notin below
      BY <2>1, DirAssumption DEF IInv, AlbumsPlaced, DiskPlaced, IsPath
    <3>2. PICK m \in entries : p = <<m>>
      BY <3>1 DEF There
    <3>3. Nfc(m) = Nfc(n)
      BY <2>1, <3>2, EntryPaths DEF IInv
    <3> QED
      BY <2>1, <3>2, <3>3 DEF OneForm
  <2>2. \A p \in Sources : Len(p) \in Nat
    <3> TAKE p \in Sources
    <3>1. p \in There
      BY DEF IInv, AlbumsPlaced
    <3>2. CASE p \in below
      <4>1. p \in Seq(Range(p))
        BY <3>2, DirAssumption DEF IInv, DiskPlaced, IsPath
      <4> QED
        BY <4>1
    <3>3. ASSUME NEW m, p = <<m>> PROVE Len(p) \in Nat
      BY <3>3
    <3> QED
      BY <3>1, <3>2, <3>3 DEF There
  <2>3. ~IsHidden(Nfc(n))
    <3> SUFFICES ASSUME IsHidden(Nfc(n)) PROVE FALSE
      OBVIOUS
    <3>1. state # None /\ Nfc(n) \in Hidden
      BY DEF IsHidden, IInv, NamesPlaced
    <3>2. PICK p \in Sources : Nfc(n) = Nfc(BaseOf(p))
      BY <3>1 DEF Hidden
    <3>3. ~(Len(p) > 1)
      BY <3>2 DEF HiddenByNamesake
    <3> QED
      BY <2>1, <2>2, <3>1, <3>2, <3>3
  <2> QED
    BY <2>3, RealNamesFirst
<1> QED
  BY <1>1, Invariance, PTL

\* A listing names everything once, and each name leads to what it was listed for, if
\* no disc has a name with a slash.
THEOREM FaithfulListing == ASSUME Compound = {} PROVE Spec => []ListingIsFaithful
<1>1. ASSUME IInv, Named PROVE OneForm => \A n \in ListedReal : Resolve(n) = Real(n)
  BY <1>1, RealNamesFirst DEF ListedReal, Named
<1>2. ASSUME IInv, Named PROVE \A n \in ListedReal : Nfc(n) \notin ListedTracks \cup ListedDirs
  BY <1>2, RealNamesFirst DEF ListedReal, Named
<1>3. ASSUME IInv, Named, NEW n \in ListedTracks
      PROVE  Resolve(n).kind = "track" \/ HiddenByNamesake(n)
  <2>1. state # None /\ Flat /\ \E i \in DOMAIN state.names[1] : n = state.names[1][i]
    BY <1>3 DEF ListedTracks, Range
  <2>2. PICK i \in DOMAIN state.names[1] : n = state.names[1][i]
    BY <2>1
  <2>3. Resolve(n) = Track(1, i) \/ HiddenByNamesake(n)
    BY <1>3, <2>1, <2>2, FlatNames DEF Named
  <2> QED
    BY <2>3 DEF Track
<1>4. ASSUME IInv, NEW d \in ListedDirs PROVE Resolve(d) = Dir(d)
  <2>1. state.dirs \in Seq(DirNames)
    BY <1>4 DEF IInv, NamesPlaced, ListedDirs
  <2>2. d \in DirNames
    BY <1>4, <2>1 DEF ListedDirs, Range
  <2>3. Nfc(d) = d
    BY <2>2, VirtualNames
  <2> QED
    BY <1>4, <2>3 DEF Resolve, IsSubdir
<1>5. ASSUME IInv, Named, OneForm, NEW d \in ListedDirs, NEW n \in Artwork
      PROVE  ResolveIn(d, n) = Real(n)
  <2>1. Nfc(n) \in Mirrored
    BY DEF Mirrored
  <2>2. state # None /\ ~Flat
    BY <1>5 DEF IInv, NamesPlaced, ListedDirs, Range
  <2>3. PICK a \in DOMAIN state.dirs : d = state.dirs[a]
    BY <1>5 DEF ListedDirs, Range
  <2>4. a \in DOMAIN state.names
    BY <1>5, <2>2 DEF IInv, NamesPlaced
  <2>5. Nfc(n) \notin Range(NamesIn(d))
    BY <1>5, <2>1, <2>2, <2>3, <2>4, SubdirNames DEF IInv, NamesPlaced, Occupied
  <2>6. (CHOOSE m \in Artwork : Nfc(m) = Nfc(n)) = n
    BY <1>5, <2>2 DEF OneForm, Artwork, Named
  <2> QED
    BY <2>1, <2>5, <2>6 DEF ResolveIn
<1>6. IInv => ListingIsFaithful
  BY <1>1, <1>2, <1>3, <1>4, <1>5 DEF ListingIsFaithful
<1> QED
  BY <1>6, Invariance, PTL

\* Every track has exactly one path, if no disc has a name with a slash, and but for
\* those that are hidden by the name of a source in a subdirectory.
THEOREM OnePathEach == ASSUME Compound = {} PROVE Spec => []EveryTrackHasOnePath
<1> DEFINE Only(a, i, p) == /\ p \in TrackPaths /\ LeadsTo(p) = Track(a, i)
                            /\ \A q \in TrackPaths : LeadsTo(q) = Track(a, i) => q = p
<1>1. ASSUME IInv, Named, NEW a \in DOMAIN albums, NEW i \in DOMAIN TracksOf(a),
             ~(Flat /\ HiddenByNamesake(state.names[a][i]))
      PROVE  \E p \in TrackPaths : Only(a, i, p)
  <2>1. /\ state # None /\ state.listed = entries /\ a \in DOMAIN state.names /\ i \in DOMAIN state.names[a]
        /\ DOMAIN state.names = DOMAIN albums
    <3>1. state # None /\ NamesDone /\ Len(state.names) = Len(albums)
      BY <1>1, AlbumTracks DEF Named, Built
    <3>0. state.listed = entries
      BY <1>1, <3>1 DEF Named
    <3>2. state.names \in Seq(Seq(TrackNames))
      BY <1>1, <3>1 DEF IInv, NamesPlaced
    <3>3. DOMAIN state.names = DOMAIN albums /\ a \in DOMAIN state.names
      BY <1>1, <3>1, <3>2, AlbumTracks
    <3>4. state.names[a] \in Seq(TrackNames) /\ Len(state.names[a]) = Len(TracksOf(a))
      BY <3>1, <3>2, <3>3 DEF NamesDone
    <3>5. i \in DOMAIN state.names[a]
      BY <1>1, <3>4, AlbumTracks
    <3> QED
      BY <3>0, <3>1, <3>3, <3>5
  <2>2. CASE Flat
    <3> DEFINE n == state.names[1][i]
    <3>1. a = 1 /\ i \in DOMAIN state.names[1] /\ ListedDirs = {}
          /\ ListedTracks = Range(state.names[1])
      BY <1>1, <2>1, <2>2, AlbumTracks DEF Flat, IInv, NamesPlaced, ListedDirs, ListedTracks, Range
    <3>2. TrackPaths = {<<m>> : m \in Range(state.names[1])}
      BY <3>1 DEF TrackPaths
    <3>3. <<n>> \in TrackPaths
      BY <3>1, <3>2 DEF Range
    <3>4. \A j \in DOMAIN state.names[1] :
            /\ LeadsTo(<<state.names[1][j]>>) \in {Track(1, j), Absent}
            /\ ~HiddenByNamesake(state.names[1][j]) =>
                 LeadsTo(<<state.names[1][j]>>) = Track(1, j)
      BY <1>1, <2>1, <2>2, FlatNames DEF LeadsTo
    <3>5. ASSUME NEW q \in TrackPaths, LeadsTo(q) = Track(a, i) PROVE q = <<n>>
      <4>1. PICK j \in DOMAIN state.names[1] : q = <<state.names[1][j]>>
        BY <3>2, <3>5 DEF Range
      <4>2. Track(1, j) = Track(1, i)
        BY <3>1, <3>4, <3>5, <4>1 DEF Track, Absent
      <4> QED
        BY <4>1, <4>2 DEF Track
    <3> QED
      BY <1>1, <2>2, <3>1, <3>3, <3>4, <3>5
  <2>3. CASE ~Flat
    <3> DEFINE d == state.dirs[a]
               n == state.names[a][i]
    <3>1. ListedTracks = {}
      BY <2>3 DEF ListedTracks
    <3>2. DOMAIN state.dirs = DOMAIN state.names
      BY <1>1, <2>1, <2>3 DEF IInv, NamesPlaced
    <3>3. \A b \in DOMAIN state.names :
            /\ NamesIn(state.dirs[b]) = state.names[b]
            /\ state.dirs[b] \in ListedDirs /\ IsSubdir(state.dirs[b])
            /\ \A j \in DOMAIN state.names[b] :
                 LeadsTo(<<state.dirs[b], state.names[b][j]>>) = Track(b, j)
      <4>1. \A x, y : Len(<<x, y>>) = 2 /\ <<x, y>>[1] = x /\ <<x, y>>[2] = y
        OBVIOUS
      <4> QED
        BY <1>1, <2>1, <2>3, <3>2, <4>1, SubdirNames DEF LeadsTo, ListedDirs, IsSubdir, Range
    <3>4. <<d, n>> \in TrackPaths
      <4>1. d \in ListedDirs /\ IsSubdir(d) /\ n \in Range(NamesIn(d))
        BY <2>1, <3>3 DEF Range
      <4> QED
        BY <4>1 DEF TrackPaths
    <3>5. ASSUME NEW q \in TrackPaths, LeadsTo(q) = Track(a, i) PROVE q = <<d, n>>
      <4>0. PICK e \in ListedDirs : \E m \in Range(NamesIn(e)) : q = <<e, m>>
        BY <3>1 DEF TrackPaths
      <4>1. PICK m \in Range(NamesIn(e)) : q = <<e, m>>
        BY <4>0
      <4>2. PICK b \in DOMAIN state.names : e = state.dirs[b]
        BY <2>1, <3>2 DEF ListedDirs, Range
      <4>3. PICK j \in DOMAIN state.names[b] : m = state.names[b][j]
        BY <3>3, <4>2 DEF Range
      <4>4. Track(b, j) = Track(a, i)
        BY <3>3, <3>5, <4>1, <4>2, <4>3
      <4>5. b = a /\ j = i
        BY <4>4 DEF Track
      <4> QED
        BY <4>1, <4>2, <4>3, <4>5
    <3> QED
      BY <2>1, <3>3, <3>4, <3>5
  <2> QED
    BY <2>2, <2>3
<1>2. IInv => EveryTrackHasOnePath
  BY <1>1 DEF EveryTrackHasOnePath
<1> QED
  BY <1>2, Invariance, PTL

-----------------------------------------------------------------------------
(* Complete sheets                                                         *)

\* When a FILE of the sheet that is read, or of an album, is not given what it declares.
Unavailable(declared) ==
  declared # None /\ declared \in FilePaths => declared \in claimed

FallbackPlaced ==
  /\ \A f \in DOMAIN found :
       LET declared == sheets[reading].files[f] IN
       found[f] # declared /\ declared \notin Range(found) => Unavailable(declared)
  /\ \A a \in DOMAIN albums : \A f \in DOMAIN albums[a].sources :
       albums[a].sources[f] = sheets[albums[a].cue].files[f] \/ FellBack(a, f)

\* A sheet whose declared files are its own and all there.
Complete(cue) ==
  /\ path \subseteq {"nfc"} /\ cue \in UsableCues
  /\ DeclaresItsOwn(cue) /\ Range(Declared(sheets[cue])) \subseteq FilePaths

\* Some other album has fallen back on one of the files of a sheet.
Robbed(cue) ==
  \E a \in DOMAIN albums :
    /\ albums[a].cue # cue
    /\ \E f \in DOMAIN albums[a].sources :
         FellBack(a, f) /\ albums[a].sources[f] \in Range(Declared(sheets[cue]))

FoundDeclared(cue) == reading = cue => \A f \in DOMAIN found : found[f] = sheets[cue].files[f]

AlbumDeclared(cue) ==
  \/ cue \in todo
  \/ \E a \in DOMAIN albums :
       albums[a].cue = cue /\ albums[a].sources = Declared(sheets[cue])

CompletePlaced ==
  \A cue \in UsableCues :
    Complete(cue) /\ ~Robbed(cue) => FoundDeclared(cue) /\ AlbumDeclared(cue)

\* What is said of the disk does not change.
LEMMA DiskRests == [Next]_vars => UNCHANGED disk
BY DEF Next, vars, SkipCue, OpenCue, FindSource, SkipMissing, AddAlbum, Collect,
       AddSubdir, NameTrack, disk

LEMMA SameDisk ==
  ASSUME UNCHANGED disk
  PROVE  /\ UsableCues' = UsableCues /\ FilePaths' = FilePaths /\ sheets' = sheets
         /\ \A c : Complete(c)' = Complete(c)
<1>1. UsableCues' = UsableCues /\ sheets' = sheets /\ path' = path
  BY DEF UsableCues, disk
<1>2. FilePaths' = FilePaths
  BY DEF FilePaths, RealFiles, disk
<1>3. \A c : DeclaresItsOwn(c)' = DeclaresItsOwn(c)
  BY <1>1 DEF DeclaresItsOwn
<1> QED
  BY <1>1, <1>2, <1>3 DEF Complete

\* What a complete sheet declares.
LEMMA DeclaredOnce ==
  ASSUME NEW c, Complete(c), NEW f \in Used(sheets[c]),
         NEW e \in UsableCues, NEW g \in Used(sheets[e])
  PROVE  /\ sheets[c].files[f] # None /\ sheets[c].files[f] \in FilePaths
         /\ sheets[c].files[f] = sheets[e].files[g] => c = e /\ f = g
<1>1. f \in DOMAIN Declared(sheets[c]) /\ Declared(sheets[c])[f] = sheets[c].files[f]
  BY DEF Declared
<1>2. g \in DOMAIN Declared(sheets[e]) /\ Declared(sheets[e])[g] = sheets[e].files[g]
  BY DEF Declared
<1>3. sheets[c].files[f] \in Range(Declared(sheets[c]))
  BY <1>1 DEF Range
<1> QED
  BY <1>1, <1>2, <1>3 DEF Complete, DeclaresItsOwn

\* If a FILE is given what it does not declare, that is not there or taken.
LEMMA NextIsFallback ==
  ASSUME IInv, reading # None, NEW listed,
         Exact(NextAudio(listed)), NextAudio(listed) # sheets[reading].files[NextFile]
  PROVE  LET declared == sheets[reading].files[NextFile] IN
         declared \notin Range(found) => Unavailable(declared)
<1> DEFINE d == sheets[reading].files[NextFile]
<1> SUFFICES ASSUME d # None, d \in FilePaths, d \notin claimed \cup Range(found) PROVE FALSE
  BY DEF Unavailable
<1>1. path \subseteq {"nfc"}
  BY DEF Exact
<1>2. Lookup(d) \in FilePaths
  BY <1>1 DEF Lookup, Exact, FilePaths, There, RealFiles
<1> HIDE DEF d
<1>3. FindAudio(reading, d, claimed \cup Range(found), listed) = d
  BY <1>2, DeclaredIsFound
<1> QED
  BY <1>3 DEF d, NextAudio

\* An album that fell back stays one.
LEMMA FallbackStays ==
  ASSUME UNCHANGED disk, NEW a \in DOMAIN albums, a \in DOMAIN albums', albums'[a] = albums[a],
         Sources \subseteq Sources', NEW f, FellBack(a, f)
  PROVE  FellBack(a, f)'
BY SameDisk DEF FellBack

LEMMA RobbedStays ==
  ASSUME UNCHANGED disk, Sources \subseteq Sources', NEW cue, Robbed(cue),
         \A a \in DOMAIN albums : a \in DOMAIN albums' /\ albums'[a] = albums[a]
  PROVE  Robbed(cue)'
<1>1. PICK a \in DOMAIN albums :
        /\ albums[a].cue # cue
        /\ \E f \in DOMAIN albums[a].sources :
             FellBack(a, f) /\ albums[a].sources[f] \in Range(Declared(sheets[cue]))
  BY DEF Robbed
<1>2. PICK f \in DOMAIN albums[a].sources :
        FellBack(a, f) /\ albums[a].sources[f] \in Range(Declared(sheets[cue]))
  BY <1>1
<1>3. FellBack(a, f)' /\ a \in DOMAIN albums' /\ albums'[a] = albums[a] /\ sheets' = sheets
  BY <1>2, FallbackStays, SameDisk
<1> QED
  BY <1>1, <1>2, <1>3 DEF Robbed

\* Albums are only ever added.
LEMMA AlbumsGrow ==
  ASSUME IInv, [Next]_vars
  PROVE  /\ \A a \in DOMAIN albums : a \in DOMAIN albums' /\ albums'[a] = albums[a]
         /\ Sources \subseteq Sources' /\ claimed \subseteq claimed'
         /\ ~AddAlbum => albums' = albums /\ claimed' = claimed
         /\ AddAlbum =>
              LET new == [cue |-> reading, sources |-> found] IN
              /\ \A a \in DOMAIN albums' : a \in DOMAIN albums \/ albums'[a] = new
              /\ \E a \in DOMAIN albums' : albums'[a] = new
<1> DEFINE new == [cue |-> reading, sources |-> found]
<1>1. CASE AddAlbum
  <2>1. new \in Album
    <3>1. /\ reading \in DOMAIN sheets /\ Usable(sheets[reading]) /\ reading \in Cues
          /\ DOMAIN found \subseteq Used(sheets[reading])
          /\ found \in [DOMAIN found -> Place]
      BY <1>1 DEF IInv, LoopPlaced, DiskPlaced, AddAlbum, There, Place
    <3>2. DOMAIN found \in SUBSET Nat
      BY <3>1, SheetRead
    <3> QED
      BY <3>1, <3>2 DEF Album
  <2>2. albums \in Seq(Album) /\ albums' = Append(albums, new) /\ claimed \subseteq claimed'
    BY <1>1 DEF IInv, AlbumsPlaced, AddAlbum
  <2>3. /\ Len(albums) \in Nat /\ DOMAIN albums = 1 .. Len(albums)
        /\ DOMAIN albums' = 1 .. Len(albums) + 1
        /\ \A b \in DOMAIN albums : albums'[b] = albums[b]
        /\ albums'[Len(albums) + 1] = new
    <3> HIDE DEF new
    <3> QED BY <2>1, <2>2
  <2>4. \A a \in DOMAIN albums : a \in DOMAIN albums' /\ albums'[a] = albums[a]
    <3> HIDE DEF new
    <3> QED BY <2>3
  <2>5. Sources \subseteq Sources'
    BY <2>4 DEF Sources
  <2>6. /\ \A a \in DOMAIN albums' : a \in DOMAIN albums \/ albums'[a] = new
        /\ \E a \in DOMAIN albums' : albums'[a] = new
    <3> HIDE DEF new
    <3> QED BY <2>3
  <2> QED
    BY <1>1, <2>2, <2>4, <2>5, <2>6
<1>2. CASE ~AddAlbum
  <2>1. albums' = albums /\ claimed' = claimed
    BY <1>2 DEF Next, vars, SkipCue, OpenCue, FindSource, SkipMissing, Collect, AddSubdir, NameTrack
  <2> QED
    BY <1>2, <2>1 DEF Sources
<1> QED
  BY <1>1, <1>2

\* What a step leaves of what is found.
LEMMA FoundGrows ==
  ASSUME IInv, [Next]_vars
  PROVE  \/ found' = <<>>
         \/ found' = found /\ reading' = reading
         \/ FindSource
<1>1. ASSUME NEW cue \in todo, SkipCue(cue) \/ OpenCue(cue) PROVE found' = <<>>
  BY <1>1 DEF SkipCue, OpenCue, IInv, LoopPlaced
<1>2. ASSUME Collect \/ AddSubdir \/ NameTrack \/ UNCHANGED vars
      PROVE  found' = found /\ reading' = reading
  BY <1>2 DEF Collect, AddSubdir, NameTrack, vars
<1>3. ASSUME SkipMissing \/ AddAlbum PROVE found' = <<>>
  BY <1>3 DEF SkipMissing, AddAlbum, Finish
<1> QED
  BY <1>1, <1>2, <1>3 DEF Next

\* How found grows.
LEMMA FindSourceFound ==
  ASSUME IInv, FindSource
  PROVE  /\ NextFile \in Used(sheets[reading]) \ DOMAIN found
         /\ DOMAIN found' = DOMAIN found \cup {NextFile}
         /\ \A f \in DOMAIN found : found'[f] = found[f]
         /\ \E listed \in Listings :
              found'[NextFile] = NextAudio(listed) /\ Exact(NextAudio(listed))
         /\ reading' = reading /\ reading # None /\ todo' = todo /\ albums' = albums
<1>1. PICK listed \in Listings :
        /\ NextAudio(listed) # None /\ Exact(NextAudio(listed))
        /\ found' = [g \in DOMAIN found \cup {NextFile} |->
                       IF g = NextFile THEN NextAudio(listed) ELSE found[g]]
  BY DEF FindSource
<1>2. NextFile \in Used(sheets[reading]) \ DOMAIN found
  BY FileIsNext DEF FindSource
<1>3. /\ DOMAIN found' = DOMAIN found \cup {NextFile} /\ found'[NextFile] = NextAudio(listed)
      /\ \A f \in DOMAIN found : found'[f] = found[f]
  <2> HIDE DEF NextFile, NextAudio
  <2> QED BY <1>1, <1>2
<1>4. reading' = reading /\ reading # None /\ todo' = todo /\ albums' = albums
  BY DEF FindSource
<1> QED
  BY <1>1, <1>2, <1>3, <1>4

LEMMA FallbackStep ==
  ASSUME IInv, FallbackPlaced, [Next]_vars
  PROVE  FallbackPlaced'
<1>1. UNCHANGED disk /\ sheets' = sheets /\ FilePaths' = FilePaths
  BY DiskRests, SameDisk
<1>2. ASSUME NEW f \in DOMAIN found', found'[f] # sheets[reading'].files[f],
             sheets[reading'].files[f] \notin Range(found'),
             sheets[reading'].files[f] # None, sheets[reading'].files[f] \in FilePaths
      PROVE  sheets[reading'].files[f] \in claimed'
  <2> DEFINE d == sheets[reading].files[f]
  <2>1. claimed \subseteq claimed'
    BY AlbumsGrow
  <2>2. CASE found' = found /\ reading' = reading
    BY <1>2, <2>1, <2>2 DEF FallbackPlaced, Unavailable
  <2>3. CASE FindSource
    <3>1. reading' = reading /\ Range(found) \subseteq Range(found')
      BY <2>3, FindSourceFound DEF Range
    <3>2. CASE f \in DOMAIN found
      <4>1. found[f] # d /\ d \notin Range(found) /\ d # None /\ d \in FilePaths
        BY <1>2, <2>3, <3>1, <3>2, FindSourceFound
      <4>2. d \in claimed
        BY <3>2, <4>1 DEF FallbackPlaced, Unavailable
      <4> QED
        BY <2>1, <3>1, <4>2
    <3>3. CASE f = NextFile
      <4>1. PICK listed \in Listings :
              found'[f] = NextAudio(listed) /\ Exact(NextAudio(listed))
        BY <2>3, <3>3, FindSourceFound
      <4>2. NextAudio(listed) # d /\ d \notin Range(found) /\ d # None /\ d \in FilePaths
        BY <1>2, <3>1, <4>1
      <4>3. reading # None
        BY <2>3 DEF FindSource
      <4>4. d \in claimed
        <5> HIDE DEF NextFile, NextAudio
        <5> QED BY <3>3, <4>1, <4>2, <4>3, NextIsFallback DEF Unavailable
      <4> QED
        BY <2>1, <3>1, <4>4
    <3> QED
      BY <1>2, <2>3, <3>2, <3>3, FindSourceFound
  <2>4. CASE found' = <<>>
    BY <1>2, <2>4
  <2> QED
    BY <2>2, <2>3, <2>4, FoundGrows
<1>3. ASSUME NEW a \in DOMAIN albums', NEW f \in DOMAIN albums'[a].sources
      PROVE  albums'[a].sources[f] = sheets'[albums'[a].cue].files[f] \/ FellBack(a, f)'
  <2>1. CASE a \in DOMAIN albums
    <3>1. albums'[a] = albums[a] /\ Sources \subseteq Sources'
      BY <2>1, AlbumsGrow
    <3>2. albums[a].sources[f] = sheets[albums[a].cue].files[f] \/ FellBack(a, f)
      BY <1>3, <2>1, <3>1 DEF FallbackPlaced
    <3> QED
      BY <1>1, <1>3, <2>1, <3>1, <3>2, FallbackStays
  <2>2. CASE AddAlbum /\ albums'[a] = [cue |-> reading, sources |-> found]
    <3> DEFINE d == sheets[reading].files[f]
    <3>1. f \in DOMAIN found /\ albums'[a].cue = reading /\ albums'[a].sources = found
      BY <1>3, <2>2
    <3>2. claimed' = claimed \cup Range(found) /\ Sources' = claimed'
      <4>1. IInv'
        BY <2>2, AddAlbumStep
      <4> QED
        BY <2>2, <4>1 DEF AddAlbum, IInv, AlbumsPlaced
    <3>3. found[f] = d \/ (d # None /\ d \in FilePaths => d \in claimed \cup Range(found))
      BY <3>1 DEF FallbackPlaced, Unavailable
    <3> QED
      BY <1>1, <3>1, <3>2, <3>3 DEF FellBack
  <2> QED
    BY <2>1, <2>2, AlbumsGrow
<1> QED
  BY <1>1, <1>2, <1>3 DEF FallbackPlaced, Unavailable

\* The next audio of a complete sheet is the file that is declared, unless somebody
\* has taken one of its files.
LEMMA NextIsDeclared ==
  ASSUME IInv, FallbackPlaced, reading # None, Complete(reading), ~Robbed(reading),
         FoundDeclared(reading), ~AllFound, NEW listed
  PROVE  /\ NextAudio(listed) = sheets[reading].files[NextFile]
         /\ NextAudio(listed) # None /\ Exact(NextAudio(listed))
<1> DEFINE d == sheets[reading].files[NextFile]
<1>1. /\ NextFile \in Used(sheets[reading]) \ DOMAIN found /\ reading \in UsableCues
      /\ DOMAIN found \subseteq Used(sheets[reading])
  BY FileIsNext DEF IInv, LoopPlaced, UsableCues
<1>2. d # None /\ d \in FilePaths
  BY <1>1, DeclaredOnce
<1>3. d \notin Range(found)
  <2> SUFFICES ASSUME NEW g \in DOMAIN found, found[g] = d PROVE FALSE
    BY DEF Range
  <2>1. sheets[reading].files[g] = d
    BY DEF FoundDeclared
  <2> QED
    BY <1>1, <2>1, DeclaredOnce
<1>4. d \notin claimed
  <2> SUFFICES ASSUME d \in Sources PROVE FALSE
    BY DEF IInv, AlbumsPlaced
  <2>1. PICK a \in DOMAIN albums : d \in Range(albums[a].sources)
    BY DEF Sources
  <2>2. PICK g \in DOMAIN albums[a].sources : d = albums[a].sources[g]
    BY <2>1 DEF Range
  <2>3. albums[a].cue \in UsableCues /\ albums[a].cue \notin todo /\ reading \in todo
    BY DEF IInv, LoopPlaced, AlbumsPlaced, UsableCues
  <2>4. g \in Used(sheets[albums[a].cue])
    BY DEF IInv, AlbumsPlaced
  <2>5. d # sheets[albums[a].cue].files[g]
    BY <1>1, <2>3, <2>4, DeclaredOnce
  <2>6. FellBack(a, g)
    BY <2>2, <2>5 DEF FallbackPlaced
  <2>7. d \in Range(Declared(sheets[reading]))
    BY <1>1 DEF Declared, Range
  <2> QED
    BY <2>2, <2>3, <2>6, <2>7 DEF Robbed
<1>5. Exact(d) /\ Lookup(d) = d
  BY <1>2 DEF Exact, Lookup, FilePaths, There, RealFiles, Complete
<1> HIDE DEF d
<1>6. FindAudio(reading, d, claimed \cup Range(found), listed) = d
  BY <1>2, <1>3, <1>4, <1>5, DeclaredIsFound
<1> QED
  BY <1>2, <1>5, <1>6 DEF d, NextAudio

LEMMA CompleteStep ==
  ASSUME IInv, FallbackPlaced, CompletePlaced, [Next]_vars
  PROVE  CompletePlaced'
<1>1. UNCHANGED disk /\ sheets' = sheets /\ UsableCues' = UsableCues
      /\ \A c : Complete(c)' = Complete(c)
  BY DiskRests, SameDisk
<1> SUFFICES ASSUME NEW cue \in UsableCues, Complete(cue), ~Robbed(cue)'
             PROVE  FoundDeclared(cue)' /\ AlbumDeclared(cue)'
  BY <1>1 DEF CompletePlaced
<1>2. ~Robbed(cue)
  BY <1>1, AlbumsGrow, RobbedStays
<1>3. FoundDeclared(cue) /\ AlbumDeclared(cue)
  BY <1>2 DEF CompletePlaced
<1>4. FoundDeclared(cue)'
  <2>1. CASE found' = <<>>
    BY <2>1 DEF FoundDeclared
  <2>2. CASE found' = found /\ reading' = reading
    BY <1>1, <1>3, <2>2 DEF FoundDeclared
  <2>3. CASE FindSource
    <3> SUFFICES ASSUME reading = cue, NEW f \in DOMAIN found'
                 PROVE  found'[f] = sheets[cue].files[f]
      BY <1>1, <2>3, FindSourceFound DEF FoundDeclared
    <3>1. CASE f \in DOMAIN found
      BY <1>3, <2>3, <3>1, FindSourceFound DEF FoundDeclared
    <3>2. CASE f = NextFile
      <4>1. PICK listed \in Listings : found'[f] = NextAudio(listed)
        BY <2>3, <3>2, FindSourceFound
      <4>2. NextAudio(listed) = sheets[reading].files[NextFile]
        BY <1>2, <1>3, <2>3, NextIsDeclared DEF FindSource
      <4> HIDE DEF NextFile, NextAudio
      <4> QED
        BY <3>2, <4>1, <4>2
    <3> QED
      BY <2>3, <3>1, <3>2, FindSourceFound
  <2> QED
    BY <2>1, <2>2, <2>3, FoundGrows
<1>5. AlbumDeclared(cue)'
  <2>1. CASE \E a \in DOMAIN albums :
               albums[a].cue = cue /\ albums[a].sources = Declared(sheets[cue])
    BY <1>1, <2>1, AlbumsGrow DEF AlbumDeclared
  <2>2. CASE cue \in todo' 
    BY <2>2 DEF AlbumDeclared
  <2>3. CASE cue \in todo \ todo'
    <3>1. ~\E c \in todo : SkipCue(c)
      <4> SUFFICES ASSUME SkipCue(cue) PROVE FALSE
        BY <2>3 DEF SkipCue
      <4>1. path \subseteq {"nfc"} /\ Usable(sheets[cue]) /\ cue \in entries
        BY DEF Complete, UsableCues, IInv, DiskPlaced
      <4> QED
        BY <4>1, EntryPaths DEF SkipCue, IInv
    <3>2. ~SkipMissing \/ reading # cue
      <4> SUFFICES ASSUME SkipMissing, reading = cue PROVE FALSE
        OBVIOUS
      <4>1. PICK listed \in Listings : NextAudio(listed) = None \/ ~Exact(NextAudio(listed))
        BY DEF SkipMissing
      <4> QED
        BY <1>2, <1>3, <4>1, NextIsDeclared DEF SkipMissing
    <3>3. AddAlbum /\ reading = cue
      BY <2>3, <3>1, <3>2 DEF Next, vars, OpenCue, FindSource, SkipMissing, AddAlbum,
         Finish, Collect, AddSubdir, NameTrack
    <3>4. found = Declared(sheets[cue])
      <4>1. /\ found = [f \in DOMAIN found |-> found[f]] /\ DOMAIN found = Used(sheets[cue])
            /\ \A f \in DOMAIN found : found[f] = sheets[cue].files[f]
        BY <1>3, <3>3 DEF IInv, LoopPlaced, AddAlbum, AllFound, FoundDeclared
      <4> QED
        BY <4>1 DEF Declared
    <3>5. PICK a \in DOMAIN albums' : albums'[a] = [cue |-> reading, sources |-> found]
      BY <3>3, AlbumsGrow
    <3> QED
      BY <1>1, <3>3, <3>4, <3>5 DEF AlbumDeclared
  <2> QED
    BY <1>3, <2>1, <2>2, <2>3 DEF AlbumDeclared
<1> QED
  BY <1>4, <1>5

\* A sheet that declares files of its own which are all there becomes an album of just
\* these, unless an album that had to fall back has taken one of them, whatever the
\* order in which the sheets are read and whatever the others declare.
THEOREM CompleteAreUsed == Spec => []CompleteSheetsAreUsed
<1>1. Init => FallbackPlaced /\ CompletePlaced
  <2> SUFFICES ASSUME Init, NEW cue \in UsableCues, Complete(cue) PROVE cue \in todo
    <3>1. \A S : S = <<>> => DOMAIN S = {}
      OBVIOUS
    <3> QED
      BY <3>1 DEF Init, FallbackPlaced, CompletePlaced, FoundDeclared, AlbumDeclared
  <2>1. Reached
    BY DEF Complete, Reached
  <2> QED
    BY <2>1 DEF Init, UsableCues
<1>2. IInv /\ FallbackPlaced /\ CompletePlaced /\ [Next]_vars =>
        FallbackPlaced' /\ CompletePlaced'
  BY FallbackStep, CompleteStep
<1>3. IInv /\ FallbackPlaced /\ CompletePlaced => CompleteSheetsAreUsed
  <2> SUFFICES ASSUME CompletePlaced, todo = {}, NEW cue \in UsableCues, Complete(cue), ~Robbed(cue)
               PROVE  \E a \in DOMAIN albums :
                        albums[a].cue = cue /\ albums[a].sources = Declared(sheets[cue])
    BY DEF CompleteSheetsAreUsed, Complete, Robbed, Built
  <2> QED
    BY DEF CompletePlaced, AlbumDeclared
<1> QED
  BY <1>1, <1>2, <1>3, Invariance, PTL DEF Spec
=============================================================================
