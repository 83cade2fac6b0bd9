----------------------------- MODULE VirtualDir -----------------------------
(***************************************************************************)
(* What the VFS shows of one source directory: buildDirState and           *)
(* assignTrackFilenames (internal/vfs/build.go), the search for the audio  *)
(* of a cue sheet (resolve.go), the two readers of the result, resolve and *)
(* Readdir (fs.go), and the ways to a file whose name is in the other      *)
(* Unicode form (path_fallback.go). The directory rests; AlbumCache has it *)
(* change.                                                                 *)
(*                                                                         *)
(* A name is a stem, the numbers of the suffixes " (n)" added to it, an    *)
(* extension, and the form of its letters with accents: "plain" if it has  *)
(* none. A path is the names on it, from the directory: <<n>> is an entry, *)
(* and a longer one is below a subdirectory. The images considered are     *)
(* artwork.                                                                *)
(***************************************************************************)
EXTENDS Naturals, Sequences, FiniteSetsExt, TLC

CONSTANTS
  Files,    \* names of files that may be in the directory
  Subdirs,  \* names of real subdirectories that may be
  Cues,     \* names of cue sheets that may be
  Below,    \* paths of files that may be in the subdirectories
  Lost,     \* what the listing for the real names may lack: {} if it does not fail
  Sheets,   \* what a cue sheet may say; None if it cannot be parsed
  Compound, \* stems of disc names that hold a "/", as of DISCNUMBER 1/2
  Paths,    \* the forms that occur in the path of the directory, may be
  None

Forms == {"plain", "nfc", "nfd"}

IsName(n) ==
  /\ n = [stem |-> n.stem, suffixes |-> n.suffixes, ext |-> n.ext, form |-> n.form]
  /\ n.suffixes \in Seq(Nat) /\ n.form \in Forms

IsPath(p) == p \in Seq(Range(p)) /\ p # <<>> /\ \A i \in DOMAIN p : IsName(p[i])

\* A sheet asks for a directory name, disc, by its number or its own name, or for
\* None. Its FILEs each declare a path or None; its tracks, in order, each belong to
\* one of them, have the name formatTrackFilename gives them and perhaps an INDEX 01.
IsSheet(s) ==
  /\ s.disc = None \/ IsName(s.disc)
  /\ s.files \in Seq(Range(s.files))
  /\ \A f \in DOMAIN s.files : s.files[f] = None \/ IsPath(s.files[f])
  /\ s.tracks \in Seq(Range(s.tracks))
  /\ \A i \in DOMAIN s.tracks : LET t == s.tracks[i] IN
       IsName(t.name) /\ t.file \in DOMAIN s.files /\ t.indexed \in BOOLEAN

ASSUME DirAssumption ==
  /\ IsFiniteSet(Files \cup Subdirs \cup Cues)
  /\ None \notin Files \cup Subdirs \cup Cues
  /\ \A n \in Files \cup Subdirs \cup Cues : IsName(n) /\ n.stem \notin Compound
  /\ \A p \in Below : IsPath(p) /\ Len(p) > 1 /\ p[1] \in Subdirs
  /\ \A s \in Sheets \ {None} : IsSheet(s)
  /\ Paths \subseteq SUBSET {"nfc", "nfd"}

VARIABLES
  entries,    \* the real entries of the directory
  below,      \* the files in its subdirectories
  sheets,     \* the cue sheets' contents
  path,       \* the forms of the names on the path of the directory
  keepAlbum,  \* v.keepAlbum
  todo,       \* cue sheets buildDirState has not read yet
  reading,    \* the one it is reading, or None
  found,      \* sourcePaths: the audio of the FILEs of that one that are done
  claimed,    \* claimedAudios
  albums,     \* the albums found so far: their cue sheets and sources
  state       \* the DirState, None before it is begun (and if it stays nil)

vars == <<entries, below, sheets, path, keepAlbum, todo, reading, found, claimed, albums, state>>
disk == <<entries, below, sheets, path, keepAlbum>>

-----------------------------------------------------------------------------
AddSuffix(name, n) == [name EXCEPT !.suffixes = Append(@, n)]
WithExt(name, ext) == [name EXCEPT !.ext = ext]

InForm(name, form) == IF name.form = "plain" THEN name ELSE [name EXCEPT !.form = form]
Nfc(name) == InForm(name, "nfc")

AudioExts == {"flac", "wav"}
ArtworkExts == {"jpg"}

RealFiles == entries \ Subdirs

\* What the build has of the directory when it gives names: an error of the listing
\* is ignored, so that entries may be missing.
RealNames == {Nfc(n) : n \in state.listed}
Artwork == {n \in state.listed \ Subdirs : n.ext \in ArtworkExts}

-----------------------------------------------------------------------------
(* Paths: the program has that of the directory in NFC, and a normalization *)
(* is of the path as a whole.                                               *)

BaseOf(p) == p[Len(p)]
PathIn(p, form) == [i \in DOMAIN p |-> InForm(p[i], form)]

FilePaths == {<<n>> : n \in RealFiles} \cup below
There == {<<n>> : n \in entries} \cup below

\* os.Stat and os.Open by that path.
Exact(p) == path \subseteq {"nfc"} /\ p \in There

\* statPath, lstatSyscall and openRealFile: what is found by the path as it is, or
\* in NFD, or in NFC.
Lookup(p) ==
  IF Exact(p) THEN p
  ELSE IF path \subseteq {"nfd"} /\ PathIn(p, "nfd") \in There THEN PathIn(p, "nfd")
  ELSE IF Exact(PathIn(p, "nfc")) THEN PathIn(p, "nfc")
  ELSE None

\* statPath and readDir of the directory itself.
Reached == path # {"nfc", "nfd"}

-----------------------------------------------------------------------------
(* Sheets                                                                  *)

\* The FILEs that have tracks.
Used(sheet) == {sheet.tracks[i].file : i \in DOMAIN sheet.tracks}

Indexed(sheet, f) ==
  Cardinality({i \in DOMAIN sheet.tracks : sheet.tracks[i].file = f /\ sheet.tracks[i].indexed})

AlreadySplit(sheet) ==
  Len(sheet.files) > 1 /\ \A f \in DOMAIN sheet.files : Indexed(sheet, f) <= 1

Usable(sheet) == IF sheet = None THEN FALSE
                 ELSE sheet.tracks # <<>> /\ ~AlreadySplit(sheet)

-----------------------------------------------------------------------------
(* resolveAudioFileForCue *)

SameStem(name) == <<<<WithExt(name, "flac")>>, <<WithExt(name, "wav")>>>>

\* The paths that are tried: the declared one, the file of its name in the directory,
\* its stem with the extensions of audio files, the stem of the cue sheet with them.
Tries(cue, declared) ==
  (IF declared = None THEN <<>>
   ELSE <<declared, <<BaseOf(declared)>>>> \o SameStem(BaseOf(declared))) \o SameStem(cue)

\* The first of some paths that is a file and not taken.
FirstFile(tries, taken) ==
  LET there == {i \in DOMAIN tries : tries[i] \notin taken /\ Lookup(tries[i]) \in FilePaths}
  IN  IF there # {} THEN tries[Min(there)] ELSE None

Unclaimed(listed, taken) ==
  {<<n>> : n \in {m \in listed \ Subdirs : m.ext \in AudioExts /\ <<m>> \notin taken}}

BadFindAudio(cue, declared, taken, listed) ==
  LET first == FirstFile(Tries(cue, declared), {})
      unclaimed == Unclaimed(listed, taken)
  IN  IF first # None THEN first
      ELSE IF Cardinality(unclaimed) = 1 THEN CHOOSE p \in unclaimed : TRUE
      ELSE None

StemOfCueFirst(cue, declared, taken, listed) ==
  FirstFile(SameStem(cue) \o Tries(cue, declared), taken)

\* The first of these that is there and unclaimed, at last the only unclaimed audio
\* file that is listed. It is known by the spelling that was tried.
FindAudio(cue, declared, taken, listed) ==
  LET first == FirstFile(Tries(cue, declared), taken)
      unclaimed == Unclaimed(listed, taken)
  IN  IF first # None THEN first
      ELSE IF Cardinality(unclaimed) = 1 THEN CHOOSE p \in unclaimed : TRUE
      ELSE None

-----------------------------------------------------------------------------
(* Names for what is virtual *)

BadFree(name, taken) == IF name \notin taken THEN name ELSE AddSuffix(name, 2)

\* The name itself, or with the first suffix that makes it a new one.
Free(name, taken) ==
  IF name \notin taken THEN name
  ELSE AddSuffix(name, Min({n \in 2 .. Cardinality(taken) + 2 : AddSuffix(name, n) \notin taken}))

DefaultDisc(i) == [stem |-> "CD" \o ToString(i), suffixes |-> <<>>, ext |-> "", form |-> "plain"]

\* determineDiscDirName
DiscName(sheet, i) == IF sheet.disc = None THEN DefaultDisc(i) ELSE Nfc(sheet.disc)

-----------------------------------------------------------------------------
(* buildDirState; without an album it returns nil, and state stays None    *)

Init ==
  /\ \E fs \in SUBSET Files, ds \in SUBSET Subdirs, cs \in SUBSET Cues :
       /\ entries = fs \cup ds \cup cs
       /\ below \in SUBSET {p \in Below : p[1] \in ds}
       /\ sheets \in [cs -> Sheets]
       /\ path \in Paths
       /\ todo = IF Reached THEN cs ELSE {}
  /\ keepAlbum \in BOOLEAN
  /\ reading = None
  /\ found = <<>>
  /\ claimed = {}
  /\ albums = <<>>
  /\ state = None

\* A sheet that cannot be opened or parsed, has no tracks, or is split per track.
SkipCue(cue) ==
  /\ reading = None
  /\ ~Exact(<<cue>>) \/ ~Usable(sheets[cue])
  /\ todo' = todo \ {cue}
  /\ UNCHANGED <<disk, reading, found, claimed, albums, state>>

\* The loop over the FILEs of any other.
OpenCue(cue) ==
  /\ reading = None
  /\ Exact(<<cue>>) /\ Usable(sheets[cue])
  /\ reading' = cue
  /\ UNCHANGED <<disk, todo, found, claimed, albums, state>>

\* The next FILE with tracks, and the audio for it, from a listing that works or fails.
Listings == {entries, {}}
NextFile == Min(Used(sheets[reading]) \ DOMAIN found)
NextAudio(listed) ==
  FindAudio(reading, sheets[reading].files[NextFile], claimed \cup Range(found), listed)

AllFound == DOMAIN found = Used(sheets[reading])

\* os.Stat has no fallback.
FindSource ==
  /\ reading # None /\ ~AllFound
  /\ \E listed \in Listings :
       /\ NextAudio(listed) # None /\ Exact(NextAudio(listed))
       /\ found' = [f \in DOMAIN found \cup {NextFile} |->
                      IF f = NextFile THEN NextAudio(listed) ELSE found[f]]
  /\ UNCHANGED <<disk, todo, reading, claimed, albums, state>>

Finish == todo' = todo \ {reading} /\ reading' = None /\ found' = <<>>

\* A sheet one of whose audio files is not there is skipped; it keeps no claim.
SkipMissing ==
  /\ reading # None /\ ~AllFound
  /\ \E listed \in Listings : NextAudio(listed) = None \/ ~Exact(NextAudio(listed))
  /\ Finish
  /\ UNCHANGED <<disk, claimed, albums, state>>

BadAddAlbum ==
  /\ reading # None /\ AllFound
  /\ albums' = Append(albums, [cue |-> reading, sources |-> found])
  /\ Finish
  /\ UNCHANGED <<disk, state, claimed>>

\* The album of a sheet whose audio was found.
AddAlbum ==
  /\ reading # None /\ AllFound
  /\ albums' = Append(albums, [cue |-> reading, sources |-> found])
  /\ claimed' = claimed \cup Range(found)
  /\ Finish
  /\ UNCHANGED <<disk, state>>

Sources == UNION {Range(albums[a].sources) : a \in DOMAIN albums}

BadHidden == {n \in RealFiles : n.ext \in AudioExts}

\* HiddenMonoliths: the names of the sources, in whatever directory they are.
Hidden == {Nfc(BaseOf(p)) : p \in Sources}

TracksOf(a) == sheets[albums[a].cue].tracks

\* One album is shown beside the real entries; of several each has a virtual
\* subdirectory, with the artwork mirrored in it.
Flat == Len(albums) = 1
Mirrored == {Nfc(n) : n \in Artwork}
Occupied == IF Flat THEN RealNames ELSE Mirrored

\* dirs[a] is the subdirectory of album a and names[a][i] the name of its i-th track.
Collect ==
  /\ todo = {} /\ state = None /\ albums # <<>>
  /\ \E lost \in Lost :
       state' = [hidden |-> Hidden, listed |-> entries \ lost,
                 dirs |-> <<>>, names |-> IF Flat THEN <<<<>>>> ELSE <<>>]
  /\ UNCHANGED <<disk, todo, reading, found, claimed, albums>>

\* Are all tracks of the albums begun so far named?
NamesDone == \A a \in DOMAIN state.names : Len(state.names[a]) = Len(TracksOf(a))

BadAddSubdir ==
  /\ state # None /\ NamesDone /\ Len(state.names) < Len(albums)
  /\ LET a == Len(state.dirs) + 1
         name == Free(DiscName(sheets[albums[a].cue], a), RealNames)
     IN state' = [state EXCEPT !.dirs = Append(@, name), !.names = Append(@, <<>>)]
  /\ UNCHANGED <<disk, todo, reading, found, claimed, albums>>

\* The loop over several albums.
AddSubdir ==
  /\ state # None /\ NamesDone /\ Len(state.names) < Len(albums)
  /\ LET a == Len(state.dirs) + 1
         name == Free(DiscName(sheets[albums[a].cue], a), RealNames \cup Range(state.dirs))
     IN state' = [state EXCEPT !.dirs = Append(@, name), !.names = Append(@, <<>>)]
  /\ UNCHANGED <<disk, todo, reading, found, claimed, albums>>

\* The loop of assignTrackFilenames.
NameTrack ==
  /\ state # None /\ ~NamesDone
  /\ LET a == Len(state.names)
         track == TracksOf(a)[Len(state.names[a]) + 1]
         name == Free(Nfc(track.name), Occupied \cup Range(state.names[a]))
     IN state' = [state EXCEPT !.names[a] = Append(@, name)]
  /\ UNCHANGED <<disk, todo, reading, found, claimed, albums>>

Next ==
  \/ \E cue \in todo : SkipCue(cue) \/ OpenCue(cue)
  \/ FindSource \/ SkipMissing \/ AddAlbum
  \/ Collect \/ AddSubdir \/ NameTrack

Spec == Init /\ [][Next]_vars

-----------------------------------------------------------------------------
(* What the state is read for                                              *)

Real(n) == [kind |-> "real", what |-> n]
Track(a, i) == [kind |-> "track", what |-> <<a, i>>]
Dir(n) == [kind |-> "dir", what |-> n]
Absent == [kind |-> "absent", what |-> None]

\* A map keeps the last value that it is given for a name.
At(names, n) == Max({i \in DOMAIN names : names[i] = n})

IsHidden(n) == state # None /\ ~keepAlbum /\ n \in state.hidden

ListedDirs == IF state = None THEN {} ELSE Range(state.dirs)
IsSubdir(n) == n \in ListedDirs /\ n.stem \notin Compound

\* TracksByName of the directory itself, and of the virtual subdirectory d.
ListedTracks == IF state # None /\ Flat THEN Range(state.names[1]) ELSE {}
NamesIn(d) == state.names[At(state.dirs, d)]

OnDisk(n) == IF Lookup(<<n>>) \in There THEN Real(BaseOf(Lookup(<<n>>))) ELSE Absent

\* resolve and Getattr for an entry of the directory: what its path leads to,
\* which cleanNormPath puts into NFC. No element of a path is a compound name.
Resolve(name) ==
  LET n == Nfc(name) IN
  IF IsSubdir(n) THEN Dir(n)
  ELSE IF IsHidden(n) THEN Absent
  ELSE IF n \in ListedTracks THEN Track(1, At(state.names[1], n))
  ELSE OnDisk(n)

\* ... and for an entry of a virtual subdirectory.
ResolveIn(d, name) ==
  LET n == Nfc(name) IN
  IF n \in Range(NamesIn(d)) THEN Track(At(state.dirs, d), At(NamesIn(d), n))
  ELSE IF n \in Mirrored THEN Real(CHOOSE m \in Artwork : Nfc(m) = n)
  ELSE Absent

\* Readdir: the names it fills in are these and the virtual ones, three lists that
\* are not compared.
ListedReal == {n \in entries : Reached /\ ~IsHidden(Nfc(n))}

-----------------------------------------------------------------------------
(* Properties *)

Built ==
  /\ todo = {}
  /\ albums # <<>> => state # None
  /\ state # None => NamesDone /\ Len(state.names) = Len(albums)

\* The variables keep the shape of the code's data: what is being read is still to
\* do, and the sources of the albums are claimed files.
TypeOK ==
  /\ entries \subseteq Files \cup Subdirs \cup Cues
  /\ todo \subseteq Cues
  /\ reading \in todo \cup {None}
  /\ \A p \in below : p[1] \in entries
  /\ Range(found) \subseteq There
  /\ Sources = claimed /\ claimed \subseteq There

\* The names of a path have one form, and no two entries differ in it only.
OneForm ==
  /\ \A n, m \in entries : Nfc(n) = Nfc(m) => n = m
  /\ Reached /\ (path # {} => \A n \in entries : n.form \in path \cup {"plain"})

\* The build is done, and the listing it took the real names from did not fail.
Named == Built /\ (state # None => state.listed = entries)

\* Hidden by the name of a source in a subdirectory.
HiddenByNamesake(n) ==
  IsHidden(n) /\ \E p \in Sources : Len(p) > 1 /\ n = Nfc(BaseOf(p))

\* A directory listing names everything once, and each name leads to what it
\* was listed for: no virtual name takes the place of a real one, of another
\* track, of a disc or of mirrored artwork, with and without --keep-album,
\* whatever the form of the names on the disk, as long as it is one. The exception
\* is a track with the name of a source in a subdirectory: it is listed, and hidden.
ListingIsFaithful ==
  Named =>
    /\ OneForm => \A n \in ListedReal : Resolve(n) = Real(n)
    /\ \A n \in ListedReal : Nfc(n) \notin ListedTracks \cup ListedDirs
    /\ \A n \in ListedTracks : Resolve(n).kind = "track" \/ HiddenByNamesake(n)
    /\ \A d \in ListedDirs : Resolve(d) = Dir(d)
    /\ OneForm => \A d \in ListedDirs : \A n \in Artwork : ResolveIn(d, n) = Real(n)

\* Every real entry that is not cut into tracks is passed through: it can be
\* found in the directory, unless a source in a subdirectory has its name.
RealEntriesSurvive ==
  Named /\ OneForm =>
    \A n \in entries :
      Resolve(n) = Real(n) \/ <<n>> \in Sources \/ HiddenByNamesake(Nfc(n))

\* The paths below the directory that end in the name of a track, and what such a
\* path leads to.
TrackPaths ==
  {<<n>> : n \in ListedTracks}
    \cup UNION {{<<d, n>> : n \in Range(NamesIn(d))} : d \in {m \in ListedDirs : IsSubdir(m)}}

LeadsTo(p) == IF Len(p) = 1 THEN Resolve(p[1]) ELSE ResolveIn(p[1], p[2])

\* Every track of every album can be found, under exactly one path, however
\* many tracks, albums and files ask for one name. The exception is, in the
\* directory itself, a track with the name of a source in a subdirectory.
EveryTrackHasOnePath ==
  Named =>
    \A a \in DOMAIN albums : \A i \in DOMAIN TracksOf(a) :
      \/ Flat /\ HiddenByNamesake(state.names[a][i])
      \/ \E p \in TrackPaths :
           /\ LeadsTo(p) = Track(a, i)
           /\ \A q \in TrackPaths : LeadsTo(q) = Track(a, i) => q = p

\* No audio file is the source of two albums, or of two FILEs of one.
SourcesAreExclusive ==
  \A a, b \in DOMAIN albums :
    \A f \in DOMAIN albums[a].sources : \A g \in DOMAIN albums[b].sources :
      albums[a].sources[f] = albums[b].sources[g] => a = b /\ f = g

\* What the FILEs with tracks of a sheet declare.
Declared(sheet) == [f \in Used(sheet) |-> sheet.files[f]]

UsableCues == {cue \in DOMAIN sheets : Usable(sheets[cue])}

\* A sheet declares a file for every FILE, each one of its own, and no other usable
\* sheet declares one of them.
DeclaresItsOwn(cue) ==
  LET d1 == Declared(sheets[cue]) IN
  \A f \in DOMAIN d1 :
    /\ d1[f] # None
    /\ \A other \in UsableCues : LET d2 == Declared(sheets[other]) IN
         \A g \in DOMAIN d2 :
           d2[g] # None /\ PathIn(d1[f], "nfc") = PathIn(d2[g], "nfc") => other = cue /\ g = f

\* FILE f of an album was not given what it declares: that is not there, or some album
\* has it.
FellBack(a, f) ==
  LET declared == sheets[albums[a].cue].files[f] IN
  /\ albums[a].sources[f] # declared
  /\ declared # None /\ declared \in FilePaths => declared \in Sources

\* A sheet that declares files of its own which are all there becomes an album of
\* just these, in whatever order the sheets are read. Only an album that had to fall
\* back on a file that it does not declare may have taken one of them before.
CompleteSheetsAreUsed ==
  Built /\ path \subseteq {"nfc"} =>
    \A cue \in UsableCues :
      DeclaresItsOwn(cue) /\ Range(Declared(sheets[cue])) \subseteq FilePaths =>
        \E a \in DOMAIN albums :
          \/ albums[a].cue = cue /\ albums[a].sources = Declared(sheets[cue])
          \/ /\ albums[a].cue # cue
             /\ \E f \in DOMAIN albums[a].sources :
                  /\ FellBack(a, f)
                  /\ albums[a].sources[f] \in Range(Declared(sheets[cue]))

\* "Files stored in either NFC or NFD ... are found regardless of the caller's
\* normalization form": so are those that a cue sheet declares.
FoundInAnyForm ==
  Built /\ (\A cue \in UsableCues :
              DeclaresItsOwn(cue) /\ \A p \in Range(Declared(sheets[cue])) :
                \E q \in FilePaths : PathIn(q, "nfc") = PathIn(p, "nfc")) =>
    \A cue \in UsableCues : \E a \in DOMAIN albums : albums[a].cue = cue
=============================================================================
