---------------------------- MODULE CueSheetProofs ----------------------------
(***************************************************************************)
(* Theorems about CueSheet for sheets of any length with any commands in   *)
(* any order, and for audio of any length, format and kind.                *)
(*                                                                         *)
(* What the parser has built is related to the commands read so far by the *)
(* counts FilesSaid and TracksSaid. How these grow by a command comes      *)
(* first; then the inductive invariant IInv, which says that the files and *)
(* tracks are those counted, that their times are those of the indices     *)
(* counted into them, and that ends follow from starts and pre-gaps; then  *)
(* what it implies. The quality cap and the estimates need only arithmetic *)
(* on top of it. The texts have an invariant of their own, TextsPlaced,    *)
(* which adds to TextArrives where the commands put what arrives.          *)
(***************************************************************************)
EXTENDS CueSheet, CueTextProofs, FiniteSetTheorems

-----------------------------------------------------------------------------
(* The inductive invariant                                                 *)

\* The texts of tracks are first parameters of the sheet, or there is none.
TrackTexts == {<<>>} \cup {Decode(RawParams(i)[1], charset) : i \in Texts}

SheetTrack ==
  [num : Int, start : Nat, end : Nat, pregap : Nat, indexed : BOOLEAN,
   title : TrackTexts, performer : TrackTexts, songwriter : TrackTexts]

\* What the phases are about.
PhasesPlaced ==
  /\ sheet \in Seq(Command) /\ encoding \in Encodings /\ charset \in DOMAIN Codes
  /\ length \in Lengths
  /\ phase \in {"splitting", "reading", "parsed", "built"}
  /\ at \in 0 .. Len(sheet)
  /\ phase = "splitting" => at = 0
  /\ phase \in {"parsed", "built"} => at = Len(sheet)
  /\ IF phase = "built" THEN audio \in Audios /\ cap \in Caps ELSE audio = NoAudio /\ cap = Unknown
  /\ inTrack \in BOOLEAN
  /\ files \in Seq(Seq(SheetTrack))

\* The files and tracks so far are those that the commands so far say.
TracksPlaced ==
  /\ Len(files) = FilesSaid(at)
  /\ inTrack <=> TracksSaid(at) > 0
  /\ files # <<>> => Len(files[Len(files)]) = TracksSaid(at)
  /\ \A i \in 1 .. at : FilesSaid(i) > 0 => TracksSaid(i) <= Len(files[FilesSaid(i)])
  /\ \A f \in DOMAIN files : \A t \in DOMAIN files[f] :
       \E i \in 1 .. at : sheet[i].cmd = "TRACK" /\ Said(i, f, t)

\* In no file but its first track has a PREGAP.
PregapsAtStart ==
  \A i \in DOMAIN sheet :
    sheet[i].cmd = "PREGAP" /\ sheet[i].time # BadTime => TracksSaid(i) <= 1

\* The times so far are where the sheet says.
TimesPlaced ==
  Orderly /\ PregapsAtStart =>
    /\ \A i \in 1 .. at : sheet[i].cmd = "INDEX" =>
         LET track == files[FilesSaid(i)][TracksSaid(i)] IN
         /\ sheet[i].num = 1 => track.start = sheet[i].time
         /\ sheet[i].num = 0 /\ TracksSaid(i) > 1 => track.pregap = sheet[i].time
    /\ \A f \in DOMAIN files : \A t \in DOMAIN files[f] :
         t > 1 /\ files[f][t].pregap # 0 =>
           \E i \in 1 .. at : sheet[i].cmd = "INDEX" /\ sheet[i].num = 0 /\ Said(i, f, t)

\* Tracks end only after the sheet is read.
EndsPlaced ==
  \A f \in DOMAIN files : \A t \in DOMAIN files[f] :
    /\ phase \in {"splitting", "reading"} => files[f][t].end = 0
    /\ phase \in {"parsed", "built"} /\ t < Len(files[f]) => files[f][t].end = End(files[f], t)
    /\ phase = "parsed" /\ t = Len(files[f]) => files[f][t].end = 0
    /\ phase = "built" /\ t = Len(files[f]) => files[f][t].end \in {0, length}

IInv == PhasesPlaced /\ TracksPlaced /\ TimesPlaced /\ EndsPlaced

-----------------------------------------------------------------------------
(* Counting commands                                                       *)

\* A set of numbers up to a bound has a greatest one.
LEMMA GreatestNumber ==
  ASSUME NEW n \in Nat, NEW S \in SUBSET (1 .. n), S # {}
  PROVE  Max(S) \in S /\ \A y \in S : y <= Max(S)
<1> DEFINE below == {n - x : x \in S}
<1>1. below \in SUBSET Nat /\ below # {}
  <2>1. \A x \in S : x \in 1 .. n /\ n - x \in Nat
    OBVIOUS
  <2> QED
    BY <2>1
<1>2. PICK m \in below : \A k \in below : m <= k
  <2> HIDE DEF below
  <2> QED BY <1>1, LeastNumber
<1>3. PICK x \in S : m = n - x
  BY <1>2
<1>4. \A y \in S : x >= y
  <2> TAKE y \in S
  <2>1. m <= n - y
    BY <1>2
  <2> QED
    BY <1>3, <2>1
<1>5. Max(S) \in S /\ \A y \in S : Max(S) >= y
  BY <1>4 DEF Max
<1> QED
  BY <1>5

LEMMA FiniteInterval ==
  ASSUME NEW i \in Nat, NEW S \in SUBSET (1 .. i)
  PROVE  IsFiniteSet(S) /\ Cardinality(S) \in Nat
<1>1. IsFiniteSet(1 .. i)
  BY FS_Interval
<1> QED
  BY <1>1, FS_Subset, FS_CardinalityType

LEMMA CountsAreNat ==
  ASSUME NEW i \in Nat
  PROVE  FilesSaid(i) \in Nat /\ TracksSaid(i) \in Nat
  BY FiniteInterval DEF FilesSaid, TracksSaid

\* Before the first command no file and no track is said.
LEMMA NothingSaid == FilesSaid(0) = 0 /\ TracksSaid(0) = 0
<1>1. 1 .. 0 = {}
  OBVIOUS
<1>2. {j \in 1 .. 0 : OpensFile(j)} = {}
  BY <1>1
<1>3. {j \in 1 .. 0 : sheet[j].cmd = "TRACK" /\ \A k \in j .. 0 : sheet[k].cmd # "FILE"} = {}
  BY <1>1
<1> QED
  BY <1>2, <1>3, FS_EmptySet DEF FilesSaid, TracksSaid

\* What one more command says.
LEMMA OneMoreFile ==
  ASSUME NEW i \in Nat
  PROVE  FilesSaid(i + 1) = FilesSaid(i) + (IF OpensFile(i + 1) THEN 1 ELSE 0)
<1> DEFINE S == {j \in 1 .. i : OpensFile(j)}
           T == {j \in 1 .. i + 1 : OpensFile(j)}
<1>1. IsFiniteSet(S) /\ Cardinality(S) \in Nat
  BY FiniteInterval
<1>2. T = IF OpensFile(i + 1) THEN S \cup {i + 1} ELSE S
  <2>1. 1 .. i + 1 = (1 .. i) \cup {i + 1}
    OBVIOUS
  <2> QED
    BY <2>1
<1>3. i + 1 \notin S
  OBVIOUS
<1> HIDE DEF S, T
<1>4. Cardinality(S \cup {i + 1}) = Cardinality(S) + 1
  BY <1>1, <1>3, FS_AddElement
<1>5. Cardinality(T) = Cardinality(S) + (IF OpensFile(i + 1) THEN 1 ELSE 0)
  BY <1>1, <1>2, <1>4
<1> QED
  BY <1>5 DEF FilesSaid, S, T

LEMMA OneMoreTrack ==
  ASSUME NEW i \in Nat
  PROVE  TracksSaid(i + 1) =
           IF sheet[i + 1].cmd = "FILE" THEN 0
           ELSE TracksSaid(i) + (IF sheet[i + 1].cmd = "TRACK" THEN 1 ELSE 0)
<1> DEFINE S == {j \in 1 .. i : sheet[j].cmd = "TRACK" /\ \A k \in j .. i : sheet[k].cmd # "FILE"}
           T == {j \in 1 .. i + 1 :
                   sheet[j].cmd = "TRACK" /\ \A k \in j .. i + 1 : sheet[k].cmd # "FILE"}
<1>1. IsFiniteSet(S) /\ Cardinality(S) \in Nat
  BY FiniteInterval
<1>2. i + 1 \notin S
  OBVIOUS
<1>3. T = IF sheet[i + 1].cmd = "FILE" THEN {}
          ELSE IF sheet[i + 1].cmd = "TRACK" THEN S \cup {i + 1} ELSE S
  <2>1. \A j \in 1 .. i + 1 : i + 1 \in j .. i + 1
    OBVIOUS
  <2>2. \A j \in 1 .. i : j .. i + 1 = (j .. i) \cup {i + 1}
    OBVIOUS
  <2>3. 1 .. i + 1 = (1 .. i) \cup {i + 1} /\ (i + 1) .. (i + 1) = {i + 1}
    OBVIOUS
  <2>4. CASE sheet[i + 1].cmd = "FILE"
    BY <2>1, <2>4
  <2>5. CASE sheet[i + 1].cmd # "FILE"
    <3>1. \A j \in 1 .. i : j \in T <=> j \in S
      BY <2>2, <2>3, <2>5
    <3>2. i + 1 \in T <=> sheet[i + 1].cmd = "TRACK"
      BY <2>3, <2>5
    <3>3. T \subseteq (1 .. i) \cup {i + 1} /\ S \subseteq 1 .. i
      BY <2>3
    <3>4. \A j : j \in T <=> j \in S \/ (j = i + 1 /\ sheet[i + 1].cmd = "TRACK")
      <4> HIDE DEF S, T
      <4> QED BY <3>1, <3>2, <3>3, <1>2
    <3> HIDE DEF S, T
    <3> QED
      BY <3>4, <2>5
  <2> QED
    BY <2>4, <2>5
<1> HIDE DEF S, T
<1>4. Cardinality(S \cup {i + 1}) = Cardinality(S) + 1
  BY <1>1, <1>2, FS_AddElement
<1>5. Cardinality(T) = IF sheet[i + 1].cmd = "FILE" THEN 0
                       ELSE Cardinality(S) + (IF sheet[i + 1].cmd = "TRACK" THEN 1 ELSE 0)
  BY <1>1, <1>3, <1>4, FS_EmptySet
<1> QED
  BY <1>5 DEF TracksSaid, S, T

\* Later commands say no fewer files, and of the same file no fewer tracks.
LEMMA FilesGrow ==
  ASSUME NEW i \in Nat, NEW j \in Nat, i <= j
  PROVE  FilesSaid(i) <= FilesSaid(j)
<1>1. {k \in 1 .. i : OpensFile(k)} \in SUBSET {k \in 1 .. j : OpensFile(k)}
  OBVIOUS
<1> QED
  BY <1>1, FiniteInterval, FS_Subset DEF FilesSaid

LEMMA TracksGrow ==
  ASSUME NEW i \in Nat, NEW j \in Nat, i <= j, FilesSaid(i) = FilesSaid(j)
  PROVE  TracksSaid(i) <= TracksSaid(j)
<1>1. ASSUME NEW k \in i + 1 .. j, OpensFile(k) PROVE FALSE
  <2>1. FilesSaid(k) = FilesSaid(k - 1) + 1 /\ FilesSaid(k - 1) \in Nat
    BY <1>1, OneMoreFile, CountsAreNat
  <2>2. FilesSaid(i) <= FilesSaid(k - 1) /\ FilesSaid(k) <= FilesSaid(j)
    BY FilesGrow
  <2> QED
    BY <2>1, <2>2, CountsAreNat
<1>2. \A k \in i + 1 .. j : sheet[k].cmd # "FILE"
  BY <1>1 DEF OpensFile
<1> DEFINE S(m) == {k \in 1 .. m : sheet[k].cmd = "TRACK" /\ \A l \in k .. m : sheet[l].cmd # "FILE"}
<1>3. \A k \in 1 .. i : k .. j = (k .. i) \cup (i + 1 .. j)
  OBVIOUS
<1>4. S(i) \in SUBSET S(j)
  BY <1>2, <1>3
<1>5. IsFiniteSet(S(j)) /\ IsFiniteSet(S(i))
  BY FiniteInterval
<1> HIDE DEF S
<1>6. Cardinality(S(i)) <= Cardinality(S(j))
  BY <1>4, <1>5, FS_Subset
<1> QED
  BY <1>6 DEF TracksSaid, S

\* The first FILE or TRACK opens a file.
LEMMA FirstFile ==
  ASSUME NEW i \in Nat
  PROVE  FilesSaid(i) = 0 <=> \A j \in 1 .. i : sheet[j].cmd \notin {"FILE", "TRACK"}
<1> DEFINE S == {j \in 1 .. i : OpensFile(j)}
           C == {j \in 1 .. i : sheet[j].cmd \in {"FILE", "TRACK"}}
<1>1. FilesSaid(i) = 0 <=> S = {}
  BY FiniteInterval, FS_EmptySet DEF FilesSaid
<1>2. S \subseteq C
  BY DEF OpensFile
<1>3. ASSUME C # {} PROVE S # {}
  <2>1. PICK x \in C : \A y \in C : x <= y
    <3>1. C \in SUBSET Nat
      OBVIOUS
    <3> HIDE DEF C
    <3> QED BY <1>3, <3>1, LeastNumber
  <2>2. \A j \in 1 .. x - 1 : sheet[j].cmd \notin {"FILE", "TRACK"}
    <3> SUFFICES ASSUME NEW j \in 1 .. x - 1, sheet[j].cmd \in {"FILE", "TRACK"} PROVE FALSE
      OBVIOUS
    <3>1. j \in C
      OBVIOUS
    <3> QED
      BY <2>1, <3>1
  <2>3. OpensFile(x)
    BY <2>1, <2>2 DEF OpensFile
  <2> QED
    BY <2>3
<1> QED
  BY <1>1, <1>2, <1>3

LEMMA TracksAreInFiles ==
  ASSUME NEW i \in Nat, TracksSaid(i) > 0
  PROVE  FilesSaid(i) > 0
<1>1. {j \in 1 .. i : sheet[j].cmd = "TRACK" /\ \A k \in j .. i : sheet[k].cmd # "FILE"} # {}
  BY FS_EmptySet DEF TracksSaid
<1>2. FilesSaid(i) # 0
  BY <1>1, FirstFile
<1> QED
  BY <1>2, CountsAreNat

\* Only the sheet and the length decide what the sheet says.
LEMMA SheetSaysTheSame ==
  ASSUME UNCHANGED <<sheet, length>>
  PROVE  /\ \A i : FilesSaid(i)' = FilesSaid(i) /\ TracksSaid(i)' = TracksSaid(i)
         /\ Orderly' = Orderly /\ PregapsAtStart' = PregapsAtStart
  BY DEF FilesSaid, TracksSaid, OpensFile, Said, Orderly, PregapsAtStart

-----------------------------------------------------------------------------
(* The files of the sheet so far                                           *)

\* Commands are records with a name, and times are numbers or unparsable.
LEMMA Commands ==
  ASSUME PhasesPlaced, NEW i \in DOMAIN sheet
  PROVE  /\ sheet[i] \in Command
         /\ sheet[i].cmd \in {"INDEX", "PREGAP"} => sheet[i].time \in Nat \cup {BadTime}
         /\ sheet[i].cmd = "INDEX" => sheet[i].num \in Nat
         /\ sheet[i].cmd = "TRACK" => sheet[i].num \in Int
<1>1. sheet[i] \in Command
  BY DEF PhasesPlaced
<1> QED
  BY <1>1 DEF Command, TextCommands, TrackCommands, RemCommands

\* The files are sequences of tracks.
LEMMA TrackShape ==
  ASSUME PhasesPlaced
  PROVE  /\ Len(files) \in Nat /\ DOMAIN files = 1 .. Len(files)
         /\ \A f \in DOMAIN files :
              /\ files[f] \in Seq(SheetTrack)
              /\ Len(files[f]) \in Nat /\ DOMAIN files[f] = 1 .. Len(files[f])
              /\ \A t \in DOMAIN files[f] :
                   /\ files[f][t] \in SheetTrack
                   /\ files[f][t].start \in Nat /\ files[f][t].end \in Nat
                   /\ files[f][t].pregap \in Nat /\ files[f][t].indexed \in BOOLEAN
                   /\ files[f][t].num \in Int
<1>1. files \in Seq(Seq(SheetTrack))
  BY DEF PhasesPlaced
<1>2. \A t \in SheetTrack : /\ t.start \in Nat /\ t.end \in Nat /\ t.pregap \in Nat
                            /\ t.indexed \in BOOLEAN /\ t.num \in Int
  BY DEF SheetTrack
<1> HIDE DEF SheetTrack
<1>3. \A f \in DOMAIN files : files[f] \in Seq(SheetTrack)
  BY <1>1
<1>4. \A f \in DOMAIN files : \A t \in DOMAIN files[f] : files[f][t] \in SheetTrack
  BY <1>3
<1> QED
  BY <1>1, <1>2, <1>3, <1>4

\* A command in a track points to one that is there.
LEMMA PointedTrack ==
  ASSUME PhasesPlaced, TracksPlaced, NEW i \in 1 .. at, TracksSaid(i) > 0
  PROVE  /\ FilesSaid(i) \in DOMAIN files
         /\ TracksSaid(i) \in DOMAIN files[FilesSaid(i)]
<1>1. at \in Nat /\ i \in Nat /\ i <= at
  BY DEF PhasesPlaced
<1>2. FilesSaid(i) > 0 /\ FilesSaid(i) <= FilesSaid(at)
  BY <1>1, TracksAreInFiles, FilesGrow
<1>3. FilesSaid(i) \in Nat /\ TracksSaid(i) \in Nat
  BY <1>1, CountsAreNat
<1>4. FilesSaid(i) <= Len(files) /\ TracksSaid(i) <= Len(files[FilesSaid(i)])
  BY <1>2 DEF TracksPlaced
<1>5. FilesSaid(i) \in DOMAIN files
  BY <1>2, <1>3, <1>4, TrackShape
<1> QED
  BY <1>3, <1>4, <1>5, TrackShape

\* The current track is the one the next command points to, and is there.
LEMMA CurrentTrack ==
  ASSUME PhasesPlaced, TracksPlaced, inTrack
  PROVE  /\ Len(files) \in DOMAIN files
         /\ Len(files[Len(files)]) \in DOMAIN files[Len(files)]
         /\ CurTrack = files[Len(files)][Len(files[Len(files)])]
         /\ CurTrack \in SheetTrack
<1>1. at \in Nat /\ TracksSaid(at) > 0
  BY DEF PhasesPlaced, TracksPlaced
<1>2. FilesSaid(at) > 0
  BY <1>1, TracksAreInFiles
<1>3. Len(files) > 0
  BY <1>2 DEF TracksPlaced
<1>4. Len(files) \in DOMAIN files /\ files # <<>>
  BY <1>3, TrackShape
<1>5. Len(files[Len(files)]) \in DOMAIN files[Len(files)]
  BY <1>1, <1>4, TrackShape DEF TracksPlaced
<1> QED
  BY <1>4, <1>5, TrackShape DEF CurTrack, Last

LEMMA SetTrackStep ==
  ASSUME NEW Track, files \in Seq(Seq(Track)), NEW track \in Track,
         Len(files) \in DOMAIN files,
         Len(files[Len(files)]) \in DOMAIN files[Len(files)],
         SetTrack(track)
  PROVE  /\ files' \in Seq(Seq(Track)) /\ DOMAIN files' = DOMAIN files
         /\ Len(files') = Len(files)
         /\ \A f \in DOMAIN files :
              /\ Len(files'[f]) = Len(files[f]) /\ DOMAIN files'[f] = DOMAIN files[f]
              /\ \A t \in DOMAIN files[f] :
                   files'[f][t] = IF f = Len(files) /\ t = Len(files[f]) THEN track ELSE files[f][t]
<1> DEFINE n == Len(files)
           old == files[n]
           new == [old EXCEPT ![Len(old)] = track]
<1>1. files' = [files EXCEPT ![n] = new]
  BY DEF SetTrack
<1>2. old \in Seq(Track) /\ n \in DOMAIN files
  OBVIOUS
<1>3. /\ new \in Seq(Track) /\ Len(new) = Len(old) /\ DOMAIN new = DOMAIN old
      /\ \A t \in DOMAIN old : new[t] = IF t = Len(old) THEN track ELSE old[t]
  <2> HIDE DEF old, n
  <2> QED BY <1>2 DEF n, old
<1> HIDE DEF new
<1>4. /\ files' \in Seq(Seq(Track)) /\ Len(files') = n /\ DOMAIN files' = DOMAIN files
      /\ \A f \in DOMAIN files : files'[f] = IF f = n THEN new ELSE files[f]
  BY <1>1, <1>2, <1>3
<1> QED
  BY <1>3, <1>4

-----------------------------------------------------------------------------
(* Each action preserves the invariant                                     *)

\* The same files and tracks as before, and perhaps different fields.
SameTracks ==
  /\ DOMAIN files' = DOMAIN files /\ Len(files') = Len(files)
  /\ \A f \in DOMAIN files : DOMAIN files'[f] = DOMAIN files[f] /\ Len(files'[f]) = Len(files[f])

\* What a command that neither opens a file nor a track leaves as it is.
LEMMA OtherCommand ==
  ASSUME PhasesPlaced, TracksPlaced, at < Len(sheet), Read,
         sheet[at + 1].cmd \notin {"FILE", "TRACK"}
  PROVE  /\ FilesSaid(at + 1) = FilesSaid(at) /\ TracksSaid(at + 1) = TracksSaid(at)
         /\ SameTracks /\ inTrack' = inTrack => TracksPlaced'
<1>1. at \in Nat /\ at' = at + 1 /\ UNCHANGED <<sheet, length>>
  BY DEF PhasesPlaced, Read
<1>2. FilesSaid(at + 1) = FilesSaid(at) /\ TracksSaid(at + 1) = TracksSaid(at)
  <2>1. ~OpensFile(at + 1)
    BY DEF OpensFile
  <2>2. FilesSaid(at) \in Nat /\ TracksSaid(at) \in Nat
    BY <1>1, CountsAreNat
  <2>3. FilesSaid(at + 1) = FilesSaid(at) + 0
    BY <1>1, <2>1, OneMoreFile
  <2>4. TracksSaid(at + 1) = TracksSaid(at) + 0
    BY <1>1, OneMoreTrack
  <2> QED
    BY <2>2, <2>3, <2>4
<1>3. ASSUME SameTracks, inTrack' = inTrack PROVE TracksPlaced'
  <2>1. \A i : FilesSaid(i)' = FilesSaid(i) /\ TracksSaid(i)' = TracksSaid(i)
    BY <1>1, SheetSaysTheSame
  <2>2. FilesSaid(at)' = FilesSaid(at + 1) /\ TracksSaid(at)' = TracksSaid(at + 1)
    BY <1>1, <2>1
  <2>3. Len(files') = FilesSaid(at)' /\ (inTrack' <=> TracksSaid(at)' > 0)
    BY <1>2, <1>3, <2>2 DEF TracksPlaced, SameTracks
  <2>4. files' # <<>> => Len(files'[Len(files')]) = TracksSaid(at)'
    <3>1. files' # <<>> => files # <<>> /\ Len(files) \in DOMAIN files
      BY <1>3, TrackShape DEF SameTracks
    <3> QED
      BY <1>2, <1>3, <2>2, <3>1 DEF TracksPlaced, SameTracks
  <2>5. ASSUME NEW i \in 1 .. at', FilesSaid(i)' > 0
        PROVE  TracksSaid(i)' <= Len(files'[FilesSaid(i)'])
    <3>1. FilesSaid(i)' = FilesSaid(i) /\ TracksSaid(i)' = TracksSaid(i)
      BY <2>1
    <3>2. i \in 1 .. at \/ i = at + 1
      BY <1>1
    <3>3. FilesSaid(i) \in Nat /\ FilesSaid(i) <= Len(files) /\ TracksSaid(i) <= Len(files[FilesSaid(i)])
      <4>1. CASE i \in 1 .. at
        <5>1. i \in Nat /\ i <= at
          BY <1>1, <4>1
        <5>2. FilesSaid(i) \in Nat /\ FilesSaid(i) <= FilesSaid(at)
          BY <1>1, <5>1, CountsAreNat, FilesGrow
        <5> QED
          BY <2>5, <3>1, <4>1, <5>2 DEF TracksPlaced
      <4>2. CASE i = at + 1
        <5>1. FilesSaid(i) = Len(files) /\ Len(files) > 0 /\ TracksSaid(i) = TracksSaid(at)
          BY <1>2, <2>5, <3>1, <4>2 DEF TracksPlaced
        <5>2. files # <<>>
          BY <5>1, TrackShape
        <5>3. Len(files[Len(files)]) = TracksSaid(at) /\ TracksSaid(at) \in Nat
          BY <1>1, <5>2, CountsAreNat DEF TracksPlaced
        <5> QED
          BY <5>1, <5>3, TrackShape
      <4> QED
        BY <3>2, <4>1, <4>2
    <3>4. FilesSaid(i) \in DOMAIN files
      BY <2>5, <3>1, <3>3, TrackShape
    <3> QED
      BY <1>3, <3>1, <3>3, <3>4 DEF SameTracks
  <2>6. ASSUME NEW f \in DOMAIN files', NEW t \in DOMAIN files'[f]
        PROVE  \E i \in 1 .. at' : sheet'[i].cmd = "TRACK" /\ Said(i, f, t)'
    <3>1. f \in DOMAIN files /\ t \in DOMAIN files[f]
      BY <1>3 DEF SameTracks
    <3>2. PICK i \in 1 .. at : sheet[i].cmd = "TRACK" /\ Said(i, f, t)
      BY <3>1 DEF TracksPlaced
    <3> QED
      BY <1>1, <2>1, <3>2 DEF Said
  <2> QED
    BY <2>3, <2>4, <2>5, <2>6 DEF TracksPlaced
<1> QED
  BY <1>2, <1>3

\* Steps that read no index and keep starts, and pre-gaps but of first tracks.
LEMMA TimesKept ==
  ASSUME PhasesPlaced, TracksPlaced, TimesPlaced, UNCHANGED <<sheet, length>>,
         at' \in {at, at + 1}, at' \in DOMAIN sheet \cup {0},
         at' = at + 1 => sheet[at + 1].cmd # "INDEX",
         \A f \in DOMAIN files : \A t \in DOMAIN files[f] :
            /\ f \in DOMAIN files' /\ t \in DOMAIN files'[f]
            /\ files'[f][t].start = files[f][t].start
            /\ PregapsAtStart /\ t > 1 => files'[f][t].pregap = files[f][t].pregap,
         \A f \in DOMAIN files' : \A t \in DOMAIN files'[f] :
            \/ f \in DOMAIN files /\ t \in DOMAIN files[f]
            \/ files'[f][t].pregap = 0
  PROVE  TimesPlaced'
<1>1. /\ \A i : FilesSaid(i)' = FilesSaid(i) /\ TracksSaid(i)' = TracksSaid(i)
      /\ Orderly' = Orderly /\ PregapsAtStart' = PregapsAtStart
  BY SheetSaysTheSame
<1>2. SUFFICES ASSUME Orderly, PregapsAtStart
      PROVE  /\ \A i \in 1 .. at' : sheet[i].cmd = "INDEX" =>
                   LET track == files'[FilesSaid(i)][TracksSaid(i)] IN
                   /\ sheet[i].num = 1 => track.start = sheet[i].time
                   /\ sheet[i].num = 0 /\ TracksSaid(i) > 1 => track.pregap = sheet[i].time
             /\ \A f \in DOMAIN files' : \A t \in DOMAIN files'[f] :
                   t > 1 /\ files'[f][t].pregap # 0 =>
                     \E i \in 1 .. at' : sheet[i].cmd = "INDEX" /\ sheet[i].num = 0 /\ Said(i, f, t)
  BY <1>1 DEF TimesPlaced, Said
<1>3. at \in Nat /\ at <= Len(sheet) /\ DOMAIN sheet = 1 .. Len(sheet) /\ Len(sheet) \in Nat
  BY DEF PhasesPlaced
<1>4. ASSUME NEW i \in 1 .. at', sheet[i].cmd = "INDEX"
      PROVE  LET track == files'[FilesSaid(i)][TracksSaid(i)] IN
             /\ sheet[i].num = 1 => track.start = sheet[i].time
             /\ sheet[i].num = 0 /\ TracksSaid(i) > 1 => track.pregap = sheet[i].time
  <2>1. i \in 1 .. at
    BY <1>3, <1>4
  <2>2. TracksSaid(i) > 0
    BY <1>2, <1>3, <1>4, <2>1 DEF Orderly
  <2>3. FilesSaid(i) \in DOMAIN files /\ TracksSaid(i) \in DOMAIN files[FilesSaid(i)]
    BY <2>1, <2>2, PointedTrack
  <2>4. LET track == files[FilesSaid(i)][TracksSaid(i)] IN
        /\ sheet[i].num = 1 => track.start = sheet[i].time
        /\ sheet[i].num = 0 /\ TracksSaid(i) > 1 => track.pregap = sheet[i].time
    BY <1>2, <1>4, <2>1 DEF TimesPlaced
  <2> QED
    BY <1>2, <2>3, <2>4
<1>5. ASSUME NEW f \in DOMAIN files', NEW t \in DOMAIN files'[f], t > 1, files'[f][t].pregap # 0
      PROVE  \E i \in 1 .. at' : sheet[i].cmd = "INDEX" /\ sheet[i].num = 0 /\ Said(i, f, t)
  <2>1. f \in DOMAIN files /\ t \in DOMAIN files[f]
    BY <1>5
  <2>2. files[f][t].pregap # 0
    BY <1>2, <1>5, <2>1
  <2>3. PICK i \in 1 .. at : sheet[i].cmd = "INDEX" /\ sheet[i].num = 0 /\ Said(i, f, t)
    BY <1>2, <1>5, <2>1, <2>2 DEF TimesPlaced
  <2> QED
    BY <1>3, <2>3
<1> QED
  BY <1>4, <1>5

LEMMA InitIInv == Init => IInv
<1> SUFFICES ASSUME Init PROVE IInv
  OBVIOUS
<1>1. files = <<>> /\ DOMAIN files = {} /\ Len(files) = 0 /\ at = 0 /\ 1 .. at = {}
  BY DEF Init
<1>2. PhasesPlaced
  <2>1. sheet \in Seq(Command) /\ encoding \in Encodings
    BY SheetAssumption DEF Init, SheetAssumption
  <2>2. charset \in DOMAIN Codes
    BY CodesListed DEF Init
  <2>3. files \in Seq(Seq(SheetTrack)) /\ at \in 0 .. Len(sheet)
    <3>1. Len(sheet) \in Nat
      BY <2>1
    <3> HIDE DEF SheetTrack
    <3> QED
      BY <1>1, <3>1
  <2> QED
    BY <1>1, <2>1, <2>2, <2>3 DEF Init, PhasesPlaced
<1>3. TracksPlaced
  BY <1>1, NothingSaid DEF Init, TracksPlaced
<1>4. TimesPlaced /\ EndsPlaced
  BY <1>1 DEF TimesPlaced, EndsPlaced
<1> QED
  BY <1>2, <1>3, <1>4 DEF IInv

\* The texts of tracks do not change while commands are read.
LEMMA ReadingTypes ==
  ASSUME PhasesPlaced, phase = "reading", at < Len(sheet), Read, inTrack' \in BOOLEAN,
         files' \in Seq(Seq(SheetTrack))
  PROVE  PhasesPlaced'
<1>1. SheetTrack' = SheetTrack
  BY DEF SheetTrack, TrackTexts, Texts, RawParams, Read
<1>2. at' \in 0 .. Len(sheet)'
  BY DEF PhasesPlaced, Read
<1> HIDE DEF SheetTrack
<1> QED
  BY <1>1, <1>2 DEF PhasesPlaced, Read

\* What a command is about that opens a file or a track.
LEMMA ReadFileStep ==
  ASSUME IInv, ReadFile
  PROVE  IInv'
<1> DEFINE n == Len(files)
<1>1. /\ at \in Nat /\ at' = at + 1 /\ at < Len(sheet) /\ sheet[at + 1].cmd = "FILE"
      /\ UNCHANGED <<sheet, length, phase>> /\ inTrack' = FALSE /\ files' = Append(files, <<>>)
      /\ phase = "reading" /\ PhasesPlaced /\ TracksPlaced /\ TimesPlaced /\ EndsPlaced /\ Read
      /\ Len(sheet) \in Nat /\ DOMAIN sheet = 1 .. Len(sheet)
  BY DEF IInv, PhasesPlaced, ReadFile, Reading, Read
<1>2. /\ files' \in Seq(Seq(SheetTrack)) /\ Len(files') = n + 1 /\ DOMAIN files' = 1 .. n + 1
      /\ n \in Nat /\ DOMAIN files = 1 .. n
      /\ files'[n + 1] = <<>> /\ DOMAIN files'[n + 1] = {}
      /\ \A f \in 1 .. n : files'[f] = files[f]
  <2>1. files \in Seq(Seq(SheetTrack))
    BY <1>1 DEF PhasesPlaced
  <2> HIDE DEF SheetTrack
  <2> QED
    BY <1>1, <2>1
<1> HIDE DEF n
<1>3. PhasesPlaced'
  BY <1>1, <1>2, ReadingTypes DEF n
<1>old. ASSUME NEW f \in DOMAIN files', NEW t \in DOMAIN files'[f]
      PROVE  f \in DOMAIN files /\ t \in DOMAIN files[f] /\ files'[f] = files[f]
  <2>1. CASE f = n + 1
    BY <1>2, <2>1
  <2>2. CASE f \in 1 .. n
    BY <1>2, <2>2
  <2>3. f = n + 1 \/ f \in 1 .. n
    BY <1>2
  <2> QED
    BY <2>1, <2>2, <2>3
<1>4. /\ FilesSaid(at)' = n + 1 /\ TracksSaid(at)' = 0
      /\ \A i : FilesSaid(i)' = FilesSaid(i) /\ TracksSaid(i)' = TracksSaid(i)
  <2>1. OpensFile(at + 1)
    BY <1>1 DEF OpensFile
  <2>2. FilesSaid(at + 1) = FilesSaid(at) + 1 /\ FilesSaid(at) = n
    BY <1>1, <2>1, OneMoreFile DEF TracksPlaced, n
  <2>3. TracksSaid(at + 1) = 0
    BY <1>1, OneMoreTrack
  <2> QED
    BY <1>1, <2>2, <2>3, SheetSaysTheSame
<1>5. TracksPlaced'
  <2>1. Len(files') = FilesSaid(at)' /\ (inTrack' <=> TracksSaid(at)' > 0)
    BY <1>1, <1>2, <1>4
  <2>2. files' # <<>> => Len(files'[Len(files')]) = TracksSaid(at)'
    BY <1>2, <1>4
  <2>3. ASSUME NEW i \in 1 .. at', FilesSaid(i)' > 0
        PROVE  TracksSaid(i)' <= Len(files'[FilesSaid(i)'])
    <3>1. CASE i \in 1 .. at
      <4>1. i \in Nat /\ i <= at
        BY <1>1, <3>1
      <4>2. FilesSaid(i) \in 1 .. n
        <5>1. FilesSaid(i) \in Nat /\ FilesSaid(i) <= FilesSaid(at)
          BY <1>1, <4>1, CountsAreNat, FilesGrow
        <5>2. FilesSaid(i) > 0 /\ FilesSaid(at) = n
          BY <1>1, <1>4, <2>3 DEF TracksPlaced, n
        <5> QED
          BY <1>2, <5>1, <5>2
      <4>3. TracksSaid(i) <= Len(files[FilesSaid(i)])
        BY <1>1, <3>1, <4>2 DEF TracksPlaced
      <4> QED
        BY <1>2, <1>4, <4>2, <4>3
    <3>2. CASE i = at + 1
      <4>1. FilesSaid(i) = n + 1 /\ TracksSaid(i) = 0
        BY <1>1, <1>4, <3>2
      <4> QED
        BY <1>2, <1>4, <4>1
    <3>3. i \in 1 .. at \/ i = at + 1
      BY <1>1
    <3> QED
      BY <3>1, <3>2, <3>3
  <2>4. ASSUME NEW f \in DOMAIN files', NEW t \in DOMAIN files'[f]
        PROVE  \E i \in 1 .. at' : sheet'[i].cmd = "TRACK" /\ Said(i, f, t)'
    <3>1. f \in DOMAIN files /\ t \in DOMAIN files[f]
      BY <1>old
    <3>2. PICK i \in 1 .. at : sheet[i].cmd = "TRACK" /\ Said(i, f, t)
      BY <1>1, <3>1 DEF TracksPlaced
    <3> QED
      BY <1>1, <1>4, <3>2 DEF Said
  <2> QED
    BY <2>1, <2>2, <2>3, <2>4 DEF TracksPlaced
<1>6. TimesPlaced'
  <2>1. at' \in DOMAIN sheet
    BY <1>1
  <2>2. \A f \in DOMAIN files' : \A t \in DOMAIN files'[f] : f \in DOMAIN files /\ t \in DOMAIN files[f]
    BY <1>old
  <2> QED
    BY <1>1, <1>2, <2>1, <2>2, TimesKept
<1>7. EndsPlaced'
  <2>1. \A f \in DOMAIN files' : \A t \in DOMAIN files'[f] :
          f \in DOMAIN files /\ t \in DOMAIN files[f] /\ files'[f] = files[f]
    BY <1>old
  <2> QED
    BY <1>1, <2>1 DEF EndsPlaced
<1> QED
  BY <1>3, <1>5, <1>6, <1>7 DEF IInv

LEMMA ReadTrackStep ==
  ASSUME IInv, ReadTrack
  PROVE  IInv'
<1> DEFINE fs == IF files = <<>> THEN <<<<>>>> ELSE files
           n == Len(fs)
           m == Len(fs[n])
           track == NewTrack(sheet[at + 1].num)
<1>1. /\ at \in Nat /\ at' = at + 1 /\ at < Len(sheet) /\ sheet[at + 1].cmd = "TRACK"
      /\ UNCHANGED <<sheet, length, phase>> /\ inTrack' = TRUE
      /\ files' = [fs EXCEPT ![n] = Append(fs[n], track)]
      /\ phase = "reading" /\ PhasesPlaced /\ TracksPlaced /\ TimesPlaced /\ EndsPlaced /\ Read
      /\ Len(sheet) \in Nat /\ DOMAIN sheet = 1 .. Len(sheet)
  BY DEF IInv, PhasesPlaced, ReadTrack, Reading, Read
<1>2. track \in SheetTrack /\ track.pregap = 0 /\ track.end = 0
  <2>1. sheet[at + 1].num \in Int
    BY <1>1, Commands
  <2> QED
    BY <2>1 DEF NewTrack, SheetTrack, TrackTexts
<1>3. /\ fs \in Seq(Seq(SheetTrack)) /\ n \in Nat /\ n > 0 /\ DOMAIN fs = 1 .. n
      /\ fs[n] \in Seq(SheetTrack) /\ m \in Nat /\ DOMAIN fs[n] = 1 .. m
      /\ \A f \in DOMAIN files : f \in DOMAIN fs /\ fs[f] = files[f]
      /\ \A f \in DOMAIN fs : f \in DOMAIN files \/ (f = n /\ m = 0)
      /\ \A f \in DOMAIN fs : Len(fs[f]) \in Nat /\ DOMAIN fs[f] = 1 .. Len(fs[f])
  <2>1. files \in Seq(Seq(SheetTrack))
    BY <1>1 DEF PhasesPlaced
  <2> HIDE DEF SheetTrack
  <2>2. CASE files = <<>>
    <3>1. fs = <<<<>>>> /\ n = 1 /\ fs[n] = <<>> /\ m = 0 /\ DOMAIN files = {}
      BY <2>2
    <3>2. <<>> \in Seq(SheetTrack) /\ Len(<<>>) = 0 /\ DOMAIN fs = 1 .. 1
      BY <3>1
    <3>3. fs \in Seq(Seq(SheetTrack))
      BY <3>1, <3>2
    <3> HIDE DEF fs, n, m
    <3> QED
      BY <3>1, <3>2, <3>3
  <2>3. CASE files # <<>>
    <3>1. fs = files /\ n = Len(files) /\ n \in Nat /\ DOMAIN files = 1 .. n
      BY <2>1, <2>3
    <3>2. n > 0 /\ n \in DOMAIN files
      BY <2>1, <2>3, <3>1
    <3>3. \A f \in DOMAIN files : files[f] \in Seq(SheetTrack)
      BY <2>1
    <3>4. \A q \in Seq(SheetTrack) : Len(q) \in Nat /\ DOMAIN q = 1 .. Len(q)
      OBVIOUS
    <3> HIDE DEF fs, n, SheetTrack
    <3> QED
      BY <2>1, <3>1, <3>2, <3>3, <3>4
  <2> QED
    BY <2>2, <2>3
<1>4. /\ n = FilesSaid(at + 1) /\ m + 1 = TracksSaid(at + 1)
      /\ n = (IF files = <<>> THEN 1 ELSE FilesSaid(at)) /\ m = TracksSaid(at)
  <2>1. TracksSaid(at + 1) = TracksSaid(at) + 1 /\ TracksSaid(at) \in Nat /\ FilesSaid(at) \in Nat
    BY <1>1, OneMoreTrack, CountsAreNat
  <2>2. files = <<>> <=> FilesSaid(at) = 0
    BY <1>1, TrackShape DEF TracksPlaced, PhasesPlaced
  <2>3. OpensFile(at + 1) <=> FilesSaid(at) = 0
    <3>1. FilesSaid(at) = 0 <=> \A j \in 1 .. at : sheet[j].cmd \notin {"FILE", "TRACK"}
      BY <1>1, FirstFile
    <3>2. 1 .. (at + 1) - 1 = 1 .. at
      BY <1>1
    <3> QED
      BY <1>1, <3>1, <3>2 DEF OpensFile
  <2>4. FilesSaid(at + 1) = FilesSaid(at) + (IF FilesSaid(at) = 0 THEN 1 ELSE 0)
    BY <1>1, <2>3, OneMoreFile
  <2>5. CASE files = <<>>
    <3>1. TracksSaid(at) = 0
      BY <1>1, <2>1, <2>2, <2>5, TracksAreInFiles
    <3>2. n = 1 /\ m = 0
      BY <2>5
    <3> QED
      BY <2>1, <2>2, <2>4, <2>5, <3>1, <3>2
  <2>6. CASE files # <<>>
    <3>1. n = FilesSaid(at) /\ m = TracksSaid(at)
      BY <1>1, <2>6 DEF TracksPlaced
    <3> QED
      BY <2>1, <2>2, <2>4, <2>6, <3>1
  <2> QED
    BY <2>5, <2>6
<1> HIDE DEF n, m, fs, track
<1>5. /\ files' \in Seq(Seq(SheetTrack)) /\ Len(files') = n /\ DOMAIN files' = 1 .. n
      /\ \A f \in 1 .. n : f # n => files'[f] = fs[f]
      /\ Len(files'[n]) = m + 1 /\ DOMAIN files'[n] = 1 .. m + 1 /\ files'[n][m + 1] = track
      /\ \A t \in 1 .. m : files'[n][t] = fs[n][t]
  <2> DEFINE new == Append(fs[n], track)
  <2>1. /\ new \in Seq(SheetTrack) /\ Len(new) = m + 1 /\ DOMAIN new = 1 .. m + 1
        /\ new[m + 1] = track /\ \A t \in 1 .. m : new[t] = fs[n][t]
    <3> HIDE DEF SheetTrack
    <3> QED BY <1>2, <1>3 DEF m
  <2> HIDE DEF new, SheetTrack
  <2>2. files' = [fs EXCEPT ![n] = new]
    BY <1>1 DEF new
  <2>3. /\ files' \in Seq(Seq(SheetTrack)) /\ Len(files') = n /\ DOMAIN files' = 1 .. n
        /\ \A f \in 1 .. n : files'[f] = IF f = n THEN new ELSE fs[f]
    BY <1>3, <2>1, <2>2 DEF n
  <2> QED
    BY <1>3, <2>1, <2>3
<1>6. /\ FilesSaid(at)' = n /\ TracksSaid(at)' = m + 1
      /\ \A i : FilesSaid(i)' = FilesSaid(i) /\ TracksSaid(i)' = TracksSaid(i)
  BY <1>1, <1>4, SheetSaysTheSame
<1>7. \A f \in DOMAIN files : \A t \in DOMAIN files[f] :
        f \in DOMAIN files' /\ t \in DOMAIN files'[f] /\ files'[f][t] = files[f][t]
  <2> SUFFICES ASSUME NEW f \in DOMAIN files, NEW t \in DOMAIN files[f]
               PROVE  f \in DOMAIN files' /\ t \in DOMAIN files'[f] /\ files'[f][t] = files[f][t]
    OBVIOUS
  <2>1. f \in 1 .. n /\ fs[f] = files[f]
    BY <1>3
  <2>2. CASE f = n
    BY <1>3, <1>5, <2>1, <2>2 DEF m
  <2>3. CASE f # n
    BY <1>5, <2>1, <2>3
  <2> QED
    BY <2>2, <2>3
<1>8. \A f \in DOMAIN files' : \A t \in DOMAIN files'[f] :
        \/ f \in DOMAIN files /\ t \in DOMAIN files[f]
        \/ f = n /\ t = m + 1
  <2> SUFFICES ASSUME NEW f \in DOMAIN files', NEW t \in DOMAIN files'[f], ~(f = n /\ t = m + 1)
               PROVE  f \in DOMAIN files /\ t \in DOMAIN files[f]
    OBVIOUS
  <2>1. f \in 1 .. n /\ f \in DOMAIN fs
    BY <1>3, <1>5
  <2>2. CASE f = n
    <3>1. t \in 1 .. m
      BY <1>3, <1>5, <2>2
    <3> QED
      BY <1>3, <2>1, <2>2, <3>1
  <2>3. CASE f # n
    BY <1>3, <1>5, <2>1, <2>3
  <2> QED
    BY <2>2, <2>3
<1>9. PhasesPlaced'
  BY <1>1, <1>5, ReadingTypes
<1>10. TracksPlaced'
  <2>1. Len(files') = FilesSaid(at)' /\ (inTrack' <=> TracksSaid(at)' > 0)
    BY <1>1, <1>3, <1>5, <1>6
  <2>2. files' # <<>> => Len(files'[Len(files')]) = TracksSaid(at)'
    BY <1>5, <1>6
  <2>3. ASSUME NEW i \in 1 .. at', FilesSaid(i)' > 0
        PROVE  TracksSaid(i)' <= Len(files'[FilesSaid(i)'])
    <3>1. CASE i \in 1 .. at
      <4>1. i \in Nat /\ i <= at
        BY <1>1, <3>1
      <4>2. FilesSaid(i) \in Nat /\ FilesSaid(i) > 0 /\ FilesSaid(i) <= Len(files) /\ TracksSaid(i) \in Nat
        <5>1. FilesSaid(i) \in Nat /\ FilesSaid(i) <= FilesSaid(at) /\ TracksSaid(i) \in Nat
          BY <1>1, <4>1, CountsAreNat, FilesGrow
        <5> QED
          BY <1>1, <1>6, <2>3, <5>1 DEF TracksPlaced
      <4>3. FilesSaid(i) \in DOMAIN files /\ TracksSaid(i) <= Len(files[FilesSaid(i)])
        BY <1>1, <3>1, <4>2, TrackShape DEF TracksPlaced
      <4>4. FilesSaid(i) \in 1 .. n /\ TracksSaid(i) <= Len(fs[FilesSaid(i)])
        BY <1>3, <4>3
      <4>5. TracksSaid(i) <= Len(files'[FilesSaid(i)])
        <5>1. CASE FilesSaid(i) = n
          BY <1>3, <1>5, <4>2, <4>4, <5>1 DEF m
        <5>2. CASE FilesSaid(i) # n
          BY <1>5, <4>4, <5>2
        <5> QED
          BY <5>1, <5>2
      <4> QED
        BY <1>6, <4>5
    <3>2. CASE i = at + 1
      <4>1. FilesSaid(i) = n /\ TracksSaid(i) = m + 1
        BY <1>4, <3>2
      <4> QED
        BY <1>3, <1>5, <1>6, <4>1
    <3>3. i \in 1 .. at \/ i = at + 1
      BY <1>1
    <3> QED
      BY <3>1, <3>2, <3>3
  <2>4. ASSUME NEW f \in DOMAIN files', NEW t \in DOMAIN files'[f]
        PROVE  \E i \in 1 .. at' : sheet'[i].cmd = "TRACK" /\ Said(i, f, t)'
    <3>1. CASE f \in DOMAIN files /\ t \in DOMAIN files[f]
      <4>1. PICK i \in 1 .. at : sheet[i].cmd = "TRACK" /\ Said(i, f, t)
        BY <1>1, <3>1 DEF TracksPlaced
      <4> QED
        BY <1>1, <1>6, <4>1 DEF Said
    <3>2. CASE f = n /\ t = m + 1
      <4>1. PICK i \in 1 .. at' : i = at + 1
        BY <1>1
      <4>2. FilesSaid(i) = f /\ TracksSaid(i) = t /\ sheet'[i].cmd = "TRACK"
        BY <1>1, <1>4, <3>2, <4>1
      <4>3. Said(i, f, t)'
        BY <1>6, <4>2 DEF Said
      <4> QED
        BY <4>2, <4>3
    <3> QED
      BY <1>8, <3>1, <3>2
  <2> QED
    BY <2>1, <2>2, <2>3, <2>4 DEF TracksPlaced
<1>11. TimesPlaced'
  <2>1. at' \in DOMAIN sheet
    BY <1>1
  <2>2. \A f \in DOMAIN files' : \A t \in DOMAIN files'[f] :
          (f \in DOMAIN files /\ t \in DOMAIN files[f]) \/ files'[f][t].pregap = 0
    BY <1>2, <1>5, <1>8
  <2> QED
    BY <1>1, <1>7, <2>1, <2>2, TimesKept
<1>12. EndsPlaced'
  <2>1. \A f \in DOMAIN files' : \A t \in DOMAIN files'[f] : files'[f][t].end = 0
    BY <1>1, <1>2, <1>5, <1>7, <1>8 DEF EndsPlaced
  <2> QED
    BY <1>1, <2>1 DEF EndsPlaced
<1> QED
  BY <1>9, <1>10, <1>11, <1>12 DEF IInv

\* A command that changes nothing of the files, and one that sets fields of the
\* current track.
LEMMA FilesRest ==
  ASSUME IInv, phase = "reading", at < Len(sheet), Read, sheet[at + 1].cmd \notin {"FILE", "TRACK"},
         UNCHANGED <<files, inTrack>>
  PROVE  /\ PhasesPlaced' /\ TracksPlaced' /\ EndsPlaced'
         /\ sheet[at + 1].cmd # "INDEX" => TimesPlaced'
<1>1. PhasesPlaced /\ TracksPlaced /\ TimesPlaced /\ EndsPlaced /\ phase' = phase
  BY DEF IInv, Read
<1>2. PhasesPlaced'
  BY <1>1, ReadingTypes DEF PhasesPlaced
<1>3. TracksPlaced'
  BY <1>1, OtherCommand DEF SameTracks
<1>4. EndsPlaced'
  BY <1>1 DEF EndsPlaced
<1>5. at \in Nat /\ at' = at + 1 /\ at' \in DOMAIN sheet /\ UNCHANGED <<sheet, length>>
  BY <1>1 DEF Read, PhasesPlaced
<1>6. ASSUME sheet[at + 1].cmd # "INDEX" PROVE TimesPlaced'
  BY <1>1, <1>5, <1>6, TimesKept
<1> QED
  BY <1>2, <1>3, <1>4, <1>6

LEMMA FieldsSet ==
  ASSUME IInv, phase = "reading", at < Len(sheet), Read, sheet[at + 1].cmd \notin {"FILE", "TRACK"},
         inTrack, UNCHANGED inTrack,
         NEW track \in SheetTrack, track.end = CurTrack.end, SetTrack(track)
  PROVE  /\ PhasesPlaced' /\ TracksPlaced' /\ EndsPlaced'
         /\ /\ sheet[at + 1].cmd # "INDEX" /\ track.start = CurTrack.start
            /\ track.pregap # CurTrack.pregap /\ PregapsAtStart => TracksSaid(at) <= 1
            => TimesPlaced'
<1>1. PhasesPlaced /\ TracksPlaced /\ TimesPlaced /\ EndsPlaced /\ phase' = phase
  BY DEF IInv, Read
<1>2. /\ files' \in Seq(Seq(SheetTrack)) /\ SameTracks
      /\ \A f \in DOMAIN files : \A t \in DOMAIN files[f] :
           files'[f][t] = IF f = Len(files) /\ t = Len(files[f]) THEN track ELSE files[f][t]
  <2>1. files \in Seq(Seq(SheetTrack))
    BY <1>1 DEF PhasesPlaced
  <2> HIDE DEF SheetTrack
  <2> QED
    BY <1>1, <2>1, CurrentTrack, SetTrackStep DEF SameTracks
<1>3. CurTrack = files[Len(files)][Len(files[Len(files)])]
  BY <1>1, CurrentTrack
<1>4. PhasesPlaced'
  BY <1>1, <1>2, ReadingTypes DEF PhasesPlaced
<1>5. TracksPlaced'
  BY <1>1, <1>2, OtherCommand
<1>6. EndsPlaced'
  <2>1. \A f \in DOMAIN files : \A t \in DOMAIN files[f] : files'[f][t].end = 0
    BY <1>1, <1>2, <1>3 DEF EndsPlaced
  <2> QED
    BY <1>1, <1>2, <2>1 DEF EndsPlaced, SameTracks
<1>7. at \in Nat /\ at' = at + 1 /\ at' \in DOMAIN sheet /\ UNCHANGED <<sheet, length>>
  BY <1>1 DEF Read, PhasesPlaced
<1>8. ASSUME sheet[at + 1].cmd # "INDEX", track.start = CurTrack.start,
             track.pregap # CurTrack.pregap /\ PregapsAtStart => TracksSaid(at) <= 1
      PROVE  TimesPlaced'
  <2>1. ASSUME NEW f \in DOMAIN files, NEW t \in DOMAIN files[f]
        PROVE  /\ f \in DOMAIN files' /\ t \in DOMAIN files'[f]
               /\ files'[f][t].start = files[f][t].start
               /\ PregapsAtStart /\ t > 1 => files'[f][t].pregap = files[f][t].pregap
    <3>1. f \in DOMAIN files' /\ t \in DOMAIN files'[f]
      BY <1>2 DEF SameTracks
    <3>2. CASE f = Len(files) /\ t = Len(files[f])
      <4>1. files'[f][t] = track /\ files[f][t] = CurTrack
        BY <1>2, <1>3, <3>2
      <4>2. t = TracksSaid(at)
        <5>1. files # <<>>
          BY <1>1, TrackShape
        <5> QED
          BY <1>1, <3>2, <5>1 DEF TracksPlaced
      <4>3. t \in Nat
        BY <1>1, TrackShape
      <4> QED
        BY <1>8, <3>1, <4>1, <4>2, <4>3
    <3>3. CASE ~(f = Len(files) /\ t = Len(files[f]))
      BY <1>2, <3>1, <3>3
    <3> QED
      BY <3>2, <3>3
  <2>2. \A f \in DOMAIN files' : \A t \in DOMAIN files'[f] : f \in DOMAIN files /\ t \in DOMAIN files[f]
    BY <1>2 DEF SameTracks
  <2> QED
    BY <1>1, <1>7, <1>8, <2>1, <2>2, TimesKept
<1> QED
  BY <1>4, <1>5, <1>6, <1>8

LEMMA ReadPregapStep ==
  ASSUME IInv, ReadPregap
  PROVE  IInv'
<1>1. /\ phase = "reading" /\ at < Len(sheet) /\ Read /\ sheet[at + 1].cmd = "PREGAP"
      /\ inTrack' = inTrack /\ PhasesPlaced /\ TracksPlaced /\ at + 1 \in DOMAIN sheet /\ at \in Nat
  BY DEF ReadPregap, Reading, IInv, PhasesPlaced
<1>2. CASE UNCHANGED files
  BY <1>1, <1>2, FilesRest DEF IInv
<1>3. CASE Placed(sheet[at + 1]) /\ SetTrack([CurTrack EXCEPT !.pregap = sheet[at + 1].time])
  <2> DEFINE track == [CurTrack EXCEPT !.pregap = sheet[at + 1].time]
  <2>1. inTrack /\ sheet[at + 1].time \in Nat /\ sheet[at + 1].time # BadTime
    BY <1>1, <1>3, Commands DEF Placed
  <2>2. CurTrack \in SheetTrack
    BY <1>1, <2>1, CurrentTrack
  <2>3. track \in SheetTrack /\ track.end = CurTrack.end /\ track.start = CurTrack.start
    BY <2>1, <2>2 DEF SheetTrack
  <2>4. PregapsAtStart => TracksSaid(at) <= 1
    <3>1. TracksSaid(at + 1) = TracksSaid(at)
      BY <1>1, OtherCommand
    <3> QED
      BY <1>1, <2>1, <3>1 DEF PregapsAtStart
  <2> HIDE DEF track
  <2>5. SetTrack(track)
    BY <1>3 DEF track
  <2> QED
    BY <1>1, <2>1, <2>3, <2>4, <2>5, FieldsSet DEF IInv
<1> QED
  BY <1>2, <1>3 DEF ReadPregap

LEMMA ReadTextStep ==
  ASSUME IInv, NEW cmd \in TrackCommands, ReadText(cmd)
  PROVE  IInv'
<1>1. /\ phase = "reading" /\ at < Len(sheet) /\ Read /\ inTrack' = inTrack
      /\ sheet[at + 1].cmd = cmd /\ cmd \in {"TITLE", "PERFORMER", "SONGWRITER"}
      /\ Field[cmd] \in {"title", "performer", "songwriter"}
      /\ PhasesPlaced /\ TracksPlaced /\ at + 1 \in DOMAIN sheet
  BY DEF ReadText, Reading, IInv, PhasesPlaced, TrackCommands, Field
<1>2. CASE UNCHANGED files
  BY <1>1, <1>2, FilesRest DEF IInv
<1> DEFINE text == Decode(RawParams(at + 1)[1], charset)
<1>3. CASE inTrack /\ SetTrack([CurTrack EXCEPT ![Field[cmd]] = text])
  <2> DEFINE track == [CurTrack EXCEPT ![Field[cmd]] = text]
  <2>1. CurTrack \in SheetTrack
    BY <1>1, <1>3, CurrentTrack
  <2>2. text \in TrackTexts
    BY <1>1 DEF TrackTexts, Texts, TextCommands
  <2> HIDE DEF text
  <2>3. /\ track \in SheetTrack /\ track.end = CurTrack.end /\ track.start = CurTrack.start
        /\ track.pregap = CurTrack.pregap
    BY <1>1, <2>1, <2>2 DEF SheetTrack
  <2> HIDE DEF track
  <2>4. SetTrack(track)
    BY <1>3 DEF track
  <2> QED
    BY <1>1, <1>3, <2>3, <2>4, FieldsSet DEF IInv
<1> QED
  BY <1>2, <1>3 DEF ReadText

LEMMA ReadRemStep ==
  ASSUME IInv, NEW cmd \in RemCommands, ReadRem(cmd)
  PROVE  IInv'
  BY FilesRest DEF ReadRem, Reading, IInv, RemCommands

LEMMA ReadIndexStep ==
  ASSUME IInv, ReadIndex
  PROVE  IInv'
<1> DEFINE index == sheet[at + 1]
           track == IF index.num = 0 THEN [CurTrack EXCEPT !.pregap = index.time]
                    ELSE [CurTrack EXCEPT !.start = index.time, !.indexed = TRUE]
<1>1. /\ phase = "reading" /\ at < Len(sheet) /\ Read /\ index.cmd = "INDEX"
      /\ inTrack' = inTrack /\ at + 1 \in DOMAIN sheet /\ at \in Nat /\ at' = at + 1
      /\ UNCHANGED <<sheet, length>> /\ length \in Nat /\ length > 0
      /\ PhasesPlaced /\ TracksPlaced /\ TimesPlaced
  BY SheetAssumption DEF ReadIndex, Reading, IInv, PhasesPlaced, Read, SheetAssumption
<1>2. FilesSaid(at + 1) = FilesSaid(at) /\ TracksSaid(at + 1) = TracksSaid(at)
  BY <1>1, OtherCommand
<1>3. CASE ~(Placed(index) /\ index.num \in {0, 1})
  <2>1. UNCHANGED files
    BY <1>3 DEF ReadIndex
  <2>2. ~Orderly
    <3> SUFFICES ASSUME Orderly PROVE FALSE
      OBVIOUS
    <3>1. index.time \in 0 .. length - 1 /\ index.num \in {0, 1} /\ TracksSaid(at + 1) > 0
      BY <1>1 DEF Orderly
    <3>2. index.time # BadTime
      BY <1>1, <3>1, SheetAssumption DEF SheetAssumption
    <3>3. inTrack
      BY <1>1, <1>2, <3>1 DEF TracksPlaced
    <3> QED
      BY <1>3, <3>1, <3>2, <3>3 DEF Placed
  <2>3. TimesPlaced'
    BY <1>1, <2>2, SheetSaysTheSame DEF TimesPlaced
  <2> QED
    BY <1>1, <2>1, <2>3, FilesRest DEF IInv
<1>4. CASE Placed(index) /\ index.num \in {0, 1}
  <2>1. inTrack /\ index.time \in Nat
    BY <1>1, <1>4, Commands DEF Placed
  <2>2. CurTrack \in SheetTrack
    BY <1>1, <2>1, CurrentTrack
  <2>3. /\ track \in SheetTrack /\ track.end = CurTrack.end
        /\ index.num = 0 => track.pregap = index.time /\ track.start = CurTrack.start
        /\ index.num = 1 => track.start = index.time /\ track.pregap = CurTrack.pregap
    <3> DEFINE cur == CurTrack
               time == index.time
    <3> HIDE DEF index, cur, time
    <3>1. CASE index.num = 0
      <4>1. track = [cur EXCEPT !.pregap = time]
        BY <3>1 DEF cur, time
      <4> HIDE DEF track
      <4>2. /\ track \in SheetTrack /\ track.pregap = time
            /\ track.start = cur.start /\ track.end = cur.end
        BY <2>1, <2>2, <4>1 DEF SheetTrack, cur, time
      <4> QED
        BY <3>1, <4>2 DEF cur, time
    <3>2. CASE index.num = 1
      <4>1. track = [cur EXCEPT !.start = time, !.indexed = TRUE]
        BY <3>2 DEF cur, time
      <4> HIDE DEF track
      <4>2. /\ track \in SheetTrack /\ track.start = time
            /\ track.pregap = cur.pregap /\ track.end = cur.end
        BY <2>1, <2>2, <4>1 DEF SheetTrack, cur, time
      <4> QED
        BY <3>2, <4>2 DEF cur, time
    <3> QED
      BY <1>4, <3>1, <3>2
  <2>4. SetTrack(track)
    BY <1>4 DEF ReadIndex
  <2> HIDE DEF track
  <2>5. PhasesPlaced' /\ TracksPlaced' /\ EndsPlaced'
    BY <1>1, <2>1, <2>3, <2>4, FieldsSet
  <2> DEFINE n == Len(files)
             m == Len(files[n])
  <2>6. /\ n \in DOMAIN files /\ m \in DOMAIN files[n] /\ CurTrack = files[n][m]
        /\ n = FilesSaid(at + 1) /\ m = TracksSaid(at + 1)
    <3>1. n \in DOMAIN files /\ m \in DOMAIN files[n] /\ CurTrack = files[n][m]
      BY <1>1, <2>1, CurrentTrack
    <3>2. files # <<>>
      BY <1>1, <3>1, TrackShape
    <3> QED
      BY <1>1, <1>2, <3>1, <3>2 DEF TracksPlaced
  <2>7. /\ SameTracks
        /\ \A f \in DOMAIN files : \A t \in DOMAIN files[f] :
             files'[f][t] = IF f = n /\ t = m THEN track ELSE files[f][t]
    <3>1. files \in Seq(Seq(SheetTrack))
      BY <1>1 DEF PhasesPlaced
    <3> HIDE DEF SheetTrack
    <3> QED
      BY <2>3, <2>4, <2>6, <3>1, SetTrackStep DEF SameTracks
  <2>8. TimesPlaced'
    <3> HIDE DEF n, m
    <3>1. /\ \A i : FilesSaid(i)' = FilesSaid(i) /\ TracksSaid(i)' = TracksSaid(i)
          /\ Orderly' = Orderly /\ PregapsAtStart' = PregapsAtStart
      BY <1>1, SheetSaysTheSame
    <3>2. SUFFICES ASSUME Orderly, PregapsAtStart
          PROVE  /\ \A i \in 1 .. at + 1 : sheet[i].cmd = "INDEX" =>
                       LET new == files'[FilesSaid(i)][TracksSaid(i)] IN
                       /\ sheet[i].num = 1 => new.start = sheet[i].time
                       /\ sheet[i].num = 0 /\ TracksSaid(i) > 1 => new.pregap = sheet[i].time
                 /\ \A f \in DOMAIN files' : \A t \in DOMAIN files'[f] :
                       t > 1 /\ files'[f][t].pregap # 0 =>
                         \E i \in 1 .. at + 1 :
                           sheet[i].cmd = "INDEX" /\ sheet[i].num = 0 /\ Said(i, f, t)
      BY <1>1, <3>1 DEF TimesPlaced, Said
    <3>3. ASSUME NEW i \in 1 .. at + 1, sheet[i].cmd = "INDEX"
          PROVE  LET new == files'[FilesSaid(i)][TracksSaid(i)] IN
                 /\ sheet[i].num = 1 => new.start = sheet[i].time
                 /\ sheet[i].num = 0 /\ TracksSaid(i) > 1 => new.pregap = sheet[i].time
      <4>1. CASE i = at + 1
        <5>1. files'[FilesSaid(i)][TracksSaid(i)] = track
          BY <2>6, <2>7, <4>1
        <5> QED
          BY <2>3, <4>1, <5>1
      <4>2. CASE i # at + 1
        <5>1. i \in 1 .. at /\ i \in DOMAIN sheet /\ i < at + 1
          BY <1>1, <3>3, <4>2
        <5>2. TracksSaid(i) > 0
          BY <3>2, <3>3, <5>1 DEF Orderly
        <5>3. FilesSaid(i) \in DOMAIN files /\ TracksSaid(i) \in DOMAIN files[FilesSaid(i)]
          BY <1>1, <5>1, <5>2, PointedTrack
        <5>4. LET old == files[FilesSaid(i)][TracksSaid(i)] IN
              /\ sheet[i].num = 1 => old.start = sheet[i].time
              /\ sheet[i].num = 0 /\ TracksSaid(i) > 1 => old.pregap = sheet[i].time
          BY <1>1, <3>2, <3>3, <5>1 DEF TimesPlaced
        <5>5. CASE Said(i, n, m)
          <6>1. sheet[i].num = 0 /\ index.num = 1
            BY <1>1, <2>6, <3>2, <3>3, <5>1, <5>5 DEF Orderly, Said
          <6>2. files'[FilesSaid(i)][TracksSaid(i)] = track /\ files[FilesSaid(i)][TracksSaid(i)] = CurTrack
            BY <2>6, <2>7, <5>5 DEF Said
          <6> QED
            BY <2>3, <5>4, <6>1, <6>2
        <5>6. CASE ~Said(i, n, m)
          <6>1. files'[FilesSaid(i)][TracksSaid(i)] = files[FilesSaid(i)][TracksSaid(i)]
            BY <2>7, <5>3, <5>6 DEF Said
          <6> QED
            BY <5>4, <6>1
        <5> QED
          BY <5>5, <5>6
      <4> QED
        BY <4>1, <4>2
    <3>4. ASSUME NEW f \in DOMAIN files', NEW t \in DOMAIN files'[f], t > 1, files'[f][t].pregap # 0
          PROVE  \E i \in 1 .. at + 1 : sheet[i].cmd = "INDEX" /\ sheet[i].num = 0 /\ Said(i, f, t)
      <4>1. f \in DOMAIN files /\ t \in DOMAIN files[f]
        BY <2>7, <3>4 DEF SameTracks
      <4>2. CASE f = n /\ t = m /\ index.num = 0
        <5>1. at + 1 \in 1 .. at + 1 /\ Said(at + 1, f, t)
          BY <1>1, <2>6, <4>2 DEF Said
        <5> QED
          BY <1>1, <4>2, <5>1
      <4>3. CASE ~(f = n /\ t = m /\ index.num = 0)
        <5>1. files[f][t].pregap # 0
          BY <1>4, <2>3, <2>6, <2>7, <3>4, <4>1, <4>3
        <5>2. PICK i \in 1 .. at : sheet[i].cmd = "INDEX" /\ sheet[i].num = 0 /\ Said(i, f, t)
          BY <1>1, <3>2, <3>4, <4>1, <5>1 DEF TimesPlaced
        <5>3. i \in 1 .. at + 1
          BY <1>1
        <5> QED
          BY <5>2, <5>3
      <4> QED
        BY <4>2, <4>3
    <3> QED
      BY <3>3, <3>4
  <2> QED
    BY <2>5, <2>8 DEF IInv
<1> QED
  BY <1>3, <1>4

\* Nothing is said before the first command, so there are no files yet.
LEMMA SplitLinesStep ==
  ASSUME IInv, SplitLines
  PROVE  IInv'
<1>1. /\ phase = "splitting" /\ phase' = "reading"
      /\ UNCHANGED <<sheet, encoding, at, files, inTrack, length, audio, cap>>
      /\ PhasesPlaced /\ TracksPlaced /\ TimesPlaced /\ EndsPlaced
  BY DEF SplitLines, IInv
<1>2. charset' \in DOMAIN Codes
  <2>1. charset' \in {"utf-8", Charset(encoding)}
    BY DEF SplitLines, DetectEncoding
  <2> QED
    BY <1>1, <2>1, CodesListed DEF PhasesPlaced, Charset, Encodings
<1>3. files' = <<>>
  <2>1. Len(files) = 0
    BY <1>1, NothingSaid DEF PhasesPlaced, TracksPlaced
  <2> QED
    BY <1>1, <2>1, TrackShape DEF PhasesPlaced
<1>4. PhasesPlaced'
  <2> DEFINE S == SheetTrack'
  <2>1. files' \in Seq(Seq(S))
    <3> HIDE DEF S
    <3> QED BY <1>3
  <2> HIDE DEF SheetTrack
  <2> QED
    BY <1>1, <1>2, <2>1 DEF PhasesPlaced
<1>5. TracksPlaced' /\ TimesPlaced'
  BY <1>1, SheetSaysTheSame DEF TracksPlaced, TimesPlaced, Said
<1>6. EndsPlaced'
  BY <1>3 DEF EndsPlaced
<1> QED
  BY <1>4, <1>5, <1>6 DEF IInv

\* The steps that set ends.
LEMMA EndsSet ==
  ASSUME IInv, UNCHANGED <<sheet, encoding, at, charset, inTrack, length>>, phase = "reading" => at = Len(sheet),
         phase # "splitting", phase' \in {"parsed", "built"},
         IF phase' = "built" THEN audio' \in Audios /\ cap' \in Caps ELSE audio' = NoAudio /\ cap' = Unknown,
         NEW ends, \A f \in DOMAIN files : \A t \in DOMAIN files[f] : ends[f][t] \in Nat,
         files' = [f \in DOMAIN files |->
                     [t \in DOMAIN files[f] |-> [files[f][t] EXCEPT !.end = ends[f][t]]]]
  PROVE  /\ PhasesPlaced' /\ TracksPlaced' /\ TimesPlaced' /\ SameTracks
         /\ \A f \in DOMAIN files : \A t \in DOMAIN files[f] :
              /\ files'[f][t].start = files[f][t].start /\ files'[f][t].end = ends[f][t]
              /\ files'[f][t].pregap = files[f][t].pregap
<1>1. PhasesPlaced /\ TracksPlaced /\ TimesPlaced
  BY DEF IInv
<1>2. \A f \in DOMAIN files : \A t \in DOMAIN files[f] :
        LET new == [files[f][t] EXCEPT !.end = ends[f][t]] IN
        /\ new \in SheetTrack /\ new.start = files[f][t].start /\ new.end = ends[f][t]
        /\ new.pregap = files[f][t].pregap
  <2>1. \A track \in SheetTrack : \A e \in Nat :
          /\ [track EXCEPT !.end = e] \in SheetTrack
          /\ [track EXCEPT !.end = e].start = track.start
          /\ [track EXCEPT !.end = e].end = e
          /\ [track EXCEPT !.end = e].pregap = track.pregap
    BY DEF SheetTrack
  <2> QED
    BY <1>1, <2>1, TrackShape
<1>3. /\ DOMAIN files' = DOMAIN files
      /\ \A f \in DOMAIN files :
           /\ DOMAIN files'[f] = DOMAIN files[f]
           /\ \A t \in DOMAIN files[f] : files'[f][t] = [files[f][t] EXCEPT !.end = ends[f][t]]
  OBVIOUS
<1>4. \A f \in DOMAIN files : files'[f] \in Seq(SheetTrack) /\ Len(files'[f]) = Len(files[f])
  <2> TAKE f \in DOMAIN files
  <2> DEFINE new == files'[f]
             n == Len(files[f])
  <2>1. n \in Nat /\ DOMAIN files[f] = 1 .. n
    BY <1>1, TrackShape
  <2>2. new = [t \in 1 .. n |-> new[t]] /\ \A t \in 1 .. n : new[t] \in SheetTrack
    BY <1>2, <1>3, <2>1
  <2> HIDE DEF new, n, SheetTrack
  <2>3. new \in [1 .. n -> SheetTrack]
    BY <2>2, Zenon
  <2>4. new \in Seq(SheetTrack) /\ Len(new) = n
    BY <2>1, <2>3
  <2> QED
    BY <2>4 DEF new, n
<1>5. files' \in Seq(Seq(SheetTrack)) /\ Len(files') = Len(files)
  <2> DEFINE n == Len(files)
             S == Seq(SheetTrack)
  <2>1. n \in Nat /\ DOMAIN files = 1 .. n
    BY <1>1, TrackShape
  <2>2. files' = [f \in 1 .. n |-> files'[f]] /\ \A f \in 1 .. n : files'[f] \in S
    BY <1>3, <1>4, <2>1
  <2> HIDE DEF n, S
  <2>3. files' \in Seq(S) /\ Len(files') = n
    BY <2>1, <2>2
  <2> QED
    BY <2>3 DEF n, S
<1>6. SameTracks
  BY <1>3, <1>4, <1>5 DEF SameTracks
<1>7. \A f \in DOMAIN files : \A t \in DOMAIN files[f] :
        /\ files'[f][t].start = files[f][t].start /\ files'[f][t].end = ends[f][t]
        /\ files'[f][t].pregap = files[f][t].pregap
  BY <1>2, <1>3
<1>8. PhasesPlaced'
  <2>1. SheetTrack' = SheetTrack
    BY DEF SheetTrack, TrackTexts, Texts, RawParams
  <2> HIDE DEF SheetTrack
  <2> QED
    BY <1>1, <1>5, <2>1 DEF PhasesPlaced
<1>9. TracksPlaced'
  <2>1. \A i : FilesSaid(i)' = FilesSaid(i) /\ TracksSaid(i)' = TracksSaid(i)
    BY SheetSaysTheSame
  <2>2. Len(files') = FilesSaid(at)' /\ (inTrack' <=> TracksSaid(at)' > 0)
    BY <1>1, <1>5, <2>1 DEF TracksPlaced
  <2>3. files' # <<>> => Len(files'[Len(files')]) = TracksSaid(at)'
    <3>1. files' # <<>> => files # <<>> /\ Len(files) \in DOMAIN files
      BY <1>1, <1>6, TrackShape DEF SameTracks
    <3> QED
      BY <1>1, <1>5, <1>6, <2>1, <3>1 DEF TracksPlaced, SameTracks
  <2>4. ASSUME NEW i \in 1 .. at', FilesSaid(i)' > 0
        PROVE  TracksSaid(i)' <= Len(files'[FilesSaid(i)'])
    <3>1. i \in 1 .. at /\ i \in Nat /\ i <= at /\ at \in Nat /\ FilesSaid(i) > 0
      BY <1>1, <2>1, <2>4 DEF PhasesPlaced
    <3>2. FilesSaid(i) \in Nat /\ FilesSaid(i) <= Len(files)
      BY <1>1, <3>1, CountsAreNat, FilesGrow DEF TracksPlaced
    <3>3. FilesSaid(i) \in DOMAIN files
      BY <1>1, <3>1, <3>2, TrackShape
    <3> QED
      BY <1>1, <1>6, <2>1, <3>1, <3>3 DEF TracksPlaced, SameTracks
  <2>5. ASSUME NEW f \in DOMAIN files', NEW t \in DOMAIN files'[f]
        PROVE  \E i \in 1 .. at' : sheet'[i].cmd = "TRACK" /\ Said(i, f, t)'
    BY <1>1, <1>6, <2>1 DEF TracksPlaced, SameTracks, Said
  <2> QED
    BY <2>2, <2>3, <2>4, <2>5 DEF TracksPlaced
<1>10. TimesPlaced'
  <2>1. at' = at /\ at \in DOMAIN sheet \cup {0} /\ at \in Nat
    BY <1>1 DEF PhasesPlaced
  <2>2. \A f \in DOMAIN files' : \A t \in DOMAIN files'[f] : f \in DOMAIN files /\ t \in DOMAIN files[f]
    BY <1>6 DEF SameTracks
  <2> QED
    BY <1>1, <1>3, <1>7, <2>1, <2>2, TimesKept
<1> QED
  BY <1>6, <1>7, <1>8, <1>9, <1>10

LEMMA SetBoundariesStep ==
  ASSUME IInv, SetBoundaries
  PROVE  IInv'
<1> DEFINE ends == [f \in DOMAIN files |-> [t \in DOMAIN files[f] |-> End(files[f], t)]]
<1>1. PhasesPlaced /\ EndsPlaced /\ phase = "reading" /\ phase' = "parsed" /\ at = Len(sheet)
  BY DEF SetBoundaries, IInv
<1>2. \A f \in DOMAIN files : \A t \in DOMAIN files[f] :
        /\ ends[f][t] = End(files[f], t) /\ ends[f][t] \in Nat
        /\ t = Len(files[f]) => ends[f][t] = 0
  <2> SUFFICES ASSUME NEW f \in DOMAIN files, NEW t \in DOMAIN files[f]
               PROVE  End(files[f], t) \in Nat /\ (t = Len(files[f]) => End(files[f], t) = 0)
    OBVIOUS
  <2>1. files[f][t].end = 0
    BY <1>1 DEF EndsPlaced
  <2>2. t # Len(files[f]) => t + 1 \in DOMAIN files[f]
    BY <1>1, TrackShape
  <2> QED
    BY <1>1, <2>1, <2>2, TrackShape DEF End
<1>3. files' = [f \in DOMAIN files |->
                  [t \in DOMAIN files[f] |-> [files[f][t] EXCEPT !.end = ends[f][t]]]]
  BY DEF SetBoundaries
<1> HIDE DEF ends
<1>4. /\ PhasesPlaced' /\ TracksPlaced' /\ TimesPlaced' /\ SameTracks
      /\ \A f \in DOMAIN files : \A t \in DOMAIN files[f] :
           /\ files'[f][t].start = files[f][t].start /\ files'[f][t].end = ends[f][t]
           /\ files'[f][t].pregap = files[f][t].pregap
  <2>1. audio' = NoAudio /\ cap' = Unknown
    BY <1>1 DEF SetBoundaries, PhasesPlaced
  <2> QED
    BY <1>1, <1>2, <1>3, <2>1, EndsSet DEF SetBoundaries
<1>5. EndsPlaced'
  <2> SUFFICES ASSUME NEW f \in DOMAIN files, NEW t \in DOMAIN files[f]
               PROVE  /\ t < Len(files[f]) => files'[f][t].end = End(files'[f], t)
                      /\ t = Len(files[f]) => files'[f][t].end = 0
    BY <1>1, <1>4 DEF EndsPlaced, SameTracks
  <2>1. t < Len(files[f]) => t + 1 \in DOMAIN files[f] /\ t # Len(files[f]) /\ t # Len(files'[f])
    BY <1>1, <1>4, TrackShape DEF SameTracks
  <2>2. t < Len(files[f]) => End(files'[f], t) = End(files[f], t)
    BY <1>4, <2>1 DEF End
  <2> QED
    BY <1>2, <1>4, <2>2
<1> QED
  BY <1>4, <1>5 DEF IInv

LEMMA SetLastEndsStep ==
  ASSUME IInv, SetLastEnds
  PROVE  IInv'
<1> DEFINE ends == [f \in DOMAIN files |-> [t \in DOMAIN files[f] |->
                      IF t = Len(files[f]) THEN LastEnd(files[f][t], audio') ELSE files[f][t].end]]
<1>1. /\ PhasesPlaced /\ EndsPlaced /\ phase = "parsed" /\ phase' = "built"
      /\ audio' \in Audios /\ cap' \in Caps /\ length \in Nat /\ length' = length
  BY SheetAssumption DEF SetLastEnds, IInv, PhasesPlaced, SheetAssumption
<1>2. \A f \in DOMAIN files : \A t \in DOMAIN files[f] :
        /\ ends[f][t] \in Nat
        /\ IF t = Len(files[f]) THEN ends[f][t] \in {0, length} ELSE ends[f][t] = files[f][t].end
  <2> SUFFICES ASSUME NEW f \in DOMAIN files, NEW t \in DOMAIN files[f]
               PROVE  /\ ends[f][t] \in Nat
                      /\ IF t = Len(files[f]) THEN ends[f][t] \in {0, length}
                         ELSE ends[f][t] = files[f][t].end
    OBVIOUS
  <2>1. t = Len(files[f]) => files[f][t].end = 0
    BY <1>1 DEF EndsPlaced
  <2>2. ends[f][t] = IF t = Len(files[f]) THEN LastEnd(files[f][t], audio') ELSE files[f][t].end
    OBVIOUS
  <2> HIDE DEF ends
  <2>3. files[f][t].end \in Nat
    BY <1>1, TrackShape
  <2> QED
    BY <1>1, <2>1, <2>2, <2>3 DEF LastEnd
<1>3. files' = [f \in DOMAIN files |->
                  [t \in DOMAIN files[f] |-> [files[f][t] EXCEPT !.end = ends[f][t]]]]
  <2>1. \A f \in DOMAIN files : \A t \in DOMAIN files[f] : [files[f][t] EXCEPT !.end = @] = files[f][t]
    <3>1. \A track \in SheetTrack : [track EXCEPT !.end = track.end] = track
      BY DEF SheetTrack
    <3> QED
      BY <1>1, <3>1, TrackShape
  <2> QED
    BY <2>1 DEF SetLastEnds
<1> HIDE DEF ends
<1>4. /\ PhasesPlaced' /\ TracksPlaced' /\ TimesPlaced' /\ SameTracks
      /\ \A f \in DOMAIN files : \A t \in DOMAIN files[f] :
           /\ files'[f][t].start = files[f][t].start /\ files'[f][t].end = ends[f][t]
           /\ files'[f][t].pregap = files[f][t].pregap
  BY <1>1, <1>2, <1>3, EndsSet DEF SetLastEnds
<1>5. EndsPlaced'
  <2> SUFFICES ASSUME NEW f \in DOMAIN files, NEW t \in DOMAIN files[f]
               PROVE  /\ t < Len(files[f]) => files'[f][t].end = End(files'[f], t)
                      /\ t = Len(files[f]) => files'[f][t].end \in {0, length}
    BY <1>1, <1>4 DEF EndsPlaced, SameTracks
  <2>1. t < Len(files[f]) => t + 1 \in DOMAIN files[f] /\ t # Len(files[f]) /\ t # Len(files'[f])
    BY <1>1, <1>4, TrackShape DEF SameTracks
  <2>2. t < Len(files[f]) => End(files'[f], t) = End(files[f], t)
    BY <1>4, <2>1 DEF End
  <2> QED
    BY <1>1, <1>2, <1>4, <2>1, <2>2 DEF EndsPlaced
<1> QED
  BY <1>4, <1>5 DEF IInv

-----------------------------------------------------------------------------
(* Theorems                                                                *)

\* The invariant holds in every reachable state.
THEOREM Invariance == Spec => []IInv
<1>1. ASSUME IInv, [Next]_vars PROVE IInv'
  <2>1. CASE \E cmd \in TrackCommands : ReadText(cmd)
    BY <1>1, <2>1, ReadTextStep
  <2>2. CASE \E cmd \in RemCommands : ReadRem(cmd)
    BY <1>1, <2>2, ReadRemStep
  <2>3. CASE UNCHANGED vars
    <3>1. SheetTrack' = SheetTrack
      BY <2>3 DEF SheetTrack, TrackTexts, Texts, RawParams, vars
    <3>2. PhasesPlaced'
      <4> HIDE DEF SheetTrack
      <4> QED BY <1>1, <2>3, <3>1 DEF IInv, PhasesPlaced, vars
    <3>3. TracksPlaced' /\ TimesPlaced'
      BY <1>1, <2>3, SheetSaysTheSame DEF IInv, TracksPlaced, TimesPlaced, Said, vars
    <3>4. EndsPlaced'
      BY <1>1, <2>3 DEF IInv, EndsPlaced, End, vars
    <3> QED
      BY <3>2, <3>3, <3>4 DEF IInv
  <2> QED
    BY <1>1, <2>1, <2>2, <2>3, SplitLinesStep, ReadFileStep, ReadTrackStep, ReadIndexStep,
       ReadPregapStep, SetBoundariesStep, SetLastEndsStep DEF Next
<1> QED
  BY InitIInv, <1>1, PTL DEF Spec

\* The state keeps its shape for every sheet and however its texts decode; no
\* unparsable time gets into a track.
THEOREM TypeCorrect == Spec => []TypeOK
<1>1. IInv => TypeOK
  <2> SUFFICES ASSUME IInv PROVE TypeOK
    OBVIOUS
  <2>1. PhasesPlaced /\ TracksPlaced
    BY DEF IInv
  <2>2. inTrack => files # <<>> /\ files[Len(files)] # <<>>
    BY <2>1, CurrentTrack, TrackShape
  <2> QED
    BY <2>1, <2>2, TrackShape DEF PhasesPlaced, TypeOK
<1> QED
  BY <1>1, Invariance, PTL

-----------------------------------------------------------------------------
(* Frames                                                                  *)

\* In an orderly sheet the indices of a file are in the order of its tracks and
\* of time, 00 before 01.
LEMMA IndicesInOrder ==
  ASSUME IInv, Orderly, NEW f, NEW i \in Indices(f), NEW j \in Indices(f)
  PROVE  /\ i \in DOMAIN sheet /\ i \in Nat /\ sheet[i].cmd = "INDEX" /\ FilesSaid(i) = f
         /\ sheet[i].time \in 0 .. length - 1 /\ sheet[i].time \in Nat /\ sheet[i].num \in {0, 1}
         /\ TracksSaid(i) \in Nat
         /\ i < j => sheet[i].time < sheet[j].time /\ TracksSaid(i) <= TracksSaid(j)
         /\ i < j /\ TracksSaid(i) = TracksSaid(j) => sheet[i].num = 0 /\ sheet[j].num = 1
<1>1. \A k \in Indices(f) : k \in DOMAIN sheet /\ sheet[k].cmd = "INDEX" /\ FilesSaid(k) = f
  BY DEF Indices
<1>2. Len(sheet) \in Nat /\ DOMAIN sheet = 1 .. Len(sheet) /\ length \in Nat
  BY SheetAssumption DEF IInv, PhasesPlaced, SheetAssumption
<1>3. i \in Nat /\ j \in Nat
  BY <1>1, <1>2
<1>4. sheet[i].time \in 0 .. length - 1 /\ sheet[i].num \in {0, 1} /\ TracksSaid(i) \in Nat
  BY <1>1, <1>3, CountsAreNat DEF Orderly
<1>5. i < j => /\ sheet[i].time < sheet[j].time
               /\ TracksSaid(i) = TracksSaid(j) => sheet[i].num = 0 /\ sheet[j].num = 1
  BY <1>1 DEF Orderly
<1>6. i < j => TracksSaid(i) <= TracksSaid(j)
  BY <1>1, <1>3, TracksGrow
<1> QED
  BY <1>1, <1>2, <1>3, <1>4, <1>5, <1>6

\* After a build every index is recorded.
LEMMA StartIndex ==
  ASSUME IInv, phase = "built", Orderly, PregapsAtStart,
         NEW f \in DOMAIN files, NEW t \in DOMAIN files[f]
  PROVE  \E k \in Indices(f) : /\ sheet[k].num = 1 /\ TracksSaid(k) = t
                               /\ files[f][t].start = sheet[k].time
<1>1. PhasesPlaced /\ TracksPlaced /\ TimesPlaced
  BY DEF IInv
<1>2. at = Len(sheet) /\ DOMAIN sheet = 1 .. at
  BY <1>1 DEF PhasesPlaced
<1>3. PICK i \in 1 .. at : sheet[i].cmd = "TRACK" /\ Said(i, f, t)
  BY <1>1 DEF TracksPlaced
<1>4. PICK k \in DOMAIN sheet : sheet[k].cmd = "INDEX" /\ sheet[k].num = 1 /\ Said(k, f, t)
  BY <1>2, <1>3 DEF Orderly, Said
<1>5. files[f][t].start = sheet[k].time
  BY <1>1, <1>2, <1>4 DEF TimesPlaced, Said
<1> QED
  BY <1>4, <1>5 DEF Indices, Said

\* A track ends at the first index of the next one, which is after its own.
LEMMA EndIndex ==
  ASSUME IInv, phase = "built", Orderly, PregapsAtStart,
         NEW f \in DOMAIN files, NEW t \in DOMAIN files[f], t < Len(files[f])
  PROVE  /\ files[f][t].end > files[f][t].start
         /\ \E k \in Indices(f) :
              /\ TracksSaid(k) = t + 1 /\ files[f][t].end = sheet[k].time
              /\ \A j \in Indices(f) : TracksSaid(j) = t + 1 => k <= j
<1>1. /\ PhasesPlaced /\ TracksPlaced /\ TimesPlaced /\ EndsPlaced
      /\ t \in Nat /\ t + 1 \in DOMAIN files[f] /\ t + 1 > 1 /\ t # Len(files[f])
      /\ files[f][t + 1].pregap \in Nat
  BY TrackShape DEF IInv
<1>2. at = Len(sheet) /\ DOMAIN sheet = 1 .. at
  BY <1>1 DEF PhasesPlaced
<1>3. files[f][t].end = End(files[f], t)
  BY <1>1 DEF EndsPlaced
<1>4. PICK this \in Indices(f) : sheet[this].num = 1 /\ TracksSaid(this) = t
                                /\ files[f][t].start = sheet[this].time
  BY StartIndex
<1>5. PICK one \in Indices(f) : sheet[one].num = 1 /\ TracksSaid(one) = t + 1
                                /\ files[f][t + 1].start = sheet[one].time
  BY <1>1, StartIndex
<1>6. ASSUME NEW k \in Indices(f), TracksSaid(k) = t + 1
      PROVE  sheet[k].time > files[f][t].start /\ sheet[k].time \in Nat
  <2>1. this \in Nat /\ k \in Nat /\ sheet[k].time \in Nat /\ files[f][t].start \in Nat
    BY <1>4, IndicesInOrder
  <2>2. this # k /\ ~(k < this)
    BY <1>1, <1>4, <1>6, IndicesInOrder
  <2> QED
    BY <1>4, <2>1, <2>2, IndicesInOrder
<1>7. CASE files[f][t + 1].pregap # 0
  <2>1. PICK k \in 1 .. at : sheet[k].cmd = "INDEX" /\ sheet[k].num = 0 /\ Said(k, f, t + 1)
    BY <1>1, <1>7 DEF TimesPlaced
  <2>2. k \in Indices(f) /\ TracksSaid(k) = t + 1
    BY <1>2, <2>1 DEF Indices, Said
  <2>3. files[f][t + 1].pregap = sheet[k].time
    BY <1>1, <2>1 DEF TimesPlaced, Said
  <2>4. files[f][t].end = sheet[k].time
    BY <1>1, <1>3, <1>6, <1>7, <2>2, <2>3 DEF End
  <2>5. \A j \in Indices(f) : TracksSaid(j) = t + 1 => k <= j
    BY <2>1, <2>2, IndicesInOrder
  <2> QED
    BY <1>6, <2>2, <2>4, <2>5
<1>8. CASE files[f][t + 1].pregap = 0
  <2>1. files[f][t].end = sheet[one].time
    BY <1>1, <1>3, <1>5, <1>8 DEF End
  <2>2. ASSUME NEW j \in Indices(f), TracksSaid(j) = t + 1, j < one PROVE FALSE
    <3>1. sheet[j].num = 0 /\ j \in 1 .. at /\ sheet[j].cmd = "INDEX" /\ FilesSaid(j) = f
      BY <1>2, <1>5, <2>2, IndicesInOrder
    <3>2. files[f][t + 1].pregap = sheet[j].time
      BY <1>1, <2>2, <3>1 DEF TimesPlaced
    <3>3. files[f][t].start \in Nat
      BY <1>1, TrackShape
    <3> QED
      BY <1>6, <1>8, <2>2, <3>2, <3>3
  <2>3. \A j \in Indices(f) : TracksSaid(j) = t + 1 => one <= j
    BY <2>2, IndicesInOrder
  <2> QED
    BY <1>5, <1>6, <2>1, <2>3
<1> QED
  BY <1>1, <1>7, <1>8

\* The cut of a track is from its start to that index, or to the end of the file.
LEMMA CutOfTrack ==
  ASSUME IInv, phase = "built", Orderly, PregapsAtStart,
         NEW f \in DOMAIN files, NEW t \in DOMAIN files[f], NEW p \in 0 .. length - 1
  PROVE  p \in Cut(files[f][t]) <=>
           p >= files[f][t].start /\ (t < Len(files[f]) => p < files[f][t].end)
<1>1. /\ files[f][t].start \in Nat /\ files[f][t].end \in Nat /\ t \in Nat /\ t <= Len(files[f])
      /\ Len(files[f]) \in Nat /\ length \in Nat /\ p \in Nat /\ p < length
  BY TrackShape, SheetAssumption DEF IInv, PhasesPlaced, SheetAssumption
<1>2. CASE t < Len(files[f])
  <2>1. files[f][t].end > files[f][t].start
    BY <1>2, EndIndex
  <2> QED
    BY <1>2, <2>1 DEF Cut, Bounded
<1>3. CASE t = Len(files[f])
  <2>1. files[f][t].end \in {0, length}
    BY <1>3 DEF IInv, EndsPlaced
  <2>2. Bounded(files[f][t]) => p < files[f][t].end
    BY <1>1, <2>1 DEF Bounded
  <2> QED
    BY <1>1, <1>3, <2>2 DEF Cut
<1> QED
  BY <1>1, <1>2, <1>3

\* The virtual tracks of an orderly sheet divide the audio as the sheet says, for
\* any number of files, tracks and frames. A PREGAP, which the code takes for an
\* offset, must not be in a track that another one of its file precedes.
THEOREM FramesInTheirTracks == Spec => [](PregapsAtStart => EveryFrameInItsTrack)
<1>1. ASSUME IInv, phase = "built", Orderly, PregapsAtStart,
             NEW f \in DOMAIN files, NEW p \in 0 .. length - 1
      PROVE  {t \in DOMAIN files[f] : p \in Cut(files[f][t])} = Owner(f, p)
  <2> DEFINE passed == {i \in Indices(f) : sheet[i].time <= p}
             last == Max(passed)
  <2>1. /\ Len(sheet) \in Nat /\ at = Len(sheet) /\ PhasesPlaced /\ TracksPlaced
        /\ p \in Nat /\ \A t \in DOMAIN files[f] : t \in Nat /\ t <= Len(files[f])
        /\ Len(files[f]) \in Nat
    BY <1>1, TrackShape, SheetAssumption DEF IInv, PhasesPlaced, SheetAssumption
  <2>2. passed # {} => last \in passed /\ \A i \in passed : i <= last
    <3>1. passed \in SUBSET (1 .. Len(sheet))
      BY <2>1 DEF Indices, PhasesPlaced
    <3> HIDE DEF passed
    <3> QED
      BY <2>1, <3>1, GreatestNumber
  <2>3. passed # {} => TracksSaid(last) \in DOMAIN files[f]
    <3> SUFFICES ASSUME passed # {} PROVE TracksSaid(last) \in DOMAIN files[f]
      OBVIOUS
    <3>1. last \in 1 .. at /\ FilesSaid(last) = f /\ sheet[last].cmd = "INDEX"
      BY <2>1, <2>2 DEF Indices, PhasesPlaced
    <3>2. TracksSaid(last) > 0
      BY <1>1, <2>1, <3>1 DEF Orderly, PhasesPlaced
    <3> HIDE DEF last
    <3> QED
      BY <2>1, <3>1, <3>2, PointedTrack
  <2>4. ASSUME NEW t \in DOMAIN files[f], passed # {}, sheet[last].num = 1, TracksSaid(last) = t
        PROVE  p \in Cut(files[f][t])
    <3>1. PICK k \in Indices(f) : sheet[k].num = 1 /\ TracksSaid(k) = t
                                 /\ files[f][t].start = sheet[k].time
      BY <1>1, StartIndex
    <3>2. last \in Indices(f) /\ sheet[last].time <= p
      BY <2>2, <2>4
    <3> HIDE DEF last
    <3>3. k = last
      BY <1>1, <2>4, <3>1, <3>2, IndicesInOrder
    <3>4. ASSUME t < Len(files[f]) PROVE p < files[f][t].end
      <4>1. PICK j \in Indices(f) : TracksSaid(j) = t + 1 /\ files[f][t].end = sheet[j].time
        BY <1>1, <3>4, EndIndex
      <4>2. j # last /\ ~(j < last)
        BY <1>1, <2>1, <2>4, <3>2, <4>1, IndicesInOrder
      <4>3. j \notin passed
        BY <1>1, <2>2, <2>4, <3>2, <4>1, <4>2, IndicesInOrder
      <4> QED
        BY <1>1, <2>1, <4>1, <4>3, IndicesInOrder
    <3> QED
      BY <1>1, <3>1, <3>2, <3>3, <3>4, CutOfTrack
  <2>5. ASSUME NEW t \in DOMAIN files[f], p \in Cut(files[f][t])
        PROVE  passed # {} /\ sheet[last].num = 1 /\ TracksSaid(last) = t
    <3>1. PICK k \in Indices(f) : sheet[k].num = 1 /\ TracksSaid(k) = t
                                 /\ files[f][t].start = sheet[k].time
      BY <1>1, StartIndex
    <3>2. p >= files[f][t].start /\ (t < Len(files[f]) => p < files[f][t].end)
      BY <1>1, <2>5, CutOfTrack
    <3>3. k \in passed
      BY <1>1, <2>1, <3>1, <3>2, IndicesInOrder
    <3>4. last \in Indices(f) /\ sheet[last].time <= p /\ k <= last
      BY <2>2, <3>3
    <3>5. passed # {}
      BY <3>3
    <3> HIDE DEF last, passed
    <3>6. CASE k = last
      BY <3>1, <3>5, <3>6
    <3>7. CASE k # last
      <4>1. k < last /\ TracksSaid(k) <= TracksSaid(last) /\ TracksSaid(last) \in Nat
        BY <1>1, <3>4, <3>7, IndicesInOrder
      <4>2. TracksSaid(last) # t
        BY <1>1, <3>1, <3>4, <4>1, IndicesInOrder
      <4>3. t + 1 <= TracksSaid(last) /\ t < Len(files[f])
        BY <2>1, <2>3, <3>1, <3>5, <4>1, <4>2
      <4>4. PICK j \in Indices(f) : /\ TracksSaid(j) = t + 1 /\ files[f][t].end = sheet[j].time
                                   /\ \A i \in Indices(f) : TracksSaid(i) = t + 1 => j <= i
        BY <1>1, <4>3, EndIndex
      <4>5. j <= last
        <5>1. j \in Nat /\ last \in Nat /\ TracksSaid(j) \in Nat
          BY <1>1, <3>4, <4>4, IndicesInOrder
        <5>2. last < j => TracksSaid(last) <= TracksSaid(j)
          BY <1>1, <3>4, <4>4, IndicesInOrder
        <5>3. TracksSaid(last) = t + 1 => j <= last
          BY <3>4, <4>4
        <5>4. t \in Nat /\ TracksSaid(j) = t + 1
          BY <2>1, <4>4
        <5> QED
          BY <4>1, <4>3, <5>1, <5>2, <5>3, <5>4
      <4>6. sheet[j].time <= sheet[last].time
        BY <1>1, <3>4, <4>4, <4>5, IndicesInOrder
      <4> QED
        BY <1>1, <2>1, <3>2, <3>4, <4>3, <4>4, <4>6, IndicesInOrder
    <3> QED
      BY <3>6, <3>7
  <2>6. Owner(f, p) = IF passed = {} \/ sheet[last].num = 0 THEN {} ELSE {TracksSaid(last)}
    BY DEF Owner
  <2>7. passed # {} => sheet[last].num \in {0, 1}
    BY <1>1, <2>2, IndicesInOrder
  <2> HIDE DEF last, passed
  <2> QED
    BY <2>3, <2>4, <2>5, <2>6, <2>7
<1>2. IInv => (PregapsAtStart => EveryFrameInItsTrack)
  BY <1>1 DEF EveryFrameInItsTrack
<1> QED
  BY <1>2, Invariance, PTL

-----------------------------------------------------------------------------
(* Sizes and formats                                                       *)

\* What probing finds out is true, but for a depth that may be overstated.
LEMMA ProbedFormat ==
  ASSUME NEW a \in AudioFile
  PROVE  /\ Probe(a).format \in Format /\ a.format.rate \in Nat /\ a.format.bits \in Nat
         /\ Probe(a).format.rate \in {0, a.format.rate}
         /\ Probe(a).format.bits = 0 \/ Probe(a).format.bits >= a.format.bits
<1>1. /\ a.format \in Format /\ a.format.rate \in Nat /\ a.format.bits \in Nat
      /\ a.format.bits <= 64
  BY DEF AudioFile, Format
<1>2. \A x \in Format : \A n \in Nat :
        /\ [x EXCEPT !.bits = n] \in Format /\ [x EXCEPT !.bits = n].bits = n
        /\ [x EXCEPT !.bits = n].rate = x.rate
        /\ [x EXCEPT !.rate = n] \in Format /\ [x EXCEPT !.rate = n].rate = n
        /\ [x EXCEPT !.rate = n].bits = x.bits
  BY DEF Format
<1>3. Unknown \in Format /\ Unknown.rate = 0 /\ Unknown.bits = 0
  BY DEF Unknown, Format
<1>4. SampleFmtBits(a.format.bits) \in Nat /\ SampleFmtBits(a.format.bits) >= a.format.bits
  BY <1>1 DEF SampleFmtBits
<1>5. Probe(a).format \in {Unknown, a.format, [a.format EXCEPT !.rate = 0]}
        \cup {[a.format EXCEPT !.bits = SampleFmtBits(@)]}
  <2>1. Direct(a).format \in {Unknown, a.format, [a.format EXCEPT !.rate = 0]}
    BY DEF Direct, FLACInfo, WAVInfo
  <2>2. FFprobe(a).format \in {Unknown, a.format}
          \cup {[a.format EXCEPT !.bits = SampleFmtBits(@)]}
    BY DEF FFprobe
  <2> QED
    BY <2>1, <2>2 DEF Probe
<1> HIDE DEF SampleFmtBits, Format
<1>6. CASE Probe(a).format \in {Unknown, a.format}
  BY <1>1, <1>3, <1>6
<1>7. CASE Probe(a).format = [a.format EXCEPT !.rate = 0]
  <2> DEFINE new == [a.format EXCEPT !.rate = 0]
  <2>1. new \in Format /\ new.rate = 0 /\ new.bits = a.format.bits
    BY <1>1, <1>2
  <2> HIDE DEF new
  <2>2. Probe(a).format = new
    BY <1>7 DEF new
  <2> QED
    BY <1>1, <2>1, <2>2
<1>8. CASE Probe(a).format = [a.format EXCEPT !.bits = SampleFmtBits(@)]
  <2> DEFINE new == [a.format EXCEPT !.bits = SampleFmtBits(@)]
  <2>1. new \in Format /\ new.rate = a.format.rate /\ new.bits = SampleFmtBits(a.format.bits)
    BY <1>1, <1>2, <1>4
  <2> HIDE DEF new
  <2>2. Probe(a).format = new
    BY <1>8 DEF new
  <2> QED
    BY <1>1, <1>4, <2>1, <2>2
<1> QED
  BY <1>5, <1>6, <1>7, <1>8

\* A target lowers a known value; without one the file keeps its own.
LEMMA CappedValue ==
  ASSUME NEW source \in Nat, NEW max \in Nat
  PROVE  /\ Capped(source, max) \in {0, max}
         /\ Capped(source, max) > 0 <=> max > 0 /\ source > max
  BY DEF Capped

\* A cap is an upper bound of what the probe found out, and raises nothing but a
\* depth that the sample format overstates, for any rates, depths and caps.
THEOREM CapsLower == Spec => []CapOnlyLowers
<1>1. ASSUME NEW a \in Audios, NEW c \in Caps
      PROVE  /\ Output(a, c).rate <= a.format.rate
             /\ c.rate > 0 /\ Probe(a).format.rate > 0 => Output(a, c).rate <= c.rate
             /\ \/ Output(a, c).bits <= a.format.bits
                \/ Overstated(a) /\ Output(a, c).bits = c.bits
             /\ c.bits > 0 /\ Probe(a).format.bits > 0 => Output(a, c).bits <= c.bits
  <2> DEFINE known == Probe(a).format
             rate == Capped(known.rate, c.rate)
             bits == Capped(known.bits, c.bits)
  <2>1. a \in AudioFile /\ c.rate \in Nat /\ c.bits \in Nat
    BY SheetAssumption DEF SheetAssumption, Format
  <2>2. /\ known.rate \in Nat /\ known.bits \in Nat /\ known.rate \in {0, a.format.rate}
        /\ known.bits = 0 \/ known.bits >= a.format.bits
        /\ a.format.rate \in Nat /\ a.format.bits \in Nat
    BY <2>1, ProbedFormat DEF Format
  <2>3. /\ Output(a, c).rate = IF rate > 0 THEN rate ELSE a.format.rate
        /\ Output(a, c).bits = IF bits > 0 THEN bits ELSE a.format.bits
    BY DEF Output, Targets
  <2>4. /\ rate \in {0, c.rate} /\ (rate > 0 <=> c.rate > 0 /\ known.rate > c.rate)
        /\ bits \in {0, c.bits} /\ (bits > 0 <=> c.bits > 0 /\ known.bits > c.bits)
    BY <2>1, <2>2, CappedValue
  <2>5. Overstated(a) <=> known.bits > a.format.bits
    BY DEF Overstated
  <2> HIDE DEF known, rate, bits
  <2>6. /\ Output(a, c).rate <= a.format.rate
        /\ c.rate > 0 /\ known.rate > 0 => Output(a, c).rate <= c.rate
    BY <2>1, <2>2, <2>3, <2>4
  <2>7. /\ Output(a, c).bits <= a.format.bits \/ (Overstated(a) /\ Output(a, c).bits = c.bits)
        /\ c.bits > 0 /\ known.bits > 0 => Output(a, c).bits <= c.bits
    BY <2>1, <2>2, <2>3, <2>4, <2>5
  <2> QED
    BY <2>6, <2>7 DEF known
<1>2. IInv => CapOnlyLowers
  BY <1>1 DEF IInv, PhasesPlaced, CapOnlyLowers
<1> QED
  BY <1>2, Invariance, PTL

\* Arithmetic, in steps that the provers can take.
LEMMA Products ==
  ASSUME NEW a \in Nat, NEW b \in Nat
  PROVE  a * b \in Nat /\ (a > 0 /\ b > 0 => a * b > 0)
  OBVIOUS

LEMMA Quotient ==
  ASSUME NEW a \in Nat, NEW c \in Nat, c > 0, NEW v \in Nat, v * c <= a
  PROVE  v <= a \div c
<1> DEFINE q == a \div c
<1>1. q \in Int /\ c * q <= a /\ a < c * (q + 1)
  OBVIOUS
<1> HIDE DEF q
<1>2. ASSUME q < v PROVE FALSE
  <2>1. c * (q + 1) <= c * v
    BY <1>1, <1>2
  <2> QED
    BY <1>1, <2>1
<1> QED
  BY <1>1, <1>2 DEF q

\* Does a factor, as a fraction, make one value of another?
Scales(factor, from, to) ==
  /\ factor[1] \in Nat /\ factor[2] \in Nat /\ factor[2] > 0
  /\ from \in Nat /\ to \in Nat
  /\ from * factor[1] = to * factor[2]

\* A size is scaled by the product of what its parts are scaled by.
LEMMA ScaledParts ==
  ASSUME NEW n \in Nat, NEW rate, NEW bits, NEW density, NEW outRate, NEW outBits, NEW outDensity,
         NEW rateBy, NEW bitsBy, NEW densityBy,
         Scales(rateBy, rate, outRate), Scales(bitsBy, bits, outBits),
         Scales(densityBy, density, outDensity)
  PROVE  Scales(<<rateBy[1] * bitsBy[1] * densityBy[1], rateBy[2] * bitsBy[2] * densityBy[2]>>,
                n * rate * bits * density, n * outRate * outBits * outDensity)
<1> DEFINE r1 == rateBy[1]
           r2 == rateBy[2]
           b1 == bitsBy[1]
           b2 == bitsBy[2]
           d1 == densityBy[1]
           d2 == densityBy[2]
<1>1. /\ r1 \in Nat /\ r2 \in Nat /\ r2 > 0 /\ b1 \in Nat /\ b2 \in Nat /\ b2 > 0
      /\ d1 \in Nat /\ d2 \in Nat /\ d2 > 0
      /\ rate \in Nat /\ bits \in Nat /\ density \in Nat
      /\ outRate \in Nat /\ outBits \in Nat /\ outDensity \in Nat
  BY DEF Scales
<1>2. rate * r1 = outRate * r2 /\ bits * b1 = outBits * b2 /\ density * d1 = outDensity * d2
  BY DEF Scales
<1> HIDE DEF r1, r2, b1, b2, d1, d2
<1>3. (n * rate * bits * density) * (r1 * b1 * d1) = n * (rate * r1) * (bits * b1) * (density * d1)
  BY <1>1
<1>4. (n * outRate * outBits * outDensity) * (r2 * b2 * d2)
        = n * (outRate * r2) * (outBits * b2) * (outDensity * d2)
  BY <1>1
<1>5. (n * rate * bits * density) * (r1 * b1 * d1)
        = (n * outRate * outBits * outDensity) * (r2 * b2 * d2)
  BY <1>2, <1>3, <1>4
<1>6. r1 * b1 * d1 \in Nat
  BY <1>1, Products
<1>7. r2 * b2 * d2 \in Nat /\ r2 * b2 * d2 > 0
  <2>1. r2 * b2 \in Nat /\ r2 * b2 > 0
    BY <1>1, Products
  <2> QED
    BY <1>1, <2>1, Products
<1>8. n * rate * bits * density \in Nat /\ n * outRate * outBits * outDensity \in Nat
  BY <1>1, Products
<1> QED
  BY <1>5, <1>6, <1>7, <1>8 DEF Scales, r1, r2, b1, b2, d1, d2

\* A target that is known to lower a value lowers the size as much.
Kept(value, target) == IF target > 0 THEN target ELSE value

LEMMA LoweredValue ==
  ASSUME NEW value \in Nat, NEW known \in Nat, known \in {0, value}, NEW max \in Nat
  PROVE  Scales(Lowered(known, Capped(known, max)), value, Kept(value, Capped(known, max)))
<1> DEFINE target == Capped(known, max)
           factor == Lowered(known, target)
           out == Kept(value, target)
<1> USE DEF Kept, Scales
<1>1. CASE max > 0 /\ known > max
  <2>1. target = max /\ out = max /\ known = value /\ factor = <<max, value>>
    BY <1>1 DEF Capped, Lowered
  <2> QED
    BY <1>1, <2>1
<1>2. CASE ~(max > 0 /\ known > max)
  <2>1. out = value /\ factor = <<1, 1>>
    BY <1>2 DEF Capped, Lowered
  <2> QED
    BY <2>1
<1> QED
  BY <1>1, <1>2

\* The ratio makes of the size of the file that of a FLAC file in the new format.
LEMMA RatioIsExact ==
  ASSUME NEW a \in Audios, Lossless(a.ext), ~Overstated(a), NEW c \in Caps, NEW n \in Nat
  PROVE  /\ Scales(QualityRatio(a, c), Size(a.ext, n, a.format), Size("flac", n, Output(a, c)))
         /\ Output(a, c).rate \in Nat /\ Output(a, c).bits \in Nat
<1> DEFINE known == Probe(a).format
           target == Targets(a, c)
           out == Output(a, c)
           rateBy == Lowered(known.rate, target.rate)
           bitsBy == Lowered(known.bits, target.bits)
           densityBy == FlacOfWav(a)
<1>1. a \in AudioFile /\ c.rate \in Nat /\ c.bits \in Nat
  BY SheetAssumption DEF SheetAssumption, Format
<1>2. /\ a.format.rate \in Nat /\ a.format.bits \in Nat
      /\ known.rate \in {0, a.format.rate} /\ known.bits \in {0, a.format.bits}
  <2>1. known.bits \in Nat /\ ~(known.bits > a.format.bits)
    BY <1>1, ProbedFormat DEF Overstated, Format
  <2> QED
    BY <1>1, <2>1, ProbedFormat
<1>3. /\ target.rate = Capped(known.rate, c.rate) /\ target.bits = Capped(known.bits, c.bits)
      /\ out.rate = Kept(a.format.rate, target.rate) /\ out.bits = Kept(a.format.bits, target.bits)
  BY DEF Output, Targets, Kept
<1>4. QualityRatio(a, c)
        = <<rateBy[1] * bitsBy[1] * densityBy[1], rateBy[2] * bitsBy[2] * densityBy[2]>>
  BY DEF QualityRatio
<1>5. Scales(densityBy, Density(a.ext), Density("flac"))
  <2>1. a.ext \in {"flac", "wav", "wv"}
    BY <1>1 DEF Lossless, AudioFile
  <2>2. CASE a.ext = "wav"
    BY <2>2 DEF FlacOfWav, Density, Scales
  <2>3. CASE a.ext \in {"flac", "wv"}
    BY <2>3 DEF FlacOfWav, Density, Scales
  <2> QED
    BY <2>1, <2>2, <2>3
<1> HIDE DEF known, target, out
<1>6. Scales(rateBy, a.format.rate, out.rate)
  BY <1>1, <1>2, <1>3, LoweredValue
<1>7. Scales(bitsBy, a.format.bits, out.bits)
  BY <1>1, <1>2, <1>3, LoweredValue
<1> HIDE DEF rateBy, bitsBy, densityBy
<1>8. Scales(QualityRatio(a, c), n * a.format.rate * a.format.bits * Density(a.ext),
             n * out.rate * out.bits * Density("flac"))
  BY <1>4, <1>5, <1>6, <1>7, ScaledParts
<1>9. out.rate \in Nat /\ out.bits \in Nat
  BY <1>6, <1>7 DEF Scales
<1> QED
  BY <1>8, <1>9 DEF Size, out

\* A part of the file, in the same proportion.
LEMMA PartCovered ==
  ASSUME NEW n \in Nat, NEW rate \in Nat, NEW bits \in Nat, NEW size \in Nat,
         NEW r1 \in Nat, NEW r2 \in Nat, size * r1 = (n * rate * bits * 6) * r2,
         NEW part \in Nat, NEW duration \in Nat, part <= duration
  PROVE  (part * rate * bits * 6) * (4 * r2 * n) <= 5 * size * r1 * duration
<1> DEFINE unit == rate * bits * n * r2
<1>1. unit \in Nat
  BY Products
<1>2. (part * rate * bits * 6) * (4 * r2 * n) = unit * (24 * part)
  OBVIOUS
<1>3. 5 * size * r1 * duration = unit * (30 * duration)
  <2>1. 5 * size * r1 * duration = 5 * (size * r1) * duration
    OBVIOUS
  <2>2. 5 * ((n * rate * bits * 6) * r2) * duration = unit * (30 * duration)
    OBVIOUS
  <2> QED
    BY <2>1, <2>2
<1> HIDE DEF unit
<1>4. unit * (24 * part) <= unit * (30 * duration)
  BY <1>1
<1> QED
  BY <1>2, <1>3, <1>4

\* No more frames are cut than the duration of the track has.
LEMMA CutWithinDuration ==
  ASSUME IInv, phase = "built", Probed(audio), NEW f \in DOMAIN files, NEW i \in DOMAIN files[f]
  PROVE  /\ TrackDuration(files[f], i) \in Nat
         /\ Cardinality(Cut(files[f][i])) \in Nat
         /\ Cardinality(Cut(files[f][i])) <= TrackDuration(files[f], i)
<1> DEFINE track == files[f][i]
           first == track.start
           last == IF Bounded(track) THEN track.end - 1 ELSE length - 1
<1>1. track.start \in Nat /\ track.end \in Nat /\ length \in Nat /\ length > 0
  BY TrackShape, SheetAssumption DEF IInv, PhasesPlaced, SheetAssumption, SheetTrack
<1>2. Cut(track) \in SUBSET (first .. last)
  BY <1>1 DEF Cut
<1>3. last \in Int
  BY <1>1
<1>4. TotalKnown(files[f]) = length
  BY DEF TotalKnown
<1>5. TrackDuration(files[f], i) = IF first > last THEN 0 ELSE last - first + 1
  BY <1>1, <1>4 DEF TrackDuration, Bounded
<1> HIDE DEF track, last, first
<1>6. /\ Cardinality(Cut(track)) \in Nat
      /\ Cardinality(Cut(track)) <= IF first > last THEN 0 ELSE last - first + 1
  <2>1. first \in Int
    BY <1>1 DEF first
  <2>2. IsFiniteSet(first .. last) /\ Cardinality(first .. last) = IF first > last THEN 0 ELSE last - first + 1
    BY <2>1, <1>3, FS_Interval
  <2>3. IsFiniteSet(Cut(track)) /\ Cardinality(Cut(track)) <= Cardinality(first .. last)
    BY <1>2, <2>2, FS_Subset
  <2> QED
    BY <2>2, <2>3, FS_CardinalityType
<1> QED
  BY <1>1, <1>3, <1>5, <1>6 DEF track, first

\* The size that Getattr reports for a track is never below the size of its cut,
\* for all sheets, lengths, formats and caps, where the property promises it.
THEOREM EstimateCovers == Spec => []EstimateCoversCut
<1>1. ASSUME IInv, phase = "built", Probed(audio), Lossless(audio.ext), ~Overstated(audio),
             NEW f \in DOMAIN files, NEW i \in DOMAIN files[f]
      PROVE  Estimate(files[f], i)
               >= Size("flac", Cardinality(Cut(files[f][i])), Output(audio, cap))
  <2> DEFINE tracks == files[f]
             part == Cardinality(Cut(tracks[i]))
             duration == TrackDuration(tracks, i)
             r1 == QualityRatio(audio, cap)[1]
             r2 == QualityRatio(audio, cap)[2]
             rate == Output(audio, cap).rate
             bits == Output(audio, cap).bits
             size == AudioSize
             cutSize == part * rate * bits * 6
  <2>1. audio \in Audios /\ cap \in Caps /\ length \in Nat /\ length > 0
    BY <1>1, SheetAssumption DEF IInv, PhasesPlaced, SheetAssumption
  <2>2. /\ r1 \in Nat /\ r2 \in Nat /\ r2 > 0 /\ rate \in Nat /\ bits \in Nat /\ size \in Nat
        /\ size * r1 = (length * rate * bits * 6) * r2
    <3>1. /\ Scales(QualityRatio(audio, cap), AudioSize, Size("flac", length, Output(audio, cap)))
          /\ rate \in Nat /\ bits \in Nat
      BY <1>1, <2>1, RatioIsExact DEF AudioSize
    <3>2. Size("flac", length, Output(audio, cap)) = length * rate * bits * 6
      BY DEF Size, Density
    <3> QED
      BY <3>1, <3>2 DEF Scales
  <2>3. duration \in Nat /\ part \in Nat /\ part <= duration
    BY <1>1, CutWithinDuration
  <2>4. Size("flac", part, Output(audio, cap)) = cutSize
    BY DEF Size, Density
  <2>5. TotalKnown(tracks) = length
    BY <1>1 DEF TotalKnown
  <2>6. Len(tracks) \in Nat /\ Len(tracks) > 0
    BY <1>1 DEF IInv, PhasesPlaced
  <2>7. Estimate(tracks, i) = IF duration > 0 THEN (5 * size * r1 * duration) \div (4 * r2 * length)
                              ELSE (5 * size * r1) \div (4 * r2 * Len(tracks))
    BY <2>1, <2>5 DEF Estimate
  <2> HIDE DEF tracks, part, duration, r1, r2, rate, bits, size, cutSize
  <2>8. CASE duration > 0
    <3>1. cutSize * (4 * r2 * length) <= 5 * size * r1 * duration
      BY <2>1, <2>2, <2>3, PartCovered, Zenon DEF cutSize
    <3>2. 4 * r2 * length \in Nat /\ 4 * r2 * length > 0
      BY <2>1, <2>2, Products
    <3>3. 5 * size * r1 * duration \in Nat
      BY <2>2, <2>3, Products
    <3>4. cutSize \in Nat
      BY <2>2, <2>3, Products DEF cutSize
    <3> DEFINE num == 5 * size * r1 * duration
               den == 4 * r2 * length
    <3>5. Estimate(tracks, i) = num \div den
      BY <2>7, <2>8
    <3> HIDE DEF num, den
    <3>6. cutSize <= num \div den
      BY <3>1, <3>2, <3>3, <3>4, Quotient DEF num, den
    <3>7. num \div den \in Int
      BY <3>2, <3>3 DEF num, den
    <3> QED
      BY <2>4, <3>4, <3>5, <3>6, <3>7 DEF tracks, part
  <2>9. CASE duration = 0
    <3>1. part = 0 /\ cutSize = 0
      BY <2>2, <2>3, <2>9 DEF cutSize
    <3> DEFINE num == 5 * size * r1
               den == 4 * r2 * Len(tracks)
    <3>2. num \in Nat /\ den \in Nat /\ den > 0
      BY <2>2, <2>6, Products
    <3>3. Estimate(tracks, i) = num \div den
      BY <2>7, <2>9
    <3> HIDE DEF num, den
    <3>4. 0 <= num \div den /\ num \div den \in Int
      <4>1. 0 * den <= num
        BY <3>2
      <4> QED
        BY <3>2, <4>1, Quotient
    <3> QED
      BY <2>4, <3>1, <3>3, <3>4 DEF tracks, part
  <2> QED
    BY <2>3, <2>8, <2>9
<1>2. IInv => EstimateCoversCut
  BY <1>1 DEF EstimateCoversCut
<1> QED
  BY <1>2, Invariance, PTL

-----------------------------------------------------------------------------
(* Texts                                                                   *)

\* The parameters that the encoding is detected from.
Sample == {p \in UNION {ToSet(RawParams(i)) : i \in Texts} : InSample(p)}

\* No text has a character with a backslash for a byte.
KanaElsewhere == encoding = "double-byte" => \A i \in Texts : "kana" \notin ToSet(sheet[i].text)

\* What Wrote says of the first n commands.
WroteUpTo(n, f, t, cmd) ==
  LET places == {i \in Texts : i <= n /\ sheet[i].cmd = cmd /\ Said(i, f, t)} IN
  IF places = {} THEN <<>> ELSE sheet[Max(places)].text

\* The tracks so far have the numbers that the sheet gives them.
NumbersPlaced ==
  \A i \in 1 .. at : sheet[i].cmd = "TRACK" =>
    files[FilesSaid(i)][TracksSaid(i)].num = sheet[i].num

\* The texts so far are those that the commands so far gave.
TextsPlaced ==
  /\ phase # "splitting" => charset = DetectEncoding(Sample, encoding)
  /\ \A i \in Texts :
       sheet[i].style \in Styles /\ sheet[i].text \in Seq(DOMAIN Codes[Charset(encoding)])
  /\ DOMAIN album = {Field[cmd] : cmd \in TextCommands}
  /\ NumbersPlaced
  /\ TextsInPlace /\ KanaElsewhere =>
       /\ \A f \in DOMAIN files : \A t \in DOMAIN files[f] : \A cmd \in TrackCommands :
            files[f][t][Field[cmd]] = WroteUpTo(at, f, t, cmd)
       /\ \A cmd \in TextCommands : album[Field[cmd]] = WroteUpTo(at, 0, 0, cmd)

\* Different commands set different fields.
LEMMA FieldsDiffer ==
  /\ \A c \in TrackCommands : c \in TextCommands /\ c \notin RemCommands
  /\ \A c \in RemCommands : c \in TextCommands
  /\ \A c \in TrackCommands : Field[c] \in {"title", "performer", "songwriter"}
  /\ \A c, d \in TextCommands : Field[c] = Field[d] => c = d
<1>1. /\ TrackCommands = {"TITLE", "PERFORMER", "SONGWRITER"}
      /\ RemCommands = {"DATE", "GENRE", "DISCNUMBER"}
      /\ \A c : c \in TextCommands <=> c \in TrackCommands \/ c \in RemCommands
  BY DEF TextCommands, TrackCommands, RemCommands
<1>2. /\ Field["TITLE"] = "title" /\ Field["PERFORMER"] = "performer"
      /\ Field["SONGWRITER"] = "songwriter" /\ Field["DATE"] = "date"
      /\ Field["GENRE"] = "genre" /\ Field["DISCNUMBER"] = "disc"
  BY DEF Field
<1>3. \A c \in TrackCommands : Field[c] \in {"title", "performer", "songwriter"}
  BY <1>1, <1>2
<1>4. ASSUME NEW c \in TextCommands, NEW d \in TextCommands, Field[c] = Field[d] PROVE c = d
  <2>1. \A e \in TextCommands :
          e \in {"TITLE", "PERFORMER", "SONGWRITER", "DATE", "GENRE", "DISCNUMBER"}
    BY <1>1
  <2> QED
    BY <1>2, <1>4, <2>1
<1>5. \A c \in TrackCommands : c \notin RemCommands
  BY <1>1
<1> QED
  BY <1>1, <1>3, <1>4, <1>5

\* Only the sheet decides what was written.
LEMMA SheetWroteTheSame ==
  ASSUME UNCHANGED <<sheet, encoding>>
  PROVE  /\ Texts' = Texts /\ Sample' = Sample
         /\ TextsInPlace' = TextsInPlace /\ KanaElsewhere' = KanaElsewhere
         /\ \A n, f, t, cmd : WroteUpTo(n, f, t, cmd)' = WroteUpTo(n, f, t, cmd)
<1>1. Texts' = Texts /\ Sample' = Sample /\ KanaElsewhere' = KanaElsewhere
  BY DEF Texts, Sample, RawParams, KanaElsewhere
<1>2. /\ \A i : FilesSaid(i)' = FilesSaid(i) /\ TracksSaid(i)' = TracksSaid(i)
      /\ \A i, f, t : Said(i, f, t)' = Said(i, f, t)
  BY DEF FilesSaid, TracksSaid, OpensFile, Said
<1>3. TextsInPlace' = TextsInPlace
  BY <1>1, <1>2 DEF TextsInPlace
<1>4. \A n, f, t, cmd : WroteUpTo(n, f, t, cmd)' = WroteUpTo(n, f, t, cmd)
  <2> TAKE n, f, t, cmd
  <2>1. {i \in Texts : i <= n /\ sheet[i].cmd = cmd /\ Said(i, f, t)}'
          = {i \in Texts : i <= n /\ sheet[i].cmd = cmd /\ Said(i, f, t)}
    BY <1>1, <1>2
  <2> QED
    BY <2>1 DEF WroteUpTo
<1> QED
  BY <1>1, <1>3, <1>4

\* What one more command gives.
LEMMA OneMoreText ==
  ASSUME PhasesPlaced, at < Len(sheet), NEW f, NEW t, NEW cmd
  PROVE  WroteUpTo(at + 1, f, t, cmd) =
           IF at + 1 \in Texts /\ sheet[at + 1].cmd = cmd /\ Said(at + 1, f, t)
           THEN sheet[at + 1].text ELSE WroteUpTo(at, f, t, cmd)
<1> DEFINE places(n) == {i \in Texts : i <= n /\ sheet[i].cmd = cmd /\ Said(i, f, t)}
           m == at + 1
<1>1. at \in Nat /\ Texts \subseteq Nat /\ m \in Nat
  BY DEF PhasesPlaced, Texts
<1>2. \A n : WroteUpTo(n, f, t, cmd) = IF places(n) = {} THEN <<>> ELSE sheet[Max(places(n))].text
  BY DEF WroteUpTo
<1>3. CASE m \in Texts /\ sheet[m].cmd = cmd /\ Said(m, f, t)
  <2>1. m \in places(m) /\ \A i \in places(m) : i \in Nat /\ m >= i
    BY <1>1, <1>3
  <2>2. Max(places(m)) = m
    <3> HIDE DEF places, m
    <3>1. \E x \in places(m) : \A y \in places(m) : x >= y
      BY <2>1
    <3>2. Max(places(m)) \in places(m) /\ \A y \in places(m) : Max(places(m)) >= y
      BY <3>1 DEF Max
    <3> QED
      BY <2>1, <3>2
  <2> HIDE DEF places
  <2> QED
    BY <1>2, <1>3, <2>1, <2>2
<1>4. CASE ~(m \in Texts /\ sheet[m].cmd = cmd /\ Said(m, f, t))
  <2>1. places(m) = places(at)
    <3>1. \A i \in Texts : i <= m <=> i <= at \/ i = m
      BY <1>1
    <3> QED
      BY <1>4, <3>1
  <2> HIDE DEF places
  <2> QED
    BY <1>2, <1>4, <2>1
<1> QED
  BY <1>3, <1>4

\* Nothing was written for a track that is not there yet.
LEMMA NothingWritten ==
  ASSUME PhasesPlaced, TracksPlaced, NEW f, NEW t \in Nat, t > 0,
         ~(f \in DOMAIN files /\ t \in DOMAIN files[f]), NEW cmd
  PROVE  WroteUpTo(at, f, t, cmd) = <<>>
<1>1. ASSUME NEW i \in Texts, i <= at, Said(i, f, t) PROVE FALSE
  <2>1. i \in 1 .. at /\ FilesSaid(i) = f /\ TracksSaid(i) = t
    BY <1>1 DEF PhasesPlaced, Texts, Said
  <2> QED
    BY <2>1, PointedTrack
<1> QED
  BY <1>1 DEF WroteUpTo

\* A text arrives if it is in place.
LEMMA TextReceived ==
  ASSUME PhasesPlaced, TextsPlaced, TextsInPlace, KanaElsewhere, phase # "splitting", NEW i \in Texts
  PROVE  LET words == [j \in DOMAIN RawParams(i) |-> Decode(RawParams(i)[j], charset)] IN
         /\ RawParams(i) # <<>> /\ Joined(words) = sheet[i].text
         /\ sheet[i].cmd \notin RemCommands => Decode(RawParams(i)[1], charset) = sheet[i].text
<1> DEFINE text == sheet[i].text
           style == sheet[i].style
           joined == sheet[i].cmd \in RemCommands
           line == Line(text, style, encoding)
           words == Received(line, charset)
<1>1. /\ encoding \in Encodings /\ style \in Styles /\ joined \in BOOLEAN
      /\ text \in Seq(DOMAIN Codes[Charset(encoding)]) /\ Safe(text, style, joined)
      /\ charset = DetectEncoding(Sample, encoding)
  BY DEF PhasesPlaced, TextsPlaced, TextsInPlace
<1>2. \A k \in 1 .. Len(text) : ~(Charset(encoding) = "double-byte" /\ text[k] = "kana")
  <2>1. Charset(encoding) = "double-byte" => encoding = "double-byte"
    BY DEF Charset
  <2>2. \A k \in 1 .. Len(text) : text[k] \in ToSet(text)
    BY <1>1 DEF ToSet
  <2> QED
    BY <2>1, <2>2 DEF KanaElsewhere
<1>3. RawParams(i) = Params(line)
  BY DEF RawParams
<1>4. \A p \in ToSet(Params(line)) : InSample(p) => p \in Sample
  BY <1>3 DEF Sample
<1> HIDE DEF text, style, joined, line
<1>5. /\ Params(line) # <<>> /\ 1 \in DOMAIN words
      /\ Joined(words) = text
      /\ ~joined => words[1] = text
  BY <1>1, <1>2, <1>4, TextArrives DEF line
<1>6. words = [j \in DOMAIN RawParams(i) |-> Decode(RawParams(i)[j], charset)]
  BY <1>3 DEF Received
<1>7. words[1] = Decode(RawParams(i)[1], charset)
  BY <1>5, <1>6
<1> HIDE DEF words
<1> QED
  BY <1>3, <1>5, <1>6, <1>7 DEF text, joined

\* The number and the texts of before, and no texts in new tracks.
SameTexts(new, old) ==
  new.num = old.num /\ \A cmd \in TrackCommands : new[Field[cmd]] = old[Field[cmd]]

SameTags ==
  /\ album' = album
  /\ \A f \in DOMAIN files' : \A t \in DOMAIN files'[f] :
       IF f \in DOMAIN files /\ t \in DOMAIN files[f]
       THEN SameTexts(files'[f][t], files[f][t])
       ELSE \A cmd \in TrackCommands : files'[f][t][Field[cmd]] = <<>>

\* What sets times of a track keeps its texts, and what sets one of its texts the others.
LEMMA TimesOfTrack ==
  ASSUME NEW track \in SheetTrack, NEW x, NEW y
  PROVE  /\ SameTexts([track EXCEPT !.pregap = x], track)
         /\ SameTexts([track EXCEPT !.start = x, !.indexed = y], track)
         /\ SameTexts([track EXCEPT !.end = x], track)
  BY FieldsDiffer DEF SheetTrack, SameTexts

LEMMA TextOfTrack ==
  ASSUME NEW track \in SheetTrack, NEW cmd \in TrackCommands, NEW text \in TrackTexts
  PROVE  LET new == [track EXCEPT ![Field[cmd]] = text] IN
         /\ new \in SheetTrack /\ new.num = track.num
         /\ \A c \in TrackCommands : new[Field[c]] = IF c = cmd THEN text ELSE track[Field[c]]
<1>1. \A c \in TrackCommands : Field[c] = Field[cmd] => c = cmd
  BY FieldsDiffer
<1>2. \A c \in TrackCommands : Field[c] \in {"title", "performer", "songwriter"}
  BY FieldsDiffer
<1>3. track \in [num : Int, start : Nat, end : Nat, pregap : Nat, indexed : BOOLEAN,
                 title : TrackTexts, performer : TrackTexts, songwriter : TrackTexts]
  BY DEF SheetTrack
<1> HIDE DEF TrackTexts
<1> QED
  BY <1>1, <1>2, <1>3 DEF SheetTrack

\* The tracks that are there keep their numbers.
LEMMA NumbersKept ==
  ASSUME PhasesPlaced, TracksPlaced, NumbersPlaced, UNCHANGED <<sheet, length>>,
         \/ at' = at
         \/ /\ at' = at + 1
            /\ sheet[at + 1].cmd = "TRACK" =>
                 files'[FilesSaid(at + 1)][TracksSaid(at + 1)].num = sheet[at + 1].num,
         \A f \in DOMAIN files : \A t \in DOMAIN files[f] : files'[f][t].num = files[f][t].num
  PROVE  NumbersPlaced'
<1>1. \A i : FilesSaid(i)' = FilesSaid(i) /\ TracksSaid(i)' = TracksSaid(i)
  BY SheetSaysTheSame
<1>2. at \in Nat
  BY DEF PhasesPlaced
<1> SUFFICES ASSUME NEW i \in 1 .. at', sheet[i].cmd = "TRACK"
             PROVE  files'[FilesSaid(i)][TracksSaid(i)].num = sheet[i].num
  BY <1>1 DEF NumbersPlaced
<1>3. CASE i \in 1 .. at
  <2>1. TracksSaid(i) > 0
    <3>1. i - 1 \in Nat /\ i = (i - 1) + 1
      BY <1>2, <1>3
    <3>2. TracksSaid(i - 1) \in Nat
      BY <3>1, CountsAreNat
    <3>3. TracksSaid((i - 1) + 1) = TracksSaid(i - 1) + 1
      BY <3>1, OneMoreTrack
    <3> QED
      BY <3>1, <3>2, <3>3
  <2>2. FilesSaid(i) \in DOMAIN files /\ TracksSaid(i) \in DOMAIN files[FilesSaid(i)]
    BY <1>3, <2>1, PointedTrack
  <2>3. files[FilesSaid(i)][TracksSaid(i)].num = sheet[i].num
    BY <1>3 DEF NumbersPlaced
  <2> QED
    BY <2>2, <2>3
<1>4. CASE i \notin 1 .. at
  <2>1. at' = at + 1 /\ i = at + 1
    BY <1>2, <1>4
  <2> QED
    BY <1>2, <2>1
<1> QED
  BY <1>3, <1>4

LEMMA TextsKept ==
  ASSUME PhasesPlaced, TracksPlaced, TextsPlaced, PhasesPlaced',
         phase # "splitting", phase' # "splitting", UNCHANGED <<sheet, encoding, charset, length>>,
         \/ at' = at
         \/ /\ at' = at + 1 /\ at < Len(sheet) /\ at + 1 \notin Texts
            /\ sheet[at + 1].cmd = "TRACK" =>
                 files'[FilesSaid(at + 1)][TracksSaid(at + 1)].num = sheet[at + 1].num,
         \A f \in DOMAIN files : \A t \in DOMAIN files[f] : f \in DOMAIN files' /\ t \in DOMAIN files'[f],
         SameTags
  PROVE  TextsPlaced'
<1>1. /\ Texts' = Texts /\ Sample' = Sample
      /\ TextsInPlace' = TextsInPlace /\ KanaElsewhere' = KanaElsewhere
      /\ \A n, f, t, cmd : WroteUpTo(n, f, t, cmd)' = WroteUpTo(n, f, t, cmd)
  BY SheetWroteTheSame
<1>2. \A f, t, cmd : WroteUpTo(at', f, t, cmd) = WroteUpTo(at, f, t, cmd)
  BY OneMoreText
<1>3. \A f, t, cmd : WroteUpTo(at, f, t, cmd)' = WroteUpTo(at, f, t, cmd)
  BY <1>1, <1>2
<1>4. \A f \in DOMAIN files' : \A t \in DOMAIN files'[f] : t \in Nat /\ t > 0
  <2>1. files' \in Seq(Seq(SheetTrack'))
    BY DEF PhasesPlaced
  <2> HIDE DEF SheetTrack
  <2> QED
    BY <2>1
<1>5. ASSUME TextsInPlace, KanaElsewhere, NEW f \in DOMAIN files', NEW t \in DOMAIN files'[f],
             NEW cmd \in TrackCommands
      PROVE  files'[f][t][Field[cmd]] = WroteUpTo(at, f, t, cmd)
  <2>1. CASE f \in DOMAIN files /\ t \in DOMAIN files[f]
    BY <1>5, <2>1 DEF SameTags, SameTexts, TextsPlaced
  <2>2. CASE ~(f \in DOMAIN files /\ t \in DOMAIN files[f])
    <3>1. t \in Nat /\ t > 0
      BY <1>4
    <3>2. WroteUpTo(at, f, t, cmd) = <<>>
      BY <2>2, <3>1, NothingWritten
    <3> QED
      BY <2>2, <3>2 DEF SameTags
  <2> QED
    BY <2>1, <2>2
<1>6. album' = album
  BY DEF SameTags
<1>7. NumbersPlaced'
  <2>1. \A f \in DOMAIN files : \A t \in DOMAIN files[f] : files'[f][t].num = files[f][t].num
    BY DEF SameTags, SameTexts
  <2> QED
    BY <2>1, NumbersKept DEF TextsPlaced
<1>8. \A cmd \in TextCommands :
        TextsInPlace /\ KanaElsewhere => album[Field[cmd]] = WroteUpTo(at, 0, 0, cmd)
  BY DEF TextsPlaced
<1> QED
  BY <1>1, <1>3, <1>5, <1>6, <1>7, <1>8 DEF TextsPlaced

LEMMA InitTexts == Init => TextsPlaced
<1> SUFFICES ASSUME Init PROVE TextsPlaced
  OBVIOUS
<1>1. \A i \in Texts :
        sheet[i].style \in Styles /\ sheet[i].text \in Seq(DOMAIN Codes[Charset(encoding)])
  <2> SUFFICES ASSUME NEW i \in Texts
               PROVE  sheet[i].style \in Styles /\ sheet[i].text \in Seq(DOMAIN Codes[Charset(encoding)])
    OBVIOUS
  <2>1. PICK s \in Sheets : sheet = s.commands /\ encoding = s.encoding
    BY DEF Init
  <2>2. sheet \in Seq(Command) /\ i \in DOMAIN sheet /\ sheet[i].cmd \in TextCommands
    BY <2>1, SheetAssumption DEF SheetAssumption, Texts
  <2> DEFINE text == sheet[i].text
             C == DOMAIN Codes[Charset(encoding)]
  <2>3. sheet[i].style \in Styles /\ text \in Seq(STRING)
    <3>1. sheet[i] \in Command
      BY <2>2
    <3> QED
      BY <2>2, <3>1 DEF Command, TextCommands, TrackCommands, RemCommands
  <2>4. ToSet(text) \subseteq C
    BY <2>1, <2>2, SheetAssumption DEF SheetAssumption
  <2> DEFINE n == Len(text)
             U == STRING
  <2> HIDE DEF text, C, U
  <2>5. n \in Nat /\ DOMAIN text = 1 .. n /\ text = [j \in 1 .. n |-> text[j]]
    BY <2>3 DEF U
  <2>6. \A j \in 1 .. n : text[j] \in C
    BY <2>4, <2>5 DEF ToSet
  <2> HIDE DEF n
  <2>7. text \in [1 .. n -> C]
    BY <2>5, <2>6
  <2>8. text \in Seq(C)
    BY <2>5, <2>7
  <2> QED
    BY <2>3, <2>8 DEF text, C
<1>2. DOMAIN files = {} /\ at = 0 /\ phase = "splitting"
  BY DEF Init
<1>3. /\ DOMAIN album = {Field[cmd] : cmd \in TextCommands}
      /\ \A cmd \in TextCommands : album[Field[cmd]] = <<>>
  BY DEF Init
<1>4. \A f, t, cmd : WroteUpTo(at, f, t, cmd) = <<>>
  <2>1. \A i \in Texts : i >= 1
    BY <1>1, InitIInv DEF Texts, IInv, PhasesPlaced
  <2>2. \A i \in Texts : ~(i <= 0)
    <3>1. Texts \subseteq Nat
      BY InitIInv DEF Texts, IInv, PhasesPlaced
    <3> QED
      BY <2>1, <3>1
  <2> QED
    BY <1>2, <2>2 DEF WroteUpTo
<1>5. NumbersPlaced
  <2>1. 1 .. at = {}
    BY <1>2
  <2> QED
    BY <2>1 DEF NumbersPlaced
<1> QED
  BY <1>1, <1>2, <1>3, <1>4, <1>5 DEF TextsPlaced

\* Which texts there are and where, and what encoding they show, is decided at once.
LEMMA SplitLinesTexts ==
  ASSUME IInv, TextsPlaced, SplitLines
  PROVE  TextsPlaced'
<1>1. /\ UNCHANGED <<sheet, encoding, at, album, files, length>>
      /\ charset' = DetectEncoding(Sample, encoding)
  BY DEF SplitLines, Sample
<1>2. /\ Texts' = Texts /\ Sample' = Sample
      /\ TextsInPlace' = TextsInPlace /\ KanaElsewhere' = KanaElsewhere
      /\ \A n, f, t, cmd : WroteUpTo(n, f, t, cmd)' = WroteUpTo(n, f, t, cmd)
  BY <1>1, SheetWroteTheSame
<1>3. \A f, t, cmd : WroteUpTo(at, f, t, cmd)' = WroteUpTo(at, f, t, cmd)
  BY <1>1, <1>2
<1>4. NumbersPlaced'
  BY <1>1, NumbersKept DEF IInv, TextsPlaced
<1> QED
  BY <1>1, <1>2, <1>3, <1>4 DEF TextsPlaced

LEMMA ReadFileTexts ==
  ASSUME IInv, TextsPlaced, PhasesPlaced', ReadFile
  PROVE  TextsPlaced'
<1>1. /\ PhasesPlaced /\ TracksPlaced /\ at < Len(sheet) /\ sheet[at + 1].cmd = "FILE"
      /\ Read /\ phase = "reading" /\ files' = Append(files, <<>>) /\ album' = album
  BY DEF IInv, ReadFile, Reading
<1>2. at + 1 \notin Texts
  BY <1>1 DEF Texts, TextCommands, TrackCommands, RemCommands
<1>3. SameTags
  <2> DEFINE n == Len(files)
  <2>1. /\ n \in Nat /\ DOMAIN files = 1 .. n /\ DOMAIN files' = 1 .. n + 1
        /\ files'[n + 1] = <<>> /\ DOMAIN files'[n + 1] = {}
        /\ \A f \in 1 .. n : files'[f] = files[f]
    <3>1. files \in Seq(Seq(SheetTrack))
      BY <1>1 DEF PhasesPlaced
    <3> HIDE DEF SheetTrack
    <3> QED
      BY <1>1, <3>1
  <2> HIDE DEF n
  <2>2. ASSUME NEW f \in DOMAIN files', NEW t \in DOMAIN files'[f]
        PROVE  f \in DOMAIN files /\ files'[f] = files[f]
    <3>1. f # n + 1
      BY <2>1, <2>2
    <3>2. f \in 1 .. n
      BY <2>1, <3>1
    <3> QED
      BY <2>1, <3>2
  <2> QED
    BY <1>1, <2>2 DEF SameTags, SameTexts
<1>4. \A f \in DOMAIN files : f \in DOMAIN files' /\ files'[f] = files[f]
  BY <1>1, TrackShape
<1> QED
  BY <1>1, <1>2, <1>3, <1>4, TextsKept DEF Read

LEMMA ReadTrackTexts ==
  ASSUME IInv, TextsPlaced, PhasesPlaced', TracksPlaced', ReadTrack
  PROVE  TextsPlaced'
<1> DEFINE fs == IF files = <<>> THEN <<<<>>>> ELSE files
           n == Len(fs)
           fresh == NewTrack(sheet[at + 1].num)
           new == Append(fs[n], fresh)
<1>1. /\ PhasesPlaced /\ TracksPlaced /\ at < Len(sheet) /\ sheet[at + 1].cmd = "TRACK"
      /\ Read /\ phase = "reading" /\ album' = album /\ files' = [fs EXCEPT ![n] = new]
      /\ at \in Nat /\ at + 1 \in DOMAIN sheet
  BY DEF IInv, ReadTrack, Reading, PhasesPlaced
<1>2. at + 1 \notin Texts
  BY <1>1 DEF Texts, TextCommands, TrackCommands, RemCommands
<1>3. /\ fresh \in SheetTrack /\ fresh.num = sheet[at + 1].num
      /\ \A cmd \in TrackCommands : fresh[Field[cmd]] = <<>>
  <2>1. sheet[at + 1].num \in Int
    BY <1>1, Commands
  <2>2. fresh.title = <<>> /\ fresh.performer = <<>> /\ fresh.songwriter = <<>>
    BY DEF NewTrack
  <2> QED
    BY <2>1, <2>2, FieldsDiffer DEF NewTrack, SheetTrack, TrackTexts
<1>4. files \in Seq(Seq(SheetTrack))
  BY <1>1 DEF PhasesPlaced
<1> HIDE DEF SheetTrack, fresh
<1>5. /\ DOMAIN files' = DOMAIN fs
      /\ \A f \in DOMAIN fs : files'[f] = IF f = n THEN new ELSE fs[f]
      /\ \A f \in DOMAIN fs : f \in DOMAIN files \/ (f = n /\ fs[f] = <<>>)
      /\ \A f \in DOMAIN files : f \in DOMAIN fs /\ fs[f] = files[f]
      /\ n \in DOMAIN fs /\ fs[n] \in Seq(SheetTrack)
  <2>1. CASE files = <<>>
    <3>1. fs = <<<<>>>> /\ n = 1 /\ DOMAIN files = {} /\ DOMAIN fs = {1} /\ fs[1] = <<>>
      BY <2>1
    <3>2. <<>> \in Seq(SheetTrack)
      OBVIOUS
    <3> HIDE DEF fs, n, new
    <3> QED
      BY <1>1, <3>1, <3>2
  <2>2. CASE files # <<>>
    <3>1. fs = files /\ n = Len(files)
      BY <2>2
    <3>2. n \in DOMAIN files /\ files[n] \in Seq(SheetTrack)
      BY <1>4, <2>2, <3>1
    <3> HIDE DEF fs, n, new
    <3> QED
      BY <1>1, <3>1, <3>2
  <2> QED
    BY <2>1, <2>2
<1> HIDE DEF fs, n
<1>6. SameTags
  <2> DEFINE m == Len(fs[n])
  <2>1. /\ m \in Nat /\ DOMAIN fs[n] = 1 .. m /\ DOMAIN new = 1 .. m + 1 /\ new[m + 1] = fresh
        /\ \A t \in 1 .. m : new[t] = fs[n][t]
    BY <1>3, <1>5
  <2> HIDE DEF new, m
  <2>2. ASSUME NEW f \in DOMAIN files', NEW t \in DOMAIN files'[f]
        PROVE  IF f \in DOMAIN files /\ t \in DOMAIN files[f]
               THEN files'[f][t] = files[f][t] ELSE files'[f][t] = fresh
    <3>1. CASE f # n
      <4>1. f \in DOMAIN files /\ files'[f] = files[f]
        BY <1>5, <3>1
      <4> QED
        BY <4>1
    <3>2. CASE f = n
      <4>1. files'[f] = new /\ (t \in 1 .. m \/ t = m + 1) /\ m + 1 \notin 1 .. m
        BY <1>5, <2>1, <3>2
      <4>2. CASE f \in DOMAIN files
        <5>1. files[f] = fs[n]
          BY <1>5, <3>2, <4>2
        <5> QED
          BY <2>1, <4>1, <4>2, <5>1
      <4>3. CASE f \notin DOMAIN files
        <5>1. fs[n] = <<>>
          BY <1>5, <3>2, <4>3
        <5>2. DOMAIN fs[n] = {}
          BY <5>1
        <5>3. t = m + 1
          BY <2>1, <4>1, <5>2
        <5> QED
          BY <2>1, <4>1, <4>3, <5>3
      <4> QED
        BY <4>2, <4>3
    <3> QED
      BY <3>1, <3>2
  <2> QED
    BY <1>1, <1>3, <2>2 DEF SameTags, SameTexts
<1>7. \A f \in DOMAIN files : \A t \in DOMAIN files[f] : f \in DOMAIN files' /\ t \in DOMAIN files'[f]
  <2> TAKE f \in DOMAIN files
  <2>1. f \in DOMAIN files' /\ files[f] = fs[f] /\ (f # n => files'[f] = fs[f]) /\ (f = n => files'[f] = new)
    BY <1>5
  <2>2. \A t \in DOMAIN fs[n] : t \in DOMAIN new
    BY <1>3, <1>5
  <2> HIDE DEF new
  <2> QED
    BY <2>1, <2>2
<1>8. files'[FilesSaid(at + 1)][TracksSaid(at + 1)].num = sheet[at + 1].num
  <2>1. /\ Len(files') = FilesSaid(at)' /\ Len(files'[Len(files')]) = TracksSaid(at)'
    <3>1. files' # <<>>
      BY <1>5
    <3> QED
      BY <3>1 DEF TracksPlaced
  <2>2. FilesSaid(at)' = FilesSaid(at + 1) /\ TracksSaid(at)' = TracksSaid(at + 1)
    BY <1>1, SheetSaysTheSame DEF Read
  <2>3. Len(files') = n
    BY <1>1, <1>5 DEF n
  <2>4. files'[n] = new /\ new[Len(new)] = fresh
    BY <1>3, <1>5
  <2> HIDE DEF new
  <2> QED
    BY <1>3, <2>1, <2>2, <2>3, <2>4
<1> QED
  BY <1>1, <1>2, <1>6, <1>7, <1>8, TextsKept DEF Read

\* A current track with other times keeps the texts.
LEMMA TimesSet ==
  ASSUME IInv, TextsPlaced, PhasesPlaced', phase = "reading", at < Len(sheet), Read, album' = album,
         at + 1 \notin Texts, inTrack, NEW track \in SheetTrack, SetTrack(track),
         SameTexts(track, CurTrack), sheet[at + 1].cmd # "TRACK"
  PROVE  TextsPlaced'
<1>1. PhasesPlaced /\ TracksPlaced /\ files \in Seq(Seq(SheetTrack))
  BY DEF IInv, PhasesPlaced
<1>2. /\ Len(files) \in DOMAIN files
      /\ Len(files[Len(files)]) \in DOMAIN files[Len(files)]
      /\ CurTrack = files[Len(files)][Len(files[Len(files)])]
  BY <1>1, CurrentTrack
<1> HIDE DEF SheetTrack
<1>3. /\ DOMAIN files' = DOMAIN files
      /\ \A f \in DOMAIN files :
           /\ DOMAIN files'[f] = DOMAIN files[f]
           /\ \A t \in DOMAIN files[f] :
                files'[f][t] = IF f = Len(files) /\ t = Len(files[f]) THEN track ELSE files[f][t]
  BY <1>1, <1>2, SetTrackStep
<1>4. SameTags
  BY <1>2, <1>3 DEF SameTags, SameTexts
<1> QED
  BY <1>1, <1>3, <1>4, TextsKept DEF Read

LEMMA ReadIndexTexts ==
  ASSUME IInv, TextsPlaced, PhasesPlaced', ReadIndex
  PROVE  TextsPlaced'
<1> DEFINE index == sheet[at + 1]
<1>1. /\ PhasesPlaced /\ TracksPlaced /\ at < Len(sheet) /\ index.cmd = "INDEX"
      /\ Read /\ phase = "reading" /\ album' = album /\ at + 1 \in DOMAIN sheet
  BY DEF IInv, ReadIndex, Reading, PhasesPlaced
<1>2. at + 1 \notin Texts
  BY <1>1 DEF Texts, TextCommands, TrackCommands, RemCommands
<1>3. CASE UNCHANGED files
  <2>1. SameTags
    BY <1>1, <1>3 DEF SameTags, SameTexts
  <2> QED
    BY <1>1, <1>2, <1>3, <2>1, TextsKept DEF Read
<1>4. CASE Placed(index) /\ SetTrack([CurTrack EXCEPT !.pregap = index.time])
  <2> DEFINE track == [CurTrack EXCEPT !.pregap = index.time]
  <2>1. inTrack /\ index.time \in Nat
    BY <1>1, <1>4, Commands DEF Placed
  <2>2. CurTrack \in SheetTrack
    BY <1>1, <2>1, CurrentTrack
  <2>3. track \in SheetTrack /\ SameTexts(track, CurTrack)
    BY <2>1, <2>2, TimesOfTrack DEF SheetTrack
  <2> HIDE DEF track
  <2>4. SetTrack(track)
    BY <1>4 DEF track
  <2> QED
    BY <1>1, <1>2, <2>1, <2>3, <2>4, TimesSet
<1>5. CASE Placed(index) /\ SetTrack([CurTrack EXCEPT !.start = index.time, !.indexed = TRUE])
  <2> DEFINE track == [CurTrack EXCEPT !.start = index.time, !.indexed = TRUE]
  <2>1. inTrack /\ index.time \in Nat
    BY <1>1, <1>5, Commands DEF Placed
  <2>2. CurTrack \in SheetTrack
    BY <1>1, <2>1, CurrentTrack
  <2>3. track \in SheetTrack /\ SameTexts(track, CurTrack)
    BY <2>1, <2>2, TimesOfTrack DEF SheetTrack
  <2> HIDE DEF track
  <2>4. SetTrack(track)
    BY <1>5 DEF track
  <2> QED
    BY <1>1, <1>2, <2>1, <2>3, <2>4, TimesSet
<1> QED
  BY <1>3, <1>4, <1>5 DEF ReadIndex

LEMMA ReadPregapTexts ==
  ASSUME IInv, TextsPlaced, PhasesPlaced', ReadPregap
  PROVE  TextsPlaced'
<1> DEFINE pregap == sheet[at + 1]
<1>1. /\ PhasesPlaced /\ TracksPlaced /\ at < Len(sheet) /\ pregap.cmd = "PREGAP"
      /\ Read /\ phase = "reading" /\ album' = album /\ at + 1 \in DOMAIN sheet
  BY DEF IInv, ReadPregap, Reading, PhasesPlaced
<1>2. at + 1 \notin Texts
  BY <1>1 DEF Texts, TextCommands, TrackCommands, RemCommands
<1>3. CASE UNCHANGED files
  <2>1. SameTags
    BY <1>1, <1>3 DEF SameTags, SameTexts
  <2> QED
    BY <1>1, <1>2, <1>3, <2>1, TextsKept DEF Read
<1>4. CASE Placed(pregap) /\ SetTrack([CurTrack EXCEPT !.pregap = pregap.time])
  <2> DEFINE track == [CurTrack EXCEPT !.pregap = pregap.time]
  <2>1. inTrack /\ pregap.time \in Nat
    BY <1>1, <1>4, Commands DEF Placed
  <2>2. CurTrack \in SheetTrack
    BY <1>1, <2>1, CurrentTrack
  <2>3. track \in SheetTrack /\ SameTexts(track, CurTrack)
    BY <2>1, <2>2, TimesOfTrack DEF SheetTrack
  <2> HIDE DEF track
  <2>4. SetTrack(track)
    BY <1>4 DEF track
  <2> QED
    BY <1>1, <1>2, <2>1, <2>3, <2>4, TimesSet
<1> QED
  BY <1>3, <1>4 DEF ReadPregap

LEMMA SetBoundariesTexts ==
  ASSUME IInv, TextsPlaced, PhasesPlaced', SetBoundaries
  PROVE  TextsPlaced'
<1>1. /\ PhasesPlaced /\ TracksPlaced /\ phase = "reading" /\ phase' = "parsed"
      /\ UNCHANGED <<sheet, encoding, charset, at, album, length>>
  BY DEF IInv, SetBoundaries
<1>2. \A f \in DOMAIN files : \A t \in DOMAIN files[f] : files[f][t] \in SheetTrack
  BY <1>1, TrackShape
<1>3. \A track \in SheetTrack : \A e : SameTexts([track EXCEPT !.end = e], track)
  BY TimesOfTrack
<1> HIDE DEF SheetTrack
<1>4. files' = [f \in DOMAIN files |->
                  [t \in DOMAIN files[f] |-> [files[f][t] EXCEPT !.end = End(files[f], t)]]]
  BY DEF SetBoundaries
<1>5. SameTags
  <2>1. ASSUME NEW f \in DOMAIN files', NEW t \in DOMAIN files'[f]
        PROVE  f \in DOMAIN files /\ t \in DOMAIN files[f]
    BY <1>4, <2>1
  <2>2. ASSUME NEW f \in DOMAIN files, NEW t \in DOMAIN files[f]
        PROVE  files'[f][t] = [files[f][t] EXCEPT !.end = End(files[f], t)]
    BY <1>4
  <2>3. ASSUME NEW f \in DOMAIN files, NEW t \in DOMAIN files[f]
        PROVE  SameTexts(files'[f][t], files[f][t])
    <3> DEFINE track == files[f][t]
               e == End(files[f], t)
    <3>1. track \in SheetTrack /\ files'[f][t] = [track EXCEPT !.end = e]
      BY <1>2, <2>2
    <3> HIDE DEF track, e
    <3>2. SameTexts([track EXCEPT !.end = e], track)
      BY <1>3, <3>1
    <3> QED
      BY <3>1, <3>2 DEF track
  <2> QED
    BY <1>1, <2>1, <2>3 DEF SameTags
<1> QED
  BY <1>1, <1>4, <1>5, TextsKept

LEMMA SetLastEndsTexts ==
  ASSUME IInv, TextsPlaced, PhasesPlaced', SetLastEnds
  PROVE  TextsPlaced'
<1>1. /\ PhasesPlaced /\ TracksPlaced /\ phase = "parsed" /\ phase' = "built"
      /\ UNCHANGED <<sheet, encoding, charset, at, album, length>>
  BY DEF IInv, SetLastEnds
<1>2. \A f \in DOMAIN files : \A t \in DOMAIN files[f] : files[f][t] \in SheetTrack
  BY <1>1, TrackShape
<1>3. \A track \in SheetTrack : \A e : SameTexts([track EXCEPT !.end = e], track)
  BY TimesOfTrack
<1> HIDE DEF SheetTrack
<1>4. files' = [f \in DOMAIN files |->
                 [i \in DOMAIN files[f] |->
                    IF i = Len(files[f])
                    THEN [files[f][i] EXCEPT !.end = LastEnd(files[f][i], audio')]
                    ELSE files[f][i]]]
  BY DEF SetLastEnds
<1>5. SameTags
  <2>1. \A track : SameTexts(track, track)
    BY DEF SameTexts
  <2> QED
    BY <1>1, <1>2, <1>3, <1>4, <2>1 DEF SameTags
<1> QED
  BY <1>1, <1>4, <1>5, TextsKept

\* What a step that reads a text has to show.
LEMMA TextRead ==
  ASSUME IInv, TextsPlaced, phase = "reading", Read, at + 1 \in Texts,
         DOMAIN album' = DOMAIN album,
         \A f \in DOMAIN files : \A t \in DOMAIN files[f] : files'[f][t].num = files[f][t].num,
         TextsInPlace /\ KanaElsewhere =>
           /\ \A f \in DOMAIN files' : \A t \in DOMAIN files'[f] : \A cmd \in TrackCommands :
                files'[f][t][Field[cmd]] = WroteUpTo(at + 1, f, t, cmd)
           /\ \A cmd \in TextCommands : album'[Field[cmd]] = WroteUpTo(at + 1, 0, 0, cmd)
  PROVE  TextsPlaced'
<1>1. UNCHANGED <<sheet, encoding, charset, phase, length>> /\ at' = at + 1
  BY DEF Read
<1>2. /\ Texts' = Texts /\ Sample' = Sample
      /\ TextsInPlace' = TextsInPlace /\ KanaElsewhere' = KanaElsewhere
      /\ \A n, f, t, cmd : WroteUpTo(n, f, t, cmd)' = WroteUpTo(n, f, t, cmd)
  BY <1>1, SheetWroteTheSame
<1>3. \A f, t, cmd : WroteUpTo(at, f, t, cmd)' = WroteUpTo(at + 1, f, t, cmd)
  BY <1>1, <1>2
<1>4. NumbersPlaced'
  <2>1. sheet[at + 1].cmd # "TRACK"
    BY DEF Texts, TextCommands, TrackCommands, RemCommands
  <2> QED
    BY <1>1, <2>1, NumbersKept DEF IInv, TextsPlaced
<1> QED
  BY <1>1, <1>2, <1>3, <1>4 DEF TextsPlaced

\* TITLE, PERFORMER and SONGWRITER go to the current track, or to the album before
\* there is any.
LEMMA ReadTextTexts ==
  ASSUME IInv, TextsPlaced, NEW cmd \in TrackCommands, ReadText(cmd)
  PROVE  TextsPlaced'
<1> DEFINE i == at + 1
           text == Decode(RawParams(i)[1], charset)
           n == Len(files)
           m == Len(files[n])
<1>1. /\ PhasesPlaced /\ TracksPlaced /\ at < Len(sheet) /\ sheet[i].cmd = cmd /\ Read
      /\ phase = "reading" /\ inTrack' = inTrack /\ i \in DOMAIN sheet /\ at \in Nat
  BY DEF IInv, ReadText, Reading, PhasesPlaced
<1>2. i \in Texts /\ cmd \in TextCommands /\ cmd \notin RemCommands /\ cmd \notin {"FILE", "TRACK"}
  BY <1>1 DEF Texts, TextCommands, TrackCommands, RemCommands
<1>3. FilesSaid(i) = FilesSaid(at) /\ TracksSaid(i) = TracksSaid(at)
  BY <1>1, <1>2, OtherCommand
<1>4. \A f, t, c : WroteUpTo(i, f, t, c) =
        IF cmd = c /\ Said(i, f, t) THEN sheet[i].text ELSE WroteUpTo(at, f, t, c)
  BY <1>1, <1>2, OneMoreText
<1>5. TextsInPlace /\ KanaElsewhere => RawParams(i) # <<>> /\ text = sheet[i].text
  BY <1>1, <1>2, TextReceived
<1>6. FilesSaid(at) = n /\ (inTrack <=> TracksSaid(at) > 0)
  BY <1>1 DEF TracksPlaced
<1>7. DOMAIN album = {Field[c] : c \in TextCommands}
  BY DEF TextsPlaced
<1> HIDE DEF text
<1>8. CASE RawParams(i) = <<>> /\ UNCHANGED <<files, album>>
  BY <1>1, <1>2, <1>5, <1>8, TextRead
<1>9. CASE inTrack /\ SetTrack([CurTrack EXCEPT ![Field[cmd]] = text]) /\ album' = album
  <2> DEFINE track == [CurTrack EXCEPT ![Field[cmd]] = text]
  <2>1. n \in DOMAIN files /\ m \in DOMAIN files[n] /\ CurTrack = files[n][m] /\ CurTrack \in SheetTrack
    BY <1>1, <1>9, CurrentTrack
  <2>2. text \in TrackTexts
    BY <1>2 DEF TrackTexts, text
  <2>3. /\ track \in SheetTrack /\ track.num = CurTrack.num
        /\ \A c \in TrackCommands : track[Field[c]] = IF c = cmd THEN text ELSE CurTrack[Field[c]]
    BY <2>1, <2>2, TextOfTrack
  <2>4. SetTrack(track) /\ files \in Seq(Seq(SheetTrack))
    BY <1>1, <1>9 DEF PhasesPlaced
  <2> HIDE DEF track, SheetTrack
  <2>5. /\ DOMAIN files' = DOMAIN files
        /\ \A f \in DOMAIN files :
             /\ DOMAIN files'[f] = DOMAIN files[f]
             /\ \A t \in DOMAIN files[f] :
                  files'[f][t] = IF f = n /\ t = Len(files[f]) THEN track ELSE files[f][t]
    BY <2>1, <2>3, <2>4, SetTrackStep
  <2>6. /\ files # <<>> /\ m = TracksSaid(at)
        /\ \A f, t : Said(i, f, t) <=> f = n /\ t = m
        /\ ~Said(i, 0, 0)
    <3>1. files # <<>>
      BY <2>1
    <3>2. m = TracksSaid(at)
      BY <1>1, <3>1 DEF TracksPlaced
    <3> QED
      BY <1>3, <1>6, <1>9, <3>1, <3>2 DEF Said
  <2>7. ASSUME TextsInPlace, KanaElsewhere,
               NEW f \in DOMAIN files, NEW t \in DOMAIN files[f], NEW c \in TrackCommands
        PROVE  files'[f][t][Field[c]] = WroteUpTo(i, f, t, c)
    <3>1. text = sheet[i].text
      BY <1>5, <2>7
    <3>2. files[f][t][Field[c]] = WroteUpTo(at, f, t, c)
      BY <2>7 DEF TextsPlaced
    <3>3. CASE Said(i, f, t)
      <4>1. f = n /\ t = m /\ files[f][t] = CurTrack /\ files'[f][t] = track
        BY <2>1, <2>5, <2>6, <3>3
      <4>2. files'[f][t][Field[c]] = IF c = cmd THEN text ELSE files[f][t][Field[c]]
        BY <2>3, <4>1
      <4> QED
        BY <1>4, <3>1, <3>2, <3>3, <4>2
    <3>4. CASE ~Said(i, f, t)
      <4>1. files'[f][t] = files[f][t]
        BY <2>5, <2>6, <3>4
      <4> QED
        BY <1>4, <3>2, <3>4, <4>1
    <3> QED
      BY <3>3, <3>4
  <2>8. ASSUME TextsInPlace, KanaElsewhere, NEW c \in TextCommands
        PROVE  album'[Field[c]] = WroteUpTo(i, 0, 0, c)
    <3>1. album[Field[c]] = WroteUpTo(at, 0, 0, c)
      BY <2>8 DEF TextsPlaced
    <3> QED
      BY <1>4, <1>9, <2>6, <3>1
  <2>9. \A f \in DOMAIN files : \A t \in DOMAIN files[f] : files'[f][t].num = files[f][t].num
    BY <2>1, <2>3, <2>5
  <2> QED
    BY <1>1, <1>2, <1>9, <2>5, <2>7, <2>8, <2>9, TextRead
<1>10. CASE ~inTrack /\ album' = [album EXCEPT ![Field[cmd]] = text] /\ files' = files
  <2>1. /\ DOMAIN album' = DOMAIN album
        /\ \A c \in TextCommands : album'[Field[c]] = IF c = cmd THEN text ELSE album[Field[c]]
    BY <1>2, <1>7, <1>10, FieldsDiffer
  <2>2. ASSUME TextsInPlace
        PROVE  Said(i, 0, 0) /\ DOMAIN files = {}
    <3>1. TracksSaid(i) = 0 /\ FilesSaid(i) \in Nat
      BY <1>1, <1>3, <1>6, <1>10, CountsAreNat
    <3>2. FilesSaid(i) = 0
      BY <1>2, <2>2, <3>1 DEF TextsInPlace
    <3>3. Len(files) = 0
      BY <1>3, <1>6, <3>2
    <3> QED
      BY <1>1, <3>1, <3>2, <3>3, TrackShape DEF Said
  <2>3. ASSUME TextsInPlace, KanaElsewhere, NEW c \in TextCommands
        PROVE  album'[Field[c]] = WroteUpTo(i, 0, 0, c)
    <3>1. album[Field[c]] = WroteUpTo(at, 0, 0, c)
      BY <2>3 DEF TextsPlaced
    <3>2. text = sheet[i].text /\ Said(i, 0, 0)
      BY <1>5, <2>2, <2>3
    <3> QED
      BY <1>4, <2>1, <3>1, <3>2
  <2> QED
    BY <1>1, <1>2, <1>10, <2>1, <2>2, <2>3, TextRead
<1> QED
  BY <1>8, <1>9, <1>10 DEF ReadText, text

\* The only REM of its kind, before the first file, goes to the album.
LEMMA ReadRemTexts ==
  ASSUME IInv, TextsPlaced, NEW cmd \in RemCommands, ReadRem(cmd)
  PROVE  TextsPlaced'
<1> DEFINE i == at + 1
           text == Joined([j \in DOMAIN RawParams(i) |-> Decode(RawParams(i)[j], charset)])
<1>1. /\ PhasesPlaced /\ TracksPlaced /\ at < Len(sheet) /\ sheet[i].cmd = cmd /\ Read
      /\ phase = "reading" /\ files' = files /\ i \in DOMAIN sheet /\ at \in Nat
  BY DEF IInv, ReadRem, Reading, PhasesPlaced
<1>2. i \in Texts /\ cmd \in TextCommands
  BY <1>1 DEF Texts, TextCommands
<1>3. \A f, t, c : WroteUpTo(i, f, t, c) =
        IF cmd = c /\ Said(i, f, t) THEN sheet[i].text ELSE WroteUpTo(at, f, t, c)
  BY <1>1, <1>2, OneMoreText
<1>4. DOMAIN album = {Field[c] : c \in TextCommands}
  BY DEF TextsPlaced
<1>5. album' = [album EXCEPT ![Field[cmd]] =
                  IF @ # <<>> /\ cmd # "DISCNUMBER" THEN @ ELSE text]
  BY DEF ReadRem
<1>6. TextsInPlace /\ KanaElsewhere => text = sheet[i].text
  BY <1>1, <1>2, TextReceived
<1> HIDE DEF text
<1>7. /\ DOMAIN album' = DOMAIN album
      /\ \A c \in TextCommands : c # cmd => album'[Field[c]] = album[Field[c]]
      /\ album[Field[cmd]] = <<>> => album'[Field[cmd]] = text
  BY <1>2, <1>4, <1>5, FieldsDiffer
<1>8. ASSUME TextsInPlace, KanaElsewhere PROVE Said(i, 0, 0) /\ album[Field[cmd]] = <<>>
  <2>1. FilesSaid(i) \in Nat /\ TracksSaid(i) \in Nat
    BY <1>1, CountsAreNat
  <2>2. FilesSaid(i) = 0
    BY <1>1, <1>2, <1>8, <2>1 DEF TextsInPlace
  <2>3. TracksSaid(i) = 0
    BY <1>1, <2>1, <2>2, TracksAreInFiles
  <2>4. \A j \in Texts : sheet[j].cmd = cmd => j = i
    BY <1>1, <1>2, <1>8 DEF TextsInPlace
  <2>5. ~(i <= at)
    BY <1>1
  <2>6. {j \in Texts : j <= at /\ sheet[j].cmd = cmd /\ Said(j, 0, 0)} = {}
    BY <2>4, <2>5
  <2>7. album[Field[cmd]] = WroteUpTo(at, 0, 0, cmd)
    BY <1>2, <1>8 DEF TextsPlaced
  <2> QED
    BY <2>2, <2>3, <2>6, <2>7 DEF WroteUpTo, Said
<1>9. ASSUME TextsInPlace, KanaElsewhere, NEW c \in TextCommands
      PROVE  album'[Field[c]] = WroteUpTo(i, 0, 0, c)
  <2>1. album[Field[c]] = WroteUpTo(at, 0, 0, c)
    BY <1>9 DEF TextsPlaced
  <2> QED
    BY <1>3, <1>6, <1>7, <1>8, <1>9, <2>1
<1>10. ASSUME TextsInPlace, KanaElsewhere,
              NEW f \in DOMAIN files', NEW t \in DOMAIN files'[f], NEW c \in TrackCommands
       PROVE  files'[f][t][Field[c]] = WroteUpTo(i, f, t, c)
  <2>1. files[f][t][Field[c]] = WroteUpTo(at, f, t, c)
    BY <1>1, <1>10 DEF TextsPlaced
  <2>2. c # cmd
    BY FieldsDiffer
  <2> QED
    BY <1>1, <1>3, <2>1, <2>2
<1> QED
  BY <1>1, <1>2, <1>7, <1>9, <1>10, TextRead

\* The texts so far are those that the commands so far gave, in every reachable state.
THEOREM TextsFollow == Spec => []TextsPlaced
<1>1. Init => IInv /\ TextsPlaced
  BY InitIInv, InitTexts
<1>2. ASSUME IInv, IInv', TextsPlaced, [Next]_vars PROVE TextsPlaced'
  <2>1. PhasesPlaced' /\ TracksPlaced'
    BY <1>2 DEF IInv
  <2>2. CASE \E cmd \in TrackCommands : ReadText(cmd)
    BY <1>2, <2>2, ReadTextTexts
  <2>3. CASE \E cmd \in RemCommands : ReadRem(cmd)
    BY <1>2, <2>3, ReadRemTexts
  <2>4. CASE UNCHANGED vars
    <3>1. UNCHANGED <<sheet, encoding, charset, phase, at, files, album, length>>
      BY <2>4 DEF vars
    <3>2. /\ Texts' = Texts /\ Sample' = Sample
          /\ TextsInPlace' = TextsInPlace /\ KanaElsewhere' = KanaElsewhere
          /\ \A n, f, t, cmd : WroteUpTo(n, f, t, cmd)' = WroteUpTo(n, f, t, cmd)
      BY <3>1, SheetWroteTheSame
    <3>3. \A f, t, cmd : WroteUpTo(at, f, t, cmd)' = WroteUpTo(at, f, t, cmd)
      BY <3>1, <3>2
    <3>4. NumbersPlaced'
      BY <1>2, <3>1, NumbersKept DEF IInv, TextsPlaced
    <3> QED
      BY <1>2, <3>1, <3>2, <3>3, <3>4 DEF TextsPlaced
  <2> QED
    BY <1>2, <2>1, <2>2, <2>3, <2>4, SplitLinesTexts, ReadFileTexts, ReadTrackTexts, ReadIndexTexts,
       ReadPregapTexts, SetBoundariesTexts, SetLastEndsTexts DEF Next
<1> QED
  BY Invariance, <1>1, <1>2, PTL DEF Spec

\* The tags of every track are the texts of the sheet, whatever commands it has in
\* what order, how long its texts are, and which of the styles and encodings
\* they are written in. The characters that the hypothesis leaves out do not
\* arrive: their second byte is taken for a backslash.
THEOREM TextsArriveInTags == Spec => [](KanaElsewhere => TextsSurvive)
<1> DEFINE Or(text, default) == IF text = <<>> THEN default ELSE text
<1>1. ASSUME IInv, TextsPlaced, KanaElsewhere, phase = "built", TextsInPlace,
             NEW f \in DOMAIN files, NEW t \in DOMAIN files[f]
      PROVE  Metadata(files[f][t]) =
               [title |-> Or(Wrote(f, t, "TITLE"), DefaultTitle(Number(f, t))),
                artist |-> Or(Or(Wrote(f, t, "PERFORMER"), Wrote(0, 0, "PERFORMER")), OfSource),
                album_artist |-> Or(Wrote(0, 0, "PERFORMER"), OfSource),
                album |-> Or(Wrote(0, 0, "TITLE"), OfSource),
                track |-> IF Number(f, t) > 0 THEN Itoa(Number(f, t)) ELSE OfSource,
                date |-> Or(Wrote(0, 0, "DATE"), OfSource),
                genre |-> Or(Wrote(0, 0, "GENRE"), OfSource),
                disc |-> Or(Wrote(0, 0, "DISCNUMBER"), OfSource),
                composer |-> Or(Or(Wrote(0, 0, "SONGWRITER"), Wrote(f, t, "SONGWRITER")), OfSource)]
  <2>1. at = Len(sheet) /\ at \in Nat /\ DOMAIN sheet = 1 .. at /\ \A i \in Texts : i <= at
    BY <1>1 DEF IInv, PhasesPlaced, Texts
  <2>2. \A g, u, cmd : WroteUpTo(at, g, u, cmd) = Wrote(g, u, cmd)
    <3> TAKE g, u, cmd
    <3>1. {i \in Texts : i <= at /\ sheet[i].cmd = cmd /\ Said(i, g, u)}
            = {i \in Texts : sheet[i].cmd = cmd /\ Said(i, g, u)}
      BY <2>1
    <3> QED
      BY <3>1, Zenon DEF WroteUpTo, Wrote
  <2>3. /\ \A cmd \in TrackCommands : files[f][t][Field[cmd]] = Wrote(f, t, cmd)
        /\ \A cmd \in TextCommands : album[Field[cmd]] = Wrote(0, 0, cmd)
    BY <1>1, <2>2 DEF TextsPlaced
  <2>4. /\ files[f][t].title = Wrote(f, t, "TITLE")
        /\ files[f][t].performer = Wrote(f, t, "PERFORMER")
        /\ files[f][t].songwriter = Wrote(f, t, "SONGWRITER")
        /\ album.title = Wrote(0, 0, "TITLE") /\ album.performer = Wrote(0, 0, "PERFORMER")
        /\ album.songwriter = Wrote(0, 0, "SONGWRITER") /\ album.date = Wrote(0, 0, "DATE")
        /\ album.genre = Wrote(0, 0, "GENRE") /\ album.disc = Wrote(0, 0, "DISCNUMBER")
    BY <2>3 DEF Field, TextCommands, TrackCommands, RemCommands
  <2>5. files[f][t].num = Number(f, t)
    <3>1. \E i \in DOMAIN sheet : sheet[i].cmd = "TRACK" /\ Said(i, f, t)
      BY <1>1, <2>1 DEF IInv, TracksPlaced
    <3>2. PICK i \in DOMAIN sheet : /\ sheet[i].cmd = "TRACK" /\ Said(i, f, t)
                                    /\ Number(f, t) = sheet[i].num
      BY <3>1 DEF Number
    <3>3. files[FilesSaid(i)][TracksSaid(i)].num = sheet[i].num
      BY <1>1, <2>1, <3>2 DEF TextsPlaced, NumbersPlaced
    <3> QED
      BY <3>2, <3>3 DEF Said
  <2>6. /\ \A n : DefaultTitle(n) # <<>> /\ Itoa(n) # <<>>
        /\ OfSource # <<>>
    BY DEF DefaultTitle, Itoa, OfSource
  <2> DEFINE track == files[f][t]
             tags == Tags(track)
  <2>7. Metadata(track) =
          [title |-> Or(tags.title, OfSource), artist |-> Or(tags.artist, OfSource),
           album_artist |-> Or(tags.album_artist, OfSource), album |-> Or(tags.album, OfSource),
           track |-> Or(tags.track, OfSource), date |-> Or(tags.date, OfSource),
           genre |-> Or(tags.genre, OfSource), disc |-> Or(tags.disc, OfSource),
           composer |-> Or(tags.composer, OfSource)]
    BY DEF Metadata, Tags
  <2>8. /\ tags.title = Or(Wrote(f, t, "TITLE"), DefaultTitle(Number(f, t)))
        /\ tags.artist = Or(Wrote(f, t, "PERFORMER"), Wrote(0, 0, "PERFORMER"))
        /\ tags.album_artist = Wrote(0, 0, "PERFORMER") /\ tags.album = Wrote(0, 0, "TITLE")
        /\ tags.track = (IF Number(f, t) > 0 THEN Itoa(Number(f, t)) ELSE <<>>)
        /\ tags.date = Wrote(0, 0, "DATE") /\ tags.genre = Wrote(0, 0, "GENRE")
        /\ tags.disc = Wrote(0, 0, "DISCNUMBER")
        /\ tags.composer = Or(Wrote(0, 0, "SONGWRITER"), Wrote(f, t, "SONGWRITER"))
    BY <2>4, <2>5 DEF Tags
  <2> HIDE DEF tags
  <2>9. /\ Or(tags.title, OfSource) = tags.title
        /\ Or(tags.track, OfSource)
             = IF Number(f, t) > 0 THEN Itoa(Number(f, t)) ELSE OfSource
    BY <2>6, <2>8
  <2> QED
    BY <2>7, <2>8, <2>9
<1>2. ASSUME IInv, TextsPlaced, KanaElsewhere PROVE TextsSurvive
  BY <1>1, <1>2 DEF TextsSurvive
<1> QED
  BY <1>2, Invariance, TextsFollow, PTL
=============================================================================
