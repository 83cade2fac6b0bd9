------------------------------ MODULE CueSheet ------------------------------
(***************************************************************************)
(* From a cue sheet to cuts: the two passes of the parser and the track    *)
(* boundaries (internal/cue/parser.go), the tags, ends and size estimates  *)
(* that buildDirState adds (internal/vfs/build.go), and the part of the    *)
(* audio that ffmpeg is then asked for (internal/cutter/ffmpeg.go).        *)
(*                                                                         *)
(* A sheet is its sequence of commands and its encoding. A text comes with *)
(* the style it is written in; times and numbers are given as such. Time   *)
(* is in frames, and a second of a file is as large as any other. The      *)
(* files of a sheet are alike; what they are matters from the build on.    *)
(***************************************************************************)
EXTENDS Integers, SequencesExt, SourceAudio, CueText

CONSTANTS
  Sheets,   \* sequences of commands, and the encoding of each
  Lengths,  \* how long the audio files may be
  Audios,   \* what they may be
  Caps,     \* v.maxQuality, by the flags --max-bits and --max-rate
  NoAudio,  \* not chosen yet
  BadTime   \* a time that cannot be parsed

\* Commands with a text: of a track or the album, and after REM. DATE may as well
\* be written YEAR.
TrackCommands == {"TITLE", "PERFORMER", "SONGWRITER"}
RemCommands == {"DATE", "GENRE", "DISCNUMBER"}
TextCommands == TrackCommands \cup RemCommands

\* The field that such a command sets.
Field == [TITLE |-> "title", PERFORMER |-> "performer", SONGWRITER |-> "songwriter",
          DATE |-> "date", GENRE |-> "genre", DISCNUMBER |-> "disc"]

\* A command with its parameters. The number of a track is 0 if it is no number.
Command ==
  [cmd : {"FILE"}]
    \cup [cmd : {"TRACK"}, num : Int]
    \cup [cmd : {"INDEX"}, num : Nat, time : Nat \cup {BadTime}]
    \cup [cmd : {"PREGAP"}, time : Nat \cup {BadTime}]
    \cup [cmd : TextCommands, style : Styles, text : Seq(STRING)]

ASSUME SheetAssumption ==
  /\ Lengths \subseteq Nat \ {0}
  /\ Audios \subseteq AudioFile /\ NoAudio \notin Audios
  /\ Caps \subseteq Format
  /\ BadTime \notin Nat
  /\ Sheets \subseteq [commands : Seq(Command), encoding : Encodings]
  /\ \A s \in Sheets : \A i \in DOMAIN s.commands :
       s.commands[i].cmd \in TextCommands =>
         ToSet(s.commands[i].text) \subseteq DOMAIN Codes[Charset(s.encoding)] \ {"newline"}

VARIABLES
  sheet,    \* the commands
  encoding, \* what their texts are written in
  at,       \* how many of them are read
  charset,  \* what DetectEncoding takes it for
  album,    \* the texts of the sheet itself: sheet.Title, sheet.Performer, ...
  files,    \* sheet.Files
  inTrack,  \* curTrack # nil; it is then the last track of the last file
  length,   \* how long each audio file is
  audio,    \* what it is
  cap,      \* the quality cap
  phase     \* splitting (pass 1), reading (pass 2), parsed or built

vars == <<sheet, encoding, at, charset, album, files, inTrack, length, audio, cap, phase>>

-----------------------------------------------------------------------------
(* The parser *)

NewTrack(num) ==
  [num |-> num, start |-> 0, end |-> 0, pregap |-> 0, indexed |-> FALSE,
   title |-> <<>>, performer |-> <<>>, songwriter |-> <<>>]

Init ==
  /\ \E s \in Sheets : sheet = s.commands /\ encoding = s.encoding
  /\ at = 0
  /\ charset = "utf-8"
  /\ album = [field \in {Field[cmd] : cmd \in TextCommands} |-> <<>>]
  /\ files = <<>>
  /\ inTrack = FALSE
  /\ length \in Lengths
  /\ audio = NoAudio
  /\ cap = Unknown
  /\ phase = "splitting"

\* The commands with a text: the sample is taken from these.
Texts == {i \in DOMAIN sheet : sheet[i].cmd \in TextCommands}

RawParams(i) == Params(Line(sheet[i].text, sheet[i].style, encoding))

\* Pass 1 splits all lines and detects the encoding of the texts.
SplitLines ==
  /\ phase = "splitting"
  /\ charset' = DetectEncoding({p \in UNION {ToSet(RawParams(i)) : i \in Texts} : InSample(p)},
                              encoding)
  /\ phase' = "reading"
  /\ UNCHANGED <<sheet, encoding, at, album, files, inTrack, length, audio, cap>>

\* The next command is `cmd`.
Reading(cmd) == phase = "reading" /\ at < Len(sheet) /\ sheet[at + 1].cmd = cmd

Read == at' = at + 1 /\ UNCHANGED <<sheet, encoding, charset, length, audio, cap, phase>>

ReadFile ==
  /\ Reading("FILE")
  /\ files' = Append(files, <<>>)
  /\ inTrack' = FALSE
  /\ UNCHANGED album
  /\ Read

\* A TRACK before any FILE opens a file without a name.
ReadTrack ==
  /\ Reading("TRACK")
  /\ LET fs == IF files = <<>> THEN <<<<>>>> ELSE files IN
     files' = [fs EXCEPT ![Len(fs)] = Append(@, NewTrack(sheet[at + 1].num))]
  /\ inTrack' = TRUE
  /\ UNCHANGED album
  /\ Read

BadPlaced(command) == inTrack

\* Is the offset of this command used?
Placed(command) == inTrack /\ command.time # BadTime

\* The current track gets new fields.
SetTrack(track) == files' = [files EXCEPT ![Len(files)][Len(files[Len(files)])] = track]

CurTrack == Last(Last(files))

ReadIndex ==
  /\ Reading("INDEX")
  /\ LET index == sheet[at + 1] IN
     \/ /\ Placed(index) /\ index.num = 0
        /\ SetTrack([CurTrack EXCEPT !.pregap = index.time])
     \/ /\ Placed(index) /\ index.num = 1
        /\ SetTrack([CurTrack EXCEPT !.start = index.time, !.indexed = TRUE])
     \/ /\ ~Placed(index) \/ index.num \notin {0, 1}
        /\ UNCHANGED files
  /\ UNCHANGED <<inTrack, album>>
  /\ Read

ReadPregap ==
  /\ Reading("PREGAP")
  /\ LET pregap == sheet[at + 1] IN
     \/ Placed(pregap) /\ SetTrack([CurTrack EXCEPT !.pregap = pregap.time])
     \/ ~Placed(pregap) /\ UNCHANGED files
  /\ UNCHANGED <<inTrack, album>>
  /\ Read

\* TITLE, PERFORMER or SONGWRITER: of the current track, or else of the album.
ReadText(cmd) ==
  /\ Reading(cmd)
  /\ LET params == RawParams(at + 1) IN
     \/ params = <<>> /\ UNCHANGED <<files, album>>
     \/ /\ params # <<>> /\ inTrack
        /\ SetTrack([CurTrack EXCEPT ![Field[cmd]] = Decode(params[1], charset)])
        /\ UNCHANGED album
     \/ /\ params # <<>> /\ ~inTrack
        /\ album' = [album EXCEPT ![Field[cmd]] = Decode(params[1], charset)]
        /\ UNCHANGED files
  /\ UNCHANGED inTrack
  /\ Read

\* REM: all that follows, whatever track is current. The first date and genre that
\* are not empty count, and the last number of a disc.
ReadRem(cmd) ==
  /\ Reading(cmd)
  /\ LET params == RawParams(at + 1)
         text == Joined([i \in DOMAIN params |-> Decode(params[i], charset)])
     IN album' = [album EXCEPT ![Field[cmd]] =
                    IF @ # <<>> /\ cmd # "DISCNUMBER" THEN @ ELSE text]
  /\ UNCHANGED <<files, inTrack>>
  /\ Read

BadEnd(tracks, i) == IF i < Len(tracks) THEN tracks[i + 1].start ELSE tracks[i].end

\* Where a track ends: at the pre-gap of the next one, or where that starts.
End(tracks, i) ==
  IF i = Len(tracks) THEN tracks[i].end
  ELSE IF tracks[i + 1].pregap > 0 /\ tracks[i + 1].pregap > tracks[i].start
  THEN tracks[i + 1].pregap
  ELSE tracks[i + 1].start

\* calculateTrackBoundaries. A track without INDEX 01 has start 0 as it is new.
SetBoundaries ==
  /\ phase = "reading" /\ at = Len(sheet)
  /\ files' = [f \in DOMAIN files |->
                 [i \in DOMAIN files[f] |-> [files[f][i] EXCEPT !.end = End(files[f], i)]]]
  /\ phase' = "parsed"
  /\ UNCHANGED <<sheet, encoding, at, charset, album, inTrack, length, audio, cap>>

-----------------------------------------------------------------------------
(* buildDirState *)

\* Did the probe of `a` find out how long it is?
Probed(a) == Probe(a).duration

\* A last track without an end gets the probed length.
LastEnd(track, a) ==
  IF Probed(a) /\ track.end <= track.start /\ length > track.start THEN length ELSE track.end

SetLastEnds ==
  /\ phase = "parsed"
  /\ audio' \in Audios
  /\ cap' \in Caps
  /\ files' = [f \in DOMAIN files |->
                 [i \in DOMAIN files[f] |->
                    IF i = Len(files[f])
                    THEN [files[f][i] EXCEPT !.end = LastEnd(files[f][i], audio')]
                    ELSE files[f][i]]]
  /\ phase' = "built"
  /\ UNCHANGED <<sheet, encoding, at, charset, album, inTrack, length>>

Bounded(track) == track.end > track.start

TotalKnown(tracks) ==
  IF Probed(audio) THEN length
  ELSE FoldFunctionOnSet(LAMBDA t, sum : sum + t.end - t.start, 0, tracks,
                         {i \in DOMAIN tracks : Bounded(tracks[i])})

BadTrackDuration(tracks, i) ==
  IF Bounded(tracks[i]) THEN tracks[i].end - tracks[i].start ELSE 0

TrackDuration(tracks, i) ==
  IF Bounded(tracks[i]) THEN tracks[i].end - tracks[i].start
  ELSE IF TotalKnown(tracks) > tracks[i].start THEN TotalKnown(tracks) - tracks[i].start
  ELSE 0

AudioSize == Size(audio.ext, length, audio.format)

\* estimatedSize with its margin of 5/4, before the floor and the artwork.
Estimate(tracks, i) ==
  LET ratio == QualityRatio(audio, cap) IN
  IF TrackDuration(tracks, i) > 0 /\ TotalKnown(tracks) > 0
  THEN (5 * AudioSize * ratio[1] * TrackDuration(tracks, i))
         \div (4 * ratio[2] * TotalKnown(tracks))
  ELSE (5 * AudioSize * ratio[1]) \div (4 * ratio[2] * Len(tracks))

\* The frames that -ss and -t select from the audio file.
Cut(track) ==
  {p \in 0 .. length - 1 : p >= track.start /\ (Bounded(track) => p < track.end)}

\* A number as a text.
Itoa(num) == <<ToString(num)>>

\* What stands in for a missing title.
DefaultTitle(num) == <<"Track", "sp">> \o Itoa(num)

\* The tags of a slice, empty where there is none. The album's songwriter comes
\* before the track's, its performer after.
Tags(track) ==
  [title |-> IF track.title = <<>> THEN DefaultTitle(track.num) ELSE track.title,
   artist |-> IF track.performer = <<>> THEN album.performer ELSE track.performer,
   album_artist |-> album.performer,
   album |-> album.title,
   track |-> IF track.num > 0 THEN Itoa(track.num) ELSE <<>>,
   date |-> album.date,
   genre |-> album.genre,
   disc |-> album.disc,
   composer |-> IF album.songwriter = <<>> THEN track.songwriter ELSE album.songwriter]

\* What the audio file has for a tag itself.
OfSource == <<"of the source">>

\* What is then in the file of the track: BuildArgs passes no empty tag, and ffmpeg
\* keeps those of the audio file that it is not given.
Metadata(track) ==
  [tag \in DOMAIN Tags(track) |->
     IF Tags(track)[tag] = <<>> THEN OfSource ELSE Tags(track)[tag]]

Next ==
  \/ SplitLines
  \/ ReadFile \/ ReadTrack \/ ReadIndex \/ ReadPregap
  \/ \E cmd \in TrackCommands : ReadText(cmd)
  \/ \E cmd \in RemCommands : ReadRem(cmd)
  \/ SetBoundaries
  \/ SetLastEnds

Spec == Init /\ [][Next]_vars

-----------------------------------------------------------------------------
(* What the sheet says *)

\* Does command i open a file? A TRACK before any FILE is in one without a name.
OpensFile(i) ==
  \/ sheet[i].cmd = "FILE"
  \/ sheet[i].cmd = "TRACK" /\ \A j \in 1 .. i - 1 : sheet[j].cmd \notin {"FILE", "TRACK"}

\* Which file command i is about, and which of its tracks: 0 for the album, or
\* for the file as a whole.
FilesSaid(i) == Cardinality({j \in 1 .. i : OpensFile(j)})
TracksSaid(i) ==
  Cardinality({j \in 1 .. i :
                 sheet[j].cmd = "TRACK" /\ \A k \in j .. i : sheet[k].cmd # "FILE"})

Said(i, f, t) == FilesSaid(i) = f /\ TracksSaid(i) = t

Indices(f) == {i \in DOMAIN sheet : sheet[i].cmd = "INDEX" /\ FilesSaid(i) = f}

\* A sheet as programs write it: each track has one INDEX 01, perhaps after an
\* INDEX 00, and the indices of a file increase and lie within it.
Orderly ==
  /\ \A i \in DOMAIN sheet : sheet[i].cmd = "INDEX" =>
       sheet[i].time \in 0 .. length - 1 /\ sheet[i].num \in {0, 1} /\ TracksSaid(i) > 0
  /\ \A i, j \in DOMAIN sheet :
       i < j /\ sheet[i].cmd = "INDEX" /\ sheet[j].cmd = "INDEX" /\ FilesSaid(i) = FilesSaid(j) =>
         /\ sheet[i].time < sheet[j].time
         /\ TracksSaid(i) = TracksSaid(j) => sheet[i].num = 0 /\ sheet[j].num = 1
  /\ \A t \in DOMAIN sheet : sheet[t].cmd = "TRACK" =>
       \E i \in DOMAIN sheet :
         sheet[i].cmd = "INDEX" /\ sheet[i].num = 1 /\ Said(i, FilesSaid(t), TracksSaid(t))

\* The track of file f that the sheet gives frame p to: that of the last index up
\* to p, or none before it and in a pre-gap.
Owner(f, p) ==
  LET passed == {i \in Indices(f) : sheet[i].time <= p} IN
  IF passed = {} \/ sheet[Max(passed)].num = 0 THEN {}
  ELSE {TracksSaid(Max(passed))}

\* The texts are where programs write them: those of the album before the first
\* FILE and there each REM once, those of a track before any other FILE or TRACK.
TextsInPlace ==
  \A i \in Texts :
    LET rem == sheet[i].cmd \in RemCommands IN
    /\ Safe(sheet[i].text, sheet[i].style, rem)
    /\ FilesSaid(i) > 0 => TracksSaid(i) > 0 /\ ~rem
    /\ rem => \A j \in Texts : sheet[j].cmd = sheet[i].cmd => j = i

\* The text that the sheet gives track t of file f, or the album as 0 of 0.
Wrote(f, t, cmd) ==
  LET places == {i \in Texts : sheet[i].cmd = cmd /\ Said(i, f, t)} IN
  IF places = {} THEN <<>> ELSE sheet[Max(places)].text

\* The number that it gives this track.
Number(f, t) ==
  sheet[CHOOSE i \in DOMAIN sheet : sheet[i].cmd = "TRACK" /\ Said(i, f, t)].num

-----------------------------------------------------------------------------
(* Properties *)

\* The variables keep the shape of the code's data; no time is one that could
\* not be parsed.
TypeOK ==
  /\ at \in 0 .. Len(sheet)
  /\ encoding \in Encodings /\ charset \in DOMAIN Codes
  /\ inTrack \in BOOLEAN
  /\ inTrack => files # <<>> /\ files[Len(files)] # <<>>
  /\ audio \in Audios \cup {NoAudio} /\ cap \in Caps \cup {Unknown}
  /\ \A f \in DOMAIN files : \A i \in DOMAIN files[f] :
       /\ files[f][i].start \in Nat /\ files[f][i].end \in Nat /\ files[f][i].pregap \in Nat
       /\ files[f][i].indexed \in BOOLEAN /\ files[f][i].num \in Int

\* The virtual tracks of an orderly sheet divide the audio as the sheet says:
\* every frame from an INDEX 01 to the next index is in the file of its track
\* and in no other, and the frames of pre-gaps are in none. It takes INDEX 00
\* and 01, the boundaries, the probed length and the cut to EOF to be right
\* together.
EveryFrameInItsTrack ==
  phase = "built" /\ Orderly =>
    \A f \in DOMAIN files : \A p \in 0 .. length - 1 :
      {i \in DOMAIN files[f] : p \in Cut(files[f][i])} = Owner(f, p)

\* "A real FLAC re-encoded with tags from the CUE sheet" (README.md): what is in the
\* file of a track is, character by character, the text that somebody wrote for
\* it: its performer or else the album's, the album's songwriter or else its own,
\* the number of its TRACK; and where nobody wrote one it is what the audio file
\* has. Between the two lie the quotes and escapes, the split of bytes before
\* their encoding is known, a guess from the texts of the whole sheet, and the
\* track that a command reaches.
TextsSurvive ==
  phase = "built" /\ TextsInPlace =>
    \A f \in DOMAIN files : \A t \in DOMAIN files[f] :
      LET Or(text, default) == IF text = <<>> THEN default ELSE text
          OfTrack(cmd) == Wrote(f, t, cmd)
          OfAlbum(cmd) == Wrote(0, 0, cmd)
      IN Metadata(files[f][t]) =
           [title |-> Or(OfTrack("TITLE"), DefaultTitle(Number(f, t))),
            artist |-> Or(Or(OfTrack("PERFORMER"), OfAlbum("PERFORMER")), OfSource),
            album_artist |-> Or(OfAlbum("PERFORMER"), OfSource),
            album |-> Or(OfAlbum("TITLE"), OfSource),
            track |-> IF Number(f, t) > 0 THEN Itoa(Number(f, t)) ELSE OfSource,
            date |-> Or(OfAlbum("DATE"), OfSource),
            genre |-> Or(OfAlbum("GENRE"), OfSource),
            disc |-> Or(OfAlbum("DISCNUMBER"), OfSource),
            composer |-> Or(Or(OfAlbum("SONGWRITER"), OfTrack("SONGWRITER")), OfSource)]

\* "Getattr reports a safe upper bound" (build.go): for lossless audio whose length
\* is known, the estimate of a track is no smaller than the FLAC file cut for it,
\* even where the sheet's times are missing, decrease or lie beyond the end, and
\* whatever part of the format the cap lowers. It need not be for a depth that
\* only the sample format tells and overstates: what the cap takes off that
\* depth is then more than what it takes off the file.
EstimateCoversCut ==
  phase = "built" /\ Probed(audio) /\ Lossless(audio.ext) /\ ~Overstated(audio) =>
    \A f \in DOMAIN files : \A i \in DOMAIN files[f] :
      Estimate(files[f], i) >= Size("flac", Cardinality(Cut(files[f][i])), Output(audio, cap))

\* "A cap is strictly an upper bound" (quality.go): whatever the probe found out, no
\* dimension that it did find out is above the cap, and none is above that of the
\* file, but for one case that contradicts the comment: where the sample format
\* overstates the depth, a cap between the true depth and that one raises it.
CapOnlyLowers ==
  phase = "built" =>
    LET out == Output(audio, cap) IN
    \A d \in {"rate", "bits"} :
      /\ \/ out[d] <= audio.format[d]
         \/ d = "bits" /\ Overstated(audio) /\ out.bits = cap.bits
      /\ cap[d] > 0 /\ Probe(audio).format[d] > 0 => out[d] <= cap[d]
=============================================================================
