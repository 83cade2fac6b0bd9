---------------------------- MODULE SourceAudio ----------------------------
(***************************************************************************)
(* What the program finds out about an audio file (audio.Probe), the       *)
(* format it then asks ffmpeg for (Quality.Plan, BuildArgs), and what this *)
(* does to the size of a slice.                                            *)
(*                                                                         *)
(* An audio file is a record: its extension, its true rate and bits, what  *)
(* its header tells (all, all but the length, no usable format, or         *)
(* nothing), and what ffprobe tells, if it works. 0 stands for a value     *)
(* that is not known, or in a cap and in targets for one that is not set.  *)
(***************************************************************************)
EXTENDS Naturals

Format == [rate : Nat, bits : Nat]

\* No sample has more than 64 bits.
AudioFile ==
  [ext : {"flac", "wav", "wv", "mp3"}, format : [rate : Nat, bits : 0 .. 64],
   header : {"complete", "lengthless", "formatless", "unreadable"},
   ffprobe : {"fails", "noFormat", "noLength", "sampleFmt", "rawBits"}]

Unknown == [rate |-> 0, bits |-> 0]

-----------------------------------------------------------------------------
(* audio.Probe                                                             *)

Info == [ok : BOOLEAN, duration : BOOLEAN, format : Format]

\* The bits of the sample format in which ffmpeg decodes.
SampleFmtBits(bits) ==
  IF bits <= 8 THEN 8 ELSE IF bits <= 16 THEN 16 ELSE IF bits <= 32 THEN 32 ELSE 64

\* parseFFprobeJSON: fields may be missing; without bits_per_raw_sample and
\* bits_per_sample the sample format must do.
FFprobe(a) ==
  [ok |-> a.ffprobe # "fails",
   duration |-> a.ffprobe \notin {"fails", "noLength"},
   format |-> CASE a.ffprobe \in {"fails", "noFormat"} -> Unknown
                [] a.ffprobe = "sampleFmt" -> [a.format EXCEPT !.bits = SampleFmtBits(@)]
                [] OTHER -> a.format]

\* probeFLACInfo: the STREAMINFO block has it all, except that the rate may be 0
\* and a streamed file does not know its length.
FLACInfo(a) ==
  [ok |-> a.header # "unreadable",
   duration |-> a.header \in {"complete", "formatless"},
   format |-> CASE a.header = "unreadable" -> Unknown
                [] a.header = "formatless" -> [a.format EXCEPT !.rate = 0]
                [] OTHER -> a.format]

\* probeWAVInfo: the length is that of the data chunk, which may be missing; as it
\* is read last, a "fmt " chunk that follows it is not found.
WAVInfo(a) ==
  [ok |-> a.header # "unreadable",
   duration |-> a.header \in {"complete", "formatless"},
   format |-> IF a.header \in {"complete", "lengthless"} THEN a.format ELSE Unknown]

Direct(a) == CASE a.ext = "flac" -> FLACInfo(a)
               [] a.ext = "wav" -> WAVInfo(a)
               [] OTHER -> [ok |-> FALSE, duration |-> FALSE, format |-> Unknown]

\* The header of the file if it tells everything, or else ffprobe.
Probe(a) ==
  LET direct == Direct(a) IN
  IF direct.ok /\ direct.duration /\ direct.format.rate > 0 THEN direct ELSE FFprobe(a)

\* Is the depth told only by the sample format, which has more bits?
Overstated(a) == Probe(a).format.bits > a.format.bits

-----------------------------------------------------------------------------
(* The quality cap                                                         *)

BadCapped(source, cap) == IF cap > 0 /\ source # cap THEN cap ELSE 0

\* Quality.Plan in one dimension: the cap if the source is known to exceed it.
Capped(source, cap) == IF cap > 0 /\ source > cap THEN cap ELSE 0

Targets(a, cap) ==
  [rate |-> Capped(Probe(a).format.rate, cap.rate),
   bits |-> Capped(Probe(a).format.bits, cap.bits)]

\* BuildArgs passes -ar, -sample_fmt and -bits_per_raw_sample for targets that
\* are set; otherwise ffmpeg keeps the format of the file.
Output(a, cap) ==
  LET t == Targets(a, cap) IN
  [rate |-> IF t.rate > 0 THEN t.rate ELSE a.format.rate,
   bits |-> IF t.bits > 0 THEN t.bits ELSE a.format.bits]

-----------------------------------------------------------------------------
(* Sizes                                                                   *)

\* The factor, as a fraction, by which a target lowers the size.
Lowered(source, target) == IF source > 0 /\ target > 0 THEN <<target, source>> ELSE <<1, 1>>

\* wavToFlacSizeRatio
FlacOfWav(a) == IF a.ext = "wav" THEN <<3, 5>> ELSE <<1, 1>>

\* qualityRatio
QualityRatio(a, cap) ==
  LET known == Probe(a).format
      factors == <<Lowered(known.rate, Targets(a, cap).rate),
                   Lowered(known.bits, Targets(a, cap).bits),
                   FlacOfWav(a)>>
  IN  <<factors[1][1] * factors[2][1] * factors[3][1],
        factors[1][2] * factors[2][2] * factors[3][2]>>

Lossless(ext) == ext # "mp3"

\* How many bytes encoders make of ten: lossless ones about 6, lossy ones less.
Density(ext) == CASE ext = "wav" -> 10 [] ext \in {"flac", "wv"} -> 6 [] ext = "mp3" -> 1

Size(ext, frames, format) == frames * format.rate * format.bits * Density(ext)
=============================================================================
