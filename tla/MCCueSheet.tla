----------------------------- MODULE MCCueSheet -----------------------------
(* Small cue sheets for TLC.                                               *)
EXTENDS CueSheet

FILE == [cmd |-> "FILE"]
TRACK(n) == [cmd |-> "TRACK", num |-> n]
INDEX(n, t) == [cmd |-> "INDEX", num |-> n, time |-> t]
PREGAP(t) == [cmd |-> "PREGAP", time |-> t]

\* At most one command of each kind that a track may have, at these times.
Optional(commands) == {<<>>} \cup {<<c>> : c \in commands}
TrackOf(gaps, zeros, ones) == {<<TRACK(1)>> \o g \o z \o o : g \in gaps, z \in zeros, o \in ones}
NoGap == {<<>>}
Gaps(times) == Optional({PREGAP(t) : t \in times})
Zeros(times) == Optional({INDEX(0, t) : t \in times})
Ones(times) == {<<INDEX(1, t)>> : t \in times}

\* Sheets of three tracks, in one file or two, whose times need not increase.
Plain(times) == TrackOf(NoGap, Zeros(times), Ones(times))
First(times) == TrackOf(Gaps({1}), Zeros(times), Ones(times))
ThreeTracks ==
  {<<FILE>> \o a \o b \o file \o c :
     a \in First(0 .. 1), b \in Plain(1 .. 3), c \in Plain({0, 2, 3, 4}), file \in {<<>>, <<FILE>>}}

\* Sheets of two tracks with anything missing, repeated or out of place.
Odd == TrackOf(Gaps({2}), Zeros({3, BadTime}),
               Optional({INDEX(1, t) : t \in {0, 2, 6, BadTime}} \cup {INDEX(2, 2)}))
OddSheets ==
  {start \o a \o file \o b : start \in {<<>>, <<FILE>>, <<FILE, INDEX(1, 2), PREGAP(1)>>},
                             a \in Odd, b \in Odd, file \in {<<>>, <<FILE>>}}

\* Sheets of two tracks with texts everywhere but in one place, where x is.
TEXT(cmd, style, x) == [cmd |-> cmd, style |-> style, text |-> x]

WithTexts(style, x, place) ==
  LET At(p, commands) == IF place = p THEN commands ELSE <<>>
      X(cmd) == TEXT(cmd, style, x)
  IN <<TEXT("PERFORMER", "dq", <<"a", "sp", "accent">>)>>
       \o At("album", <<X("GENRE"), X("DATE"), X("SONGWRITER"), X("TITLE"), X("DISCNUMBER")>>)
       \o <<FILE, TRACK(1)>> \o At("track", <<X("TITLE"), X("SONGWRITER")>>) \o <<INDEX(1, 0)>>
       \o At("second file", <<FILE>>)
       \o <<TRACK(IF place = "second file" THEN 0 ELSE 2), TEXT("TITLE", "bare", <<"n", "sq", "t">>)>>
       \o At("album", <<TEXT("SONGWRITER", "bare", <<"n">>)>>)
       \o At("second file", <<X("PERFORMER")>>) \o <<INDEX(1, 2)>>

\* The texts of up to three of these characters that are safe in a style.
TextSheets(chars, encodings) ==
  UNION {{[encoding |-> e, commands |-> WithTexts(style, x, place)] :
            x \in {t \in BoundedSeq(chars, 3) : Safe(t, style, FALSE)},
            place \in {"album", "track", "second file"}, e \in encodings} : style \in Styles}

\* Sheets without texts, in any encoding.
Untitled(sheets) == {[encoding |-> "utf-8", commands |-> s] : s \in sheets}

MCSheets ==
  Untitled(ThreeTracks \cup OddSheets)
    \cup TextSheets({"accent", "n", "sp", "dq", "sq", "bs"}, {"single-byte"})
    \cup TextSheets({"kana", "dq", "bs"}, {"utf-8", "utf-16"})
    \cup TextSheets({"accent", "sq", "bs"}, {"double-byte"})

\* Texts of a double-byte code page, in a sheet as programs write it.
DoubleByteSheets ==
  {[encoding |-> "double-byte", commands |-> WithTexts("dq", x, "album")] :
     x \in BoundedSeq({"a", "kana"}, 3)}

\* Two tracks, the second with a PREGAP.
PregapSheets ==
  Untitled({<<FILE>> \o a \o b :
              a \in Plain({0}), b \in TrackOf({<<PREGAP(2)>>}, NoGap, Ones(2 .. 4))})

-----------------------------------------------------------------------------
(* Audio files: the rates 1 and 2 stand for 48 and 96 kHz.                 *)
Audio(ext, rate, bits, header, ffprobe) ==
  [ext |-> ext, format |-> [rate |-> rate, bits |-> bits], header |-> header, ffprobe |-> ffprobe]

\* Every way of probing; the 20 bits are taken for 32.
MCAudios == {
  Audio("flac", 2, 24, "complete", "fails"),
  Audio("wav", 1, 16, "complete", "fails"),
  Audio("flac", 2, 24, "lengthless", "rawBits"),
  Audio("wav", 2, 24, "formatless", "noFormat"),
  Audio("wv", 2, 16, "unreadable", "sampleFmt"),
  Audio("wv", 1, 20, "unreadable", "sampleFmt"),
  Audio("mp3", 1, 16, "unreadable", "noLength"),
  Audio("flac", 2, 24, "unreadable", "fails")}

Cap(rate, bits) == [rate |-> rate, bits |-> bits]
OneAudio == {Audio("wav", 1, 16, "complete", "fails")}

MCCaps == {Cap(0, 0), Cap(1, 16), Cap(0, 24)}
NoCaps == {Cap(0, 0)}
=============================================================================
