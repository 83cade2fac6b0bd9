------------------------------ MODULE CueText ------------------------------
(***************************************************************************)
(* The texts of a cue sheet: the bytes that a writer makes of them, the    *)
(* split into parameters (parseCommandBytes, internal/cue/tokenizer.go),   *)
(* the code page and the text again (internal/cue/encoding.go).            *)
(*                                                                         *)
(* A text is a sequence of characters and a line one of bytes, each known  *)
(* by its role. Of the ASCII ones, "a" has none, "n" and "t" may follow a  *)
(* backslash "bs", and "dq" and "sq" are the quotes. Of the others,        *)
(* "accent" is in every code page, and "kana" is one whose second byte in  *)
(* Shift-JIS, GBK or Big5 is the number of the backslash. The line is what *)
(* follows the command, without spaces at its end.                         *)
(***************************************************************************)
EXTENDS Integers, SequencesExt

Encodings == {"utf-8", "utf-16", "single-byte", "double-byte"}

Ascii == {"a", "n", "t", "sp", "dq", "sq", "bs", "newline", "tab"}

\* The bytes of the other characters in each charset that has them.
Others ==
  [charset \in Encodings \ {"utf-16"} |->
     CASE charset = "utf-8" -> [accent |-> <<"u1", "u2">>, kana |-> <<"u1", "u3">>]
       [] charset = "single-byte" -> [accent |-> <<"h1">>]
       [] charset = "double-byte" -> [accent |-> <<"h1", "h2">>, kana |-> <<"h1", "bs">>]]

Codes ==
  [charset \in DOMAIN Others |->
     [c \in Ascii \cup DOMAIN Others[charset] |->
        IF c \in Ascii THEN <<c>> ELSE Others[charset][c]]]

-----------------------------------------------------------------------------
(* Writers: a text bare, in quotes of either kind, or in double quotes with *)
(* every quote and backslash escaped.                                       *)

Styles == {"bare", "dq", "sq", "escaped"}

\* The quote before and after a text.
Quote(style) ==
  CASE style = "bare" -> <<>>
    [] style = "escaped" -> <<"dq">>
    [] OTHER -> <<style>>

\* SniffAndPreprocess makes UTF-8 of UTF-16 before the lines are split.
Charset(encoding) == IF encoding = "utf-16" THEN "utf-8" ELSE encoding

\* The bytes of a character in a text of this style.
Written(char, style, charset) ==
  IF style = "escaped" /\ char \in {"dq", "sq", "bs"} THEN <<"bs", char>>
  ELSE Codes[charset][char]

Line(text, style, encoding) ==
  Quote(style)
    \o FlattenSeq([i \in DOMAIN text |-> Written(text[i], style, Charset(encoding))])
    \o Quote(style)

-----------------------------------------------------------------------------
(* parseCommandBytes *)

\* What a backslash makes of the byte behind it.
Escape == [dq |-> "dq", sq |-> "sq", bs |-> "bs", n |-> "newline", t |-> "tab"]

\* params so far, the bytes of the next one, the quote it is in, and whether the
\* next byte is already used.
Start == [params |-> <<>>, buf |-> <<>>, quote |-> "none", skip |-> FALSE]

Push(s) == [s EXCEPT !.params = Append(@, s.buf), !.buf = <<>>, !.quote = "none"]
Write(s, b) == [s EXCEPT !.buf = Append(@, b)]

BadOpens(s, b) == s.quote = "none" /\ b \in {"dq", "sq"}

\* A quote opens a parameter only at its start.
Opens(s, b) == s.quote = "none" /\ b \in {"dq", "sq"} /\ s.buf = <<>>

Blank(s, b) == s.quote = "none" /\ b \in {"sp", "tab"}

\* The loop's turn for the i-th byte of the line.
Turn(line, s, i) ==
  LET b == line[i] IN
  IF s.skip THEN [s EXCEPT !.skip = FALSE]
  ELSE IF Opens(s, b) THEN [s EXCEPT !.quote = b]
  ELSE IF Blank(s, b) THEN IF s.buf = <<>> THEN s ELSE Push(s)
  ELSE IF b = s.quote THEN Push(s)
  ELSE IF b = "bs" /\ i < Len(line) /\ line[i + 1] \in DOMAIN Escape
  THEN [Write(s, Escape[line[i + 1]]) EXCEPT !.skip = TRUE]
  ELSE Write(s, b)

\* The state after each byte.
Turns(line) ==
  LET state[i \in 0 .. Len(line)] == IF i = 0 THEN Start ELSE Turn(line, state[i - 1], i)
  IN  state

Params(line) ==
  LET s == Turns(line)[Len(line)] IN
  IF s.buf # <<>> \/ s.quote # "none" THEN Push(s).params ELSE s.params

-----------------------------------------------------------------------------
(* Code pages *)

Chars(bytes, charset) == {c \in DOMAIN Codes[charset] : Codes[charset][c] = bytes}

\* The bytes seen of the next character, and the text so far with one more byte.
DecodeByte(s, byte, charset) ==
  LET seen == Append(s.seen, byte) IN
  IF Chars(seen, charset) # {}
  THEN [seen |-> <<>>, text |-> Append(s.text, CHOOSE c \in Chars(seen, charset) : TRUE)]
  ELSE IF Len(seen) = 1 THEN [s EXCEPT !.seen = seen]
  ELSE [seen |-> <<>>, text |-> Append(s.text, "bad")]

DecodeStates(bytes, charset) ==
  LET state[i \in 0 .. Len(bytes)] ==
        IF i = 0 THEN [seen |-> <<>>, text |-> <<>>]
        ELSE DecodeByte(state[i - 1], bytes[i], charset)
  IN  state

\* The characters that the bytes stand for, "bad" where there is none.
Decoded(bytes, charset) ==
  LET end == DecodeStates(bytes, charset)[Len(bytes)] IN
  IF end.seen = <<>> THEN end.text ELSE Append(end.text, "bad")

ValidUTF8(bytes) == ~Contains(Decoded(bytes, "utf-8"), "bad")

\* Parameters with a byte above 127 are the sample.
InSample(param) == \E i \in DOMAIN param : param[i] \notin Ascii

\* DetectEncoding: valid UTF-8 or nothing is UTF-8. Otherwise letters are scored
\* in every code page, which is taken to find the one that the lines are in.
DetectEncoding(sample, encoding) ==
  IF \A param \in sample : ValidUTF8(param) THEN "utf-8" ELSE Charset(encoding)

\* MakeDecoder: what is valid UTF-8 stays as it is.
Decode(param, charset) ==
  Decoded(param, IF ValidUTF8(param) THEN "utf-8" ELSE charset)

\* Words with a space between them, as parseRem joins the parameters of a REM.
Joined(words) ==
  FlattenSeq([i \in DOMAIN words |-> IF i = 1 THEN words[i] ELSE <<"sp">> \o words[i]])

-----------------------------------------------------------------------------
(* What the styles can carry                                               *)

\* Are the characters of a text safe in the style it is written in? Bare ones have
\* no blanks, but spaces where words are `joined`, and nothing that begins like a
\* quote; quoted ones not that quote; and only the style that escapes has a
\* backslash before a quote, a backslash, an n or a t.
Safe(text, style, joined) ==
  LET n == Len(text)
      Blanks == {j \in 1 .. n : text[j] = "sp"}
  IN /\ style = "bare" =>
          /\ n > 0 /\ {1, n} \cap Blanks = {} /\ ~Contains(text, "tab")
          /\ ~joined => Blanks = {}
          /\ \A j \in {1} \cup {k + 1 : k \in Blanks} : text[j] \notin {"dq", "sq", "sp"}
     /\ style \in {"dq", "sq"} => ~Contains(text, style)
     /\ style # "escaped" => \A j \in 1 .. n :
          text[j] = "bs" =>
            \/ j < n /\ text[j + 1] \notin DOMAIN Escape
            \/ j = n /\ style = "bare"
=============================================================================
