---------------------------- MODULE CueTextProofs ----------------------------
(***************************************************************************)
(* A text of any length arrives as it was written.                         *)
(*                                                                         *)
(* The functions of CueText that run over a line are recursive. Recursion  *)
(* shows once that such a function is there, from the least number         *)
(* principle; what it computes is then shown by induction on the number of *)
(* characters of the text, not of bytes: a character is one or two bytes,  *)
(* and may have a backslash before it.                                     *)
(*                                                                         *)
(* In order: induction, recursion and flattened sequences; that decoding   *)
(* undoes the codes (DecodedText); what the split makes of one character,  *)
(* of a text in quotes and of the words of a bare one (LineParams); and    *)
(* both together (TextArrives).                                            *)
(***************************************************************************)
EXTENDS CueText, WellFoundedInduction, TLAPS

-----------------------------------------------------------------------------
(* Induction and recursion                                                 *)

\* A set of numbers has a least one.
LEMMA LeastNumber ==
  ASSUME NEW S \in SUBSET Nat, S # {}
  PROVE  \E x \in S : \A y \in S : x <= y
<1>1. PICK x \in S : \A y \in S : <<y, x>> \notin OpToRel(<, Nat)
  BY NatLessThanWellFounded, WFMin
<1>2. \A y \in S : ~(y < x)
  BY <1>1 DEF OpToRel
<1>3. \A y \in S : x <= y
  BY <1>2
<1> QED
  BY <1>3

\* What holds of 0, and of the next number if of one, holds of all.
LEMMA Induction ==
  ASSUME NEW S, 0 \in S, \A n \in Nat : n \in S => n + 1 \in S
  PROVE  Nat \subseteq S
<1> SUFFICES ASSUME Nat \ S # {} PROVE FALSE
  OBVIOUS
<1>1. PICK m \in Nat \ S : \A k \in Nat \ S : m <= k
  BY LeastNumber
<1>2. CASE m = 0
  BY <1>2
<1>3. CASE m # 0
  <2>1. m - 1 \in Nat /\ m - 1 \in S
    BY <1>1, <1>3
  <2> QED
    BY <2>1
<1> QED
  BY <1>2, <1>3

\* Does g begin with a and go on by F?
Iterates(g, n, A, a, F) ==
  g \in [0 .. n -> A] /\ g[0] = a /\ \A i \in 1 .. n : g[i] = F[<<g[i - 1], i>>]

\* A function given by its first value and a step is there.
LEMMA Recursion ==
  ASSUME NEW n \in Nat, NEW A, NEW a \in A, NEW F \in [A \X (1 .. n) -> A]
  PROVE  \E g : Iterates(g, n, A, a, F)
<1> DEFINE Good(m, g) == Iterates(g, m, A, a, F)
           S == {m \in Nat : m <= n => \E g : Good(m, g)}
<1>1. 0 \in S
  <2>1. Good(0, [i \in 0 .. 0 |-> a])
    BY DEF Iterates
  <2> QED
    BY <2>1
<1>2. ASSUME NEW m \in Nat, m \in S
      PROVE  m + 1 \in S
  <2> SUFFICES ASSUME m + 1 <= n PROVE \E g : Good(m + 1, g)
    OBVIOUS
  <2>1. PICK g : Good(m, g)
    BY <1>2
  <2> DEFINE next == F[<<g[m], m + 1>>]
             h == [i \in 0 .. m + 1 |-> IF i = m + 1 THEN next ELSE g[i]]
  <2>2. /\ g \in [0 .. m -> A] /\ g[0] = a
        /\ \A i \in 1 .. m : g[i] = F[<<g[i - 1], i>>]
    BY <2>1 DEF Iterates
  <2>3. m \in 0 .. m /\ m + 1 \in 1 .. n
    OBVIOUS
  <2>4. next \in A
    BY <2>2, <2>3
  <2>5. /\ DOMAIN h = 0 .. m + 1 /\ h[m + 1] = next
        /\ \A i \in 0 .. m : h[i] = g[i]
    OBVIOUS
  <2>6. h \in [0 .. m + 1 -> A]
    <3>1. \A i \in 0 .. m + 1 : h[i] \in A
      <4>1. \A i \in 0 .. m + 1 : i \in 0 .. m \/ i = m + 1
        OBVIOUS
      <4> HIDE DEF h, next
      <4> QED
        BY <2>2, <2>4, <2>5, <4>1
    <3> QED
      BY <3>1
  <2>7. h[0] = a
    BY <2>2, <2>5
  <2>8. ASSUME NEW i \in 1 .. m + 1
        PROVE  h[i] = F[<<h[i - 1], i>>]
    <3>1. i - 1 \in 0 .. m /\ h[i - 1] = g[i - 1]
      OBVIOUS
    <3>2. CASE i = m + 1
      <4>1. h[i] = next /\ i - 1 = m
        BY <2>5, <3>2
      <4>2. h[i - 1] = g[m]
        BY <3>1, <4>1
      <4> HIDE DEF h
      <4> QED
        BY <3>2, <4>1, <4>2
    <3>3. CASE i \in 1 .. m
      <4>1. h[i] = g[i]
        BY <3>3
      <4> QED
        BY <2>2, <3>1, <3>3, <4>1
    <3>4. i = m + 1 \/ i \in 1 .. m
      OBVIOUS
    <3> QED
      BY <3>2, <3>3, <3>4
  <2> HIDE DEF h
  <2> QED
    BY <2>6, <2>7, <2>8 DEF Iterates
<1>3. n \in S
  <2> HIDE DEF S
  <2>1. Nat \subseteq S
    BY <1>1, <1>2, Induction
  <2> QED
    BY <2>1
<1>4. PICK g : Good(n, g)
  BY <1>3
<1> QED
  BY <1>4

\* FlattenSeq appends one sequence after the other.
LEMMA Flattened ==
  ASSUME NEW S, NEW seqs \in Seq(Seq(S))
  PROVE  \E g \in [0 .. Len(seqs) -> Seq(S)] :
           /\ g[0] = <<>> /\ FlattenSeq(seqs) = g[Len(seqs)]
           /\ \A i \in 1 .. Len(seqs) : g[i] = g[i - 1] \o seqs[i]
<1> DEFINE n == Len(seqs)
           A == Seq(S)
           F == [x \in A \X (1 .. n) |-> x[1] \o seqs[x[2]]]
<1>1. n \in Nat /\ DOMAIN seqs = 1 .. n /\ <<>> \in A /\ \A i \in 1 .. n : seqs[i] \in A
  OBVIOUS
<1>2. F \in [A \X (1 .. n) -> A]
  BY <1>1
<1>3. \A s \in A : \A i \in 1 .. n : F[<<s, i>>] = s \o seqs[i]
  OBVIOUS
<1>4. PICK g : Iterates(g, n, A, <<>>, F)
  <2> HIDE DEF A, F, n
  <2> QED
    BY <1>1, <1>2, Recursion
<1>5. g \in [0 .. n -> A] /\ g[0] = <<>> /\ \A i \in 1 .. n : g[i] = F[<<g[i - 1], i>>]
  BY <1>4 DEF Iterates
<1>6. g[0] = <<>> /\ \A i \in 1 .. n : g[i] = g[i - 1] \o seqs[i]
  <2>1. ASSUME NEW i \in 1 .. n PROVE g[i] = g[i - 1] \o seqs[i]
    <3>1. i - 1 \in 0 .. n
      BY <1>1
    <3> HIDE DEF F, A, n
    <3> QED
      BY <1>3, <1>5, <3>1
  <2> QED
    BY <1>5, <2>1
<1>7. 1 \in 1 .. n => g[1] = seqs[1]
  <2> SUFFICES ASSUME 1 \in 1 .. n PROVE g[1] = seqs[1]
    OBVIOUS
  <2>1. g[1] = g[1 - 1] \o seqs[1]
    <3> HIDE DEF n
    <3> QED
      BY <1>6
  <2>2. g[1 - 1] = <<>>
    BY <1>6
  <2>3. seqs[1] \in Seq(S)
    BY <1>1
  <2>4. \A s \in Seq(S) : <<>> \o s = s
    OBVIOUS
  <2> QED
    BY <2>1, <2>2, <2>3, <2>4
<1>8. CASE n = 0
  <2>1. FlattenSeq(seqs) = seqs /\ seqs = <<>>
    BY <1>8 DEF FlattenSeq
  <2> QED
    BY <1>5, <1>6, <1>8, <2>1
<1>9. CASE n # 0
  <2> DEFINE Eq(h) == h = [i \in 1 .. n |-> IF i = 1 THEN seqs[i] ELSE h[i - 1] \o seqs[i]]
             flat == CHOOSE h : Eq(h)
             start == [i \in 1 .. n |-> g[i]]
  <2>1. FlattenSeq(seqs) = flat[n]
    BY <1>9 DEF FlattenSeq
  <2>2. \A i \in 1 .. n : start[i] = IF i = 1 THEN seqs[i] ELSE start[i - 1] \o seqs[i]
    <3> TAKE i \in 1 .. n
    <3>1. CASE i = 1
      <4>1. g[1] = seqs[1]
        BY <1>7, <3>1
      <4> QED
        BY <3>1, <4>1
    <3>2. CASE i # 1
      <4>1. i - 1 \in 1 .. n
        BY <1>1, <3>2
      <4> HIDE DEF n
      <4> QED
        BY <1>6, <3>2, <4>1
    <3> QED
      BY <3>1, <3>2
  <2>3. Eq(start)
    <3> HIDE DEF n
    <3> QED
      BY <2>2
  <2>4. Eq(flat)
    <3> HIDE DEF Eq, start
    <3> QED
      BY <2>3
  <2>5. \A i \in 1 .. n : flat[i] = IF i = 1 THEN seqs[i] ELSE flat[i - 1] \o seqs[i]
    <3> HIDE DEF n, flat
    <3> QED
      BY <2>4
  <2> HIDE DEF flat, start
  <2> DEFINE T == {m \in Nat : m + 1 \in 1 .. n => flat[m + 1] = g[m + 1]}
  <2>6. 0 \in T
    <3>1. flat[1] = seqs[1]
      BY <1>1, <1>9, <2>5
    <3>2. g[1] = seqs[1]
      BY <1>1, <1>9, <1>7
    <3> QED
      BY <3>1, <3>2
  <2>7. ASSUME NEW m \in Nat, m \in T PROVE m + 1 \in T
    <3> SUFFICES ASSUME m + 2 \in 1 .. n PROVE flat[m + 2] = g[m + 2]
      OBVIOUS
    <3>1. m + 1 \in 1 .. n /\ flat[m + 1] = g[m + 1]
      BY <1>1, <2>7
    <3>2. m + 2 # 1 /\ (m + 2) - 1 = m + 1
      OBVIOUS
    <3> HIDE DEF n, F, A
    <3>3. flat[m + 2] = flat[(m + 2) - 1] \o seqs[m + 2]
      BY <2>5, <3>2
    <3>4. g[m + 2] = g[(m + 2) - 1] \o seqs[m + 2]
      BY <1>6
    <3> QED
      BY <3>1, <3>2, <3>3, <3>4
  <2>8. n - 1 \in T
    <3>1. Nat \subseteq T
      <4> HIDE DEF T
      <4> QED
        BY <2>6, <2>7, Induction
    <3>2. n - 1 \in Nat
      BY <1>1, <1>9
    <3> QED
      BY <3>1, <3>2
  <2>9. flat[n] = g[n]
    BY <1>1, <1>9, <2>8
  <2> HIDE DEF n
  <2> QED
    BY <1>5, <1>6, <2>1, <2>9 DEF n
<1> QED
  BY <1>8, <1>9

LEMMA Concatenated ==
  ASSUME NEW S, NEW s \in Seq(S), NEW t \in Seq(S)
  PROVE  /\ s \o t \in Seq(S) /\ Len(s \o t) = Len(s) + Len(t)
         /\ \A p \in 1 .. Len(s) : (s \o t)[p] = s[p]
         /\ \A p \in 1 .. Len(t) : (s \o t)[Len(s) + p] = t[p]
  OBVIOUS

LEMMA FlattenAppend ==
  ASSUME NEW S, NEW seqs \in Seq(Seq(S)), NEW s \in Seq(S)
  PROVE  FlattenSeq(Append(seqs, s)) = FlattenSeq(seqs) \o s /\ FlattenSeq(seqs) \in Seq(S)
<1> DEFINE n == Len(seqs)
           more == Append(seqs, s)
<1>1. /\ n \in Nat /\ more \in Seq(Seq(S)) /\ Len(more) = n + 1 /\ more[n + 1] = s
      /\ \A i \in 1 .. n : more[i] = seqs[i]
  OBVIOUS
<1>2. PICK g \in [0 .. n -> Seq(S)] :
        /\ g[0] = <<>> /\ FlattenSeq(seqs) = g[n]
        /\ \A i \in 1 .. n : g[i] = g[i - 1] \o seqs[i]
  BY Flattened
<1> HIDE DEF more
<1> HIDE DEF n
<1>3. PICK h \in [0 .. Len(more) -> Seq(S)] :
        /\ h[0] = <<>> /\ FlattenSeq(more) = h[Len(more)]
        /\ \A i \in 1 .. Len(more) : h[i] = h[i - 1] \o more[i]
  BY <1>1, Flattened
<1> DEFINE T == {m \in Nat : m <= n => g[m] = h[m]}
<1>4. 0 \in T
  BY <1>2, <1>3
<1>5. ASSUME NEW m \in Nat, m \in T
      PROVE  m + 1 \in T
  <2> SUFFICES ASSUME m + 1 <= n PROVE g[m + 1] = h[m + 1]
    OBVIOUS
  <2>1. g[m] = h[m] /\ m + 1 \in 1 .. n /\ m + 1 \in 1 .. n + 1 /\ (m + 1) - 1 = m
    BY <1>1, <1>5
  <2>2. g[m + 1] = g[m] \o seqs[m + 1]
    BY <1>2, <2>1
  <2>3. h[m + 1] = h[m] \o more[m + 1]
    BY <1>1, <1>3, <2>1
  <2> QED
    BY <1>1, <2>1, <2>2, <2>3
<1>6. g[n] = h[n]
  <2>1. Nat \subseteq T
    <3> HIDE DEF T
    <3> QED
      BY <1>4, <1>5, Induction
  <2> QED
    BY <1>1, <2>1
<1>7. h[n + 1] = h[n] \o s
  <2>1. n + 1 \in 1 .. n + 1 /\ (n + 1) - 1 = n
    BY <1>1
  <2> QED
    BY <1>1, <1>3, <2>1
<1>8. g[n] \in Seq(S)
  BY <1>1, <1>2
<1> QED
  BY <1>1, <1>2, <1>3, <1>6, <1>7, <1>8 DEF more, n

\* Does off say where each of the sequences ends in the flat one?
Ends(off, seqs, flat) ==
  /\ off \in [0 .. Len(seqs) -> Nat] /\ off[0] = 0 /\ off[Len(seqs)] = Len(flat)
  /\ \A k \in 1 .. Len(seqs) :
       /\ off[k] = off[k - 1] + Len(seqs[k]) /\ off[k] <= Len(flat)
       /\ \A j \in 1 .. Len(seqs[k]) : flat[off[k - 1] + j] = seqs[k][j]

LEMMA FlattenPositions ==
  ASSUME NEW S, NEW seqs \in Seq(Seq(S))
  PROVE  \E off : Ends(off, seqs, FlattenSeq(seqs))
<1> DEFINE n == Len(seqs)
<1>1. n \in Nat /\ \A k \in 1 .. n : seqs[k] \in Seq(S) /\ Len(seqs[k]) \in Nat
  OBVIOUS
<1>2. PICK g \in [0 .. n -> Seq(S)] :
        /\ g[0] = <<>> /\ FlattenSeq(seqs) = g[n]
        /\ \A i \in 1 .. n : g[i] = g[i - 1] \o seqs[i]
  BY Flattened
<1> DEFINE off == [k \in 0 .. n |-> Len(g[k])]
<1> HIDE DEF n
<1>3. /\ off \in [0 .. n -> Nat] /\ off[0] = 0 /\ off[n] = Len(FlattenSeq(seqs))
      /\ \A k \in 0 .. n : off[k] = Len(g[k]) /\ g[k] \in Seq(S) /\ off[k] \in Nat
  BY <1>1, <1>2
<1>4. \A k \in 1 .. n : off[k] = off[k - 1] + Len(seqs[k])
  <2> TAKE k \in 1 .. n
  <2>1. k - 1 \in 0 .. n /\ k \in 0 .. n
    BY <1>1
  <2>2. g[k] = g[k - 1] \o seqs[k] /\ g[k - 1] \in Seq(S) /\ seqs[k] \in Seq(S)
    BY <1>1, <1>2, <2>1
  <2>3. Len(g[k]) = Len(g[k - 1]) + Len(seqs[k])
    BY <2>2, Concatenated
  <2> QED
    BY <1>3, <2>1, <2>3
<1> HIDE DEF off
<1> DEFINE Upto(m) == \A k \in 1 .. m :
                        /\ off[k] <= off[m]
                        /\ \A j \in 1 .. Len(seqs[k]) : g[m][off[k - 1] + j] = seqs[k][j]
           T == {m \in Nat : m <= n => Upto(m)}
<1>5. 0 \in T
  OBVIOUS
<1>6. ASSUME NEW m \in Nat, m \in T
      PROVE  m + 1 \in T
  <2> SUFFICES ASSUME m + 1 <= n PROVE Upto(m + 1)
    OBVIOUS
  <2>1. Upto(m) /\ m \in 0 .. n /\ m + 1 \in 1 .. n /\ m + 1 \in 0 .. n /\ (m + 1) - 1 = m
    <3> HIDE DEF Upto
    <3>1. m <= n /\ m \in 0 .. n /\ m + 1 \in 1 .. n /\ m + 1 \in 0 .. n /\ (m + 1) - 1 = m
      BY <1>1
    <3>2. Upto(m)
      BY <1>6, <3>1
    <3> QED
      BY <3>1, <3>2
  <2>2. g[m + 1] = g[m] \o seqs[m + 1] /\ off[m + 1] = off[m] + Len(seqs[m + 1])
    BY <1>2, <1>4, <2>1
  <2>3. /\ g[m] \in Seq(S) /\ seqs[m + 1] \in Seq(S) /\ off[m] = Len(g[m]) /\ off[m] \in Nat
        /\ Len(seqs[m + 1]) \in Nat
    BY <1>1, <1>3, <2>1
  <2>4. /\ \A p \in 1 .. off[m] : g[m + 1][p] = g[m][p]
        /\ \A j \in 1 .. Len(seqs[m + 1]) : g[m + 1][off[m] + j] = seqs[m + 1][j]
    <3> DEFINE s == g[m]
               t == seqs[m + 1]
    <3>1. s \in Seq(S) /\ t \in Seq(S) /\ g[m + 1] = s \o t /\ off[m] = Len(s)
      BY <2>2, <2>3
    <3> HIDE DEF s, t
    <3>2. /\ \A p \in 1 .. Len(s) : (s \o t)[p] = s[p]
          /\ \A j \in 1 .. Len(t) : (s \o t)[Len(s) + j] = t[j]
      BY <3>1, Concatenated
    <3> QED
      BY <3>1, <3>2 DEF s, t
  <2>5. ASSUME NEW k \in 1 .. m
        PROVE  /\ off[k] <= off[m + 1]
               /\ \A j \in 1 .. Len(seqs[k]) : g[m + 1][off[k - 1] + j] = seqs[k][j]
    <3>1. /\ off[k] <= off[m]
          /\ \A j \in 1 .. Len(seqs[k]) : g[m][off[k - 1] + j] = seqs[k][j]
      BY <2>1
    <3>2. k \in 1 .. n /\ k \in 0 .. n /\ k - 1 \in 0 .. n
      BY <1>1, <2>1
    <3>3. off[k] \in Nat /\ off[k - 1] \in Nat /\ off[k] = off[k - 1] + Len(seqs[k]) /\ Len(seqs[k]) \in Nat
      BY <1>1, <1>3, <1>4, <3>2
    <3>4. off[m] \in Nat /\ off[m + 1] \in Nat /\ off[m] <= off[m + 1]
      <4>1. off[m + 1] = off[m] + Len(seqs[m + 1])
        BY <2>2
      <4>2. off[m] \in Nat /\ Len(seqs[m + 1]) \in Nat
        BY <2>3
      <4> DEFINE a == off[m]
                 b == off[m + 1]
                 l == Len(seqs[m + 1])
      <4>3. a \in Nat /\ l \in Nat /\ b = a + l
        BY <4>1, <4>2
      <4> HIDE DEF a, b, l
      <4>4. b \in Nat /\ a <= b
        BY <4>3
      <4> QED
        BY <4>3, <4>4 DEF a, b
    <3>5. ASSUME NEW j \in 1 .. Len(seqs[k])
          PROVE  g[m + 1][off[k - 1] + j] = seqs[k][j]
      <4>1. off[k - 1] + j \in 1 .. off[m]
        <5> DEFINE a == off[k - 1]
                   l == Len(seqs[k])
                   b == off[m]
        <5>1. a \in Nat /\ l \in Nat /\ b \in Nat /\ a + l <= b
          BY <3>1, <3>3, <3>4
        <5>2. j \in 1 .. l
          OBVIOUS
        <5> HIDE DEF a, b, l
        <5>3. a + j \in 1 .. b
          BY <5>1, <5>2
        <5> QED
          BY <5>3 DEF a, b
      <4> QED
        BY <2>4, <3>1, <4>1
    <3>6. off[k] <= off[m + 1]
      <4>1. off[k] <= off[m]
        BY <3>1
      <4> QED
        BY <3>3, <3>4, <4>1
    <3> QED
      BY <3>5, <3>6
  <2>6. off[m + 1] <= off[m + 1]
    BY <1>3, <2>1
  <2>7. \A k \in 1 .. m + 1 : k \in 1 .. m \/ k = m + 1
    OBVIOUS
  <2> QED
    BY <2>1, <2>4, <2>5, <2>6, <2>7
<1>7. Upto(n)
  <2>1. Nat \subseteq T
    <3> HIDE DEF T
    <3> QED
      BY <1>5, <1>6, Induction
  <2> QED
    BY <1>1, <2>1
<1>8. Ends(off, seqs, FlattenSeq(seqs))
  BY <1>2, <1>3, <1>4, <1>7 DEF n, Ends
<1> QED
  BY <1>8

-----------------------------------------------------------------------------
(* Code pages                                                              *)

\* The codes, one by one.
LEMMA CodesListed ==
  /\ DOMAIN Codes = {"utf-8", "single-byte", "double-byte"}
  /\ \A charset \in DOMAIN Codes :
       /\ DOMAIN Codes[charset]
            = Ascii \cup (IF charset = "single-byte" THEN {"accent"} ELSE {"accent", "kana"})
       /\ \A c \in Ascii : Codes[charset][c] = <<c>>
  /\ Codes["utf-8"]["accent"] = <<"u1", "u2">> /\ Codes["utf-8"]["kana"] = <<"u1", "u3">>
  /\ Codes["single-byte"]["accent"] = <<"h1">>
  /\ Codes["double-byte"]["accent"] = <<"h1", "h2">> /\ Codes["double-byte"]["kana"] = <<"h1", "bs">>
<1>1. /\ DOMAIN Others = {"utf-8", "single-byte", "double-byte"}
      /\ Others["utf-8"] = [accent |-> <<"u1", "u2">>, kana |-> <<"u1", "u3">>]
      /\ Others["single-byte"] = [accent |-> <<"h1">>]
      /\ Others["double-byte"] = [accent |-> <<"h1", "h2">>, kana |-> <<"h1", "bs">>]
  BY DEF Others, Encodings
<1>2. "accent" \notin Ascii /\ "kana" \notin Ascii
  BY DEF Ascii
<1>3. /\ DOMAIN Codes = DOMAIN Others
      /\ \A charset \in DOMAIN Others :
           /\ DOMAIN Codes[charset] = Ascii \cup DOMAIN Others[charset]
           /\ \A c \in Ascii : Codes[charset][c] = <<c>>
           /\ \A c \in DOMAIN Others[charset] : c \notin Ascii => Codes[charset][c] = Others[charset][c]
  BY DEF Codes
<1>4. /\ DOMAIN Others["utf-8"] = {"accent", "kana"} /\ DOMAIN Others["single-byte"] = {"accent"}
      /\ DOMAIN Others["double-byte"] = {"accent", "kana"}
  BY <1>1
<1>5. /\ Others["utf-8"]["accent"] = <<"u1", "u2">> /\ Others["utf-8"]["kana"] = <<"u1", "u3">>
      /\ Others["single-byte"]["accent"] = <<"h1">>
      /\ Others["double-byte"]["accent"] = <<"h1", "h2">> /\ Others["double-byte"]["kana"] = <<"h1", "bs">>
  BY <1>1
<1>6. DOMAIN Others = {"utf-8", "single-byte", "double-byte"}
  BY <1>1
<1> QED
  BY <1>2, <1>3, <1>4, <1>5, <1>6

Byte == Ascii \cup {"h1", "h2", "u1", "u2", "u3"}

\* A character is one byte or two. ASCII ones are themselves; no byte of another
\* one is an ASCII one, except for that which looks like a backslash.
LEMMA CodeShape ==
  ASSUME NEW charset \in DOMAIN Codes, NEW c \in DOMAIN Codes[charset]
  PROVE  LET code == Codes[charset][c] IN
         /\ code \in Seq(Byte) /\ Len(code) \in {1, 2} /\ code[1] \in Byte
         /\ c \in Ascii => code = <<c>>
         /\ c \notin Ascii => code[1] \in {"h1", "u1"}
         /\ c \notin Ascii /\ Len(code) = 2 =>
              code[2] \in {"h2", "u2", "u3"} \/ (charset = "double-byte" /\ c = "kana")
<1>1. \A s \in Byte, t \in Byte :
        <<s>> \in Seq(Byte) /\ Len(<<s>>) = 1 /\ <<s, t>> \in Seq(Byte) /\ Len(<<s, t>>) = 2
  OBVIOUS
<1>2. /\ Ascii \subseteq Byte /\ {"h1", "h2", "u1", "u2", "u3", "bs"} \subseteq Byte
      /\ "accent" \notin Ascii /\ "kana" \notin Ascii
  BY DEF Ascii, Byte
<1>3. CASE c \in Ascii
  <2>1. Codes[charset][c] = <<c>>
    BY <1>3, CodesListed
  <2> QED
    BY <1>1, <1>2, <1>3, <2>1
<1>4. ASSUME NEW d \in Byte, NEW e \in Byte, d \in {"h1", "u1"},
             Codes[charset][c] = <<d>> \/ Codes[charset][c] = <<d, e>>,
             e \in {"h2", "u2", "u3"} \/ (charset = "double-byte" /\ c = "kana")
      PROVE  LET code == Codes[charset][c] IN
             /\ code \in Seq(Byte) /\ Len(code) \in {1, 2} /\ code[1] \in Byte
             /\ code[1] \in {"h1", "u1"}
             /\ Len(code) = 2 =>
                  code[2] \in {"h2", "u2", "u3"} \/ (charset = "double-byte" /\ c = "kana")
  <2>1. CASE Codes[charset][c] = <<d>>
    BY <1>1, <1>4, <2>1
  <2>2. CASE Codes[charset][c] = <<d, e>>
    BY <1>1, <1>4, <2>2
  <2> QED
    BY <1>4, <2>1, <2>2
<1>5. charset \in {"utf-8", "single-byte", "double-byte"}
  BY CodesListed
<1>6. CASE c = "accent"
  <2>1. CASE charset = "utf-8"
    BY <1>2, <1>6, <1>4, <2>1, CodesListed
  <2>2. CASE charset = "single-byte"
    <3>1. Codes[charset][c] = <<"h1">>
      BY <1>6, <2>2, CodesListed
    <3> QED
      BY <1>2, <1>6, <1>4, <3>1
  <2>3. CASE charset = "double-byte"
    BY <1>2, <1>6, <1>4, <2>3, CodesListed
  <2> QED
    BY <1>5, <2>1, <2>2, <2>3
<1>7. CASE c = "kana" /\ charset # "single-byte"
  <2>1. CASE charset = "utf-8"
    BY <1>2, <1>7, <1>4, <2>1, CodesListed
  <2>2. CASE charset = "double-byte"
    BY <1>2, <1>7, <1>4, <2>2, CodesListed
  <2> QED
    BY <1>7, <1>5, <2>1, <2>2
<1>8. c \in Ascii \/ c = "accent" \/ (c = "kana" /\ charset # "single-byte")
  <2>1. c \in Ascii \cup (IF charset = "single-byte" THEN {"accent"} ELSE {"accent", "kana"})
    BY CodesListed
  <2>2. "kana" \notin {"accent"}
    OBVIOUS
  <2> QED
    BY <2>1, <2>2
<1> QED
  BY <1>3, <1>6, <1>7, <1>8

\* No character is another one, nor the first byte of one.
LEMMA CharsOfCode ==
  ASSUME NEW charset \in DOMAIN Codes, NEW c \in DOMAIN Codes[charset]
  PROVE  /\ Chars(Codes[charset][c], charset) = {c}
         /\ Len(Codes[charset][c]) = 2 => Chars(<<Codes[charset][c][1]>>, charset) = {}
<1> DEFINE code(d) == Codes[charset][d]
<1>1. \A d \in DOMAIN Codes[charset] : code(d) = code(c) => d = c
  <2> TAKE d \in DOMAIN Codes[charset]
  <2>1. CASE c \in Ascii /\ d \in Ascii
    BY <2>1, CodesListed
  <2>2. CASE c \in Ascii /\ d \notin Ascii
    <3>1. code(c) = <<c>> /\ code(d)[1] \in {"h1", "u1"}
      BY <2>2, CodeShape
    <3>2. c \notin {"h1", "u1"}
      BY <2>2 DEF Ascii
    <3> QED
      BY <3>1, <3>2
  <2>3. CASE c \notin Ascii /\ d \in Ascii
    <3>1. code(d) = <<d>> /\ code(c)[1] \in {"h1", "u1"}
      BY <2>3, CodeShape
    <3>2. d \notin {"h1", "u1"}
      BY <2>3 DEF Ascii
    <3> QED
      BY <3>1, <3>2
  <2>4. CASE c \notin Ascii /\ d \notin Ascii
    <3>1. c \in {"accent", "kana"} /\ d \in {"accent", "kana"}
      BY <2>4, CodesListed
    <3>2. CASE charset = "single-byte"
      BY <2>4, <3>2, CodesListed
    <3>3. CASE charset = "utf-8"
      BY <3>1, <3>3, CodesListed
    <3>4. CASE charset = "double-byte"
      BY <3>1, <3>4, CodesListed
    <3> QED
      BY <3>2, <3>3, <3>4, CodesListed
  <2> QED
    BY <2>1, <2>2, <2>3, <2>4
<1>2. ASSUME Len(code(c)) = 2, NEW d \in DOMAIN Codes[charset], code(d) = <<code(c)[1]>>
      PROVE  FALSE
  <2>1. c \notin Ascii
    <3>1. CASE c \in Ascii
      <4>1. code(c) = <<c>>
        BY <3>1, CodeShape
      <4> QED
        BY <1>2, <4>1
    <3> QED
      BY <3>1
  <2>2. code(c)[1] \in {"h1", "u1"} /\ charset # "single-byte"
    <3>1. CASE charset = "single-byte"
      <4>1. c = "accent"
        BY <2>1, <3>1, CodesListed
      <4> QED
        BY <1>2, <3>1, <4>1, CodesListed
    <3>2. code(c)[1] \in {"h1", "u1"}
      BY <2>1, CodeShape
    <3> QED
      BY <3>1, <3>2
  <2>3. CASE d \in Ascii
    <3>1. code(d) = <<d>>
      BY <2>3, CodeShape
    <3>2. d \in {"h1", "u1"}
      BY <1>2, <2>2, <3>1
    <3> QED
      BY <2>3, <3>2 DEF Ascii
  <2>4. CASE d \notin Ascii
    <3>1. d \in {"accent", "kana"}
      BY <2>4, CodesListed
    <3>2. Len(code(d)) = 1
      BY <1>2
    <3>3. CASE charset = "utf-8"
      BY <3>1, <3>2, <3>3, CodesListed
    <3>4. CASE charset = "double-byte"
      BY <3>1, <3>2, <3>4, CodesListed
    <3> QED
      BY <2>2, <3>3, <3>4, CodesListed
  <2> QED
    BY <2>3, <2>4
<1> QED
  BY <1>1, <1>2 DEF Chars

\* The bytes of a text.
Bytes(text, charset) == FlattenSeq([i \in DOMAIN text |-> Codes[charset][text[i]]])

LEMMA BytesAppend ==
  ASSUME NEW charset \in DOMAIN Codes
  PROVE  /\ Bytes(<<>>, charset) = <<>>
         /\ \A text \in Seq(DOMAIN Codes[charset]), c \in DOMAIN Codes[charset] :
              /\ Bytes(text, charset) \in Seq(Byte)
              /\ Bytes(Append(text, c), charset) = Bytes(text, charset) \o Codes[charset][c]
<1> DEFINE C == DOMAIN Codes[charset]
           codes(text) == [i \in DOMAIN text |-> Codes[charset][text[i]]]
<1>1. Bytes(<<>>, charset) = <<>>
  <2>1. codes(<<>>) = <<>>
    OBVIOUS
  <2> HIDE DEF codes
  <2>2. FlattenSeq(codes(<<>>)) = <<>>
    BY <2>1 DEF FlattenSeq
  <2> QED
    BY <2>2 DEF Bytes, codes
<1>2. \A c \in C : Codes[charset][c] \in Seq(Byte)
  BY CodeShape
<1>3. ASSUME NEW text \in Seq(C), NEW c \in C
      PROVE  /\ Bytes(text, charset) \in Seq(Byte)
             /\ Bytes(Append(text, c), charset) = Bytes(text, charset) \o Codes[charset][c]
  <2> HIDE DEF C
  <2>1. codes(text) \in Seq(Seq(Byte))
    <3>1. DOMAIN text = 1 .. Len(text) /\ Len(text) \in Nat /\ \A i \in DOMAIN text : text[i] \in C
      OBVIOUS
    <3> QED
      BY <1>2, <3>1
  <2>2. codes(Append(text, c)) = Append(codes(text), Codes[charset][c])
    OBVIOUS
  <2> HIDE DEF codes
  <2>3. /\ FlattenSeq(codes(text)) \in Seq(Byte)
        /\ FlattenSeq(codes(Append(text, c))) = FlattenSeq(codes(text)) \o Codes[charset][c]
    BY <1>2, <2>1, <2>2, FlattenAppend
  <2> QED
    BY <2>3 DEF Bytes, codes
<1> QED
  BY <1>1, <1>3

DecodeState(charset) == [seen : Seq(Byte), text : Seq(DOMAIN Codes[charset] \cup {"bad"})]

LEMMA DecodeByteType ==
  ASSUME NEW charset \in DOMAIN Codes, NEW s \in DecodeState(charset), NEW b \in Byte
  PROVE  DecodeByte(s, b, charset) \in DecodeState(charset)
<1> DEFINE seen == Append(s.seen, b)
           C == DOMAIN Codes[charset] \cup {"bad"}
<1>1. s.seen \in Seq(Byte) /\ s.text \in Seq(C)
  BY DEF DecodeState
<1>2. seen \in Seq(Byte)
  BY <1>1
<1>3. \A t \in Seq(Byte), u \in Seq(C) : [seen |-> t, text |-> u] \in DecodeState(charset)
  BY DEF DecodeState
<1>4. [s EXCEPT !.seen = seen] \in DecodeState(charset)
  BY <1>2 DEF DecodeState
<1>5. <<>> \in Seq(Byte) /\ \A c \in C : Append(s.text, c) \in Seq(C)
  BY <1>1
<1>6. Chars(seen, charset) # {} => (CHOOSE c \in Chars(seen, charset) : TRUE) \in C
  <2>1. Chars(seen, charset) \subseteq C
    BY DEF Chars
  <2> HIDE DEF C, seen
  <2> QED
    BY <2>1
<1>7. "bad" \in C
  OBVIOUS
<1> HIDE DEF C, seen
<1> QED
  BY <1>3, <1>4, <1>5, <1>6, <1>7 DEF DecodeByte, seen

\* DecodeStates goes on byte by byte.
LEMMA DecodeSteps ==
  ASSUME NEW charset \in DOMAIN Codes, NEW bytes \in Seq(Byte)
  PROVE  LET state == DecodeStates(bytes, charset) IN
         /\ state[0] = [seen |-> <<>>, text |-> <<>>]
         /\ \A i \in 0 .. Len(bytes) : state[i] \in DecodeState(charset)
         /\ \A i \in 1 .. Len(bytes) : state[i] = DecodeByte(state[i - 1], bytes[i], charset)
<1> DEFINE n == Len(bytes)
           A == DecodeState(charset)
           start == [seen |-> <<>>, text |-> <<>>]
           F == [x \in A \X (1 .. n) |-> DecodeByte(x[1], bytes[x[2]], charset)]
           Eq(h) == h = [i \in 0 .. n |-> IF i = 0 THEN start ELSE DecodeByte(h[i - 1], bytes[i], charset)]
           state == DecodeStates(bytes, charset)
<1>1. n \in Nat /\ \A i \in 1 .. n : bytes[i] \in Byte
  OBVIOUS
<1>2. start \in A
  BY DEF DecodeState
<1> HIDE DEF n
<1>3. F \in [A \X (1 .. n) -> A]
  BY <1>1, DecodeByteType
<1>4. \A s \in A : \A i \in 1 .. n : F[<<s, i>>] = DecodeByte(s, bytes[i], charset)
  OBVIOUS
<1> HIDE DEF A, F, start
<1>5. PICK g : Iterates(g, n, A, start, F)
  BY <1>1, <1>2, <1>3, Recursion
<1>6. g \in [0 .. n -> A] /\ g[0] = start /\ \A i \in 1 .. n : g[i] = F[<<g[i - 1], i>>]
  BY <1>5 DEF Iterates
<1>7. \A i \in 0 .. n : g[i] = IF i = 0 THEN start ELSE DecodeByte(g[i - 1], bytes[i], charset)
  <2> TAKE i \in 0 .. n
  <2>1. CASE i # 0
    <3>1. i \in 1 .. n /\ i - 1 \in 0 .. n
      BY <1>1, <2>1
    <3> QED
      BY <1>4, <1>6, <2>1, <3>1
  <2> QED
    BY <1>6, <2>1
<1>8. Eq(g)
  BY <1>6, <1>7
<1>9. state = CHOOSE h : Eq(h)
  BY DEF DecodeStates, n, start
<1>10. Eq(state)
  <2> HIDE DEF Eq, state
  <2> QED
    BY <1>8, <1>9
<1> HIDE DEF state
<1>11. state[0] = start /\ \A i \in 1 .. n : state[i] = DecodeByte(state[i - 1], bytes[i], charset)
  BY <1>1, <1>10
<1> DEFINE T == {m \in Nat : m <= n => state[m] \in A}
<1>12. 0 \in T
  BY <1>2, <1>11
<1>13. ASSUME NEW m \in Nat, m \in T
       PROVE  m + 1 \in T
  <2> SUFFICES ASSUME m + 1 <= n PROVE state[m + 1] \in A
    OBVIOUS
  <2>1. state[m] \in A /\ m + 1 \in 1 .. n /\ (m + 1) - 1 = m
    BY <1>1, <1>13
  <2>2. state[m + 1] = DecodeByte(state[m], bytes[m + 1], charset) /\ bytes[m + 1] \in Byte
    BY <1>1, <1>11, <2>1
  <2> QED
    BY <2>1, <2>2, DecodeByteType DEF A
<1>14. \A i \in 0 .. n : state[i] \in A
  <2>1. Nat \subseteq T
    <3> HIDE DEF T
    <3> QED
      BY <1>12, <1>13, Induction
  <2> QED
    BY <1>1, <2>1
<1> QED
  BY <1>11, <1>14 DEF state, A, n, start

\* Where the code of each character is.
LEMMA CodesInBytes ==
  ASSUME NEW charset \in DOMAIN Codes, NEW text \in Seq(DOMAIN Codes[charset])
  PROVE  LET codes == [k \in DOMAIN text |-> Codes[charset][text[k]]] IN
         /\ codes \in Seq(Seq(Byte)) /\ Len(codes) = Len(text)
         /\ Bytes(text, charset) \in Seq(Byte)
         /\ \E off : Ends(off, codes, Bytes(text, charset))
<1> DEFINE N == Len(text)
           code(k) == Codes[charset][text[k]]
           codes == [k \in DOMAIN text |-> code(k)]
<1>1. N \in Nat /\ DOMAIN text = 1 .. N /\ \A k \in 1 .. N : text[k] \in DOMAIN Codes[charset]
  OBVIOUS
<1>2. \A k \in 1 .. N : code(k) \in Seq(Byte)
  BY <1>1, CodeShape
<1>3. codes \in Seq(Seq(Byte)) /\ Len(codes) = N
  <2> HIDE DEF code, N
  <2>1. codes = [k \in 1 .. N |-> code(k)]
    BY <1>1
  <2> HIDE DEF codes
  <2>2. codes \in [1 .. N -> Seq(Byte)]
    BY <1>2, <2>1
  <2> QED
    BY <1>1, <2>1, <2>2
<1> HIDE DEF codes
<1>4. Bytes(text, charset) = FlattenSeq(codes)
  BY DEF Bytes, codes
<1>5. FlattenSeq(codes) \in Seq(Byte)
  <2>1. <<>> \in Seq(Byte)
    OBVIOUS
  <2> QED
    BY <1>3, <2>1, FlattenAppend
<1>6. \E off : Ends(off, codes, FlattenSeq(codes))
  BY <1>3, FlattenPositions
<1> QED
  BY <1>3, <1>4, <1>5, <1>6 DEF codes

\* In its own charset a text is decoded as it is.
LEMMA DecodedBytes ==
  ASSUME NEW charset \in DOMAIN Codes, NEW text \in Seq(DOMAIN Codes[charset])
  PROVE  Decoded(Bytes(text, charset), charset) = text
<1> DEFINE N == Len(text)
           C == DOMAIN Codes[charset]
           code(k) == Codes[charset][text[k]]
           codes == [k \in DOMAIN text |-> code(k)]
           bytes == Bytes(text, charset)
           state == DecodeStates(bytes, charset)
<1>1. N \in Nat /\ DOMAIN text = 1 .. N /\ \A k \in 1 .. N : text[k] \in C
  OBVIOUS
<1>2. \A k \in 1 .. N : /\ code(k) \in Seq(Byte) /\ Len(code(k)) \in {1, 2}
                        /\ Chars(code(k), charset) = {text[k]}
                        /\ Len(code(k)) = 2 => Chars(<<code(k)[1]>>, charset) = {}
  BY <1>1, CodeShape, CharsOfCode
<1>3. /\ Len(codes) = N /\ \A k \in 1 .. N : codes[k] = code(k)
      /\ bytes \in Seq(Byte) /\ \E off : Ends(off, codes, bytes)
  <2>1. \A k \in 1 .. N : codes[k] = code(k)
    BY <1>1
  <2> HIDE DEF codes
  <2> QED
    BY <2>1, CodesInBytes DEF codes
<1> HIDE DEF codes, N
<1>4. PICK off : Ends(off, codes, bytes)
  BY <1>3
<1>5. /\ off \in [0 .. N -> Nat] /\ off[0] = 0 /\ off[N] = Len(bytes)
      /\ \A k \in 1 .. N :
           /\ off[k] = off[k - 1] + Len(code(k)) /\ off[k] <= Len(bytes)
           /\ \A j \in 1 .. Len(code(k)) : bytes[off[k - 1] + j] = code(k)[j]
  <2> HIDE DEF code, bytes
  <2> QED
    BY <1>3, <1>4 DEF Ends
<1> HIDE DEF bytes
<1>6. /\ state[0] = [seen |-> <<>>, text |-> <<>>]
      /\ \A i \in 1 .. Len(bytes) : state[i] = DecodeByte(state[i - 1], bytes[i], charset)
  BY <1>3, DecodeSteps
<1> HIDE DEF state
<1> DEFINE upto(k) == [j \in 1 .. k |-> text[j]]
           T == {k \in Nat : k <= N => state[off[k]] = [seen |-> <<>>, text |-> upto(k)]}
<1>7. 0 \in T
  BY <1>5, <1>6
<1>8. ASSUME NEW k \in Nat, k \in T
      PROVE  k + 1 \in T
  <2> SUFFICES ASSUME k + 1 <= N PROVE state[off[k + 1]] = [seen |-> <<>>, text |-> upto(k + 1)]
    OBVIOUS
  <2> DEFINE p == off[k]
             c == text[k + 1]
             s == state[p]
             cd == code(k + 1)
  <2>1. /\ k + 1 \in 1 .. N /\ k \in 0 .. N /\ (k + 1) - 1 = k
        /\ s = [seen |-> <<>>, text |-> upto(k)]
    BY <1>1, <1>8
  <2> HIDE DEF code
  <2>2. /\ p \in Nat /\ off[k + 1] = p + Len(cd) /\ p + Len(cd) <= Len(bytes)
        /\ \A j \in 1 .. Len(cd) : bytes[p + j] = cd[j]
    BY <1>5, <2>1
  <2>3. Append(upto(k), c) = upto(k + 1)
    OBVIOUS
  <2>4. /\ cd \in Seq(Byte) /\ Len(cd) \in {1, 2} /\ Chars(cd, charset) = {c}
        /\ Len(cd) = 2 => Chars(<<cd[1]>>, charset) = {}
    BY <1>2, <2>1
  <2> HIDE DEF upto, p, c, s, cd
  <2>5. Len(bytes) \in Nat
    BY <1>3
  <2>6. CASE Len(cd) = 1
    <3>1. bytes[p + 1] = cd[1] /\ cd = <<cd[1]>>
      BY <2>2, <2>4, <2>6
    <3>2. p + 1 \in 1 .. Len(bytes) /\ (p + 1) - 1 = p
      BY <2>2, <2>6, <2>5
    <3>3. state[p + 1] = DecodeByte(s, cd[1], charset)
      BY <1>6, <3>1, <3>2 DEF s
    <3>4. Append(s.seen, cd[1]) = cd /\ s.text = upto(k)
      BY <2>1, <3>1
    <3>5. (CHOOSE d \in {c} : TRUE) = c
      OBVIOUS
    <3>6. DecodeByte(s, cd[1], charset) = [seen |-> <<>>, text |-> Append(upto(k), c)]
      BY <2>4, <3>4, <3>5 DEF DecodeByte
    <3> QED
      BY <2>2, <2>3, <2>6, <3>3, <3>6
  <2>7. CASE Len(cd) = 2
    <3>1. bytes[p + 1] = cd[1] /\ bytes[p + 2] = cd[2] /\ cd = <<cd[1], cd[2]>>
      BY <2>2, <2>4, <2>7
    <3>2. /\ p + 1 \in 1 .. Len(bytes) /\ (p + 1) - 1 = p
          /\ p + 2 \in 1 .. Len(bytes) /\ (p + 2) - 1 = p + 1
      BY <2>2, <2>7, <2>5
    <3>3. /\ state[p + 1] = DecodeByte(s, cd[1], charset)
          /\ state[p + 2] = DecodeByte(state[p + 1], cd[2], charset)
      BY <1>6, <3>1, <3>2 DEF s
    <3>4. Append(s.seen, cd[1]) = <<cd[1]>> /\ s.text = upto(k) /\ Len(<<cd[1]>>) = 1
      BY <2>1
    <3>5. DecodeByte(s, cd[1], charset) = [seen |-> <<cd[1]>>, text |-> upto(k)]
      <4>1. Chars(<<cd[1]>>, charset) = {}
        BY <2>4, <2>7
      <4>2. DecodeByte(s, cd[1], charset) = [s EXCEPT !.seen = <<cd[1]>>]
        BY <3>4, <4>1 DEF DecodeByte
      <4> QED
        BY <2>1, <4>2
    <3>6. Append(<<cd[1]>>, cd[2]) = cd
      BY <3>1
    <3>7. (CHOOSE d \in {c} : TRUE) = c
      OBVIOUS
    <3>8. state[p + 2] = [seen |-> <<>>, text |-> Append(upto(k), c)]
      BY <2>4, <3>3, <3>5, <3>6, <3>7 DEF DecodeByte
    <3> QED
      BY <2>2, <2>3, <2>7, <3>8
  <2> QED
    BY <2>4, <2>6, <2>7
<1>9. state[Len(bytes)] = [seen |-> <<>>, text |-> upto(N)]
  <2>1. Nat \subseteq T
    <3> HIDE DEF T
    <3> QED
      BY <1>7, <1>8, Induction
  <2> QED
    BY <1>1, <1>5, <2>1
<1>10. upto(N) = text
  BY <1>1
<1> HIDE DEF upto
<1> QED
  BY <1>9, <1>10 DEF Decoded, state, bytes

\* No text in UTF-8 has a byte that begins a character of the other charsets.
LEMMA NoHighInUTF8 ==
  ASSUME NEW seen \in Seq(Byte), NEW q \in 1 .. Len(seen), seen[q] = "h1"
  PROVE  Chars(seen, "utf-8") = {}
<1> SUFFICES ASSUME NEW c \in DOMAIN Codes["utf-8"], Codes["utf-8"][c] = seen
             PROVE  FALSE
  BY DEF Chars
<1>1. CASE c \in Ascii
  <2>1. seen = <<c>>
    BY <1>1, CodesListed
  <2>2. c = "h1"
    BY <2>1
  <2> QED
    BY <1>1, <2>2 DEF Ascii
<1>2. CASE c = "accent"
  <2>1. seen = <<"u1", "u2">>
    BY <1>2, CodesListed
  <2> QED
    BY <2>1
<1>3. CASE c = "kana"
  <2>1. seen = <<"u1", "u3">>
    BY <1>3, CodesListed
  <2> QED
    BY <2>1
<1>4. c \in Ascii \/ c = "accent" \/ c = "kana"
  BY CodesListed
<1> QED
  BY <1>1, <1>2, <1>3, <1>4

LEMMA HighIsNotUTF8 ==
  ASSUME NEW bytes \in Seq(Byte), NEW p \in 1 .. Len(bytes), bytes[p] = "h1"
  PROVE  ~ValidUTF8(bytes)
<1> DEFINE n == Len(bytes)
           st == DecodeStates(bytes, "utf-8")
           Bad(text) == \E j \in 1 .. Len(text) : text[j] = "bad"
           Failed(s) == Bad(s.text) \/ s.seen = <<"h1">>
           A == DecodeState("utf-8")
<1>1. /\ \A i \in 0 .. n : st[i] \in A
      /\ \A i \in 1 .. n : st[i] = DecodeByte(st[i - 1], bytes[i], "utf-8")
      /\ n \in Nat /\ p \in Nat /\ p <= n /\ p >= 1
  <2>1. "utf-8" \in DOMAIN Codes
    BY CodesListed
  <2> QED
    BY <2>1, DecodeSteps
<1>2. \A s \in A : s.seen \in Seq(Byte) /\ s.text \in Seq(DOMAIN Codes["utf-8"] \cup {"bad"})
  BY DEF DecodeState
<1>3. ASSUME NEW s \in A, NEW c
      PROVE  /\ Bad(s.text) => Bad(Append(s.text, c))
             /\ Bad(Append(s.text, "bad"))
  <2> DEFINE C == DOMAIN Codes["utf-8"] \cup {"bad"}
  <2>1. s.text \in Seq(C)
    BY <1>2
  <2> HIDE DEF C
  <2> QED
    BY <2>1
<1> HIDE DEF A, st, n
<1>4. ASSUME NEW s \in A, NEW b \in Byte, Bad(s.text)
      PROVE  Failed(DecodeByte(s, b, "utf-8"))
  <2>1. [s EXCEPT !.seen = Append(s.seen, b)].text = s.text
    BY DEF A, DecodeState
  <2> HIDE DEF Bad
  <2> QED
    BY <1>3, <1>4, <2>1 DEF DecodeByte
<1>5. ASSUME NEW s \in A, NEW b \in Byte, NEW q \in 1 .. Len(Append(s.seen, b)),
             Append(s.seen, b)[q] = "h1"
      PROVE  /\ Len(Append(s.seen, b)) = 1 => DecodeByte(s, b, "utf-8").seen = Append(s.seen, b)
             /\ Len(Append(s.seen, b)) # 1 => DecodeByte(s, b, "utf-8").text = Append(s.text, "bad")
  <2> DEFINE seen == Append(s.seen, b)
  <2>1. seen \in Seq(Byte)
    BY <1>2
  <2>2. seen[q] = "h1" /\ q \in 1 .. Len(seen)
    BY <1>5
  <2> HIDE DEF seen
  <2>3. Chars(seen, "utf-8") = {}
    BY <2>1, <2>2, NoHighInUTF8
  <2>4. DecodeByte(s, b, "utf-8") = IF Len(seen) = 1 THEN [s EXCEPT !.seen = seen]
                                    ELSE [seen |-> <<>>, text |-> Append(s.text, "bad")]
    BY <2>3 DEF DecodeByte, seen
  <2>5. [s EXCEPT !.seen = seen].seen = seen
    BY DEF A, DecodeState
  <2>6. /\ Len(seen) = 1 => DecodeByte(s, b, "utf-8").seen = seen
        /\ Len(seen) # 1 => DecodeByte(s, b, "utf-8").text = Append(s.text, "bad")
    <3> DEFINE t == Append(s.text, "bad")
               r == [s EXCEPT !.seen = seen]
    <3>1. [seen |-> <<>>, text |-> t].text = t
      OBVIOUS
    <3> HIDE DEF t, r
    <3> QED
      BY <2>4, <2>5, <3>1 DEF t, r
  <2> QED
    BY <2>6 DEF seen
<1>6. ASSUME NEW s \in A, NEW b \in Byte, s.seen = <<"h1">>
      PROVE  Failed(DecodeByte(s, b, "utf-8"))
  <2>1. Len(Append(s.seen, b)) = 2 /\ Append(s.seen, b)[1] = "h1"
    BY <1>6
  <2>2. 1 \in 1 .. Len(Append(s.seen, b)) /\ Len(Append(s.seen, b)) # 1
    BY <2>1
  <2>3. DecodeByte(s, b, "utf-8").text = Append(s.text, "bad")
    BY <1>5, <2>1, <2>2
  <2> HIDE DEF Bad
  <2> QED
    BY <1>3, <2>3
<1>7. Failed(st[p])
  <2> DEFINE s == st[p - 1]
  <2>1. s \in A /\ st[p] = DecodeByte(s, "h1", "utf-8") /\ "h1" \in Byte
    BY <1>1 DEF n, Byte
  <2> HIDE DEF s
  <2> DEFINE seen == Append(s.seen, "h1")
             q == Len(seen)
  <2>2. q \in 1 .. Len(seen) /\ seen[q] = "h1" /\ (Len(seen) = 1 => seen = <<"h1">>)
    <3>1. s.seen \in Seq(Byte)
      BY <1>2, <2>1
    <3>2. Len(seen) = Len(s.seen) + 1 /\ seen[Len(s.seen) + 1] = "h1" /\ Len(s.seen) \in Nat
      BY <2>1, <3>1
    <3>3. Len(seen) = 1 => seen = <<"h1">>
      <4> SUFFICES ASSUME Len(s.seen) = 0 PROVE seen = <<"h1">>
        BY <3>2
      <4>1. s.seen = <<>>
        BY <3>1
      <4> QED
        BY <4>1
    <3>4. Len(seen) \in 1 .. Len(seen)
      BY <3>2
    <3>5. seen[Len(seen)] = "h1"
      BY <3>2
    <3> QED
      BY <3>3, <3>4, <3>5
  <2> HIDE DEF q
  <2>3. /\ Len(seen) = 1 => st[p].seen = seen
        /\ Len(seen) # 1 => st[p].text = Append(s.text, "bad")
    BY <1>5, <2>1, <2>2
  <2> HIDE DEF Bad, seen
  <2> QED
    BY <1>3, <2>1, <2>2, <2>3
<1> DEFINE T == {k \in Nat : p + k <= n => Failed(st[p + k])}
<1>8. 0 \in T
  BY <1>1, <1>7
<1>9. ASSUME NEW k \in Nat, k \in T
      PROVE  k + 1 \in T
  <2> SUFFICES ASSUME p + (k + 1) <= n PROVE Failed(st[p + (k + 1)])
    OBVIOUS
  <2>1. Failed(st[p + k])
    BY <1>1, <1>9
  <2>2. p + k \in 0 .. n /\ p + (k + 1) \in 1 .. n /\ (p + (k + 1)) - 1 = p + k
    BY <1>1
  <2>3. st[p + (k + 1)] = DecodeByte(st[p + k], bytes[p + (k + 1)], "utf-8") /\ st[p + k] \in A
    BY <1>1, <2>2
  <2>4. bytes[p + (k + 1)] \in Byte
    BY <2>2 DEF n
  <2> HIDE DEF Bad
  <2> QED
    BY <1>4, <1>6, <2>1, <2>3, <2>4
<1>10. Failed(st[n]) /\ st[n] \in A
  <2>1. Nat \subseteq T
    <3> HIDE DEF T
    <3> QED
      BY <1>8, <1>9, Induction
  <2>2. n - p \in Nat /\ p + (n - p) = n /\ n \in 0 .. n
    BY <1>1
  <2>3. n - p \in T
    BY <2>1, <2>2
  <2> HIDE DEF Failed
  <2> QED
    BY <1>1, <2>2, <2>3
<1>11. Bad(Decoded(bytes, "utf-8"))
  <2>1. Decoded(bytes, "utf-8") = IF st[n].seen = <<>> THEN st[n].text ELSE Append(st[n].text, "bad")
    BY DEF Decoded, st, n
  <2>2. <<"h1">> # <<>>
    OBVIOUS
  <2> HIDE DEF Bad
  <2> QED
    BY <1>3, <1>10, <2>1, <2>2
<1> QED
  BY <1>11 DEF ValidUTF8, Contains

\* What is written in the encoding of a sheet, and is in the sample if it must
\* be, is decoded as it was written.
LEMMA DecodedText ==
  ASSUME NEW encoding \in Encodings, NEW text \in Seq(DOMAIN Codes[Charset(encoding)]), NEW sample,
         InSample(Bytes(text, Charset(encoding))) => Bytes(text, Charset(encoding)) \in sample
  PROVE  Decode(Bytes(text, Charset(encoding)), DetectEncoding(sample, encoding)) = text
<1> DEFINE charset == Charset(encoding)
           bytes == Bytes(text, charset)
           N == Len(text)
<1>1. charset \in DOMAIN Codes /\ charset \in {"utf-8", "single-byte", "double-byte"}
  BY CodesListed DEF Charset, Encodings
<1>2. N \in Nat /\ DOMAIN text = 1 .. N /\ \A k \in 1 .. N : text[k] \in DOMAIN Codes[charset]
  OBVIOUS
<1> HIDE DEF charset
<1>3. "utf-8" \in DOMAIN Codes /\ "bad" \notin DOMAIN Codes["utf-8"]
  <2>1. DOMAIN Codes["utf-8"] = Ascii \cup {"accent", "kana"} /\ "utf-8" \in DOMAIN Codes
    BY CodesListed
  <2>2. "bad" \notin Ascii \cup {"accent", "kana"}
    BY DEF Ascii
  <2> QED
    BY <2>1, <2>2
<1>4. ASSUME text \in Seq(DOMAIN Codes["utf-8"]), bytes = Bytes(text, "utf-8")
      PROVE  Decode(bytes, DetectEncoding(sample, encoding)) = text
  <2>1. Decoded(bytes, "utf-8") = text
    BY <1>3, <1>4, DecodedBytes
  <2>2. ~Contains(text, "bad")
    <3>1. \A k \in 1 .. N : text[k] # "bad"
      BY <1>3, <1>4
    <3> QED
      BY <3>1 DEF Contains
  <2>3. ValidUTF8(bytes)
    BY <2>1, <2>2 DEF ValidUTF8
  <2> HIDE DEF bytes
  <2> QED
    BY <2>1, <2>3 DEF Decode
<1>5. CASE charset = "utf-8"
  BY <1>4, <1>5 DEF charset
<1>6. CASE \A k \in 1 .. N : text[k] \in Ascii
  <2>1. text \in Seq(DOMAIN Codes["utf-8"])
    <3>1. Ascii \subseteq DOMAIN Codes["utf-8"]
      BY <1>3, CodesListed
    <3>2. text \in [1 .. N -> DOMAIN Codes["utf-8"]]
      BY <1>2, <1>6, <3>1
    <3> HIDE DEF N
    <3> QED
      BY <1>2, <3>2
  <2>2. [k \in DOMAIN text |-> Codes[charset][text[k]]] = [k \in DOMAIN text |-> Codes["utf-8"][text[k]]]
    <3>1. \A k \in DOMAIN text : Codes[charset][text[k]] = Codes["utf-8"][text[k]]
      BY <1>1, <1>2, <1>3, <1>6, CodesListed
    <3> QED
      BY <3>1
  <2>3. bytes = Bytes(text, "utf-8")
    BY <2>2 DEF Bytes
  <2> QED
    BY <1>4, <2>1, <2>3 DEF charset
<1>7. CASE charset # "utf-8" /\ \E k \in 1 .. N : text[k] \notin Ascii
  <2>1. PICK k \in 1 .. N : text[k] \notin Ascii
    BY <1>7
  <2> DEFINE codes == [i \in DOMAIN text |-> Codes[charset][text[i]]]
  <2>2. codes[k][1] = "h1" /\ Len(codes[k]) >= 1
    <3>1. codes[k] = Codes[charset][text[k]] /\ text[k] \in DOMAIN Codes[charset]
      BY <1>2, <2>1
    <3>2. text[k] = "accent" \/ (text[k] = "kana" /\ charset = "double-byte")
      BY <1>1, <1>7, <2>1, <3>1, CodesListed
    <3>3. charset \in {"single-byte", "double-byte"}
      BY <1>1, <1>7
    <3>4. Codes[charset][text[k]] \in {<<"h1">>, <<"h1", "h2">>, <<"h1", "bs">>}
      BY <3>2, <3>3, CodesListed
    <3>5. \A x \in {<<"h1">>, <<"h1", "h2">>, <<"h1", "bs">>} : x[1] = "h1" /\ Len(x) >= 1
      OBVIOUS
    <3> HIDE DEF codes
    <3> QED
      BY <3>1, <3>4, <3>5
  <2> HIDE DEF codes, bytes
  <2>3. Len(codes) = N /\ bytes \in Seq(Byte) /\ \E off : Ends(off, codes, bytes)
    BY <1>1, CodesInBytes DEF codes, bytes, charset
  <2>4. PICK off : Ends(off, codes, bytes)
    BY <2>3
  <2>5. /\ off[k - 1] \in Nat /\ Len(bytes) \in Nat
        /\ off[k] = off[k - 1] + Len(codes[k]) /\ off[k] <= Len(bytes)
        /\ \A j \in 1 .. Len(codes[k]) : bytes[off[k - 1] + j] = codes[k][j]
    <3>1. Len(codes) = N /\ N \in Nat /\ Len(bytes) \in Nat /\ k \in 1 .. N /\ k - 1 \in 0 .. N
      BY <1>2, <2>1, <2>3
    <3>2. off \in [0 .. N -> Nat]
      BY <2>4, <3>1 DEF Ends
    <3> QED
      BY <2>4, <3>1, <3>2 DEF Ends
  <2>6. PICK p \in 1 .. Len(bytes) : bytes[p] = "h1"
    <3> DEFINE p == off[k - 1] + 1
    <3>1. Len(codes[k]) \in Int
      BY <2>5, CodesInBytes, <1>1, <2>3, <2>4 DEF codes, charset
    <3>2. bytes[p] = "h1"
      <4>1. 1 \in 1 .. Len(codes[k])
        BY <2>2, <3>1
      <4> QED
        BY <2>2, <2>5, <4>1
    <3>3. p \in 1 .. Len(bytes)
      BY <2>2, <2>5, <3>1
    <3> QED
      BY <3>2, <3>3
  <2>7. InSample(bytes)
    BY <2>3, <2>6 DEF InSample, Ascii
  <2>8. ~ValidUTF8(bytes)
    BY <2>3, <2>6, HighIsNotUTF8
  <2>9. bytes \in sample
    BY <2>7 DEF bytes, charset
  <2>10. DetectEncoding(sample, encoding) = charset
    BY <2>8, <2>9 DEF DetectEncoding, charset
  <2>11. Decoded(bytes, charset) = text
    BY <1>1, DecodedBytes DEF bytes, charset
  <2>12. Decode(bytes, charset) = text
    BY <2>8, <2>11 DEF Decode
  <2> QED
    BY <2>10, <2>12 DEF bytes, charset
<1> QED
  BY <1>5, <1>6, <1>7

-----------------------------------------------------------------------------
(* The split of a line                                                     *)

TurnState ==
  [params : Seq(Seq(Byte)), buf : Seq(Byte), quote : {"none", "dq", "sq"}, skip : BOOLEAN]

LEMMA TurnType ==
  ASSUME NEW line \in Seq(Byte), NEW i \in 1 .. Len(line), NEW s \in TurnState
  PROVE  Turn(line, s, i) \in TurnState
<1> DEFINE b == line[i]
<1>1. b \in Byte
  OBVIOUS
<1>2. /\ s.params \in Seq(Seq(Byte)) /\ s.buf \in Seq(Byte)
      /\ s.quote \in {"none", "dq", "sq"} /\ s.skip \in BOOLEAN
  BY DEF TurnState
<1>3. Append(s.params, s.buf) \in Seq(Seq(Byte)) /\ <<>> \in Seq(Byte)
  <2> DEFINE S == Seq(Byte)
  <2>1. s.params \in Seq(S) /\ s.buf \in S
    BY <1>2
  <2> HIDE DEF S
  <2>2. Append(s.params, s.buf) \in Seq(S)
    BY <2>1
  <2> QED
    BY <2>2 DEF S
<1>4. \A c \in Byte : Append(s.buf, c) \in Seq(Byte)
  BY <1>2
<1>5. Push(s) \in TurnState
  BY <1>2, <1>3 DEF Push, TurnState
<1>6. \A c \in Byte : Write(s, c) \in TurnState /\ [Write(s, c) EXCEPT !.skip = TRUE] \in TurnState
  BY <1>2, <1>4 DEF Write, TurnState
<1>7. [s EXCEPT !.skip = FALSE] \in TurnState
  BY DEF TurnState
<1>8. Opens(s, b) => [s EXCEPT !.quote = b] \in TurnState
  BY DEF Opens, TurnState
<1>9. \A e \in DOMAIN Escape : Escape[e] \in Byte
  BY DEF Escape, Byte, Ascii
<1> HIDE DEF b
<1> QED
  BY <1>1, <1>5, <1>6, <1>7, <1>8, <1>9 DEF Turn, b

\* Turns goes on byte by byte.
LEMMA TurnSteps ==
  ASSUME NEW line \in Seq(Byte)
  PROVE  /\ Turns(line)[0] = Start
         /\ \A i \in 1 .. Len(line) : Turns(line)[i] = Turn(line, Turns(line)[i - 1], i)
<1> DEFINE n == Len(line)
           A == TurnState
           F == [x \in A \X (1 .. n) |-> Turn(line, x[1], x[2])]
           Eq(h) == h = [i \in 0 .. n |-> IF i = 0 THEN Start ELSE Turn(line, h[i - 1], i)]
           state == Turns(line)
<1>1. n \in Nat
  OBVIOUS
<1>2. Start \in A
  BY DEF TurnState, Start
<1> HIDE DEF A
<1>3. F \in [A \X (1 .. n) -> A]
  BY TurnType DEF A
<1> HIDE DEF n
<1>4. \A s \in A : \A i \in 1 .. n : F[<<s, i>>] = Turn(line, s, i)
  OBVIOUS
<1> HIDE DEF F
<1>5. PICK g : Iterates(g, n, A, Start, F)
  BY <1>1, <1>2, <1>3, Recursion
<1>6. g \in [0 .. n -> A] /\ g[0] = Start /\ \A i \in 1 .. n : g[i] = F[<<g[i - 1], i>>]
  BY <1>5 DEF Iterates
<1>7. \A i \in 0 .. n : g[i] = IF i = 0 THEN Start ELSE Turn(line, g[i - 1], i)
  <2> TAKE i \in 0 .. n
  <2>1. CASE i # 0
    <3>1. i \in 1 .. n /\ i - 1 \in 0 .. n
      BY <1>1, <2>1
    <3> QED
      BY <1>4, <1>6, <2>1, <3>1
  <2> QED
    BY <1>6, <2>1
<1>8. Eq(g)
  BY <1>6, <1>7
<1>9. state = CHOOSE h : Eq(h)
  BY DEF Turns, n
<1>10. Eq(state)
  <2> HIDE DEF Eq, state
  <2> QED
    BY <1>8, <1>9
<1> HIDE DEF state
<1>11. state[0] = Start /\ \A i \in 1 .. n : state[i] = Turn(line, state[i - 1], i)
  BY <1>1, <1>10
<1> QED
  BY <1>11 DEF state, n

\* Is this the state with these params and bytes, in this quote?
At(s, params, buf, quote) ==
  s \in TurnState /\ s.params = params /\ s.buf = buf /\ s.quote = quote /\ s.skip = FALSE

\* The fields of a state after each thing that a turn does.
LEMMA Fields ==
  ASSUME NEW s \in TurnState, NEW b \in Byte, NEW q \in {"dq", "sq"}
  PROVE  /\ LET t == Push(s) IN
            /\ t.params = Append(s.params, s.buf) /\ t.buf = <<>>
            /\ t.quote = "none" /\ t.skip = s.skip
         /\ LET t == Write(s, b) IN
            /\ t.params = s.params /\ t.buf = Append(s.buf, b)
            /\ t.quote = s.quote /\ t.skip = s.skip
         /\ LET t == [Write(s, b) EXCEPT !.skip = TRUE] IN
            /\ t.params = s.params /\ t.buf = Append(s.buf, b)
            /\ t.quote = s.quote /\ t.skip = TRUE
         /\ LET t == [s EXCEPT !.quote = q] IN
            /\ t.params = s.params /\ t.buf = s.buf /\ t.quote = q /\ t.skip = s.skip
         /\ LET t == [s EXCEPT !.skip = FALSE] IN
            /\ t.params = s.params /\ t.buf = s.buf /\ t.quote = s.quote /\ t.skip = FALSE
  BY DEF Push, Write, TurnState

\* Does a byte count as itself here?
Counts(line, buf, quote, i) ==
  /\ line[i] # quote
  /\ quote = "none" => line[i] \notin {"sp", "tab"}
  /\ quote = "none" /\ buf = <<>> => line[i] \notin {"dq", "sq"}
  /\ line[i] = "bs" => ~(i < Len(line) /\ line[i + 1] \in DOMAIN Escape)

LEMMA ByteWritten ==
  ASSUME NEW line \in Seq(Byte), NEW i \in 1 .. Len(line), NEW s, NEW params, NEW buf, NEW quote,
         At(s, params, buf, quote), Counts(line, buf, quote, i)
  PROVE  At(Turn(line, s, i), params, Append(buf, line[i]), quote)
<1> DEFINE b == line[i]
<1>1. s \in TurnState /\ s.params = params /\ s.buf = buf /\ s.quote = quote /\ s.skip = FALSE
  BY DEF At
<1>2. b \in Byte
  OBVIOUS
<1>3. /\ b # s.quote /\ ~Opens(s, b) /\ ~Blank(s, b)
      /\ ~(b = "bs" /\ i < Len(line) /\ line[i + 1] \in DOMAIN Escape)
  BY <1>1 DEF Counts, Opens, Blank
<1>4. Turn(line, s, i) \in TurnState
  BY <1>1, TurnType
<1> HIDE DEF b
<1>5. Turn(line, s, i) = Write(s, b)
  BY <1>1, <1>3 DEF Turn, b
<1>6. At(Write(s, b), params, Append(buf, b), quote)
  <2>1. LET t == Write(s, b) IN
        /\ t.params = s.params /\ t.buf = Append(s.buf, b)
        /\ t.quote = s.quote /\ t.skip = s.skip
    BY <1>1, <1>2, Fields
  <2>2. Write(s, b) \in TurnState
    BY <1>4, <1>5
  <2> QED
    BY <1>1, <2>1, <2>2 DEF At
<1> QED
  BY <1>5, <1>6 DEF b

\* A backslash and what it escapes.
LEMMA EscapeWritten ==
  ASSUME NEW line \in Seq(Byte), NEW i \in 1 .. Len(line), i + 1 \in 1 .. Len(line),
         NEW s, NEW params, NEW buf, NEW c \in {"dq", "sq", "bs"},
         At(s, params, buf, "dq"), line[i] = "bs", line[i + 1] = c
  PROVE  At(Turn(line, Turn(line, s, i), i + 1), params, Append(buf, c), "dq")
<1> DEFINE t == [Write(s, c) EXCEPT !.skip = TRUE]
           u == [t EXCEPT !.skip = FALSE]
<1>1. s \in TurnState /\ s.params = params /\ s.buf = buf /\ s.quote = "dq" /\ s.skip = FALSE
  BY DEF At
<1>2. c \in DOMAIN Escape /\ Escape[c] = c /\ c \in Byte
  BY DEF Escape, Byte, Ascii
<1>3. ~Opens(s, "bs") /\ ~Blank(s, "bs") /\ i < Len(line)
  BY <1>1 DEF Opens, Blank
<1>4. Turn(line, s, i) = t
  BY <1>1, <1>2, <1>3 DEF Turn
<1>5. t \in TurnState
  <2> HIDE DEF t
  <2> QED
    BY <1>1, <1>4, TurnType
<1>6. t.params = params /\ t.buf = Append(buf, c) /\ t.quote = "dq" /\ t.skip = TRUE
  BY <1>1, <1>2, Fields
<1> HIDE DEF t
<1>7. Turn(line, t, i + 1) = u
  BY <1>6 DEF Turn
<1>8. u \in TurnState
  BY <1>5, <1>7, TurnType
<1>9. u.params = params /\ u.buf = Append(buf, c) /\ u.quote = "dq" /\ u.skip = FALSE
  BY <1>2, <1>5, <1>6, Fields
<1> HIDE DEF u
<1> QED
  BY <1>4, <1>7, <1>8, <1>9 DEF At

\* A quote opens a parameter, and the same quote ends it.
LEMMA QuoteOpens ==
  ASSUME NEW line \in Seq(Byte), NEW i \in 1 .. Len(line), NEW s, NEW params,
         At(s, params, <<>>, "none"), line[i] \in {"dq", "sq"}
  PROVE  At(Turn(line, s, i), params, <<>>, line[i])
<1> DEFINE b == line[i]
           t == [s EXCEPT !.quote = b]
<1>1. s \in TurnState /\ s.params = params /\ s.buf = <<>> /\ s.quote = "none" /\ s.skip = FALSE
  BY DEF At
<1>2. Opens(s, b)
  BY <1>1 DEF Opens
<1> HIDE DEF b
<1>3. Turn(line, s, i) = t
  BY <1>1, <1>2 DEF Turn, b
<1>4. t \in TurnState
  BY <1>1, <1>3, TurnType
<1>5. b \in {"dq", "sq"} /\ "a" \in Byte
  BY DEF b, Byte, Ascii
<1>6. t.params = params /\ t.buf = <<>> /\ t.quote = b /\ t.skip = FALSE
  BY <1>1, <1>5, Fields
<1> HIDE DEF t
<1> QED
  BY <1>3, <1>4, <1>6 DEF At, b

\* What ends a parameter.
LEMMA Pushes ==
  ASSUME NEW line \in Seq(Byte), NEW i \in 1 .. Len(line), NEW s, NEW params, NEW buf, NEW quote,
         At(s, params, buf, quote),
         \/ line[i] = quote /\ quote \in {"dq", "sq"}
         \/ line[i] = "sp" /\ quote = "none" /\ buf # <<>>
  PROVE  At(Turn(line, s, i), Append(params, buf), <<>>, "none")
<1> DEFINE b == line[i]
<1>1. s \in TurnState /\ s.params = params /\ s.buf = buf /\ s.quote = quote /\ s.skip = FALSE
  BY DEF At
<1>2. ~Opens(s, b) /\ ((Blank(s, b) /\ s.buf # <<>>) \/ (~Blank(s, b) /\ b = s.quote))
  BY <1>1 DEF Opens, Blank
<1> HIDE DEF b
<1>3. Turn(line, s, i) = Push(s)
  BY <1>1, <1>2 DEF Turn, b
<1>4. Push(s) \in TurnState
  BY <1>1, <1>3, TurnType
<1>5. "a" \in Byte /\ "dq" \in {"dq", "sq"}
  BY DEF Byte, Ascii
<1>6. /\ Push(s).params = Append(params, buf) /\ Push(s).buf = <<>>
      /\ Push(s).quote = "none" /\ Push(s).skip = FALSE
  BY <1>1, <1>5, Fields
<1> QED
  BY <1>3, <1>4, <1>6 DEF At

-----------------------------------------------------------------------------
(* The line of a text                                                      *)

LEMMA WrittenShape ==
  ASSUME NEW charset \in DOMAIN Codes, NEW c \in DOMAIN Codes[charset], NEW style \in Styles
  PROVE  LET unit == Written(c, style, charset) IN
         /\ unit \in Seq(Byte) /\ Len(unit) \in {1, 2}
         /\ IF style = "escaped" /\ c \in {"dq", "sq", "bs"}
            THEN Len(unit) = 2 /\ unit[1] = "bs" /\ unit[2] = c
            ELSE unit = Codes[charset][c]
<1>1. CASE style = "escaped" /\ c \in {"dq", "sq", "bs"}
  <2>1. "bs" \in Byte /\ c \in Byte
    BY <1>1 DEF Byte, Ascii
  <2>2. \A b, d \in Byte :
          /\ <<b, d>> \in Seq(Byte) /\ Len(<<b, d>>) = 2
          /\ <<b, d>>[1] = b /\ <<b, d>>[2] = d
    OBVIOUS
  <2> DEFINE unit == Written(c, style, charset)
  <2>3. unit = <<"bs", c>>
    BY <1>1 DEF Written
  <2> HIDE DEF unit
  <2>4. unit \in Seq(Byte) /\ Len(unit) = 2 /\ unit[1] = "bs" /\ unit[2] = c
    BY <2>1, <2>2, <2>3
  <2> QED
    BY <1>1, <2>4 DEF unit
<1>2. CASE ~(style = "escaped" /\ c \in {"dq", "sq", "bs"})
  <2>1. Written(c, style, charset) = Codes[charset][c]
    BY <1>2 DEF Written
  <2>2. Codes[charset][c] \in Seq(Byte) /\ Len(Codes[charset][c]) \in {1, 2}
    BY CodeShape
  <2> QED
    BY <1>2, <2>1, <2>2
<1> QED
  BY <1>1, <1>2

\* The quote that the parameter of a text is in.
In(style) == IF style = "bare" THEN "none" ELSE Quote(style)[1]

\* Does off say where each character of the text ends in its line?
Laid(off, line, text, style, charset) ==
  LET n == Len(text)
      q == IF style = "bare" THEN 0 ELSE 1
      unit(k) == Written(text[k], style, charset)
  IN  /\ off \in [0 .. n -> Nat] /\ off[0] = q /\ Len(line) = off[n] + q
      /\ style # "bare" => line[1] = In(style) /\ line[Len(line)] = In(style)
      /\ \A k \in 1 .. n :
           /\ off[k] = off[k - 1] + Len(unit(k)) /\ off[k] <= off[n]
           /\ \A j \in 1 .. Len(unit(k)) : line[off[k - 1] + j] = unit(k)[j]

LEMMA QuoteShape ==
  ASSUME NEW style \in Styles
  PROVE  /\ Quote(style) \in Seq(Byte)
         /\ style = "bare" => Quote(style) = <<>> /\ In(style) = "none"
         /\ style # "bare" =>
              Quote(style) = <<In(style)>> /\ In(style) = IF style = "escaped" THEN "dq" ELSE style
<1>1. "dq" \in Byte /\ "sq" \in Byte
  BY DEF Byte, Ascii
<1>2. \A b \in Byte : <<b>> \in Seq(Byte) /\ <<b>>[1] = b
  OBVIOUS
<1>3. Quote(style) = IF style = "bare" THEN <<>>
                     ELSE IF style = "escaped" THEN <<"dq">> ELSE <<style>>
  BY DEF Quote, Styles
<1>4. style \in {"bare", "dq", "sq", "escaped"} /\ <<>> \in Seq(Byte)
  BY DEF Styles
<1> QED
  BY <1>1, <1>2, <1>3, <1>4 DEF In

LEMMA LineShape ==
  ASSUME NEW encoding \in Encodings, NEW style \in Styles,
         NEW text \in Seq(DOMAIN Codes[Charset(encoding)])
  PROVE  /\ Line(text, style, encoding) \in Seq(Byte)
         /\ \E off : Laid(off, Line(text, style, encoding), text, style, Charset(encoding))
<1> DEFINE charset == Charset(encoding)
           n == Len(text)
           q == IF style = "bare" THEN 0 ELSE 1
           units == [k \in DOMAIN text |-> Written(text[k], style, charset)]
           quote == Quote(style)
           flat == FlattenSeq(units)
           line == Line(text, style, encoding)
<1>1. charset \in DOMAIN Codes
  BY CodesListed DEF Charset, Encodings
<1> HIDE DEF charset
<1>2. n \in Nat /\ DOMAIN text = 1 .. n /\ \A k \in 1 .. n : text[k] \in DOMAIN Codes[charset]
  BY DEF charset
<1>3. \A k \in 1 .. n : /\ units[k] = Written(text[k], style, charset)
                        /\ units[k] \in Seq(Byte) /\ Len(units[k]) \in {1, 2}
  BY <1>1, <1>2, WrittenShape
<1>4. units \in Seq(Seq(Byte)) /\ Len(units) = n
  BY <1>2, <1>3
<1>5. quote \in Seq(Byte) /\ Len(quote) = q
  BY QuoteShape
<1>6. style # "bare" => quote = <<In(style)>> /\ quote[1] = In(style)
  BY QuoteShape
<1>7. q \in {0, 1} /\ (style # "bare" => q = 1)
  OBVIOUS
<1>8. line = (quote \o flat) \o quote
  BY DEF Line, charset
<1> HIDE DEF units, quote, line, n, q
<1>9. flat \in Seq(Byte) /\ Len(flat) \in Nat
  <2>1. flat \in Seq(Byte)
    <3>1. <<>> \in Seq(Byte)
      OBVIOUS
    <3> HIDE DEF flat
    <3> QED
      BY <1>4, <3>1, FlattenAppend DEF flat
  <2> QED
    BY <2>1
<1>10. PICK ends : Ends(ends, units, flat)
  BY <1>4, FlattenPositions
<1> HIDE DEF flat
<1>11. /\ ends \in [0 .. n -> Nat] /\ ends[0] = 0 /\ ends[n] = Len(flat)
       /\ \A k \in 1 .. n :
            /\ ends[k] = ends[k - 1] + Len(units[k]) /\ ends[k] <= Len(flat)
            /\ \A j \in 1 .. Len(units[k]) : flat[ends[k - 1] + j] = units[k][j]
  BY <1>4, <1>10 DEF Ends
<1>12. /\ quote \o flat \in Seq(Byte) /\ Len(quote \o flat) = q + Len(flat)
       /\ \A p \in 1 .. q : (quote \o flat)[p] = quote[p]
       /\ \A p \in 1 .. Len(flat) : (quote \o flat)[q + p] = flat[p]
  <2>1. /\ quote \o flat \in Seq(Byte) /\ Len(quote \o flat) = Len(quote) + Len(flat)
        /\ \A p \in 1 .. Len(quote) : (quote \o flat)[p] = quote[p]
        /\ \A p \in 1 .. Len(flat) : (quote \o flat)[Len(quote) + p] = flat[p]
    <3>1. quote \in Seq(Byte) /\ flat \in Seq(Byte)
      BY <1>5, <1>9
    <3> QED
      BY <3>1, Concatenated
  <2> QED
    BY <1>5, <2>1
<1> DEFINE left == quote \o flat
<1> HIDE DEF left
<1>13. /\ line \in Seq(Byte) /\ Len(line) = Len(left) + q
       /\ \A p \in 1 .. Len(left) : line[p] = left[p]
       /\ \A p \in 1 .. q : line[Len(left) + p] = quote[p]
  <2>1. left \in Seq(Byte) /\ line = left \o quote
    BY <1>8, <1>12 DEF left
  <2>2. /\ left \o quote \in Seq(Byte) /\ Len(left \o quote) = Len(left) + Len(quote)
        /\ \A p \in 1 .. Len(left) : (left \o quote)[p] = left[p]
        /\ \A p \in 1 .. Len(quote) : (left \o quote)[Len(left) + p] = quote[p]
    <3>1. quote \in Seq(Byte) /\ left \in Seq(Byte)
      BY <1>5, <2>1
    <3> QED
      BY <3>1, Concatenated
  <2> QED
    BY <1>5, <2>1, <2>2
<1>14. /\ Len(line) = q + Len(flat) + q
       /\ \A p \in 1 .. Len(flat) : line[q + p] = flat[p]
       /\ style # "bare" => line[1] = quote[1] /\ line[Len(line)] = quote[1]
  <2>1. Len(left) = q + Len(flat) /\ \A p \in 1 .. q : left[p] = quote[p]
    BY <1>12 DEF left
  <2>2. \A p \in 1 .. Len(flat) : left[q + p] = flat[p] /\ q + p \in 1 .. Len(left)
    BY <1>7, <1>9, <1>12, <2>1 DEF left
  <2>3. CASE style # "bare"
    <3>1. q = 1 /\ 1 \in 1 .. q /\ 1 \in 1 .. Len(left)
      BY <1>7, <1>9, <2>1, <2>3
    <3> QED
      BY <1>9, <1>13, <2>1, <2>2, <3>1
  <2> QED
    BY <1>9, <1>7, <1>13, <2>1, <2>2, <2>3
<1> DEFINE off == [k \in 0 .. n |-> ends[k] + q]
<1>15. off \in [0 .. n -> Nat] /\ \A k \in 0 .. n : off[k] = ends[k] + q
  BY <1>7, <1>11
<1> HIDE DEF off
<1>16. ASSUME NEW k \in 1 .. n
       PROVE  /\ off[k] = off[k - 1] + Len(units[k]) /\ off[k] <= off[n]
              /\ \A j \in 1 .. Len(units[k]) : line[off[k - 1] + j] = units[k][j]
  <2>1. k \in 0 .. n /\ k - 1 \in 0 .. n /\ n \in 0 .. n
    BY <1>2
  <2>2. /\ ends[k] \in Nat /\ ends[k - 1] \in Nat /\ Len(units[k]) \in Nat
        /\ off[k] = ends[k] + q /\ off[k - 1] = ends[k - 1] + q /\ off[n] = Len(flat) + q
        /\ ends[k] = ends[k - 1] + Len(units[k]) /\ ends[k] <= Len(flat)
    <3>1. ends \in [0 .. n -> Nat] /\ ends[n] = Len(flat)
      BY <1>11
    <3>2. ends[k] = ends[k - 1] + Len(units[k]) /\ ends[k] <= Len(flat)
      BY <1>11
    <3>3. ends[k] \in Nat /\ ends[k - 1] \in Nat
      BY <2>1, <3>1
    <3>4. off[k] = ends[k] + q /\ off[k - 1] = ends[k - 1] + q /\ off[n] = ends[n] + q
      BY <1>15, <2>1
    <3>5. Len(units[k]) \in Nat
      BY <1>3
    <3> QED
      BY <3>1, <3>2, <3>3, <3>4, <3>5
  <2>3. ASSUME NEW j \in 1 .. Len(units[k])
        PROVE  line[off[k - 1] + j] = units[k][j]
    <3>1. ends[k - 1] + j \in 1 .. Len(flat)
      BY <1>9, <2>2
    <3>2. off[k - 1] + j = q + (ends[k - 1] + j)
      BY <1>7, <2>2
    <3> QED
      BY <1>11, <1>14, <3>1, <3>2
  <2>4. off[k] = off[k - 1] + Len(units[k]) /\ off[k] <= off[n]
    <3>1. q \in Nat /\ Len(flat) \in Nat
      BY <1>7, <1>9
    <3>2. ends[k - 1] + Len(units[k]) + q = ends[k - 1] + q + Len(units[k])
      BY <2>2, <3>1
    <3>3. ends[k] + q <= Len(flat) + q
      BY <2>2, <3>1
    <3> QED
      BY <2>2, <3>2, <3>3
  <2> QED
    BY <2>3, <2>4
<1>17. off[0] = q /\ Len(line) = off[n] + q
  <2>1. 0 \in 0 .. n /\ n \in 0 .. n
    BY <1>2
  <2>2. off[0] = 0 + q /\ off[n] = Len(flat) + q
    BY <1>11, <1>15, <2>1
  <2> QED
    BY <1>7, <1>9, <1>14, <2>2
<1>18. Laid(off, line, text, style, charset)
  BY <1>2, <1>3, <1>6, <1>14, <1>15, <1>16, <1>17 DEF Laid, n, q
<1> QED
  BY <1>13, <1>18 DEF line, charset

\* Does the split take the k-th character of a text as it is?
Harmless(text, style, k, buf) ==
  /\ style = "bare" => text[k] \notin {"sp", "tab"} /\ (buf = <<>> => text[k] \notin {"dq", "sq"})
  /\ style \in {"dq", "sq"} => text[k] # style
  /\ style # "escaped" /\ text[k] = "bs" =>
       \/ k < Len(text) /\ text[k + 1] \notin DOMAIN Escape
       \/ k = Len(text) /\ style = "bare"

\* Where the bytes of a character are.
LEMMA UnitPlace ==
  ASSUME NEW charset \in DOMAIN Codes, NEW style \in Styles,
         NEW text \in Seq(DOMAIN Codes[charset]), NEW line \in Seq(Byte), NEW off,
         Laid(off, line, text, style, charset), NEW k \in 1 .. Len(text)
  PROVE  LET unit == Written(text[k], style, charset) IN
         /\ text[k] \in DOMAIN Codes[charset] /\ Len(text) \in Nat /\ Len(line) \in Nat
         /\ off[k - 1] \in Nat /\ off[k] \in Nat /\ off[k] = off[k - 1] + Len(unit)
         /\ off[k] <= Len(line) /\ (k = Len(text) /\ style = "bare" => off[k] = Len(line))
         /\ \A j \in 1 .. Len(unit) : line[off[k - 1] + j] = unit[j]
         /\ Len(unit) \in {1, 2}
<1>1. /\ text[k] \in DOMAIN Codes[charset] /\ Len(text) \in Nat /\ Len(line) \in Nat
      /\ k \in 0 .. Len(text) /\ k - 1 \in 0 .. Len(text) /\ Len(text) \in 0 .. Len(text)
  OBVIOUS
<1>2. Len(Written(text[k], style, charset)) \in {1, 2}
  BY <1>1, WrittenShape
<1>3. /\ off \in [0 .. Len(text) -> Nat]
      /\ Len(line) = off[Len(text)] + (IF style = "bare" THEN 0 ELSE 1)
      /\ off[k] = off[k - 1] + Len(Written(text[k], style, charset)) /\ off[k] <= off[Len(text)]
      /\ \A j \in 1 .. Len(Written(text[k], style, charset)) :
           line[off[k - 1] + j] = Written(text[k], style, charset)[j]
  BY DEF Laid
<1>4. off[k] \in Nat /\ off[k - 1] \in Nat /\ off[Len(text)] \in Nat
  BY <1>1, <1>3
<1>5. off[k] <= Len(line) /\ (k = Len(text) /\ style = "bare" => off[k] = Len(line))
  BY <1>3, <1>4
<1> QED
  BY <1>1, <1>2, <1>3, <1>4, <1>5

\* A lone backslash is before nothing that it could escape.
LEMMA LoneBackslash ==
  ASSUME NEW charset \in DOMAIN Codes, NEW style \in Styles,
         NEW text \in Seq(DOMAIN Codes[charset]), NEW line \in Seq(Byte), NEW off,
         Laid(off, line, text, style, charset), NEW k \in 1 .. Len(text), NEW buf,
         Harmless(text, style, k, buf), text[k] = "bs", style # "escaped"
  PROVE  ~(off[k - 1] + 1 < Len(line) /\ line[off[k - 1] + 2] \in DOMAIN Escape)
<1>1. Codes[charset]["bs"] = <<"bs">> /\ Len(<<"bs">>) = 1
  <2>1. "bs" \in Ascii /\ \A b : Len(<<b>>) = 1
    BY DEF Ascii
  <2> QED
    BY <2>1, CodesListed
<1>2. Written(text[k], style, charset) = <<"bs">>
  BY <1>1 DEF Written
<1>3. /\ Len(text) \in Nat /\ off[k - 1] \in Nat /\ off[k] = off[k - 1] + 1
      /\ (k = Len(text) /\ style = "bare" => off[k] = Len(line))
  <2>1. /\ Len(text) \in Nat /\ off[k - 1] \in Nat
        /\ off[k] = off[k - 1] + Len(Written(text[k], style, charset))
        /\ (k = Len(text) /\ style = "bare" => off[k] = Len(line))
    BY UnitPlace
  <2> QED
    BY <1>1, <1>2, <2>1
<1>4. CASE k < Len(text) /\ text[k + 1] \notin DOMAIN Escape
  <2> DEFINE c == text[k + 1]
             unit == Written(c, style, charset)
  <2>1. k + 1 \in 1 .. Len(text) /\ (k + 1) - 1 = k
    BY <1>3, <1>4
  <2>2. /\ c \in DOMAIN Codes[charset] /\ Len(unit) \in {1, 2}
        /\ \A j \in 1 .. Len(unit) : line[off[k] + j] = unit[j]
    <3>1. /\ c \in DOMAIN Codes[charset] /\ Len(unit) \in {1, 2}
          /\ \A j \in 1 .. Len(unit) : line[off[(k + 1) - 1] + j] = unit[j]
      <4>1. ASSUME NEW m \in 1 .. Len(text)
            PROVE  LET u == Written(text[m], style, charset) IN
                   /\ text[m] \in DOMAIN Codes[charset] /\ Len(u) \in {1, 2}
                   /\ \A j \in 1 .. Len(u) : line[off[m - 1] + j] = u[j]
        BY UnitPlace
      <4> QED
        BY <2>1, <4>1
    <3> HIDE DEF unit
    <3> QED
      BY <2>1, <3>1
  <2>3. unit = Codes[charset][c]
    BY DEF Written
  <2>4. unit[1] = c \/ unit[1] \in {"h1", "u1"}
    <3>1. c \in Ascii => Codes[charset][c] = <<c>>
      BY <2>2, CodesListed
    <3>2. c \notin Ascii => Codes[charset][c][1] \in {"h1", "u1"}
      BY <2>2, CodeShape
    <3>3. <<c>>[1] = c
      OBVIOUS
    <3> HIDE DEF unit, c
    <3> QED
      BY <2>3, <3>1, <3>2, <3>3
  <2>5. unit[1] \notin DOMAIN Escape
    BY <1>4, <2>4 DEF Escape
  <2>6. line[off[k] + 1] = unit[1]
    <3> HIDE DEF unit
    <3> QED
      BY <2>2
  <2>7. off[k] + 1 = off[k - 1] + 2
    BY <1>3
  <2> QED
    BY <2>5, <2>6, <2>7
<1>5. CASE k = Len(text) /\ style = "bare"
  BY <1>3, <1>5
<1> QED
  BY <1>4, <1>5 DEF Harmless

\* A character adds its bytes to the parameter.
LEMMA CharWritten ==
  ASSUME NEW charset \in DOMAIN Codes, NEW style \in Styles,
         NEW text \in Seq(DOMAIN Codes[charset]), NEW line \in Seq(Byte), NEW off,
         Laid(off, line, text, style, charset), NEW k \in 1 .. Len(text),
         NEW params, NEW buf \in Seq(Byte),
         At(Turns(line)[off[k - 1]], params, buf, In(style)),
         Harmless(text, style, k, buf), ~(charset = "double-byte" /\ text[k] = "kana")
  PROVE  At(Turns(line)[off[k]], params, buf \o Codes[charset][text[k]], In(style))
<1> DEFINE c == text[k]
           p == off[k - 1] + 1
           unit == Written(c, style, charset)
           code == Codes[charset][c]
           s == Turns(line)[off[k - 1]]
           quote == In(style)
<1>1. /\ c \in DOMAIN Codes[charset] /\ Len(text) \in Nat /\ Len(line) \in Nat
      /\ off[k - 1] \in Nat /\ off[k] \in Nat /\ off[k] = off[k - 1] + Len(unit)
      /\ off[k] <= Len(line) /\ (k = Len(text) /\ style = "bare" => off[k] = Len(line))
      /\ \A j \in 1 .. Len(unit) : line[off[k - 1] + j] = unit[j]
      /\ Len(unit) \in {1, 2}
  BY UnitPlace
<1>2. \A i \in 1 .. Len(line) : Turns(line)[i] = Turn(line, Turns(line)[i - 1], i)
  BY TurnSteps
<1>3. At(s, params, buf, quote)
  OBVIOUS
<1>4. quote \in {"none", "dq", "sq"} /\ (quote = "none" <=> style = "bare")
      /\ (style = "escaped" => quote = "dq") /\ (style \in {"dq", "sq"} => quote = style)
  BY QuoteShape DEF Styles
<1>5. IF style = "escaped" /\ c \in {"dq", "sq", "bs"}
      THEN Len(unit) = 2 /\ unit[1] = "bs" /\ unit[2] = c
      ELSE unit = code
  BY <1>1, WrittenShape
<1> HIDE DEF unit, s, quote
<1>6. /\ p \in 1 .. Len(line) /\ p - 1 = off[k - 1] /\ line[p] = unit[1]
      /\ Turns(line)[p] = Turn(line, s, p)
  <2>1. Len(unit) \in Nat /\ Len(unit) >= 1
    <3>1. Len(unit) \in {1, 2}
      BY <1>1
    <3>2. \A n \in {1, 2} : n \in Nat /\ n >= 1
      OBVIOUS
    <3> QED
      BY <3>1, <3>2
  <2>2. off[k - 1] \in Nat /\ off[k] = off[k - 1] + Len(unit) /\ off[k] <= Len(line) /\ Len(line) \in Nat
    BY <1>1
  <2>3. p \in 1 .. Len(line) /\ p - 1 = off[k - 1] /\ 1 \in 1 .. Len(unit)
    BY <2>1, <2>2
  <2> QED
    BY <1>1, <1>2, <2>3 DEF s
<1>7. Len(unit) = 2 => /\ p + 1 \in 1 .. Len(line) /\ line[p + 1] = unit[2] /\ off[k] = p + 1
                       /\ Turns(line)[p + 1] = Turn(line, Turns(line)[p], p + 1)
  <2> SUFFICES ASSUME Len(unit) = 2
               PROVE  /\ p + 1 \in 1 .. Len(line) /\ line[p + 1] = unit[2] /\ off[k] = p + 1
                      /\ Turns(line)[p + 1] = Turn(line, Turns(line)[p], p + 1)
    OBVIOUS
  <2>1. p + 1 \in 1 .. Len(line) /\ off[k] = p + 1 /\ (p + 1) - 1 = p
        /\ p + 1 = off[k - 1] + 2 /\ 2 \in 1 .. Len(unit)
    <3> DEFINE a == off[k - 1]
               b == off[k]
               n == Len(line)
    <3>1. a \in Nat /\ b = a + 2 /\ b <= n /\ n \in Nat
      BY <1>1
    <3>2. 2 \in 1 .. Len(unit)
      OBVIOUS
    <3> HIDE DEF a, b, n
    <3>3. (a + 1) + 1 \in 1 .. n /\ b = (a + 1) + 1 /\ ((a + 1) + 1) - 1 = a + 1 /\ (a + 1) + 1 = a + 2
      BY <3>1
    <3> QED
      BY <3>2, <3>3 DEF a, b, n
  <2>2. line[off[k - 1] + 2] = unit[2]
    BY <1>1, <2>1
  <2> QED
    BY <1>2, <2>1, <2>2
<1>8. Len(unit) = 1 => off[k] = p
  BY <1>1
<1>9. /\ \A b \in Byte : Append(buf, b) = buf \o <<b>>
      /\ \A b, d \in Byte : Append(Append(buf, b), d) = buf \o <<b, d>>
  <2>1. \A b \in Byte : Append(buf, b) = buf \o <<b>>
    OBVIOUS
  <2>2. \A b, d \in Byte : Append(Append(buf, b), d) = buf \o <<b, d>>
    OBVIOUS
  <2> QED
    BY <2>1, <2>2
<1>10. CASE style = "escaped" /\ c \in {"dq", "sq", "bs"}
  <2>1. line[p] = "bs" /\ line[p + 1] = c /\ p + 1 \in 1 .. Len(line)
    BY <1>5, <1>6, <1>7, <1>10
  <2>2. At(s, params, buf, "dq")
    BY <1>3, <1>4, <1>10
  <2>3. At(Turn(line, Turn(line, s, p), p + 1), params, Append(buf, c), "dq")
    <3> HIDE DEF c, p
    <3> QED
      BY <1>6, <1>10, <2>1, <2>2, EscapeWritten
  <2>4. Turns(line)[off[k]] = Turn(line, Turn(line, s, p), p + 1)
    BY <1>5, <1>6, <1>7, <1>10
  <2>5. code = <<c>>
    <3>1. c \in Ascii
      BY <1>10 DEF Ascii
    <3> QED
      BY <3>1, CodesListed
  <2>6. Append(buf, c) = buf \o code
    <3>1. c \in Byte
      BY <1>10 DEF Byte, Ascii
    <3> QED
      BY <1>9, <2>5, <3>1
  <2> QED
    BY <1>4, <1>10, <2>3, <2>4, <2>6 DEF quote
<1>11. CASE ~(style = "escaped" /\ c \in {"dq", "sq", "bs"}) /\ c \in Ascii
  <2>1. code = <<c>> /\ <<c>>[1] = c /\ Len(<<c>>) = 1
    BY <1>11, CodesListed
  <2>2. unit = <<c>>
    BY <1>5, <1>11, <2>1
  <2>3. line[p] = c /\ off[k] = p
    BY <1>6, <1>8, <2>1, <2>2
  <2>4. /\ style = "bare" => c \notin {"sp", "tab"} /\ (buf = <<>> => c \notin {"dq", "sq"})
        /\ style \in {"dq", "sq"} => c # style
    BY DEF Harmless
  <2>5. c = "bs" => style # "escaped" /\ ~(p < Len(line) /\ line[p + 1] \in DOMAIN Escape)
    <3> SUFFICES ASSUME c = "bs"
                 PROVE  style # "escaped" /\ ~(p < Len(line) /\ line[p + 1] \in DOMAIN Escape)
      OBVIOUS
    <3>1. style # "escaped"
      BY <1>11
    <3>2. p + 1 = off[k - 1] + 2
      BY <1>1
    <3>3. ~(off[k - 1] + 1 < Len(line) /\ line[off[k - 1] + 2] \in DOMAIN Escape)
      BY <3>1, LoneBackslash
    <3> QED
      BY <3>1, <3>2, <3>3
  <2>6. c # quote
    <3>1. style = "escaped" => c # "dq"
      BY <1>11
    <3>2. c # "none"
      BY <1>11 DEF Ascii
    <3>3. style \in {"bare", "escaped", "dq", "sq"}
      BY DEF Styles
    <3> HIDE DEF c
    <3> QED
      BY <1>4, <2>4, <3>1, <3>2, <3>3
  <2>7. Counts(line, buf, quote, p)
    <3> HIDE DEF c, p
    <3> QED
      BY <1>4, <2>3, <2>4, <2>5, <2>6 DEF Counts
  <2>8. At(Turn(line, s, p), params, Append(buf, line[p]), quote)
    <3> HIDE DEF p
    <3> QED
      BY <1>3, <1>6, <2>7, ByteWritten
  <2>9. Append(buf, line[p]) = buf \o code
    <3>1. c \in Byte
      BY <1>11 DEF Byte
    <3> QED
      BY <1>9, <2>1, <2>3, <3>1
  <2> QED
    BY <1>6, <2>3, <2>8, <2>9 DEF quote
<1>12. CASE c \notin Ascii
  <2>1. /\ code \in Seq(Byte) /\ Len(code) \in {1, 2} /\ code[1] \in {"h1", "u1"}
        /\ Len(code) = 2 => code[2] \in {"h2", "u2", "u3"}
    BY <1>1, <1>12, CodeShape
  <2>2. unit = code
    BY <1>5, <1>12 DEF Ascii
  <2>3. \A b \in Byte : \A i, t : b \in {"h1", "h2", "u1", "u2", "u3"} /\ line[i] = b =>
          Counts(line, t, quote, i)
    BY <1>4 DEF Counts
  <2>4. line[p] = code[1] /\ code[1] \in Byte /\ Counts(line, buf, quote, p)
    BY <1>6, <2>1, <2>2, <2>3 DEF Byte
  <2>5. At(Turns(line)[p], params, Append(buf, code[1]), quote)
    <3>1. At(Turn(line, s, p), params, Append(buf, line[p]), quote)
      <4> HIDE DEF p
      <4> QED
        BY <1>3, <1>6, <2>4, ByteWritten
    <3> QED
      BY <1>6, <2>4, <3>1
  <2>6. CASE Len(code) = 1
    <3>1. off[k] = p /\ code = <<code[1]>>
      BY <1>8, <2>1, <2>2, <2>6
    <3>2. Append(buf, code[1]) = buf \o code
      BY <1>9, <2>4, <3>1
    <3> QED
      BY <2>5, <3>1, <3>2 DEF quote
  <2>7. CASE Len(code) = 2
    <3> DEFINE t == Turns(line)[p]
               new == Append(buf, code[1])
    <3>1. /\ p + 1 \in 1 .. Len(line) /\ line[p + 1] = code[2] /\ off[k] = p + 1
          /\ Turns(line)[p + 1] = Turn(line, t, p + 1)
      BY <1>7, <2>2, <2>7
    <3>2. code[2] \in Byte /\ Counts(line, new, quote, p + 1)
      BY <2>1, <2>3, <2>7, <3>1 DEF Byte
    <3>3. At(t, params, new, quote)
      BY <2>5
    <3>4. At(Turn(line, t, p + 1), params, Append(new, line[p + 1]), quote)
      <4> HIDE DEF p, t, new
      <4> QED
        BY <3>1, <3>2, <3>3, ByteWritten
    <3>5. code = <<code[1], code[2]>>
      BY <2>1, <2>7
    <3>6. Append(new, code[2]) = buf \o code
      BY <1>9, <2>4, <3>2, <3>5
    <3> QED
      BY <3>1, <3>4, <3>6 DEF quote
  <2> QED
    BY <2>1, <2>6, <2>7
<1> QED
  BY <1>10, <1>11, <1>12

\* The first k characters of a text.
Upto(text, k) == [i \in 1 .. k |-> text[i]]

LEMMA UptoSteps ==
  ASSUME NEW C, NEW text \in Seq(C)
  PROVE  /\ Upto(text, 0) = <<>> /\ Upto(text, Len(text)) = text
         /\ \A k \in 0 .. Len(text) : Upto(text, k) \in Seq(C)
         /\ \A k \in 1 .. Len(text) : Upto(text, k) = Append(Upto(text, k - 1), text[k])
<1>1. Upto(text, 0) = <<>> /\ Upto(text, Len(text)) = text
  BY DEF Upto
<1>2. \A k \in 0 .. Len(text) : Upto(text, k) \in Seq(C) /\ Len(Upto(text, k)) = k
  BY DEF Upto
<1>3. ASSUME NEW k \in 1 .. Len(text)
      PROVE  Upto(text, k) = Append(Upto(text, k - 1), text[k])
  <2>1. k \in 0 .. Len(text) /\ k - 1 \in 0 .. Len(text)
    OBVIOUS
  <2>2. Upto(text, k) \in Seq(C) /\ Upto(text, k - 1) \in Seq(C) /\ text[k] \in C
    BY <1>2, <2>1
  <2>3. Len(Upto(text, k)) = k /\ Len(Upto(text, k - 1)) = k - 1
    BY <1>2, <2>1
  <2>4. \A i \in 1 .. k : Upto(text, k)[i] = text[i]
    BY DEF Upto
  <2>5. \A i \in 1 .. k - 1 : Upto(text, k - 1)[i] = text[i]
    BY DEF Upto
  <2> QED
    BY <2>2, <2>3, <2>4, <2>5
<1> QED
  BY <1>1, <1>2, <1>3

LEMMA StartAt ==
  At(Start, <<>>, <<>>, "none")
<1>1. Start \in TurnState
  BY DEF Start, TurnState
<1>2. Start.params = <<>> /\ Start.buf = <<>> /\ Start.quote = "none" /\ Start.skip = FALSE
  BY DEF Start
<1> QED
  BY <1>1, <1>2 DEF At

\* A text in quotes is one parameter.
LEMMA QuotedLine ==
  ASSUME NEW encoding \in Encodings, NEW style \in Styles \ {"bare"}, NEW joined,
         NEW text \in Seq(DOMAIN Codes[Charset(encoding)]), Safe(text, style, joined),
         \A k \in 1 .. Len(text) : ~(Charset(encoding) = "double-byte" /\ text[k] = "kana")
  PROVE  Params(Line(text, style, encoding)) = <<Bytes(text, Charset(encoding))>>
<1> DEFINE charset == Charset(encoding)
           line == Line(text, style, encoding)
           n == Len(text)
           quote == In(style)
           bytes(k) == Bytes(Upto(text, k), charset)
<1>1. charset \in DOMAIN Codes /\ style \in Styles
  BY CodesListed DEF Charset, Encodings
<1>2. line \in Seq(Byte) /\ \E off : Laid(off, line, text, style, charset)
  BY <1>1, LineShape
<1>3. PICK off : Laid(off, line, text, style, charset)
  BY <1>2
<1>4. \A k \in 1 .. n : \A buf : Harmless(text, style, k, buf)
  <2>1. n \in Nat /\ style # "bare"
    OBVIOUS
  <2>2. \A k \in 1 .. n : style \in {"dq", "sq"} => text[k] # style
    BY DEF Safe, Contains
  <2>3. \A k \in 1 .. n : style # "escaped" /\ text[k] = "bs" => k < n /\ text[k + 1] \notin DOMAIN Escape
    BY <2>1 DEF Safe
  <2> QED
    BY <2>1, <2>2, <2>3 DEF Harmless
<1>5. n \in Nat /\ text \in Seq(DOMAIN Codes[charset])
      /\ \A k \in 1 .. n : text[k] \in DOMAIN Codes[charset] /\ ~(charset = "double-byte" /\ text[k] = "kana")
  OBVIOUS
<1> HIDE DEF charset, line
<1>6. /\ off[0] = 1 /\ off[n] \in Nat /\ Len(line) = off[n] + 1
      /\ line[1] = quote /\ line[Len(line)] = quote
  BY <1>3, <1>5 DEF Laid
<1>7. quote \in {"dq", "sq"}
  BY <1>1, QuoteShape DEF Styles
<1>8. /\ Turns(line)[0] = Start
      /\ \A i \in 1 .. Len(line) : Turns(line)[i] = Turn(line, Turns(line)[i - 1], i)
  BY <1>2, TurnSteps
<1> HIDE DEF quote, n
<1>9. /\ bytes(0) = <<>> /\ bytes(n) = Bytes(text, charset)
      /\ \A k \in 0 .. n : bytes(k) \in Seq(Byte)
      /\ \A k \in 1 .. n : bytes(k) = bytes(k - 1) \o Codes[charset][text[k]]
  <2>1. /\ Upto(text, 0) = <<>> /\ Upto(text, n) = text
        /\ \A k \in 0 .. n : Upto(text, k) \in Seq(DOMAIN Codes[charset])
        /\ \A k \in 1 .. n : Upto(text, k) = Append(Upto(text, k - 1), text[k])
    BY <1>5, UptoSteps DEF n
  <2>2. /\ Bytes(<<>>, charset) = <<>>
        /\ \A t \in Seq(DOMAIN Codes[charset]), c \in DOMAIN Codes[charset] :
             /\ Bytes(t, charset) \in Seq(Byte)
             /\ Bytes(Append(t, c), charset) = Bytes(t, charset) \o Codes[charset][c]
    BY <1>1, BytesAppend
  <2>3. \A k \in 0 .. n : bytes(k) \in Seq(Byte)
    <3>1. "a" \in DOMAIN Codes[charset]
      BY <1>1, CodesListed DEF Ascii
    <3> QED
      BY <2>1, <2>2, <3>1
  <2>4. ASSUME NEW k \in 1 .. n
        PROVE  bytes(k) = bytes(k - 1) \o Codes[charset][text[k]]
    <3>1. k - 1 \in 0 .. n /\ k \in 1 .. n
      BY <1>5
    <3>2. Upto(text, k) = Append(Upto(text, k - 1), text[k])
      BY <2>1
    <3> QED
      BY <1>5, <2>1, <2>2, <3>1, <3>2
  <2> QED
    BY <2>1, <2>2, <2>3, <2>4
<1> HIDE DEF bytes
<1>10. At(Turns(line)[1], <<>>, <<>>, quote)
  <2>1. 1 \in 1 .. Len(line) /\ 1 - 1 = 0
    BY <1>6
  <2>2. Turns(line)[1] = Turn(line, Start, 1)
    BY <1>8, <2>1
  <2>3. line[1] \in {"dq", "sq"} /\ line[1] = quote
    BY <1>6, <1>7
  <2>4. At(Turn(line, Start, 1), <<>>, <<>>, line[1])
    BY <1>2, <2>1, <2>3, StartAt, QuoteOpens DEF line
  <2> QED
    BY <2>2, <2>3, <2>4
<1> DEFINE T == {k \in Nat : k <= n => At(Turns(line)[off[k]], <<>>, bytes(k), quote)}
<1>11. 0 \in T
  BY <1>6, <1>9, <1>10
<1>12. ASSUME NEW m \in Nat, m \in T
       PROVE  m + 1 \in T
  <2> SUFFICES ASSUME m + 1 <= n PROVE At(Turns(line)[off[m + 1]], <<>>, bytes(m + 1), quote)
    OBVIOUS
  <2> DEFINE k == m + 1
  <2>1. k \in 1 .. n /\ k - 1 = m /\ m \in 0 .. n /\ m <= n
    BY <1>5
  <2>2. At(Turns(line)[off[m]], <<>>, bytes(m), quote)
    BY <1>12, <2>1
  <2> HIDE DEF k
  <2>3. At(Turns(line)[off[k - 1]], <<>>, bytes(k - 1), In(style))
    BY <2>1, <2>2 DEF quote
  <2>4. bytes(k - 1) \in Seq(Byte) /\ Harmless(text, style, k, bytes(k - 1))
        /\ ~(charset = "double-byte" /\ text[k] = "kana") /\ k \in 1 .. Len(text)
    BY <1>4, <1>5, <1>9, <2>1 DEF n
  <2>5. At(Turns(line)[off[k]], <<>>, bytes(k - 1) \o Codes[charset][text[k]], In(style))
    BY <1>1, <1>2, <1>3, <1>5, <2>3, <2>4, CharWritten DEF line
  <2>6. bytes(k) = bytes(k - 1) \o Codes[charset][text[k]]
    BY <1>9, <2>1
  <2> QED
    BY <2>5, <2>6 DEF k, quote
<1>13. At(Turns(line)[off[n]], <<>>, Bytes(text, charset), quote)
  <2>1. Nat \subseteq T
    <3> HIDE DEF T
    <3> QED
      BY <1>11, <1>12, Induction
  <2> QED
    BY <1>5, <1>9, <2>1
<1>14. At(Turns(line)[Len(line)], Append(<<>>, Bytes(text, charset)), <<>>, "none")
  <2> DEFINE i == Len(line)
  <2>1. i \in 1 .. Len(line) /\ i - 1 = off[n]
    BY <1>6
  <2>2. Turns(line)[i] = Turn(line, Turns(line)[off[n]], i)
    BY <1>8, <2>1
  <2>3. line[i] = quote /\ quote \in {"dq", "sq"}
    BY <1>6, <1>7
  <2> HIDE DEF i
  <2>4. At(Turn(line, Turns(line)[off[n]], i), Append(<<>>, Bytes(text, charset)), <<>>, "none")
    BY <1>2, <1>13, <2>1, <2>3, Pushes DEF line
  <2> QED
    BY <2>2, <2>4 DEF i
<1>15. Params(line) = Append(<<>>, Bytes(text, charset))
  <2> DEFINE s == Turns(line)[Len(line)]
  <2>1. s.params = Append(<<>>, Bytes(text, charset)) /\ s.buf = <<>> /\ s.quote = "none"
    BY <1>14 DEF At
  <2>2. Params(line) = IF s.buf # <<>> \/ s.quote # "none" THEN Push(s).params ELSE s.params
    BY DEF Params
  <2> HIDE DEF s
  <2> QED
    BY <2>1, <2>2
<1>16. Append(<<>>, Bytes(text, charset)) = <<Bytes(text, charset)>>
  OBVIOUS
<1> QED
  BY <1>15, <1>16 DEF line, charset

-----------------------------------------------------------------------------
(* Words                                                                   *)

LEMMA JoinedAppend ==
  ASSUME NEW C, "sp" \in C, NEW words \in Seq(Seq(C)), NEW w \in Seq(C)
  PROVE  /\ Joined(words) \in Seq(C)
         /\ Joined(Append(words, w)) = Joined(words) \o (IF words = <<>> THEN w ELSE <<"sp">> \o w)
<1> DEFINE S == Seq(C)
           parts(ws) == [i \in DOMAIN ws |-> IF i = 1 THEN ws[i] ELSE <<"sp">> \o ws[i]]
           more == IF words = <<>> THEN w ELSE <<"sp">> \o w
           n == Len(words)
<1>1. \A v \in S : <<"sp">> \o v \in S
  OBVIOUS
<1>2. words \in Seq(S) /\ w \in S
  OBVIOUS
<1> HIDE DEF S
<1>3. n \in Nat /\ DOMAIN words = 1 .. n /\ \A i \in 1 .. n : words[i] \in S
  BY <1>2
<1>4. parts(words) \in Seq(S) /\ more \in S
  <2>1. \A i \in 1 .. n : parts(words)[i] \in S
    BY <1>1, <1>3
  <2> QED
    BY <1>1, <1>2, <1>3, <2>1
<1>5. parts(Append(words, w)) = Append(parts(words), more)
  <2>1. /\ DOMAIN Append(words, w) = 1 .. n + 1 /\ Append(words, w)[n + 1] = w
        /\ \A i \in 1 .. n : Append(words, w)[i] = words[i]
    BY <1>2
  <2>2. words = <<>> <=> n + 1 = 1
    BY <1>2
  <2>3. /\ DOMAIN parts(Append(words, w)) = 1 .. n + 1
        /\ parts(Append(words, w))[n + 1] = more
        /\ \A i \in 1 .. n : parts(Append(words, w))[i] = parts(words)[i]
    <3>1. parts(Append(words, w))[n + 1] = more
      BY <1>3, <2>1, <2>2
    <3>2. \A i \in 1 .. n : parts(Append(words, w))[i] = parts(words)[i]
      BY <1>3, <2>1
    <3> QED
      BY <2>1, <3>1, <3>2
  <2>4. parts(Append(words, w)) = [i \in 1 .. n + 1 |-> parts(Append(words, w))[i]]
    BY <2>1
  <2>5. Len(parts(words)) = n /\ DOMAIN parts(words) = 1 .. n
    BY <1>3
  <2> HIDE DEF parts, more, n
  <2> DEFINE old == parts(words)
             new == parts(Append(words, w))
  <2>6. old \in Seq(S) /\ Len(old) = n /\ more \in S
    BY <1>4, <2>5
  <2>7. new \in Seq(S) /\ Len(new) = n + 1
    <3>1. \A i \in 1 .. n + 1 : new[i] \in S
      BY <1>3, <2>3, <2>6
    <3>2. new = [i \in 1 .. n + 1 |-> new[i]]
      BY <2>4
    <3>3. n + 1 \in Nat
      BY <1>3
    <3> HIDE DEF new
    <3> DEFINE m == n + 1
    <3>4. new = [i \in 1 .. m |-> new[i]] /\ (\A i \in 1 .. m : new[i] \in S) /\ m \in Nat
      BY <3>1, <3>2, <3>3
    <3> HIDE DEF m
    <3>5. new \in [1 .. m -> S]
      BY <3>4
    <3>6. new \in Seq(S) /\ Len(new) = m
      BY <3>4, <3>5
    <3> QED
      BY <3>6 DEF m
  <2>8. new[n + 1] = more /\ \A i \in 1 .. n : new[i] = old[i]
    BY <2>3
  <2> HIDE DEF old, new
  <2>9. Append(old, more) \in Seq(S) /\ Len(Append(old, more)) = n + 1
    BY <1>3, <2>6
  <2>10. Append(old, more)[n + 1] = more /\ \A i \in 1 .. n : Append(old, more)[i] = old[i]
    BY <1>3, <2>6
  <2>11. new = Append(old, more)
    BY <1>3, <2>7, <2>8, <2>9, <2>10
  <2> QED
    BY <2>11 DEF old, new
<1> HIDE DEF parts, more
<1>6. /\ FlattenSeq(Append(parts(words), more)) = FlattenSeq(parts(words)) \o more
      /\ FlattenSeq(parts(words)) \in Seq(C)
  BY <1>4, FlattenAppend DEF S
<1>7. \A ws : Joined(ws) = FlattenSeq(parts(ws))
  BY DEF Joined, parts
<1> QED
  BY <1>5, <1>6, <1>7 DEF more

\* How a text grows by a character, or by a space.
Grows(words, w, c) ==
  /\ Joined(Append(<<>>, w)) = w
  /\ Joined(Append(words, Append(w, c))) = Append(Joined(Append(words, w)), c)
  /\ Joined(Append(Append(words, w), <<>>)) = Append(Joined(Append(words, w)), "sp")

LEMMA JoinedSteps ==
  ASSUME NEW C, "sp" \in C, NEW words \in Seq(Seq(C)), NEW w \in Seq(C), NEW c \in C
  PROVE  Grows(words, w, c)
<1>1. /\ \A v, u \in Seq(C) : v \o Append(u, c) = Append(v \o u, c) /\ v \o u \in Seq(C)
      /\ \A v \in Seq(C) : v \o (<<"sp">> \o <<>>) = Append(v, "sp")
  <2>1. \A v, u \in Seq(C) : v \o Append(u, c) = Append(v \o u, c)
    OBVIOUS
  <2>2. \A v, u \in Seq(C) : v \o u \in Seq(C)
    OBVIOUS
  <2>3. \A v \in Seq(C) : v \o (<<"sp">> \o <<>>) = Append(v, "sp")
    OBVIOUS
  <2> QED
    BY <2>1, <2>2, <2>3
<1>2. /\ Append(w, c) \in Seq(C) /\ <<"sp">> \o w \in Seq(C) /\ <<>> \in Seq(C)
      /\ <<"sp">> \o Append(w, c) = Append(<<"sp">> \o w, c)
  OBVIOUS
<1>3. Append(words, w) \in Seq(Seq(C)) /\ Append(words, w) # <<>> /\ <<>> \in Seq(Seq(C))
  <2> DEFINE S == Seq(C)
  <2>1. words \in Seq(S) /\ w \in S
    OBVIOUS
  <2> HIDE DEF S
  <2>2. Append(words, w) \in Seq(S) /\ <<>> \in Seq(S)
    BY <2>1
  <2>3. Append(words, w) # <<>>
    <3>1. Len(Append(words, w)) = Len(words) + 1 /\ Len(words) \in Nat
      BY <2>1
    <3>2. Len(<<>>) = 0
      OBVIOUS
    <3> DEFINE ws == Append(words, w)
    <3> HIDE DEF ws
    <3>3. Len(ws) # 0
      BY <3>1 DEF ws
    <3>4. ws # <<>>
      BY <3>2, <3>3
    <3> QED
      BY <3>4 DEF ws
  <2> QED
    BY <2>2, <2>3 DEF S
<1>4. Joined(Append(<<>>, w)) = w
  <2>1. Joined(<<>>) = <<>>
    <3>1. [i \in DOMAIN <<>> |-> IF i = 1 THEN <<>>[i] ELSE <<"sp">> \o <<>>[i]] = <<>>
      OBVIOUS
    <3>2. FlattenSeq(<<>>) = <<>>
      BY DEF FlattenSeq
    <3> QED
      BY <3>1, <3>2 DEF Joined
  <2>2. Joined(Append(<<>>, w)) = Joined(<<>>) \o w
    BY <1>3, JoinedAppend
  <2>3. <<>> \o w = w
    OBVIOUS
  <2> QED
    BY <2>1, <2>2, <2>3
<1> DEFINE sep == IF words = <<>> THEN w ELSE <<"sp">> \o w
<1>5. Joined(words) \in Seq(C) /\ Joined(Append(words, w)) = Joined(words) \o sep
  BY JoinedAppend
<1>6. sep \in Seq(C)
  BY <1>2
<1>7. Joined(Append(words, Append(w, c))) = Joined(words) \o Append(sep, c)
  <2>1. Joined(Append(words, Append(w, c)))
          = Joined(words) \o (IF words = <<>> THEN Append(w, c) ELSE <<"sp">> \o Append(w, c))
    BY <1>2, JoinedAppend
  <2> QED
    BY <1>2, <2>1
<1>8. /\ Joined(Append(words, w)) \in Seq(C)
      /\ Joined(Append(Append(words, w), <<>>)) = Joined(Append(words, w)) \o (<<"sp">> \o <<>>)
  <2> DEFINE ws == Append(words, w)
  <2>1. ws \in Seq(Seq(C)) /\ ws # <<>>
    BY <1>3
  <2> HIDE DEF ws
  <2>2. /\ Joined(ws) \in Seq(C)
        /\ Joined(Append(ws, <<>>)) = Joined(ws) \o (IF ws = <<>> THEN <<>> ELSE <<"sp">> \o <<>>)
    BY <1>2, <2>1, JoinedAppend
  <2> QED
    BY <2>1, <2>2 DEF ws
<1> HIDE DEF sep
<1> QED
  BY <1>1, <1>4, <1>5, <1>6, <1>7, <1>8 DEF Grows

\* The parameters of these words.
WordBytes(words, charset) == [i \in DOMAIN words |-> Bytes(words[i], charset)]

LEMMA WordBytesAppend ==
  ASSUME NEW charset \in DOMAIN Codes,
         NEW words \in Seq(Seq(DOMAIN Codes[charset])), NEW w \in Seq(DOMAIN Codes[charset])
  PROVE  /\ WordBytes(<<>>, charset) = <<>>
         /\ WordBytes(words, charset) \in Seq(Seq(Byte))
         /\ WordBytes(Append(words, w), charset) = Append(WordBytes(words, charset), Bytes(w, charset))
<1> DEFINE C == DOMAIN Codes[charset]
           S == Seq(C)
           U == Seq(Byte)
           n == Len(words)
           old == WordBytes(words, charset)
           new == WordBytes(Append(words, w), charset)
           last == Bytes(w, charset)
<1>1. \A v \in S : Bytes(v, charset) \in U
  <2>1. "a" \in C
    BY CodesListed DEF Ascii
  <2> QED
    BY <2>1, BytesAppend
<1>2. words \in Seq(S) /\ w \in S
  OBVIOUS
<1> HIDE DEF S, U
<1>3. /\ n \in Nat /\ DOMAIN words = 1 .. n /\ Len(Append(words, w)) = n + 1
      /\ \A i \in 1 .. n : words[i] \in S
      /\ DOMAIN Append(words, w) = 1 .. n + 1 /\ Append(words, w)[n + 1] = w
      /\ \A i \in 1 .. n : Append(words, w)[i] = words[i]
  BY <1>2
<1>4. /\ old = [i \in 1 .. n |-> Bytes(words[i], charset)]
      /\ new = [i \in 1 .. n + 1 |-> Bytes(Append(words, w)[i], charset)]
  BY <1>3 DEF WordBytes
<1>5. /\ old = [i \in 1 .. n |-> old[i]] /\ (\A i \in 1 .. n : old[i] \in U) /\ last \in U
      /\ new = [i \in 1 .. n + 1 |-> new[i]] /\ new[n + 1] = last
      /\ \A i \in 1 .. n : new[i] = old[i]
  BY <1>1, <1>2, <1>3, <1>4
<1> HIDE DEF n, old, new, last
<1>6. old \in Seq(U) /\ Len(old) = n
  <2>1. old \in [1 .. n -> U]
    BY <1>5
  <2> QED
    BY <1>3, <2>1
<1>7. Append(old, last) = new
  <2> DEFINE app == Append(old, last)
  <2>1. /\ app \in Seq(U) /\ Len(app) = n + 1 /\ app[n + 1] = last
        /\ \A i \in 1 .. n : app[i] = old[i]
    BY <1>3, <1>5, <1>6
  <2> HIDE DEF app
  <2>2. app = [i \in 1 .. n + 1 |-> app[i]]
    BY <2>1
  <2>3. \A i \in 1 .. n + 1 : app[i] = new[i]
    <3>1. \A i \in 1 .. n + 1 : i = n + 1 \/ i \in 1 .. n
      BY <1>3
    <3>2. new[n + 1] = last /\ \A i \in 1 .. n : new[i] = old[i]
      BY <1>5
    <3>3. app[n + 1] = last /\ \A i \in 1 .. n : app[i] = old[i]
      BY <2>1
    <3> QED
      BY <3>1, <3>2, <3>3
  <2> QED
    BY <1>5, <2>2, <2>3 DEF app
<1>8. WordBytes(<<>>, charset) = <<>>
  BY DEF WordBytes
<1> QED
  BY <1>6, <1>7, <1>8 DEF old, new, last, U

\* The split after k characters of a bare text: words, and the next one so far.
Split(words, w, s, text, k, charset) ==
  /\ words \in Seq(Seq(DOMAIN Codes[charset])) /\ w \in Seq(DOMAIN Codes[charset])
  /\ At(s, WordBytes(words, charset), Bytes(w, charset), "none")
  /\ Upto(text, k) = Joined(Append(words, w))
  /\ Bytes(w, charset) = <<>> => k = 0 \/ text[k] = "sp"
  /\ (\A j \in 1 .. k : text[j] # "sp") => words = <<>>

LEMMA SplitStarts ==
  ASSUME NEW charset \in DOMAIN Codes, NEW text \in Seq(DOMAIN Codes[charset])
  PROVE  Split(<<>>, <<>>, Start, text, 0, charset)
<1> DEFINE C == DOMAIN Codes[charset]
<1>1. /\ "sp" \in C /\ <<>> \in Seq(Seq(C)) /\ <<>> \in Seq(C)
  BY CodesListed DEF Ascii
<1>2. WordBytes(<<>>, charset) = <<>> /\ Bytes(<<>>, charset) = <<>>
  BY <1>1, WordBytesAppend, BytesAppend
<1>3. Joined(Append(<<>>, <<>>)) = <<>>
  <2>1. Grows(<<>>, <<>>, "sp")
    BY <1>1, JoinedSteps
  <2> QED
    BY <2>1 DEF Grows
<1>4. Upto(text, 0) = <<>>
  BY UptoSteps
<1> QED
  BY <1>1, <1>2, <1>3, <1>4, StartAt DEF Split

\* A character that is no space goes into the word.
LEMMA SplitGrows ==
  ASSUME NEW charset \in DOMAIN Codes, NEW text \in Seq(DOMAIN Codes[charset]),
         NEW line \in Seq(Byte), NEW off, Laid(off, line, text, "bare", charset),
         NEW joined, Safe(text, "bare", joined), NEW k \in 1 .. Len(text), NEW words, NEW w,
         Split(words, w, Turns(line)[off[k - 1]], text, k - 1, charset),
         text[k] # "sp", ~(charset = "double-byte" /\ text[k] = "kana")
  PROVE  Split(words, Append(w, text[k]), Turns(line)[off[k]], text, k, charset)
<1> DEFINE C == DOMAIN Codes[charset]
           c == text[k]
           buf == Bytes(w, charset)
           new == Bytes(Append(w, c), charset)
           n == Len(text)
           Blanks == {j \in 1 .. n : text[j] = "sp"}
<1>1. /\ words \in Seq(Seq(C)) /\ w \in Seq(C)
      /\ At(Turns(line)[off[k - 1]], WordBytes(words, charset), buf, "none")
      /\ Upto(text, k - 1) = Joined(Append(words, w))
      /\ buf = <<>> => k - 1 = 0 \/ text[k - 1] = "sp"
      /\ (\A j \in 1 .. k - 1 : text[j] # "sp") => words = <<>>
  BY DEF Split
<1>2. c \in C /\ n \in Nat /\ "sp" \in C
  BY CodesListed DEF Ascii
<1>3. buf \in Seq(Byte) /\ new = buf \o Codes[charset][c]
  BY <1>1, <1>2, BytesAppend
<1>4. Harmless(text, "bare", k, buf)
  <2>1. \A j \in {1} \cup {i + 1 : i \in Blanks} : text[j] \notin {"dq", "sq", "sp"}
    BY DEF Safe
  <2>2. buf = <<>> => k \in {1} \cup {i + 1 : i \in Blanks}
    <3>1. CASE k - 1 = 0
      <4>1. k = 1
        BY <3>1
      <4> QED
        BY <4>1
    <3>2. CASE k - 1 # 0 /\ text[k - 1] = "sp"
      <4>1. k - 1 \in Blanks /\ (k - 1) + 1 = k
        BY <1>2, <3>2
      <4> QED
        BY <4>1
    <3> HIDE DEF buf
    <3> QED
      BY <1>1, <3>1, <3>2
  <2>3. \A j \in 1 .. n : text[j] # "tab"
    BY DEF Safe, Contains
  <2>4. text[k] = "bs" => \/ k < n /\ text[k + 1] \notin DOMAIN Escape
                          \/ k = n
    BY DEF Safe
  <2> HIDE DEF buf, Blanks
  <2> QED
    BY <2>1, <2>2, <2>3, <2>4 DEF Harmless
<1>5. At(Turns(line)[off[k]], WordBytes(words, charset), buf \o Codes[charset][c], "none")
  <2>1. In("bare") = "none" /\ "bare" \in Styles
    BY DEF In, Styles
  <2> HIDE DEF buf
  <2>2. At(Turns(line)[off[k - 1]], WordBytes(words, charset), buf, In("bare"))
    BY <1>1, <2>1
  <2>3. At(Turns(line)[off[k]], WordBytes(words, charset), buf \o Codes[charset][text[k]], In("bare"))
    BY <1>3, <1>4, <2>1, <2>2, CharWritten
  <2> QED
    BY <2>1, <2>3
<1>6. Append(w, c) \in Seq(C)
  BY <1>1, <1>2
<1>7. Upto(text, k) = Joined(Append(words, Append(w, c)))
  <2>1. Upto(text, k) = Append(Upto(text, k - 1), c)
    BY UptoSteps
  <2>2. Joined(Append(words, Append(w, c))) = Append(Joined(Append(words, w)), c)
    <3>1. words \in Seq(Seq(C)) /\ w \in Seq(C) /\ c \in C /\ "sp" \in C
      BY <1>1, <1>2
    <3> HIDE DEF C, c
    <3>2. Grows(words, w, c)
      BY <3>1, JoinedSteps
    <3> QED
      BY <3>2 DEF Grows
  <2> QED
    BY <1>1, <2>1, <2>2
<1>8. new # <<>>
  <2>1. Codes[charset][c] \in Seq(Byte) /\ Len(Codes[charset][c]) \in {1, 2}
    BY <1>2, CodeShape
  <2> DEFINE code == Codes[charset][c]
  <2> HIDE DEF code, buf
  <2>2. Len(buf \o code) = Len(buf) + Len(code) /\ Len(buf) \in Nat
    BY <1>3, <2>1 DEF code
  <2>3. Len(code) = 1 \/ Len(code) = 2
    BY <2>1 DEF code
  <2>4. Len(buf \o code) # 0
    <3>1. \A a \in Nat, b \in {1, 2} : a + b # 0
      OBVIOUS
    <3> QED
      BY <2>2, <2>3, <3>1
  <2>5. Len(<<>>) = 0
    OBVIOUS
  <2>6. buf \o code # <<>>
    BY <2>4, <2>5
  <2> QED
    BY <1>3, <2>6 DEF code
<1>9. (\A j \in 1 .. k : text[j] # "sp") => words = <<>>
  BY <1>1
<1> HIDE DEF C, c, buf
<1> QED
  BY <1>1, <1>3, <1>5, <1>6, <1>7, <1>8, <1>9 DEF Split, C, c

\* A space ends the word.
LEMMA SplitEnds ==
  ASSUME NEW charset \in DOMAIN Codes, NEW text \in Seq(DOMAIN Codes[charset]),
         NEW line \in Seq(Byte), NEW off, Laid(off, line, text, "bare", charset),
         NEW joined, Safe(text, "bare", joined), NEW k \in 1 .. Len(text), NEW words, NEW w,
         Split(words, w, Turns(line)[off[k - 1]], text, k - 1, charset), text[k] = "sp"
  PROVE  Split(Append(words, w), <<>>, Turns(line)[off[k]], text, k, charset)
<1> DEFINE C == DOMAIN Codes[charset]
           S == Seq(C)
           buf == Bytes(w, charset)
           n == Len(text)
           Blanks == {j \in 1 .. n : text[j] = "sp"}
           p == off[k - 1] + 1
<1>1. /\ words \in Seq(Seq(C)) /\ w \in Seq(C)
      /\ At(Turns(line)[off[k - 1]], WordBytes(words, charset), buf, "none")
      /\ Upto(text, k - 1) = Joined(Append(words, w))
      /\ buf = <<>> => k - 1 = 0 \/ text[k - 1] = "sp"
  BY DEF Split
<1>2. n \in Nat /\ "sp" \in Ascii /\ "sp" \in C
  BY CodesListed DEF Ascii
<1>3. buf # <<>>
  <2>1. {1, n} \cap Blanks = {} /\ \A j \in {1} \cup {i + 1 : i \in Blanks} : text[j] # "sp"
    BY DEF Safe
  <2>2. k # 1
    BY <2>1
  <2>3. ASSUME text[k - 1] = "sp" PROVE FALSE
    <3>1. k - 1 \in Blanks /\ (k - 1) + 1 = k
      BY <1>2, <2>2, <2>3
    <3> HIDE DEF Blanks
    <3> QED
      BY <2>1, <3>1
  <2> HIDE DEF buf
  <2> QED
    BY <1>1, <2>2, <2>3
<1>4. p \in 1 .. Len(line) /\ p - 1 = off[k - 1] /\ off[k] = p /\ line[p] = "sp"
  <2> DEFINE unit == Written(text[k], "bare", charset)
  <2>1. /\ off[k - 1] \in Nat /\ off[k] = off[k - 1] + Len(unit) /\ off[k] <= Len(line)
        /\ Len(line) \in Nat /\ \A j \in 1 .. Len(unit) : line[off[k - 1] + j] = unit[j]
    <3>1. "bare" \in Styles
      BY DEF Styles
    <3> QED
      BY <3>1, UnitPlace
  <2>2. unit = <<"sp">>
    BY <1>2, CodesListed DEF Written
  <2>3. Len(<<"sp">>) = 1 /\ <<"sp">>[1] = "sp" /\ 1 \in 1 .. 1
    OBVIOUS
  <2> HIDE DEF unit
  <2>4. off[k] = off[k - 1] + 1 /\ line[off[k - 1] + 1] = "sp"
    BY <2>1, <2>2, <2>3
  <2> QED
    BY <2>1, <2>4
<1>5. At(Turns(line)[off[k]], Append(WordBytes(words, charset), buf), <<>>, "none")
  <2> HIDE DEF p, buf
  <2>1. At(Turn(line, Turns(line)[off[k - 1]], p), Append(WordBytes(words, charset), buf), <<>>, "none")
    BY <1>1, <1>3, <1>4, Pushes
  <2>2. Turns(line)[p] = Turn(line, Turns(line)[off[k - 1]], p)
    BY <1>4, TurnSteps
  <2> QED
    BY <1>4, <2>1, <2>2
<1>6. Append(words, w) \in Seq(Seq(C)) /\ <<>> \in Seq(C)
  <2>1. words \in Seq(S) /\ w \in S
    BY <1>1
  <2> HIDE DEF S
  <2>2. Append(words, w) \in Seq(S)
    BY <2>1
  <2> QED
    BY <2>2 DEF S
<1>7. /\ WordBytes(Append(words, w), charset) = Append(WordBytes(words, charset), buf)
      /\ Bytes(<<>>, charset) = <<>>
  BY <1>1, <1>2, WordBytesAppend, BytesAppend
<1>8. Upto(text, k) = Joined(Append(Append(words, w), <<>>))
  <2>1. Upto(text, k) = Append(Upto(text, k - 1), "sp")
    BY UptoSteps
  <2>2. Joined(Append(Append(words, w), <<>>)) = Append(Joined(Append(words, w)), "sp")
    <3> HIDE DEF C
    <3>1. Grows(words, w, "sp")
      BY <1>1, <1>2, JoinedSteps
    <3> QED
      BY <3>1 DEF Grows
  <2> QED
    BY <1>1, <2>1, <2>2
<1>9. ~(\A j \in 1 .. k : text[j] # "sp")
  OBVIOUS
<1> HIDE DEF C
<1> QED
  BY <1>5, <1>6, <1>7, <1>8, <1>9 DEF Split, C

\* The words of a text: their parameters are those of its line.
Words(words, text, line, charset, joined) ==
  /\ words \in Seq(Seq(DOMAIN Codes[charset])) /\ words # <<>>
  /\ Params(line) = WordBytes(words, charset)
  /\ Joined(words) = text
  /\ ~joined => words = <<text>>

\* A sequence that ends in something is not empty.
LEMMA AppendNotEmpty ==
  ASSUME NEW S, NEW s \in Seq(S), NEW e \in S
  PROVE  Append(s, e) # <<>> /\ Append(s, e) \in Seq(S)
<1> DEFINE t == Append(s, e)
<1>1. Len(t) = Len(s) + 1 /\ Len(s) \in Nat /\ t \in Seq(S)
  OBVIOUS
<1>2. Len(<<>>) = 0
  OBVIOUS
<1> HIDE DEF t
<1>3. t # <<>>
  BY <1>1, <1>2
<1> QED
  BY <1>1, <1>3 DEF t

\* A bare text is split at its spaces.
LEMMA BareLine ==
  ASSUME NEW encoding \in Encodings, NEW joined,
         NEW text \in Seq(DOMAIN Codes[Charset(encoding)]), Safe(text, "bare", joined),
         \A k \in 1 .. Len(text) : ~(Charset(encoding) = "double-byte" /\ text[k] = "kana")
  PROVE  \E words : Words(words, text, Line(text, "bare", encoding), Charset(encoding), joined)
<1> DEFINE charset == Charset(encoding)
           line == Line(text, "bare", encoding)
           n == Len(text)
           C == DOMAIN Codes[charset]
<1>1. charset \in DOMAIN Codes /\ "bare" \in Styles
  BY CodesListed DEF Charset, Encodings, Styles
<1>2. line \in Seq(Byte) /\ \E off : Laid(off, line, text, "bare", charset)
  BY <1>1, LineShape
<1>3. PICK off : Laid(off, line, text, "bare", charset)
  BY <1>2
<1>4. /\ n \in Nat /\ n > 0 /\ text[n] # "sp" /\ text \in Seq(C)
      /\ \A k \in 1 .. n : ~(charset = "double-byte" /\ text[k] = "kana")
      /\ ~joined => \A k \in 1 .. n : text[k] # "sp"
  <2>1. n \in Nat /\ text \in Seq(C) /\ n > 0
    BY DEF Safe
  <2> DEFINE Blanks == {j \in 1 .. n : text[j] = "sp"}
  <2>2. {1, n} \cap Blanks = {} /\ (~joined => Blanks = {})
    BY DEF Safe
  <2>3. n \in 1 .. n /\ n \notin Blanks
    BY <2>1, <2>2
  <2>4. ~joined => \A k \in 1 .. n : text[k] # "sp"
    BY <2>2
  <2> QED
    BY <2>1, <2>3, <2>4
<1> HIDE DEF charset, line
<1>5. off[0] = 0 /\ off[n] \in Nat /\ Len(line) = off[n]
  <2>1. n \in 0 .. n
    BY <1>4
  <2>2. /\ off \in [0 .. n -> Nat] /\ off[0] = 0 /\ Len(line) = off[n] + 0
    BY <1>3 DEF Laid
  <2> QED
    BY <2>1, <2>2
<1> DEFINE Here(k) == \E words, w : Split(words, w, Turns(line)[off[k]], text, k, charset)
           T == {k \in Nat : k <= n => Here(k)}
<1>6. 0 \in T
  <2>1. Turns(line)[off[0]] = Start
    BY <1>2, <1>5, TurnSteps
  <2>2. Split(<<>>, <<>>, Turns(line)[off[0]], text, 0, charset)
    BY <1>1, <1>4, <2>1, SplitStarts
  <2> QED
    BY <2>2
<1>7. ASSUME NEW m \in Nat, m \in T
      PROVE  m + 1 \in T
  <2> SUFFICES ASSUME m + 1 <= n PROVE Here(m + 1)
    OBVIOUS
  <2> DEFINE k == m + 1
  <2>1. k \in 1 .. n /\ k - 1 = m /\ m <= n
    BY <1>4
  <2>2. PICK words, w : Split(words, w, Turns(line)[off[m]], text, m, charset)
    BY <1>7, <2>1
  <2> HIDE DEF k
  <2>3. Split(words, w, Turns(line)[off[k - 1]], text, k - 1, charset)
    BY <2>1, <2>2
  <2>4. CASE text[k] # "sp"
    <3>1. Split(words, Append(w, text[k]), Turns(line)[off[k]], text, k, charset)
      BY <1>1, <1>2, <1>3, <1>4, <2>1, <2>3, <2>4, SplitGrows DEF line
    <3> QED
      BY <3>1 DEF k
  <2>5. CASE text[k] = "sp"
    <3>1. Split(Append(words, w), <<>>, Turns(line)[off[k]], text, k, charset)
      BY <1>1, <1>2, <1>3, <1>4, <2>1, <2>3, <2>5, SplitEnds DEF line
    <3> QED
      BY <3>1 DEF k
  <2> QED
    BY <2>4, <2>5
<1>8. Here(n)
  <2>1. Nat \subseteq T
    <3> HIDE DEF T
    <3> QED
      BY <1>6, <1>7, Induction
  <2> QED
    BY <1>4, <2>1
<1> HIDE DEF T
<1>9. PICK words, w : Split(words, w, Turns(line)[off[n]], text, n, charset)
  BY <1>8
<1> DEFINE s == Turns(line)[Len(line)]
           all == Append(words, w)
<1>10. /\ words \in Seq(Seq(C)) /\ w \in Seq(C)
       /\ At(s, WordBytes(words, charset), Bytes(w, charset), "none")
       /\ Upto(text, n) = Joined(all)
       /\ Bytes(w, charset) = <<>> => n = 0 \/ text[n] = "sp"
       /\ (\A j \in 1 .. n : text[j] # "sp") => words = <<>>
  BY <1>5, <1>9 DEF Split
<1>11. /\ s \in TurnState /\ s.params = WordBytes(words, charset) /\ s.buf = Bytes(w, charset)
       /\ s.buf # <<>>
  BY <1>4, <1>10 DEF At
<1>12. Params(line) = Append(s.params, s.buf)
  <2>1. Params(line) = Push(s).params
    BY <1>11 DEF Params
  <2>2. "a" \in Byte /\ "dq" \in {"dq", "sq"}
    BY DEF Byte, Ascii
  <2> HIDE DEF s
  <2>3. Push(s).params = Append(s.params, s.buf)
    BY <1>11, <2>2, Fields
  <2> QED
    BY <2>1, <2>3 DEF s
<1>13. Params(line) = WordBytes(all, charset)
  BY <1>1, <1>10, <1>11, <1>12, WordBytesAppend
<1>14. all \in Seq(Seq(C)) /\ all # <<>>
  BY <1>10, AppendNotEmpty
<1>15. Joined(all) = text
  <2>1. Upto(text, n) = text
    BY <1>4, UptoSteps
  <2> QED
    BY <1>10, <2>1
<1>16. ~joined => all = <<text>>
  <2> SUFFICES ASSUME ~joined PROVE all = <<text>>
    OBVIOUS
  <2>1. words = <<>>
    BY <1>4, <1>10
  <2>2. Grows(words, w, "sp")
    <3>1. "sp" \in C
      BY <1>1, CodesListed DEF Ascii
    <3> QED
      BY <1>10, <3>1, JoinedSteps
  <2>3. w = text
    BY <1>15, <2>1, <2>2 DEF Grows
  <2>4. Append(<<>>, text) = <<text>>
    OBVIOUS
  <2> QED
    BY <2>1, <2>3, <2>4
<1> HIDE DEF all
<1>17. Words(all, text, line, charset, joined)
  BY <1>13, <1>14, <1>15, <1>16 DEF Words
<1> QED
  BY <1>17 DEF line, charset

\* However it is written, the parameters of a line are the words of its text.
LEMMA LineParams ==
  ASSUME NEW encoding \in Encodings, NEW style \in Styles, NEW joined \in BOOLEAN,
         NEW text \in Seq(DOMAIN Codes[Charset(encoding)]), Safe(text, style, joined),
         \A k \in 1 .. Len(text) : ~(Charset(encoding) = "double-byte" /\ text[k] = "kana")
  PROVE  \E words : Words(words, text, Line(text, style, encoding), Charset(encoding), joined)
<1>1. CASE style = "bare"
  BY <1>1, BareLine
<1>2. CASE style # "bare"
  <2> DEFINE charset == Charset(encoding)
             C == DOMAIN Codes[charset]
             S == Seq(C)
  <2>1. charset \in DOMAIN Codes /\ "sp" \in C
    BY CodesListed DEF Charset, Encodings, Ascii
  <2>2. Params(Line(text, style, encoding)) = <<Bytes(text, charset)>>
    BY <1>2, QuotedLine
  <2> HIDE DEF charset
  <2>3. <<text>> \in Seq(Seq(C)) /\ <<text>> # <<>> /\ text \in Seq(C) /\ <<>> \in Seq(Seq(C))
    <3>1. text \in S
      BY DEF charset
    <3> HIDE DEF S
    <3>2. <<text>> \in Seq(S) /\ <<text>> # <<>> /\ <<>> \in Seq(S)
      BY <3>1
    <3> QED
      BY <3>1, <3>2 DEF S
  <2>4. WordBytes(<<text>>, charset) = <<Bytes(text, charset)>>
    BY DEF WordBytes
  <2>5. Joined(<<text>>) = text
    <3>1. Grows(<<>>, text, "sp")
      BY <2>1, <2>3, JoinedSteps
    <3>2. Append(<<>>, text) = <<text>>
      OBVIOUS
    <3> QED
      BY <3>1, <3>2 DEF Grows
  <2>6. Words(<<text>>, text, Line(text, style, encoding), charset, joined)
    BY <2>2, <2>3, <2>4, <2>5 DEF Words, charset
  <2> QED
    BY <2>6 DEF charset
<1> QED
  BY <1>1, <1>2

\* What the parser makes of a line: its parameters, each decoded.
Received(line, charset) == [i \in DOMAIN Params(line) |-> Decode(Params(line)[i], charset)]

\* The text of a command arrives as it was written: whatever the encoding of its
\* sheet, in each of the styles that can carry it, of any length, and whatever other
\* parameters the encoding is detected from. Only characters with a backslash for
\* a byte are left out: they do not arrive (parser.go splits before it decodes).
THEOREM TextArrives ==
  ASSUME NEW encoding \in Encodings, NEW style \in Styles, NEW joined \in BOOLEAN,
         NEW text \in Seq(DOMAIN Codes[Charset(encoding)]), Safe(text, style, joined),
         \A k \in 1 .. Len(text) : ~(Charset(encoding) = "double-byte" /\ text[k] = "kana"),
         NEW sample,
         \A p \in ToSet(Params(Line(text, style, encoding))) : InSample(p) => p \in sample
  PROVE  LET line == Line(text, style, encoding)
             words == Received(line, DetectEncoding(sample, encoding))
         IN  /\ Params(line) # <<>> /\ 1 \in DOMAIN words
             /\ Joined(words) = text
             /\ ~joined => words[1] = text
<1> DEFINE charset == Charset(encoding)
           C == DOMAIN Codes[charset]
           S == Seq(C)
           line == Line(text, style, encoding)
           detected == DetectEncoding(sample, encoding)
<1>1. \E words : Words(words, text, line, charset, joined)
  BY LineParams
<1>2. PICK words : Words(words, text, line, charset, joined)
  BY <1>1
<1>3. \A p \in ToSet(Params(line)) : InSample(p) => p \in sample
  OBVIOUS
<1>4. \A w \in S : (InSample(Bytes(w, charset)) => Bytes(w, charset) \in sample) =>
        Decode(Bytes(w, charset), detected) = w
  BY DecodedText
<1> HIDE DEF line, detected, charset
<1>5. /\ words \in Seq(S) /\ words # <<>>
      /\ Params(line) = [i \in DOMAIN words |-> Bytes(words[i], charset)]
      /\ Joined(words) = text
      /\ ~joined => words = <<text>>
  BY <1>2 DEF Words, WordBytes
<1> HIDE DEF S
<1> DEFINE n == Len(words)
<1>6. n \in Nat /\ n # 0 /\ DOMAIN words = 1 .. n /\ \A i \in 1 .. n : words[i] \in S
  <2>1. n \in Nat /\ DOMAIN words = 1 .. n /\ \A i \in 1 .. n : words[i] \in S
    BY <1>5
  <2>2. n # 0
    BY <1>5
  <2> QED
    BY <2>1, <2>2
<1> HIDE DEF n
<1>7. /\ DOMAIN Params(line) = 1 .. n /\ Params(line) # <<>>
      /\ \A i \in 1 .. n : Params(line)[i] = Bytes(words[i], charset)
  <2>1. /\ DOMAIN Params(line) = 1 .. n
        /\ \A i \in 1 .. n : Params(line)[i] = Bytes(words[i], charset)
    BY <1>5, <1>6
  <2>2. DOMAIN <<>> = {} /\ 1 \in 1 .. n
    BY <1>6
  <2> QED
    BY <2>1, <2>2
<1>8. \A i \in 1 .. n : Decode(Params(line)[i], detected) = words[i]
  <2> TAKE i \in 1 .. n
  <2>1. Params(line)[i] \in ToSet(Params(line))
    BY <1>7 DEF ToSet
  <2> QED
    BY <1>3, <1>4, <1>6, <1>7, <2>1
<1>9. Received(line, detected) = words
  <2>1. Received(line, detected) = [i \in 1 .. n |-> Decode(Params(line)[i], detected)]
    BY <1>7 DEF Received
  <2>2. words = [i \in 1 .. n |-> words[i]]
    BY <1>5, <1>6
  <2> QED
    BY <1>8, <2>1, <2>2
<1>10. 1 \in DOMAIN words /\ (~joined => words[1] = text)
  BY <1>5, <1>6
<1> QED
  BY <1>5, <1>7, <1>9, <1>10 DEF line, detected
=============================================================================
