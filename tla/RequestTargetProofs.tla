------------------------- MODULE RequestTargetProofs -------------------------
(***************************************************************************)
(* Proofs about RequestTarget, for targets of every length.                *)
(*                                                                         *)
(* The loops of decode_url and split_string_view (Pieces) are recursive    *)
(* functions on positions that go forward, so each has a value at every    *)
(* position (LoopEnds), and what a loop does is shown by induction from    *)
(* the end of the text (Backwards).  Both inductions come from the least   *)
(* element of a set of numbers, which the library's theorem on             *)
(* well-founded relations gives without an operator parameter.             *)
(***************************************************************************)
EXTENDS RequestTarget, SequenceTheorems, WellFoundedInduction, TLAPS

-----------------------------------------------------------------------------
(* Naturals, and loops over the positions of a text.                       *)

\* A non-empty set of natural numbers has a least element, and Min chooses it.
LEMMA MinOfNaturals ==
    ASSUME NEW I \in SUBSET Nat, I # {}
    PROVE  Min(I) \in I /\ \A y \in I : Min(I) <= y
<1> DEFINE R == {ss \in Nat \X Nat : ss[1] < ss[2]}
<1>1. IsWellFoundedOn(R, Nat)
  BY NatLessThanWellFounded DEF OpToRel
<1> HIDE DEF R
<1>2. PICK x \in I : \A y \in I : ~ (<<y, x>> \in R)
  BY <1>1, WFMin
<1>3. ASSUME NEW y \in I PROVE x <= y
  <2>1. y \in Nat /\ x \in Nat
    OBVIOUS
  <2>2. <<y, x>> \in R <=> y < x
    BY <2>1, Zenon DEF R
  <2>3. QED
    BY <1>2, <2>1, <2>2
<1>4. QED
  BY <1>3 DEF Min

\* Induction, for a set of numbers.
LEMMA Induction ==
    ASSUME NEW A, 0 \in A, \A n \in Nat : n \in A => n + 1 \in A
    PROVE  \A n \in Nat : n \in A
<1> DEFINE I == {n \in Nat : n \notin A}
<1>1. SUFFICES ASSUME I # {} PROVE FALSE
  OBVIOUS
<1>2. I \in SUBSET Nat
  OBVIOUS
<1> DEFINE m == Min(I)
<1>3. m \in I /\ \A y \in I : m <= y
  BY <1>1, <1>2, MinOfNaturals
<1> HIDE DEF m
<1>4. m \in Nat /\ m # 0 /\ m \notin A
  BY <1>3
<1>5. m - 1 \in Nat /\ (m - 1) + 1 = m /\ m - 1 \notin I
  BY <1>3, <1>4
<1>6. QED
  BY <1>4, <1>5

\* What a loop has left to append at each position.
IsLoop(from, n, piece, next) ==
    \A i \in Nat : from[i] = IF i \in 1 .. n THEN piece[i] \o from[next[i]] ELSE <<>>

\* Induction from the end of a text: what holds behind it, and before a position
\* when it holds from there on, holds everywhere.
LEMMA Backwards ==
    ASSUME NEW n \in Nat, NEW A, \A i \in Nat : i > n => i \in A,
           \A i \in 1 .. n : (\A j \in Nat : j > i => j \in A) => i \in A
    PROVE  \A i \in Nat : i > 0 => i \in A
<1> DEFINE B == {m \in Nat : \A i \in Nat : i > 0 /\ i + m > n => i \in A}
<1>1. 0 \in B
  OBVIOUS
<1>2. ASSUME NEW m \in Nat, m \in B PROVE m + 1 \in B
  <2>1. SUFFICES ASSUME NEW i \in Nat, i > 0, i + (m + 1) > n PROVE i \in A
    OBVIOUS
  <2>2. \A j \in Nat : j > i => j \in A
    BY <1>2, <2>1
  <2>3. CASE i > n
    BY <2>3
  <2>4. CASE i <= n
    BY <2>1, <2>2, <2>4
  <2>5. QED
    BY <2>3, <2>4
<1> HIDE DEF B
<1>3. n \in B
  BY <1>1, <1>2, Induction
<1>4. QED
  BY <1>3 DEF B

\* `from' is what such a loop has left to append, and its result.
Appends(from, T, n, piece, next) ==
    /\ from \in [Nat -> Seq(T)]
    /\ IsLoop(from, n, piece, next)
    /\ Pieces(n, piece, next) = from[1]

\* A loop that goes forward ends: Pieces is what it has appended.
LEMMA LoopEnds ==
    ASSUME NEW T, NEW n \in Nat,
           NEW piece \in [1 .. n -> Seq(T)], NEW next \in [1 .. n -> Nat],
           \A i \in 1 .. n : next[i] > i
    PROVE  \E from : Appends(from, T, n, piece, next)
<1> DEFINE Body(f, i) == IF i \in 1 .. n THEN piece[i] \o f[next[i]] ELSE <<>>
           Solves(f, m) == \A i \in Nat : i = 0 \/ i + m > n => f[i] = Body(f, i)
           B == {m \in Nat : \E f \in [Nat -> Seq(T)] : Solves(f, m)}
<1>a. /\ \A f, i : i \notin 1 .. n => Body(f, i) = <<>>
      /\ \A f, i : i \in 1 .. n => Body(f, i) = piece[i] \o f[next[i]]
  OBVIOUS
<1>b. \A i \in 1 .. n : next[i] \in Nat /\ next[i] > i /\ piece[i] \in Seq(T)
  OBVIOUS
<1>c. ASSUME NEW f, NEW i \in 1 .. n, f[next[i]] \in Seq(T) PROVE Body(f, i) \in Seq(T)
  <2>1. piece[i] \o f[next[i]] \in Seq(T)
    BY <1>b, <1>c, ConcatProperties
  <2>2. QED
    BY <1>a, <2>1
<1>d. ASSUME NEW f, NEW g, NEW i \in Nat, i \in 1 .. n => f[next[i]] = g[next[i]]
      PROVE  Body(f, i) = Body(g, i)
  BY <1>d
<1>e. <<>> \in Seq(T)
  OBVIOUS
<1> HIDE DEF Body, Solves
<1>1. 0 \in B
  <2>1. [i \in Nat |-> <<>>] \in [Nat -> Seq(T)]
    OBVIOUS
  <2>2. Solves([i \in Nat |-> <<>>], 0)
    BY <1>a DEF Solves
  <2>3. QED
    BY <2>1, <2>2
<1>2. ASSUME NEW m \in Nat, m \in B PROVE m + 1 \in B
  <2>1. PICK f \in [Nat -> Seq(T)] : Solves(f, m)
    BY <1>2
  <2>2. CASE m >= n
    <3>1. Solves(f, m + 1)
      BY <2>1, <2>2 DEF Solves
    <3>2. QED
      BY <2>1, <3>1
  <2>3. CASE m < n
    <3> DEFINE k == n - m
               g == [f EXCEPT ![k] = Body(f, k)]
    <3>1. k \in 1 .. n
      BY <2>3
    <3>2. Body(f, k) \in Seq(T)
      BY <1>b, <1>c, <3>1
    <3>3. g \in [Nat -> Seq(T)]
      BY <3>2
    <3>4. \A i \in Nat : g[i] = IF i = k THEN Body(f, k) ELSE f[i]
      BY <3>1
    <3> HIDE DEF g
    <3>5. ASSUME NEW i \in Nat, i = 0 \/ i + (m + 1) > n PROVE g[i] = Body(g, i)
      <4>1. i # k => i = 0 \/ i + m > n
        BY <2>3, <3>5
      <4>2. g[i] = Body(f, i)
        BY <2>1, <3>4, <4>1 DEF Solves
      <4>3. ASSUME i \in 1 .. n PROVE f[next[i]] = g[next[i]]
        <5>1. i >= k
          BY <2>3, <3>5, <4>3
        <5>2. next[i] \in Nat /\ next[i] # k
          BY <1>b, <4>3, <5>1
        <5>3. QED
          BY <3>4, <5>2
      <4>4. QED
        BY <1>d, <4>2, <4>3
    <3>6. Solves(g, m + 1)
      BY <3>5 DEF Solves
    <3>7. QED
      BY <3>3, <3>6
  <2>4. QED
    BY <2>2, <2>3
<1> HIDE DEF B
<1>3. n \in B
  BY <1>1, <1>2, Induction
<1>4. PICK f \in [Nat -> Seq(T)] : Solves(f, n)
  BY <1>3 DEF B
<1>5. f = [i \in Nat |-> Body(f, i)]
  <2>1. \A i \in Nat : i = 0 \/ i + n > n
    OBVIOUS
  <2>2. \A i \in Nat : f[i] = Body(f, i)
    BY <1>4, <2>1 DEF Solves
  <2>3. QED
    BY <2>2
<1> DEFINE from == CHOOSE h : h = [i \in Nat |-> Body(h, i)]
<1>6. from = [i \in Nat |-> Body(from, i)]
  BY <1>5
<1>7. Pieces(n, piece, next) = from[1]
  BY DEF Pieces, Body
<1> HIDE DEF from
<1>8. \A i \in Nat : from[i] = Body(from, i)
  BY <1>6
<1>9. \A i \in Nat : i > 0 => from[i] \in Seq(T)
  <2> DEFINE A == {j \in Nat : from[j] \in Seq(T)}
  <2>1. \A i \in Nat : i > n => i \in A
    <3>1. ASSUME NEW i \in Nat, i > n PROVE from[i] = <<>>
      BY <1>a, <1>8, <3>1
    <3>2. QED
      BY <1>e, <3>1
  <2>2. ASSUME NEW i \in 1 .. n, \A j \in Nat : j > i => j \in A PROVE i \in A
    <3>1. from[next[i]] \in Seq(T)
      BY <1>b, <2>2
    <3>2. from[i] = Body(from, i)
      BY <1>8
    <3>3. Body(from, i) \in Seq(T)
      BY <1>c, <3>1
    <3>4. i \in Nat
      OBVIOUS
    <3>5. QED
      BY <3>2, <3>3, <3>4
  <2> HIDE DEF A
  <2>3. \A i \in Nat : i > 0 => i \in A
    BY <2>1, <2>2, Backwards
  <2>4. QED
    BY <2>3 DEF A
<1>10. from[0] = <<>>
  <2>1. 0 \in Nat /\ 0 \notin 1 .. n
    OBVIOUS
  <2>2. Body(from, 0) = <<>>
    BY <1>a, <2>1
  <2>3. QED
    BY <1>8, <2>1, <2>2
<1>11. \A i \in Nat : from[i] \in Seq(T)
  <2>1. \A i \in Nat : i = 0 \/ i > 0
    OBVIOUS
  <2>2. QED
    BY <1>e, <1>9, <1>10, <2>1
<1>12. from \in [Nat -> Seq(T)]
  <2>1. from = [i \in Nat |-> from[i]]
    BY <1>6
  <2>2. QED
    BY <1>11, <2>1
<1>13. IsLoop(from, n, piece, next)
  BY <1>8 DEF IsLoop, Body
<1>14. Appends(from, T, n, piece, next)
  BY <1>7, <1>12, <1>13 DEF Appends
<1>15. QED
  BY <1>14

-----------------------------------------------------------------------------
(* Sequences.                                                              *)

\* An element in front of a sequence.
LEMMA InFront ==
    ASSUME NEW T, NEW x \in T, NEW s \in Seq(T)
    PROVE  /\ <<x>> \o s \in Seq(T)
           /\ Len(<<x>> \o s) = Len(s) + 1
           /\ (<<x>> \o s)[1] = x
           /\ \A k \in 1 .. Len(s) : (<<x>> \o s)[k + 1] = s[k]
<1>1. /\ <<x>> \in Seq(T) /\ Len(<<x>>) = 1 /\ <<x>>[1] = x /\ Len(s) \in Nat
  BY LenProperties
<1> DEFINE t == <<x>> \o s
<1>2. /\ t \in Seq(T) /\ Len(t) = 1 + Len(s)
      /\ \A k \in 1 .. 1 + Len(s) : t[k] = IF k <= 1 THEN <<x>>[k] ELSE s[k - 1]
  BY <1>1, ConcatProperties
<1> HIDE DEF t
<1>3. t[1] = x
  BY <1>1, <1>2
<1>4. ASSUME NEW k \in 1 .. Len(s) PROVE t[k + 1] = s[k]
  <2>1. k + 1 \in 1 .. 1 + Len(s) /\ ~ (k + 1 <= 1) /\ (k + 1) - 1 = k
    BY <1>1
  <2>2. QED
    BY <1>2, <2>1
<1>5. t \in Seq(T) /\ Len(t) = Len(s) + 1
  BY <1>1, <1>2
<1>6. QED
  BY <1>3, <1>4, <1>5 DEF t

\* A part of a sequence.
LEMMA PartOf ==
    ASSUME NEW T, NEW s \in Seq(T), NEW i \in Nat, i > 0, NEW j \in Nat, j <= Len(s)
    PROVE  /\ SubSeq(s, i, j) \in Seq(T)
           /\ Len(SubSeq(s, i, j)) = IF i <= j THEN (j - i) + 1 ELSE 0
           /\ \A k \in 1 .. (j - i) + 1 : SubSeq(s, i, j)[k] = s[i + k - 1]
<1>1. Len(s) \in Nat
  BY LenProperties
<1>2. QED
  BY <1>1

-----------------------------------------------------------------------------
(* decode_url.                                                             *)

LEMMA BytesAreNumbers == \A x \in Byte : x \in Nat
BY DEF Byte

\* The same for a loop that makes a text.
LEMMA TextLoopEnds ==
    ASSUME NEW n \in Nat, NEW piece \in [1 .. n -> Text], NEW next \in [1 .. n -> Nat],
           \A i \in 1 .. n : next[i] > i
    PROVE  \E from : /\ from \in [Nat -> Text]
                     /\ IsLoop(from, n, piece, next) /\ Pieces(n, piece, next) = from[1]
<1>1. piece \in [1 .. n -> Seq(Byte)]
  BY DEF Text
<1>2. PICK from : Appends(from, Byte, n, piece, next)
  BY <1>1, LoopEnds
<1>3. QED
  BY <1>2 DEF Appends, Text

LEMMA HexTypes == \A ch \in Nat : Hex(ch) \in 0 .. 15
BY DEF Hex, Digit

\* The byte that the '%' at a position stands for.
EscapeAt(str, beyond, i) == 16 * Hex((str \o beyond)[i + 1]) + Hex((str \o beyond)[i + 2])

\* The loop of decode_url: what it still appends at each position.
Decodes(from, str, beyond) ==
    /\ from \in [Nat -> Text]
    /\ decode_url(str, beyond) = from[1]
    /\ \A i \in Nat : i > Len(str) => from[i] = <<>>
    /\ \A i \in 1 .. Len(str) :
           from[i] = IF str[i] # Percent THEN <<str[i]>> \o from[i + 1]
                     ELSE <<EscapeAt(str, beyond, i)>> \o from[i + 3]

LEMMA DecodeLoop ==
    ASSUME NEW str \in Text, NEW beyond \in Text, Len(beyond) = 2
    PROVE  \E from : Decodes(from, str, beyond)
<1> DEFINE mem == str \o beyond
           piece == [i \in DOMAIN str |-> IF str[i] # Percent THEN <<str[i]>>
                                          ELSE <<16 * Hex(mem[i + 1]) + Hex(mem[i + 2])>>]
           next == [i \in DOMAIN str |-> IF str[i] # Percent THEN i + 1 ELSE i + 3]
<1>1. str \in Seq(Byte) /\ beyond \in Seq(Byte) /\ Len(str) \in Nat /\ DOMAIN str = 1 .. Len(str)
  BY LenProperties DEF Text
<1>2. /\ \A k \in 1 .. Len(str) : str[k] \in Byte
      /\ \A k \in 1 .. Len(str) + 2 : mem[k] \in Byte
  <2>1. mem \in Seq(Byte) /\ Len(mem) = Len(str) + 2
    <3>1. mem \in Seq(Byte) /\ Len(mem) = Len(str) + Len(beyond)
      BY <1>1, ConcatProperties
    <3>2. QED
      BY <3>1
  <2> HIDE DEF mem
  <2>2. QED
    BY <1>1, <2>1, ElementOfSeq
<1> HIDE DEF mem
<1>3. ASSUME NEW k \in 1 .. Len(str) PROVE piece[k] \in Seq(Byte)
  <2>1. 16 * Hex(mem[k + 1]) + Hex(mem[k + 2]) \in Byte
    <3>1. k + 1 \in 1 .. Len(str) + 2 /\ k + 2 \in 1 .. Len(str) + 2
      BY <1>1
    <3>2. mem[k + 1] \in Nat /\ mem[k + 2] \in Nat
      <4>1. mem[k + 1] \in Byte /\ mem[k + 2] \in Byte
        BY <1>2, <3>1
      <4>2. QED
        BY <4>1, BytesAreNumbers
    <3>3. Hex(mem[k + 1]) \in 0 .. 15 /\ Hex(mem[k + 2]) \in 0 .. 15
      BY <3>2, HexTypes
    <3>4. PICK h1 \in 0 .. 15, h2 \in 0 .. 15 : h1 = Hex(mem[k + 1]) /\ h2 = Hex(mem[k + 2])
      BY <3>3
    <3>5. 16 * h1 + h2 \in 0 .. 255
      OBVIOUS
    <3>6. QED
      BY <3>4, <3>5 DEF Byte
  <2>2. QED
    BY <1>1, <1>2, <2>1
<1>4. /\ piece \in [1 .. Len(str) -> Seq(Byte)] /\ next \in [1 .. Len(str) -> Nat]
      /\ \A k \in 1 .. Len(str) : next[k] > k
  BY <1>1, <1>3
<1>5. decode_url(str, beyond) = Pieces(Len(str), piece, next)
  BY DEF decode_url, mem
<1>6. /\ \A k \in 1 .. Len(str) : piece[k] = IF str[k] # Percent THEN <<str[k]>>
                                             ELSE <<16 * Hex(mem[k + 1]) + Hex(mem[k + 2])>>
      /\ \A k \in 1 .. Len(str) : next[k] = IF str[k] # Percent THEN k + 1 ELSE k + 3
  BY <1>1
<1> HIDE DEF piece, next
<1>7. PICK from : /\ from \in [Nat -> Text]
                  /\ IsLoop(from, Len(str), piece, next)
                  /\ Pieces(Len(str), piece, next) = from[1]
  <2>1. PICK n : n = Len(str)
    OBVIOUS
  <2>2. n \in Nat /\ piece \in [1 .. n -> Text] /\ next \in [1 .. n -> Nat]
        /\ \A k \in 1 .. n : next[k] > k
    BY <1>1, <1>4, <2>1 DEF Text
  <2>3. \E from : /\ from \in [Nat -> Text]
                  /\ IsLoop(from, n, piece, next) /\ Pieces(n, piece, next) = from[1]
    BY <2>2, TextLoopEnds
  <2>4. QED
    BY <2>1, <2>3
<1>8. IsLoop(from, Len(str), piece, next)
  BY <1>7
<1>9. \A i \in Nat : i > Len(str) => from[i] = <<>>
  BY <1>1, <1>8 DEF IsLoop
<1>10. ASSUME NEW i \in 1 .. Len(str)
       PROVE  from[i] = IF str[i] # Percent THEN <<str[i]>> \o from[i + 1]
                        ELSE <<16 * Hex(mem[i + 1]) + Hex(mem[i + 2])>> \o from[i + 3]
  <2>1. i \in Nat
    OBVIOUS
  <2>2. from[i] = piece[i] \o from[next[i]]
    BY <1>8, <2>1 DEF IsLoop
  <2>3. QED
    BY <1>6, <2>2
<1>11. QED
  BY <1>5, <1>7, <1>9, <1>10 DEF mem, Decodes, EscapeAt

\* The loop of the reference encoding.
Encodes(from, text, escaped, small) ==
    /\ from \in [Nat -> Text]
    /\ Encoded(text, escaped, small) = from[1]
    /\ \A i \in Nat : i > Len(text) => from[i] = <<>>
    /\ \A i \in 1 .. Len(text) :
           from[i] = (IF text[i] \in escaped \cup {Percent}
                      THEN <<Percent, HexDigit(text[i] \div 16, small),
                                      HexDigit(text[i] % 16, small)>>
                      ELSE <<text[i]>>) \o from[i + 1]

LEMMA EncodeLoop ==
    ASSUME NEW text \in Text, NEW escaped, NEW small
    PROVE  \E from : Encodes(from, text, escaped, small)
<1> DEFINE piece == [i \in DOMAIN text |->
                        IF text[i] \in escaped \cup {Percent}
                        THEN <<Percent, HexDigit(text[i] \div 16, small),
                                        HexDigit(text[i] % 16, small)>>
                        ELSE <<text[i]>>]
           next == [i \in DOMAIN text |-> i + 1]
<1>1. text \in Seq(Byte) /\ Len(text) \in Nat /\ DOMAIN text = 1 .. Len(text)
  BY LenProperties DEF Text
<1>2. \A k \in 1 .. Len(text) : text[k] \in Byte
  BY <1>1, ElementOfSeq
<1>3. ASSUME NEW k \in 1 .. Len(text) PROVE piece[k] \in Seq(Byte)
  <2>1. PICK x : x = text[k]
    OBVIOUS
  <2>2. x \in 0 .. 255
    BY <1>2, <2>1 DEF Byte
  <2>3. x \div 16 \in 0 .. 15 /\ x % 16 \in 0 .. 15
    BY <2>2
  <2>4. \A d \in 0 .. 15 : HexDigit(d, small) \in Byte
    BY DEF HexDigit, Byte
  <2>5. Percent \in Byte
    BY DEF Percent, Byte
  <2>6. <<Percent, HexDigit(x \div 16, small), HexDigit(x % 16, small)>> \in Seq(Byte)
    <3>1. \A p, q, r \in Byte : <<p, q, r>> \in Seq(Byte)
      OBVIOUS
    <3>2. HexDigit(x \div 16, small) \in Byte /\ HexDigit(x % 16, small) \in Byte
      BY <2>3, <2>4
    <3>3. QED
      BY <2>5, <3>1, <3>2
  <2>7. <<x>> \in Seq(Byte)
    BY <1>2, <2>1
  <2>8. QED
    BY <1>1, <2>1, <2>6, <2>7
<1>4. /\ piece \in [1 .. Len(text) -> Seq(Byte)] /\ next \in [1 .. Len(text) -> Nat]
      /\ \A k \in 1 .. Len(text) : next[k] > k
  BY <1>1, <1>3
<1>5. Encoded(text, escaped, small) = Pieces(Len(text), piece, next)
  BY DEF Encoded
<1>6. /\ \A k \in 1 .. Len(text) :
             piece[k] = IF text[k] \in escaped \cup {Percent}
                        THEN <<Percent, HexDigit(text[k] \div 16, small),
                                        HexDigit(text[k] % 16, small)>>
                        ELSE <<text[k]>>
      /\ \A k \in 1 .. Len(text) : next[k] = k + 1
  BY <1>1
<1> HIDE DEF piece, next
<1>7. PICK from : /\ from \in [Nat -> Text]
                  /\ IsLoop(from, Len(text), piece, next)
                  /\ Pieces(Len(text), piece, next) = from[1]
  <2>1. PICK n : n = Len(text)
    OBVIOUS
  <2>2. n \in Nat /\ piece \in [1 .. n -> Text] /\ next \in [1 .. n -> Nat]
        /\ \A k \in 1 .. n : next[k] > k
    BY <1>1, <1>4, <2>1 DEF Text
  <2>3. \E from : /\ from \in [Nat -> Text]
                  /\ IsLoop(from, n, piece, next) /\ Pieces(n, piece, next) = from[1]
    BY <2>2, TextLoopEnds
  <2>4. QED
    BY <2>1, <2>3
<1>8. IsLoop(from, Len(text), piece, next)
  BY <1>7
<1>9. \A i \in Nat : i > Len(text) => from[i] = <<>>
  BY <1>1, <1>8 DEF IsLoop
<1>10. ASSUME NEW i \in 1 .. Len(text) PROVE from[i] = piece[i] \o from[i + 1]
  <2>1. i \in Nat
    OBVIOUS
  <2>2. from[i] = piece[i] \o from[next[i]]
    BY <1>8, <2>1 DEF IsLoop
  <2>3. QED
    BY <1>6, <2>2
<1>11. Encodes(from, text, escaped, small)
  BY <1>5, <1>6, <1>7, <1>9, <1>10 DEF Encodes
<1>12. QED
  BY <1>11

\* The digits of a byte are read back.
LEMMA DigitsReadBack ==
    ASSUME NEW x \in Byte, NEW small \in BOOLEAN
    PROVE  /\ HexDigit(x \div 16, small) \in Byte /\ HexDigit(x % 16, small) \in Byte
           /\ 16 * Hex(HexDigit(x \div 16, small)) + Hex(HexDigit(x % 16, small)) = x
<1>1. \A d \in 0 .. 15 : HexDigit(d, small) \in Byte /\ Hex(HexDigit(d, small)) = d
  BY DEF HexDigit, Hex, Digit, Byte
<1>2. PICK h, l : h = x \div 16 /\ l = x % 16
  OBVIOUS
<1>3. x \in 0 .. 255
  BY DEF Byte
<1>4. h \in 0 .. 15 /\ l \in 0 .. 15 /\ 16 * h + l = x
  BY <1>2, <1>3
<1>5. QED
  BY <1>1, <1>2, <1>4

\* Where a text ends in another one, that one is found at its place.
LEMMA Behind ==
    ASSUME NEW T, NEW p \in Seq(T), NEW s \in Seq(T)
    PROVE  /\ Len(p \o s) = Len(p) + Len(s)
           /\ \A k \in 1 .. Len(s) : (p \o s)[Len(p) + k] = s[k]
<1>1. /\ Len(p) \in Nat /\ Len(s) \in Nat
      /\ Len(p \o s) = Len(p) + Len(s)
      /\ \A i \in 1 .. Len(p) + Len(s) :
             (p \o s)[i] = IF i <= Len(p) THEN p[i] ELSE s[i - Len(p)]
  BY LenProperties, ConcatProperties
<1>2. ASSUME NEW k \in 1 .. Len(s) PROVE (p \o s)[Len(p) + k] = s[k]
  <2>1. Len(p) + k \in 1 .. Len(p) + Len(s) /\ ~ (Len(p) + k <= Len(p))
        /\ (Len(p) + k) - Len(p) = k
    BY <1>1
  <2>2. QED
    BY <1>1, <2>1
<1>3. QED
  BY <1>1, <1>2

\* A sequence between two others.
LEMMA Inside ==
    ASSUME NEW T, NEW p \in Seq(T), NEW s \in Seq(T), NEW r \in Seq(T)
    PROVE  /\ p \o (s \o r) = (p \o s) \o r /\ p \o s \in Seq(T)
           /\ Len(p \o s) = Len(p) + Len(s)
           /\ Len(p \o (s \o r)) = Len(p) + Len(s) + Len(r)
           /\ \A k \in 1 .. Len(s) : (p \o (s \o r))[Len(p) + k] = s[k]
<1>1. /\ Len(p) \in Nat /\ Len(s) \in Nat /\ Len(r) \in Nat
      /\ p \o s \in Seq(T) /\ s \o r \in Seq(T) /\ p \o (s \o r) \in Seq(T)
      /\ Len(p \o s) = Len(p) + Len(s) /\ Len(s \o r) = Len(s) + Len(r)
      /\ p \o (s \o r) = (p \o s) \o r
  <2>1. Len(p) \in Nat /\ Len(s) \in Nat /\ Len(r) \in Nat
    BY LenProperties
  <2>2. p \o s \in Seq(T) /\ Len(p \o s) = Len(p) + Len(s)
    BY ConcatProperties
  <2>3. s \o r \in Seq(T) /\ Len(s \o r) = Len(s) + Len(r)
    BY ConcatProperties
  <2>4. p \o (s \o r) \in Seq(T)
    BY <2>3, ConcatProperties
  <2>5. p \o (s \o r) = (p \o s) \o r
    BY ConcatAssociative, SMTT(40)
  <2>6. QED
    BY <2>1, <2>2, <2>3, <2>4, <2>5
<1>2. Len(p \o (s \o r)) = Len(p) + Len(s) + Len(r)
  <2>1. Len(p \o (s \o r)) = Len(p) + Len(s \o r)
    BY <1>1, Behind
  <2>2. QED
    BY <1>1, <2>1
<1>3. ASSUME NEW k \in 1 .. Len(s) PROVE (p \o (s \o r))[Len(p) + k] = s[k]
  <2>1. k \in 1 .. Len(s \o r)
    BY <1>1
  <2>2. (p \o (s \o r))[Len(p) + k] = (s \o r)[k]
    BY <1>1, <2>1, Behind
  <2>3. (s \o r)[k] = s[k]
    BY <1>1, <2>1, ConcatProperties
  <2>4. QED
    BY <2>2, <2>3
<1>4. QED
  BY <1>1, <1>2, <1>3

\* decode_url gives a text back from its encoding.
LEMMA DecodesEncoding ==
    ASSUME NEW text \in Text, NEW escaped, NEW small \in BOOLEAN,
           NEW beyond \in Text, Len(beyond) = 2
    PROVE  decode_url(Encoded(text, escaped, small), beyond) = text
<1>1. PICK E : Encodes(E, text, escaped, small)
  BY EncodeLoop
<1>2. PICK enc : enc = E[1] /\ Encoded(text, escaped, small) = enc
  BY <1>1 DEF Encodes
<1>3. enc \in Text
  BY <1>1, <1>2 DEF Encodes
<1>4. PICK D : Decodes(D, enc, beyond)
  BY <1>3, DecodeLoop
<1>5. PICK n : n = Len(text)
  OBVIOUS
<1>6. /\ text \in Seq(Byte) /\ enc \in Seq(Byte) /\ beyond \in Seq(Byte)
      /\ n \in Nat /\ Len(enc) \in Nat
      /\ \A k \in 1 .. n : text[k] \in Byte
  BY <1>3, <1>5, LenProperties, ElementOfSeq DEF Text
<1>7. \A i \in Nat : E[i] \in Seq(Byte)
  BY <1>1 DEF Encodes, Text
<1>8. \A k \in 1 .. Len(enc) : (enc \o beyond)[k] = enc[k]
  BY <1>6, ConcatProperties
<1> DEFINE Rest(i) == \A p \in Seq(Byte) :
                          enc = p \o E[i] => D[Len(p) + 1] = SubSeq(text, i, n)
           A == {i \in Nat : Rest(i)}
<1>9. ASSUME NEW i \in Nat, i > n PROVE Rest(i)
  <2>1. SUFFICES ASSUME NEW p \in Seq(Byte), enc = p \o E[i]
                 PROVE  D[Len(p) + 1] = SubSeq(text, i, n)
    OBVIOUS
  <2>2. E[i] = <<>>
    BY <1>1, <1>5, <1>9 DEF Encodes
  <2>3. enc = p /\ Len(p) \in Nat
    BY <2>1, <2>2, ConcatEmptySeq, LenProperties
  <2>4. D[Len(p) + 1] = <<>>
    <3>1. Len(p) + 1 \in Nat /\ Len(p) + 1 > Len(enc)
      BY <2>3
    <3>2. QED
      BY <1>4, <3>1 DEF Decodes
  <2>5. SubSeq(text, i, n) = <<>>
    BY <1>6, <1>9, SubSeqEmpty
  <2>6. QED
    BY <2>4, <2>5
<1>10. ASSUME NEW i \in 1 .. n, Rest(i + 1) PROVE Rest(i)
  <2>1. SUFFICES ASSUME NEW p \in Seq(Byte), enc = p \o E[i]
                 PROVE  D[Len(p) + 1] = SubSeq(text, i, n)
    OBVIOUS
  <2>2. PICK x \in Byte : x = text[i]
    BY <1>6
  <2>3. PICK r : r = E[i + 1]
    OBVIOUS
  <2>4. PICK a : a = Len(p)
    OBVIOUS
  <2>5. a \in Nat /\ r \in Seq(Byte) /\ Len(r) \in Nat
    BY <1>7, <2>3, <2>4, LenProperties
  <2>6. ASSUME NEW q \in Seq(Byte), enc = q \o r, NEW b, b = Len(q) + 1
        PROVE  D[b] = SubSeq(text, i + 1, n)
    BY <1>10, <2>3, <2>6
  <2> HIDE DEF Rest
  <2>7. SubSeq(text, i, n) = <<x>> \o SubSeq(text, i + 1, n)
    <3>1. i \in 1 .. Len(text) /\ n \in i .. Len(text)
      BY <1>5, <1>6
    <3>2. QED
      BY <1>6, <2>2, <3>1, SubSeqRecursiveFirst
  <2>8. CASE x \in escaped \cup {Percent}
    <3>1. PICK h \in Byte, l \in Byte :
              /\ h = HexDigit(x \div 16, small) /\ l = HexDigit(x % 16, small)
              /\ 16 * Hex(h) + Hex(l) = x
      BY DigitsReadBack
    <3>2. PICK s : s = <<Percent, h, l>>
      OBVIOUS
    <3>3. s \in Seq(Byte) /\ Len(s) = 3 /\ s[1] = Percent /\ s[2] = h /\ s[3] = l
      BY <3>2 DEF Percent, Byte
    <3>4. enc = p \o (s \o r)
      <4>1. E[i] = s \o r
        BY <1>1, <1>5, <2>2, <2>3, <2>8, <3>1, <3>2 DEF Encodes
      <4>2. QED
        BY <2>1, <4>1
    <3>5. /\ p \o s \in Seq(Byte) /\ enc = (p \o s) \o r /\ Len(p \o s) = a + 3
          /\ Len(enc) = a + 3 + Len(r)
          /\ \A k \in 1 .. 3 : enc[a + k] = s[k]
      <4>1. p \in Seq(Byte) /\ s \in Seq(Byte) /\ r \in Seq(Byte)
        BY <2>1, <2>5, <3>3
      <4>2. /\ p \o (s \o r) = (p \o s) \o r /\ p \o s \in Seq(Byte)
            /\ Len(p \o s) = Len(p) + Len(s)
            /\ Len(p \o (s \o r)) = Len(p) + Len(s) + Len(r)
            /\ \A k \in 1 .. Len(s) : (p \o (s \o r))[Len(p) + k] = s[k]
        BY <4>1, Inside, SMTT(30)
      <4>3. Len(s) = 3
        BY <3>3
      <4>4. QED
        BY <2>4, <3>4, <4>2, <4>3
    <3>6. PICK q : q = p \o s
      OBVIOUS
    <3>7. /\ a + 1 \in 1 .. Len(enc) /\ a + 2 \in 1 .. Len(enc) /\ a + 3 \in 1 .. Len(enc)
          /\ (a + 1) + 1 = a + 2 /\ (a + 1) + 2 = a + 3
          /\ (a + 1) + 3 = Len(q) + 1
      <4>1. Len(q) = a + 3 /\ Len(enc) = a + 3 + Len(r)
        BY <3>5, <3>6
      <4>2. QED
        BY <2>5, <4>1
    <3>8. enc[a + 1] = Percent /\ enc[a + 2] = h /\ enc[a + 3] = l
      <4>1. 1 \in 1 .. 3 /\ 2 \in 1 .. 3 /\ 3 \in 1 .. 3
        OBVIOUS
      <4>2. enc[a + 1] = s[1] /\ enc[a + 2] = s[2] /\ enc[a + 3] = s[3]
        BY <3>5, <4>1
      <4>3. QED
        BY <3>3, <4>2
    <3>9. D[a + 1] = <<16 * Hex(h) + Hex(l)>> \o D[(a + 1) + 3]
      BY <1>4, <1>8, <3>7, <3>8 DEF Decodes, EscapeAt
    <3>10. D[(a + 1) + 3] = SubSeq(text, i + 1, n)
      BY <2>6, <3>5, <3>6, <3>7
    <3>11. QED
      BY <2>4, <2>7, <3>1, <3>9, <3>10
  <2>9. CASE x \notin escaped \cup {Percent}
    <3>1. PICK s : s = <<x>>
      OBVIOUS
    <3>2. s \in Seq(Byte) /\ Len(s) = 1 /\ s[1] = x
      BY <3>1
    <3>3. enc = p \o (s \o r)
      <4>1. E[i] = s \o r
        BY <1>1, <1>5, <2>2, <2>3, <2>9, <3>1 DEF Encodes
      <4>2. QED
        BY <2>1, <4>1
    <3>4. /\ p \o s \in Seq(Byte) /\ enc = (p \o s) \o r /\ Len(p \o s) = a + 1
          /\ Len(enc) = a + 1 + Len(r)
          /\ \A k \in 1 .. 1 : enc[a + k] = s[k]
      <4>1. p \in Seq(Byte) /\ s \in Seq(Byte) /\ r \in Seq(Byte)
        BY <2>1, <2>5, <3>2
      <4>2. /\ p \o (s \o r) = (p \o s) \o r /\ p \o s \in Seq(Byte)
            /\ Len(p \o s) = Len(p) + Len(s)
            /\ Len(p \o (s \o r)) = Len(p) + Len(s) + Len(r)
            /\ \A k \in 1 .. Len(s) : (p \o (s \o r))[Len(p) + k] = s[k]
        BY <4>1, Inside, SMTT(30)
      <4>3. Len(s) = 1
        BY <3>2
      <4>4. QED
        BY <2>4, <3>3, <4>2, <4>3
    <3>5. PICK q : q = p \o s
      OBVIOUS
    <3>6. a + 1 \in 1 .. Len(enc) /\ (a + 1) + 1 = Len(q) + 1
      <4>1. Len(q) = a + 1 /\ Len(enc) = a + 1 + Len(r)
        BY <3>4, <3>5
      <4>2. QED
        BY <2>5, <4>1
    <3>7. enc[a + 1] = x /\ x # Percent
      <4>1. 1 \in 1 .. 1
        OBVIOUS
      <4>2. enc[a + 1] = s[1]
        BY <3>4, <4>1
      <4>3. QED
        BY <2>9, <3>2, <4>2
    <3>8. D[a + 1] = <<x>> \o D[(a + 1) + 1]
      BY <1>4, <3>6, <3>7 DEF Decodes
    <3>9. D[(a + 1) + 1] = SubSeq(text, i + 1, n)
      BY <2>6, <3>4, <3>5, <3>6
    <3>10. QED
      BY <2>4, <2>7, <3>8, <3>9
  <2>10. QED
    BY <2>8, <2>9
<1> HIDE DEF Rest
<1>11. Rest(1)
  <2>1. \A i \in Nat : i > n => i \in A
    BY <1>9
  <2>2. ASSUME NEW i \in 1 .. n, \A j \in Nat : j > i => j \in A PROVE i \in A
    <3>1. i + 1 \in A
      BY <2>2
    <3>2. QED
      BY <1>10, <3>1
  <2>3. \A i \in A : Rest(i)
    OBVIOUS
  <2> HIDE DEF A
  <2>4. \A i \in Nat : i > 0 => i \in A
    BY <1>6, <2>1, <2>2, Backwards
  <2>5. QED
    BY <2>3, <2>4
<1>12. D[1] = SubSeq(text, 1, n)
  <2>1. PICK e : e = <<>>
    OBVIOUS
  <2>2. e \in Seq(Byte) /\ Len(e) = 0 /\ enc = e \o E[1]
    BY <1>2, <1>6, <2>1, EmptySeq, ConcatEmptySeq
  <2>3. Len(e) + 1 = 1
    BY <2>2
  <2>4. D[Len(e) + 1] = SubSeq(text, 1, n)
    BY <1>11, <2>2 DEF Rest
  <2>5. QED
    BY <2>3, <2>4
<1>13. SubSeq(text, 1, n) = text
  BY <1>5, <1>6, SubSeqFull
<1>14. decode_url(enc, beyond) = D[1]
  BY <1>4 DEF Decodes
<1>15. QED
  BY <1>2, <1>12, <1>13, <1>14

-----------------------------------------------------------------------------
(* Escapes that the end of a text cuts off.                                *)

\* The escapes of a text are those of its '%' that lie in no other one's digits.
LEMMA EscapesFound ==
    ASSUME NEW text \in Text
    PROVE  /\ \A i \in Escapes(text) : i \in 1 .. Len(text)
           /\ \A i \in 1 .. Len(text) :
                  i \in Escapes(text) <=> /\ text[i] = Percent
                                          /\ i - 1 \notin Escapes(text)
                                          /\ i - 2 \notin Escapes(text)
<1> DEFINE percents == {i \in DOMAIN text : text[i] = Percent}
           Fits(S, m) == /\ \A i \in S : i \in percents /\ i <= m
                         /\ \A i \in percents :
                                i <= m => (i \in S <=> i - 1 \notin S /\ i - 2 \notin S)
           B == {m \in Nat : \E S : Fits(S, m)}
<1>1. Len(text) \in Nat /\ DOMAIN text = 1 .. Len(text)
  BY LenProperties DEF Text
<1>2. \A i \in percents : i \in 1 .. Len(text) /\ text[i] = Percent
  BY <1>1
<1>3. \A i \in 1 .. Len(text) : text[i] = Percent => i \in percents
  BY <1>1
<1> HIDE DEF percents
<1>4. 0 \in B
  <2>1. Fits({}, 0)
    BY <1>2
  <2> HIDE DEF Fits
  <2>2. QED
    BY <2>1
<1>5. ASSUME NEW m \in Nat, m \in B PROVE m + 1 \in B
  <2>1. PICK S : Fits(S, m)
    BY <1>5
  <2>2. CASE m + 1 \in percents /\ m \notin S /\ m - 1 \notin S
    <3>1. Fits(S \cup {m + 1}, m + 1)
      <4>1. ASSUME NEW i \in S \cup {m + 1} PROVE i \in percents /\ i <= m + 1
        BY <1>2, <2>1, <2>2
      <4>2. ASSUME NEW i \in percents, i <= m + 1
            PROVE  i \in S \cup {m + 1}
                       <=> i - 1 \notin S \cup {m + 1} /\ i - 2 \notin S \cup {m + 1}
        <5>1. i \in Nat /\ i - 1 # m + 1 /\ i - 2 # m + 1
          BY <1>2, <4>2
        <5>2. CASE i = m + 1
          <6>1. i - 1 = m /\ i - 2 = m - 1
            BY <5>2
          <6>2. QED
            BY <2>2, <5>1, <5>2, <6>1
        <5>3. CASE i # m + 1
          <6>1. i <= m
            BY <4>2, <5>1, <5>3
          <6>2. QED
            BY <2>1, <5>1, <5>3, <6>1
        <5>4. QED
          BY <5>2, <5>3
      <4>3. QED
        BY <4>1, <4>2
    <3> HIDE DEF Fits
    <3>2. QED
      BY <3>1
  <2>3. CASE ~ (m + 1 \in percents /\ m \notin S /\ m - 1 \notin S)
    <3>1. Fits(S, m + 1)
      <4>1. ASSUME NEW i \in S PROVE i \in percents /\ i <= m + 1
        BY <1>2, <2>1
      <4>2. ASSUME NEW i \in percents, i <= m + 1
            PROVE  i \in S <=> i - 1 \notin S /\ i - 2 \notin S
        <5>1. i \in Nat
          BY <1>2
        <5>2. CASE i = m + 1
          <6>1. i - 1 = m /\ i - 2 = m - 1 /\ ~ (i <= m)
            BY <5>2
          <6>2. i \notin S
            BY <2>1, <6>1
          <6>3. QED
            BY <2>3, <4>2, <5>2, <6>1, <6>2
        <5>3. CASE i # m + 1
          <6>1. i <= m
            BY <4>2, <5>1, <5>3
          <6>2. QED
            BY <2>1, <6>1
        <5>4. QED
          BY <5>2, <5>3
      <4>3. QED
        BY <4>1, <4>2
    <3> HIDE DEF Fits
    <3>2. QED
      BY <3>1
  <2>4. QED
    BY <2>2, <2>3
<1>6. \E S \in SUBSET percents : S = {i \in percents : i - 1 \notin S /\ i - 2 \notin S}
  <2> HIDE DEF B
  <2>1. Len(text) \in B
    BY <1>1, <1>4, <1>5, Induction
  <2>2. PICK S : Fits(S, Len(text))
    BY <2>1 DEF B
  <2>3. \A i \in percents : i <= Len(text)
    BY <1>1, <1>2
  <2>4. S = {i \in percents : i - 1 \notin S /\ i - 2 \notin S}
    BY <2>2, <2>3
  <2>5. QED
    BY <2>4
<1>7. PICK E : E = Escapes(text)
  OBVIOUS
<1>8. E = CHOOSE S \in SUBSET percents :
              S = {i \in percents : i - 1 \notin S /\ i - 2 \notin S}
  BY <1>7 DEF Escapes, percents
<1>9. E = {i \in percents : i - 1 \notin E /\ i - 2 \notin E}
  BY <1>6, <1>8
<1>10. \A i : i \in E <=> i \in percents /\ i - 1 \notin E /\ i - 2 \notin E
  BY <1>9
<1>11. QED
  BY <1>2, <1>3, <1>7, <1>10

\* The byte of an escape, and that nothing behind the text decides on one that
\* is not cut off.
LEMMA EscapeByte ==
    ASSUME NEW str \in Text, NEW beyond \in Text, Len(beyond) = 2, NEW i \in 1 .. Len(str)
    PROVE  /\ EscapeAt(str, beyond, i) \in Byte
           /\ i + 2 <= Len(str) => EscapeAt(str, beyond, i) = 16 * Hex(str[i + 1]) + Hex(str[i + 2])
<1>1. /\ str \in Seq(Byte) /\ beyond \in Seq(Byte) /\ Len(str) \in Nat
  BY LenProperties DEF Text
<1>2. PICK mem, n : mem = str \o beyond /\ n = Len(str)
  OBVIOUS
<1>3. /\ mem \in Seq(Byte) /\ n \in Nat /\ Len(mem) = n + 2
      /\ \A k \in 1 .. n + 2 : mem[k] = IF k <= n THEN str[k] ELSE beyond[k - n]
  <2>1. /\ mem \in Seq(Byte) /\ Len(mem) = Len(str) + Len(beyond)
        /\ \A k \in 1 .. Len(str) + Len(beyond) :
               mem[k] = IF k <= Len(str) THEN str[k] ELSE beyond[k - Len(str)]
    BY <1>1, <1>2, ConcatProperties
  <2>2. QED
    BY <1>1, <1>2, <2>1
<1>4. \A k \in 1 .. n + 2 : mem[k] \in Byte
  BY <1>3, ElementOfSeq
<1>5. EscapeAt(str, beyond, i) = 16 * Hex(mem[i + 1]) + Hex(mem[i + 2])
  BY <1>2 DEF EscapeAt
<1>6. i \in Nat /\ i + 1 \in 1 .. n + 2 /\ i + 2 \in 1 .. n + 2
  BY <1>2, <1>3
<1>7. EscapeAt(str, beyond, i) \in Byte
  <2>1. Hex(mem[i + 1]) \in 0 .. 15 /\ Hex(mem[i + 2]) \in 0 .. 15
    BY <1>4, <1>6, BytesAreNumbers, HexTypes
  <2>2. PICK h \in 0 .. 15, l \in 0 .. 15 : h = Hex(mem[i + 1]) /\ l = Hex(mem[i + 2])
    BY <2>1
  <2>3. 16 * h + l \in 0 .. 255
    OBVIOUS
  <2>4. QED
    BY <1>5, <2>2, <2>3 DEF Byte
<1>8. ASSUME i + 2 <= n PROVE mem[i + 1] = str[i + 1] /\ mem[i + 2] = str[i + 2]
  <2>1. i + 1 <= n
    BY <1>3, <1>6, <1>8
  <2>2. QED
    BY <1>3, <1>6, <1>8, <2>1
<1>9. QED
  BY <1>2, <1>5, <1>7, <1>8

\* decode_url returns the same text whatever lies behind its argument, when no
\* escape is cut off.
LEMMA EndUnread ==
    ASSUME NEW text \in Text, Escapes(text) \cap {Len(text) - 1, Len(text)} = {},
           NEW b \in Text, Len(b) = 2, NEW c \in Text, Len(c) = 2
    PROVE  decode_url(text, b) = decode_url(text, c)
<1>1. PICK D : Decodes(D, text, b)
  BY DecodeLoop
<1>2. PICK F : Decodes(F, text, c)
  BY DecodeLoop
<1>3. PICK n, E : n = Len(text) /\ E = Escapes(text)
  OBVIOUS
<1>4. n \in Nat
  BY <1>3, LenProperties DEF Text
<1>5. /\ \A i \in E : i \in 1 .. n /\ i + 2 <= n
      /\ \A i \in 1 .. n : i \in E <=> text[i] = Percent /\ i - 1 \notin E /\ i - 2 \notin E
  <2>1. /\ \A i \in E : i \in 1 .. n
        /\ \A i \in 1 .. n : i \in E <=> text[i] = Percent /\ i - 1 \notin E /\ i - 2 \notin E
    BY <1>3, EscapesFound
  <2>2. n - 1 \notin E /\ n \notin E
    BY <1>3
  <2>3. QED
    BY <1>4, <2>1, <2>2
<1> DEFINE Same(i) == i - 1 \notin E /\ i - 2 \notin E => D[i] = F[i]
           A == {i \in Nat : Same(i)}
<1>6. ASSUME NEW i \in Nat, i > n PROVE Same(i)
  BY <1>1, <1>2, <1>3, <1>6 DEF Decodes
<1>7. ASSUME NEW i \in 1 .. n, \A j \in Nat : j > i => Same(j) PROVE Same(i)
  <2>1. SUFFICES ASSUME i - 1 \notin E, i - 2 \notin E PROVE D[i] = F[i]
    OBVIOUS
  <2>2. CASE text[i] # Percent
    <3>1. i \notin E /\ i + 1 \in Nat /\ i + 1 > i /\ (i + 1) - 1 = i /\ (i + 1) - 2 = i - 1
      BY <1>5, <2>2
    <3>2. D[i + 1] = F[i + 1]
      BY <1>7, <2>1, <3>1
    <3>3. D[i] = <<text[i]>> \o D[i + 1] /\ F[i] = <<text[i]>> \o F[i + 1]
      BY <1>1, <1>2, <1>3, <2>2 DEF Decodes
    <3>4. QED
      BY <3>2, <3>3
  <2>3. CASE text[i] = Percent
    <3>1. i \in E
      BY <1>5, <2>1, <2>3
    <3>2. /\ i + 2 <= n /\ i + 1 \in 1 .. n /\ i + 2 \in 1 .. n
          /\ (i + 1) - 1 = i /\ (i + 2) - 2 = i
          /\ i + 3 \in Nat /\ i + 3 > i /\ (i + 3) - 1 = i + 2 /\ (i + 3) - 2 = i + 1
      <4>1. i + 2 <= n
        BY <1>5, <3>1
      <4>2. QED
        BY <1>4, <4>1
    <3>3. i + 1 \notin E /\ i + 2 \notin E
      BY <1>5, <3>1, <3>2
    <3>4. D[i + 3] = F[i + 3]
      BY <1>7, <3>2, <3>3
    <3>5. EscapeAt(text, b, i) = EscapeAt(text, c, i)
      BY <1>3, <3>2, EscapeByte
    <3>6. /\ D[i] = <<EscapeAt(text, b, i)>> \o D[i + 3]
          /\ F[i] = <<EscapeAt(text, c, i)>> \o F[i + 3]
      BY <1>1, <1>2, <1>3, <2>3 DEF Decodes
    <3>7. QED
      BY <3>4, <3>5, <3>6
  <2>4. QED
    BY <2>2, <2>3
<1>8. D[1] = F[1]
  <2>1. \A i \in Nat : i > n => i \in A
    BY <1>6
  <2>2. ASSUME NEW i \in 1 .. n, \A j \in Nat : j > i => j \in A PROVE i \in A
    <3>1. \A j \in Nat : j > i => Same(j)
      BY <2>2
    <3>2. i \in Nat
      OBVIOUS
    <3>3. QED
      BY <1>7, <3>1, <3>2
  <2>3. \A i \in A : Same(i)
    OBVIOUS
  <2> HIDE DEF A
  <2>4. \A i \in Nat : i > 0 => i \in A
    BY <1>4, <2>1, <2>2, Backwards
  <2>5. 1 - 1 \notin E /\ 1 - 2 \notin E
    BY <1>5
  <2>6. QED
    BY <2>3, <2>4, <2>5
<1>9. QED
  BY <1>1, <1>2, <1>8 DEF Decodes

-----------------------------------------------------------------------------
\* Whatever is written, the target is a text.
THEOREM TargetsAreTexts == Spec => [](target \in Text)
<1>1. Init => target \in Text
  BY RequestTargetAssumption DEF Init
<1>2. target \in Text /\ [Next]_target => (target \in Text)'
  <2>1. SUFFICES ASSUME target \in Text, [Next]_target PROVE target' \in Text
    OBVIOUS
  <2>2. CASE target' = target
    BY <2>1, <2>2
  <2>3. ASSUME NEW ch \in Alphabet, Writes(ch) PROVE target' \in Text
    <3>1. ch \in Byte
      BY RequestTargetAssumption
    <3>2. QED
      BY <2>1, <2>3, <3>1, AppendProperties DEF Writes, Text
  <2>4. QED
    BY <2>1, <2>2, <2>3 DEF Next
<1>3. QED
  BY <1>1, <1>2, PTL DEF Spec

\* The decoding of a request's target inverts its encoding, and what lies behind the
\* target in memory matters only when an escape is cut off by its end: for targets
\* of every length over every alphabet (decode_url, session.cpp).
THEOREM DecodingInvertsEncoding == Spec => []DecodingInverts
<1>1. ASSUME target \in Text PROVE DecodingInverts
  <2>1. \A b \in Beyond : b \in Text /\ Len(b) = 2
    BY RequestTargetAssumption
  <2>2. \A escaped \in {{}, Alphabet}, small \in BOOLEAN, b \in Beyond :
            decode_url(Encoded(target, escaped, small), b) = target
    BY <1>1, <2>1, DecodesEncoding
  <2>3. ASSUME Escapes(target) \cap {Len(target) - 1, Len(target)} = {}
        PROVE  \A b, c \in Beyond : decode_url(target, b) = decode_url(target, c)
    BY <1>1, <2>1, <2>3, EndUnread
  <2>4. QED
    BY <2>2, <2>3 DEF DecodingInverts
<1>2. QED
  BY <1>1, TargetsAreTexts, PTL

-----------------------------------------------------------------------------
(* Parts of a text between delimiters.                                     *)

\* Find returns the first place of a delimiter, or the place behind the text.
LEMMA FindPlace ==
    ASSUME NEW str, NEW delim, Len(str) \in Nat, NEW i \in 1 .. Len(str) + 1
    PROVE  /\ Find(str, delim, i) \in i .. Len(str) + 1
           /\ Find(str, delim, i) <= Len(str) => str[Find(str, delim, i)] = delim
           /\ \A k \in i .. Find(str, delim, i) - 1 : k <= Len(str) /\ str[k] # delim
<1> DEFINE I == {j \in i .. Len(str) + 1 : j > Len(str) \/ str[j] = delim}
<1>1. PICK n : n = Len(str)
  OBVIOUS
<1>2. I \in SUBSET Nat /\ n + 1 \in I
  BY <1>1
<1>3. PICK f : f = Min(I)
  OBVIOUS
<1>4. f \in I /\ \A j \in I : f <= j
  <2> HIDE DEF I
  <2>1. I # {}
    BY <1>2
  <2>2. QED
    BY <1>2, <1>3, <2>1, MinOfNaturals
<1>5. f = Find(str, delim, i)
  BY <1>3 DEF Find
<1>6. f \in i .. n + 1 /\ (f > n \/ str[f] = delim)
  BY <1>1, <1>4
<1>7. ASSUME NEW k \in i .. f - 1 PROVE k <= n /\ str[k] # delim
  <2>1. k \in i .. n + 1 /\ k \notin I
    BY <1>1, <1>4, <1>6
  <2>2. QED
    BY <1>1, <2>1
<1>8. QED
  BY <1>1, <1>5, <1>6, <1>7

\* End, and how a place is known to be the one behind it.
LEMMA EndPlace ==
    ASSUME NEW str, NEW delims, Len(str) \in Nat, NEW i \in 1 .. Len(str) + 2,
           NEW f \in i .. Len(str) + 2, f > Len(str) \/ str[f] \in delims,
           \A k \in i .. f - 1 : k <= Len(str) /\ str[k] \notin delims
    PROVE  End(str, i, delims) = f - 1
<1> DEFINE I == {j \in i .. Len(str) + 2 : j > Len(str) \/ str[j] \in delims}
<1>1. I \in SUBSET Nat /\ f \in I
  OBVIOUS
<1>2. PICK m : m = Min(I)
  OBVIOUS
<1>3. m \in I /\ \A j \in I : m <= j
  <2> HIDE DEF I
  <2>1. I # {}
    BY <1>1
  <2>2. QED
    BY <1>1, <1>2, <2>1, MinOfNaturals
<1>4. m <= f /\ m \in i .. Len(str) + 2 /\ f \in Nat
  BY <1>1, <1>3
<1>5. ~ (m < f)
  <2>1. SUFFICES ASSUME m < f PROVE FALSE
    OBVIOUS
  <2>2. m \in i .. f - 1
    BY <1>4, <2>1
  <2>3. QED
    BY <1>3, <2>2
<1>6. m = f
  BY <1>4, <1>5
<1>7. End(str, i, delims) = m - 1
  BY <1>2 DEF End
<1>8. QED
  BY <1>6, <1>7

\* Up to one delimiter, End is Find.
LEMMA EndFind ==
    ASSUME NEW str, NEW delim, Len(str) \in Nat, NEW i \in 1 .. Len(str) + 1
    PROVE  End(str, i, {delim}) = Find(str, delim, i) - 1
<1>1. PICK f : f = Find(str, delim, i)
  OBVIOUS
<1>2. /\ f \in i .. Len(str) + 1 /\ f \in i .. Len(str) + 2 /\ i \in 1 .. Len(str) + 2
      /\ f > Len(str) \/ str[f] \in {delim}
      /\ \A k \in i .. f - 1 : k <= Len(str) /\ str[k] \notin {delim}
  <2>1. /\ f \in i .. Len(str) + 1 /\ (f <= Len(str) => str[f] = delim)
        /\ \A k \in i .. f - 1 : k <= Len(str) /\ str[k] # delim
    BY <1>1, FindPlace
  <2>2. QED
    BY <2>1
<1>3. QED
  BY <1>1, <1>2, EndPlace

\* A part of a part.
LEMMA PartOfPart ==
    ASSUME NEW T, NEW s \in Seq(T), NEW i \in Nat, i > 0, NEW f \in Nat, f <= Len(s) + 1, i <= f,
           NEW j \in Nat, j > 0, NEW g \in Nat, j <= g, g <= (f - i) + 1
    PROVE  SubSeq(SubSeq(s, i, f - 1), j, g - 1) = SubSeq(s, i + j - 1, i + g - 2)
<1>1. Len(s) \in Nat /\ f - 1 \in Nat /\ f - 1 <= Len(s)
  BY LenProperties
<1>2. PICK p : p = SubSeq(s, i, f - 1)
  OBVIOUS
<1>3. /\ p \in Seq(T) /\ Len(p) = f - i
      /\ \A k \in 1 .. f - i : p[k] = s[i + k - 1]
  <2>1. /\ p \in Seq(T) /\ Len(p) = IF i <= f - 1 THEN ((f - 1) - i) + 1 ELSE 0
        /\ \A k \in 1 .. ((f - 1) - i) + 1 : p[k] = s[i + k - 1]
    BY <1>1, <1>2, PartOf
  <2>2. ((f - 1) - i) + 1 = f - i
    OBVIOUS
  <2>3. QED
    BY <2>1, <2>2
<1>4. g - 1 \in Nat /\ g - 1 <= Len(p)
  BY <1>3
<1>5. PICK a : a = SubSeq(p, j, g - 1)
  OBVIOUS
<1>6. /\ a \in Seq(T) /\ Len(a) = g - j
      /\ \A k \in 1 .. g - j : a[k] = s[i + (j + k - 1) - 1]
  <2>1. /\ a \in Seq(T) /\ Len(a) = IF j <= g - 1 THEN ((g - 1) - j) + 1 ELSE 0
        /\ \A k \in 1 .. ((g - 1) - j) + 1 : a[k] = p[j + k - 1]
    BY <1>3, <1>4, <1>5, PartOf
  <2>2. ((g - 1) - j) + 1 = g - j
    OBVIOUS
  <2>3. \A k \in 1 .. g - j : j + k - 1 \in 1 .. f - i
    OBVIOUS
  <2>4. QED
    BY <1>3, <2>1, <2>2, <2>3
<1>7. PICK b : b = SubSeq(s, i + j - 1, i + g - 2)
  OBVIOUS
<1>8. /\ b \in Seq(T) /\ Len(b) = g - j
      /\ \A k \in 1 .. g - j : b[k] = s[(i + j - 1) + k - 1]
  <2>1. i + j - 1 \in Nat /\ i + j - 1 > 0 /\ i + g - 2 \in Nat /\ i + g - 2 <= Len(s)
    BY <1>1
  <2>2. /\ b \in Seq(T)
        /\ Len(b) = IF i + j - 1 <= i + g - 2 THEN ((i + g - 2) - (i + j - 1)) + 1 ELSE 0
        /\ \A k \in 1 .. ((i + g - 2) - (i + j - 1)) + 1 : b[k] = s[(i + j - 1) + k - 1]
    BY <1>7, <2>1, PartOf
  <2>3. ((i + g - 2) - (i + j - 1)) + 1 = g - j
    OBVIOUS
  <2>4. QED
    BY <2>2, <2>3
<1>9. \A k \in 1 .. g - j : i + (j + k - 1) - 1 = (i + j - 1) + k - 1
  OBVIOUS
<1>10. a = b
  BY <1>6, <1>8, <1>9, SeqEqual
<1>11. QED
  BY <1>2, <1>5, <1>7, <1>10

-----------------------------------------------------------------------------
(* split_string_view.                                                      *)

\* The loop of split_string_view: the parts it still appends at each position.
Splits(from, str, delim) ==
    /\ from \in [Nat -> Seq(Text)]
    /\ \A i \in Nat : i > Len(str) => from[i] = <<>>
    /\ \A i \in 1 .. Len(str) :
           from[i] = <<SubSeq(str, i, Find(str, delim, i) - 1)>>
                         \o from[Find(str, delim, i) + 1]

\* Of a text that is not empty, the loop's result is what is returned, also when
\* the text has no delimiter.
LEMMA SplitLoop ==
    ASSUME NEW str \in Text, str # <<>>, NEW delim
    PROVE  \E from : Splits(from, str, delim) /\ split_string_view(str, delim) = from[1]
<1> DEFINE piece == [i \in DOMAIN str |-> <<SubSeq(str, i, Find(str, delim, i) - 1)>>]
           next == [i \in DOMAIN str |-> Find(str, delim, i) + 1]
<1>1. PICK n : n = Len(str)
  OBVIOUS
<1>2. str \in Seq(Byte) /\ n \in Nat /\ n > 0 /\ DOMAIN str = 1 .. n
  BY <1>1, LenProperties, EmptySeq DEF Text
<1>3. ASSUME NEW i \in 1 .. n
      PROVE  /\ Find(str, delim, i) \in i .. n + 1
             /\ SubSeq(str, i, Find(str, delim, i) - 1) \in Text
  <2>1. PICK f : f = Find(str, delim, i)
    OBVIOUS
  <2>2. f \in i .. n + 1
    <3>1. i \in 1 .. Len(str) + 1 /\ Len(str) \in Nat
      BY <1>1, <1>2
    <3>2. QED
      BY <1>1, <2>1, <3>1, FindPlace
  <2>3. i \in Nat /\ i > 0 /\ f - 1 \in Nat /\ f - 1 <= Len(str)
    BY <1>1, <1>2, <2>2
  <2>4. SubSeq(str, i, f - 1) \in Seq(Byte)
    BY <1>2, <2>3, PartOf
  <2>5. QED
    BY <2>1, <2>2, <2>4 DEF Text
<1>4. /\ \A i \in 1 .. n : piece[i] = <<SubSeq(str, i, Find(str, delim, i) - 1)>>
      /\ \A i \in 1 .. n : next[i] = Find(str, delim, i) + 1
      /\ piece = [i \in 1 .. n |-> piece[i]] /\ next = [i \in 1 .. n |-> next[i]]
  BY <1>2
<1>5. split_string_view(str, delim) =
          IF Find(str, delim, 1) > n THEN <<str>> ELSE Pieces(n, piece, next)
  BY <1>1 DEF split_string_view
<1> HIDE DEF piece, next
<1>6. /\ piece \in [1 .. n -> Seq(Text)] /\ next \in [1 .. n -> Nat]
      /\ \A i \in 1 .. n : next[i] > i
  <2>1. ASSUME NEW i \in 1 .. n PROVE piece[i] \in Seq(Text)
    <3>1. PICK t : t = SubSeq(str, i, Find(str, delim, i) - 1)
      OBVIOUS
    <3>2. t \in Text
      BY <1>3, <3>1
    <3>3. <<t>> \in Seq(Text)
      BY <3>2
    <3>4. QED
      BY <1>4, <3>1, <3>3
  <2>2. \A i \in 1 .. n : next[i] \in Nat /\ next[i] > i
    <3>1. ASSUME NEW i \in 1 .. n PROVE next[i] \in Nat /\ next[i] > i
      <4>1. PICK f : f = Find(str, delim, i)
        OBVIOUS
      <4>2. f \in i .. n + 1 /\ next[i] = f + 1
        BY <1>3, <1>4, <4>1
      <4>3. QED
        BY <4>2
    <3>2. QED
      BY <3>1
  <2>3. QED
    BY <1>4, <2>1, <2>2
<1>7. PICK from : Appends(from, Text, n, piece, next)
  <2>1. n \in Nat
    BY <1>2
  <2>2. QED
    BY <1>6, <2>1, LoopEnds
<1>8. IsLoop(from, n, piece, next)
  BY <1>7 DEF Appends
<1>9. \A i \in Nat : i > n => from[i] = <<>>
  BY <1>2, <1>8 DEF IsLoop
<1>10. ASSUME NEW i \in 1 .. n
       PROVE  from[i] = <<SubSeq(str, i, Find(str, delim, i) - 1)>>
                            \o from[Find(str, delim, i) + 1]
  <2>1. i \in Nat
    OBVIOUS
  <2>2. from[i] = piece[i] \o from[next[i]]
    BY <1>8, <2>1 DEF IsLoop
  <2>3. QED
    BY <1>4, <2>2
<1>11. Splits(from, str, delim)
  BY <1>1, <1>7, <1>9, <1>10 DEF Splits, Appends
<1>12. ASSUME Find(str, delim, 1) > n PROVE from[1] = <<str>>
  <2>1. PICK f : f = Find(str, delim, 1)
    OBVIOUS
  <2>2. 1 \in 1 .. n
    BY <1>2
  <2>3. f = n + 1
    BY <1>2, <1>3, <1>12, <2>1, <2>2
  <2>4. from[1] = <<SubSeq(str, 1, f - 1)>> \o from[f + 1]
    BY <1>10, <2>1, <2>2
  <2>5. from[f + 1] = <<>> /\ f - 1 = n
    BY <1>2, <1>9, <2>3
  <2>6. SubSeq(str, 1, n) = str
    BY <1>1, <1>2, SubSeqFull
  <2>7. from[1] = <<str>> \o <<>>
    BY <2>4, <2>5, <2>6
  <2>8. <<str>> \in Seq(Text)
    OBVIOUS
  <2>9. QED
    BY <2>7, <2>8, ConcatEmptySeq
<1>13. QED
  BY <1>5, <1>7, <1>11, <1>12 DEF Appends

\* The first two parts of a text.
LEMMA FirstParts ==
    ASSUME NEW str \in Text, NEW delim, NEW split, split = split_string_view(str, delim),
           NEW f, f = Find(str, delim, 1)
    PROVE  /\ Len(split) \in Nat /\ f \in 1 .. Len(str) + 1
           /\ split[1] = SubSeq(str, 1, f - 1)
           /\ Len(split) > 1 <=> f < Len(str)
           /\ f < Len(str) => split[2] = SubSeq(str, f + 1, Find(str, delim, f + 1) - 1)
<1>1. PICK n : n = Len(str)
  OBVIOUS
<1>2. str \in Seq(Byte) /\ n \in Nat
  BY <1>1, LenProperties DEF Text
<1>3. f \in 1 .. n + 1
  <2>1. 1 \in 1 .. Len(str) + 1 /\ Len(str) \in Nat
    BY <1>1, <1>2
  <2>2. QED
    BY <1>1, <2>1, FindPlace
<1>4. CASE str = <<>>
  <2>1. n = 0 /\ f = 1
    BY <1>1, <1>3, <1>4
  <2>2. split = <<str>>
    BY <1>1, <2>1 DEF split_string_view
  <2>3. SubSeq(str, 1, f - 1) = str
    <3>1. f - 1 = Len(str)
      BY <1>1, <2>1
    <3>2. QED
      BY <1>2, <3>1, SubSeqFull
  <2>4. Len(split) = 1 /\ split[1] = str
    BY <2>2
  <2>5. QED
    BY <1>1, <1>3, <2>1, <2>3, <2>4
<1>5. CASE str # <<>>
  <2>1. PICK S : Splits(S, str, delim) /\ split = S[1]
    BY <1>5, SplitLoop
  <2>2. \A i \in Nat : S[i] \in Seq(Text)
    BY <2>1 DEF Splits
  <2>3. n > 0 /\ 1 \in 1 .. n
    BY <1>1, <1>2, <1>5, EmptySeq
  <2>4. PICK p : p = SubSeq(str, 1, f - 1)
    OBVIOUS
  <2>5. p \in Text
    <3>1. f - 1 \in Nat /\ f - 1 <= Len(str)
      BY <1>1, <1>2, <1>3
    <3>2. QED
      BY <1>2, <2>4, <3>1, PartOf DEF Text
  <2>6. PICK r : r = S[f + 1]
    OBVIOUS
  <2>7. r \in Seq(Text) /\ split = <<p>> \o r /\ Len(r) \in Nat
    <3>1. f + 1 \in Nat
      BY <1>2, <1>3
    <3>2. r \in Seq(Text)
      BY <2>2, <2>6, <3>1
    <3>3. split = <<p>> \o r
      BY <1>1, <2>1, <2>3, <2>4, <2>6 DEF Splits
    <3>4. QED
      BY <3>2, <3>3, LenProperties
  <2>8. /\ split \in Seq(Text) /\ Len(split) = Len(r) + 1 /\ split[1] = p
        /\ \A k \in 1 .. Len(r) : split[k + 1] = r[k]
    BY <2>5, <2>7, InFront
  <2>9. ASSUME f < n
        PROVE  Len(split) > 1 /\ split[2] = SubSeq(str, f + 1, Find(str, delim, f + 1) - 1)
    <3>1. PICK q : q = SubSeq(str, f + 1, Find(str, delim, f + 1) - 1)
      OBVIOUS
    <3>2. PICK g : g = Find(str, delim, f + 1)
      OBVIOUS
    <3>3. f + 1 \in 1 .. n /\ g \in f + 1 .. n + 1
      <4>1. f + 1 \in 1 .. n /\ f + 1 \in 1 .. Len(str) + 1 /\ Len(str) \in Nat
        BY <1>1, <1>2, <1>3, <2>9
      <4>2. QED
        BY <1>1, <3>2, <4>1, FindPlace
    <3>4. q \in Text
      <4>1. /\ f + 1 \in Nat /\ f + 1 > 0 /\ g - 1 \in Nat /\ g - 1 <= Len(str)
        BY <1>1, <1>2, <1>3, <3>3
      <4>2. QED
        BY <1>2, <3>1, <3>2, <4>1, PartOf DEF Text
    <3>5. PICK t : t = S[g + 1]
      OBVIOUS
    <3>6. t \in Seq(Text) /\ r = <<q>> \o t /\ Len(t) \in Nat
      <4>1. g + 1 \in Nat
        BY <1>2, <1>3, <3>3
      <4>2. t \in Seq(Text)
        BY <2>2, <3>5, <4>1
      <4>3. r = <<q>> \o t
        BY <1>1, <2>1, <2>6, <3>1, <3>2, <3>3, <3>5 DEF Splits
      <4>4. QED
        BY <4>2, <4>3, LenProperties
    <3>7. Len(r) = Len(t) + 1 /\ r[1] = q
      BY <3>4, <3>6, InFront
    <3>8. 1 \in 1 .. Len(r) /\ 1 + 1 = 2
      BY <3>6, <3>7
    <3>9. split[2] = q
      BY <2>8, <3>7, <3>8
    <3>10. Len(split) > 1
      BY <2>8, <3>6, <3>7
    <3>11. QED
      BY <3>1, <3>9, <3>10
  <2>10. ASSUME ~ (f < n) PROVE Len(split) = 1
    <3>1. f + 1 \in Nat /\ f + 1 > n
      BY <1>2, <1>3, <2>10
    <3>2. r = <<>>
      BY <1>1, <2>1, <2>6, <3>1 DEF Splits
    <3>3. Len(r) = 0
      BY <3>2
    <3>4. QED
      BY <2>8, <3>3
  <2>11. Len(split) \in Nat
    BY <2>7, <2>8
  <2>12. QED
    BY <1>1, <1>3, <2>4, <2>8, <2>9, <2>10, <2>11
<1>6. QED
  BY <1>4, <1>5

-----------------------------------------------------------------------------
(* The parts of a query.                                                   *)

\* Where `parts' begin in a query: those from i on, the first at i itself, the
\* others behind an ampersand, in this order.
PartsFrom(start, parts, query, i) ==
    /\ start \in [1 .. Len(parts) -> i .. Len(query)]
    /\ \A k, l \in 1 .. Len(parts) : k < l => start[k] < start[l]
    /\ \A j \in i .. Len(query) :
           (j = i \/ query[j - 1] = Ampersand) <=> \E k \in 1 .. Len(parts) : start[k] = j
    /\ \A k \in 1 .. Len(parts) :
           parts[k] = SubSeq(query, start[k], Find(query, Ampersand, start[k]) - 1)

LEMMA QueryParts ==
    ASSUME NEW query \in Text, query # <<>>,
           NEW queries, queries = split_string_view(query, Ampersand)
    PROVE  queries \in Seq(Text) /\ \E start : PartsFrom(start, queries, query, 1)
<1>1. PICK S : Splits(S, query, Ampersand) /\ queries = S[1]
  BY SplitLoop
<1>2. PICK n : n = Len(query)
  OBVIOUS
<1>3. query \in Seq(Byte) /\ n \in Nat
  BY <1>2, LenProperties DEF Text
<1>4. \A i \in Nat : S[i] \in Seq(Text)
  BY <1>1 DEF Splits
<1> DEFINE A == {i \in Nat : \E start : PartsFrom(start, S[i], query, i)}
<1>5. ASSUME NEW i \in Nat, i > n PROVE i \in A
  <2>1. S[i] = <<>>
    BY <1>1, <1>2, <1>5 DEF Splits
  <2>2. Len(S[i]) = 0
    BY <2>1
  <2>3. 1 .. Len(S[i]) = {} /\ i .. Len(query) = {}
    BY <1>2, <1>3, <1>5, <2>2
  <2>4. PICK start : start = [k \in {} |-> 0]
    OBVIOUS
  <2>5. start \in [{} -> {}]
    BY <2>4
  <2>6. PartsFrom(start, S[i], query, i)
    BY <2>3, <2>5 DEF PartsFrom
  <2>7. QED
    BY <2>6
<1>6. ASSUME NEW i \in 1 .. n, \A j \in Nat : j > i => j \in A PROVE i \in A
  <2>1. PICK f : f = Find(query, Ampersand, i)
    OBVIOUS
  <2>2. /\ f \in i .. n + 1 /\ (f <= n => query[f] = Ampersand)
        /\ \A k \in i .. f - 1 : query[k] # Ampersand
    <3>1. i \in 1 .. Len(query) + 1 /\ Len(query) \in Nat
      BY <1>2, <1>3
    <3>2. QED
      BY <1>2, <2>1, <3>1, FindPlace
  <2>3. i \in Nat /\ i > 0 /\ f \in Nat /\ f + 1 \in Nat /\ f + 1 > i
    BY <1>3, <2>2
  <2>4. PICK r : r = S[f + 1]
    OBVIOUS
  <2>5. PICK st : PartsFrom(st, r, query, f + 1)
    BY <1>6, <2>3, <2>4
  <2>6. PICK p : p = SubSeq(query, i, f - 1)
    OBVIOUS
  <2>7. p \in Text
    <3>1. f - 1 \in Nat /\ f - 1 <= Len(query)
      BY <1>2, <1>3, <2>2, <2>3
    <3>2. QED
      BY <1>3, <2>3, <2>6, <3>1, PartOf DEF Text
  <2>8. PICK m : m = Len(r)
    OBVIOUS
  <2>9. r \in Seq(Text) /\ m \in Nat
    BY <1>4, <2>3, <2>4, <2>8, LenProperties
  <2>10. PICK s : s = S[i]
    OBVIOUS
  <2>11. s = <<p>> \o r
    BY <1>1, <1>2, <2>1, <2>4, <2>6, <2>10 DEF Splits
  <2>12. /\ Len(s) = m + 1 /\ s[1] = p
         /\ \A k \in 1 .. m : s[k + 1] = r[k]
    BY <2>7, <2>8, <2>9, <2>11, InFront
  <2>13. /\ \A k \in 1 .. m : st[k] \in f + 1 .. n
         /\ \A k, l \in 1 .. m : k < l => st[k] < st[l]
         /\ \A j \in f + 1 .. n :
                (j = f + 1 \/ query[j - 1] = Ampersand) <=> \E k \in 1 .. m : st[k] = j
         /\ \A k \in 1 .. m : r[k] = SubSeq(query, st[k], Find(query, Ampersand, st[k]) - 1)
    BY <1>2, <2>5, <2>8 DEF PartsFrom
  <2>14. PICK start : start = [k \in 1 .. m + 1 |-> IF k = 1 THEN i ELSE st[k - 1]]
    OBVIOUS
  <2>15. /\ start[1] = i
         /\ \A k \in 2 .. m + 1 : k - 1 \in 1 .. m /\ start[k] = st[k - 1]
    BY <2>9, <2>14
  <2>16. \A k \in 1 .. m + 1 : k = 1 \/ k \in 2 .. m + 1
    BY <2>9
  <2>17. \A k \in 1 .. m + 1 : start[k] \in i .. n
    <3>1. ASSUME NEW k \in 2 .. m + 1 PROVE start[k] \in i .. n
      BY <1>3, <2>3, <2>13, <2>15
    <3>2. QED
      BY <2>15, <2>16, <3>1
  <2>18. start \in [1 .. m + 1 -> i .. n]
    BY <2>14, <2>17
  <2>19. ASSUME NEW k \in 1 .. m + 1, NEW l \in 1 .. m + 1, k < l PROVE start[k] < start[l]
    <3>1. l \in 2 .. m + 1
      BY <2>16, <2>19
    <3>2. st[l - 1] \in f + 1 .. n /\ start[l] = st[l - 1]
      BY <2>13, <2>15, <3>1
    <3>3. CASE k = 1
      BY <1>3, <2>3, <2>15, <3>2, <3>3
    <3>4. CASE k \in 2 .. m + 1
      <4>1. k - 1 \in 1 .. m /\ l - 1 \in 1 .. m /\ start[k] = st[k - 1]
        BY <2>15, <3>1, <3>4
      <4>2. k - 1 < l - 1
        BY <2>19
      <4>3. QED
        BY <2>13, <3>2, <4>1, <4>2
    <3>5. QED
      BY <2>16, <3>3, <3>4
  <2>20. ASSUME NEW j \in i .. n
         PROVE  (j = i \/ query[j - 1] = Ampersand) <=> \E k \in 1 .. m + 1 : start[k] = j
    <3>1. CASE j = i
      <4>1. 1 \in 1 .. m + 1
        BY <2>9
      <4>2. QED
        BY <2>15, <3>1, <4>1
    <3>2. CASE j \in i + 1 .. f
      <4>1. j - 1 \in i .. f - 1 /\ j # i
        BY <2>3, <3>2
      <4>2. query[j - 1] # Ampersand
        BY <2>2, <4>1
      <4>3. ASSUME NEW k \in 1 .. m + 1 PROVE start[k] # j
        <5>1. CASE k = 1
          BY <2>15, <4>1, <5>1
        <5>2. CASE k \in 2 .. m + 1
          <6>1. start[k] \in f + 1 .. n
            BY <2>13, <2>15, <5>2
          <6>2. QED
            BY <1>3, <2>3, <3>2, <6>1
        <5>3. QED
          BY <2>16, <5>1, <5>2
      <4>4. QED
        BY <4>1, <4>2, <4>3
    <3>3. CASE j \in f + 1 .. n
      <4>1. j # i /\ (j = f + 1 => query[j - 1] = Ampersand)
        <5>1. j # i
          BY <1>3, <2>3, <3>3
        <5>2. j = f + 1 => f <= n /\ j - 1 = f
          BY <1>3, <2>3, <3>3
        <5>3. QED
          BY <2>2, <5>1, <5>2
      <4>2. j # i
        BY <1>3, <2>3, <3>3
      <4>3. (\E k \in 1 .. m : st[k] = j) <=> (\E k \in 1 .. m + 1 : start[k] = j)
        <5>1. ASSUME NEW k \in 1 .. m, st[k] = j PROVE \E l \in 1 .. m + 1 : start[l] = j
          <6>1. k + 1 \in 2 .. m + 1 /\ k + 1 \in 1 .. m + 1 /\ (k + 1) - 1 = k
            BY <2>9
          <6>2. start[k + 1] = j
            BY <2>15, <5>1, <6>1
          <6>3. QED
            BY <6>1, <6>2
        <5>2. ASSUME NEW l \in 1 .. m + 1, start[l] = j PROVE \E k \in 1 .. m : st[k] = j
          <6>1. l # 1
            BY <2>15, <4>2, <5>2
          <6>2. l \in 2 .. m + 1
            BY <2>16, <6>1
          <6>3. QED
            BY <2>15, <5>2, <6>2
        <5>3. QED
          BY <5>1, <5>2
      <4>4. QED
        BY <2>13, <3>3, <4>1, <4>2, <4>3
    <3>4. QED
      BY <1>3, <2>2, <2>3, <3>1, <3>2, <3>3
  <2>21. ASSUME NEW k \in 1 .. m + 1
         PROVE  s[k] = SubSeq(query, start[k], Find(query, Ampersand, start[k]) - 1)
    <3>1. CASE k = 1
      BY <2>1, <2>6, <2>12, <2>15, <3>1
    <3>2. CASE k \in 2 .. m + 1
      <4>1. k - 1 \in 1 .. m /\ (k - 1) + 1 = k /\ start[k] = st[k - 1]
        BY <2>15, <3>2
      <4>2. s[k] = r[k - 1]
        BY <2>12, <4>1
      <4>3. QED
        BY <2>13, <4>1, <4>2
    <3>3. QED
      BY <2>16, <3>1, <3>2
  <2>22. PartsFrom(start, s, query, i)
    BY <1>2, <2>12, <2>18, <2>19, <2>20, <2>21 DEF PartsFrom
  <2>23. QED
    BY <2>3, <2>10, <2>22
<1> HIDE DEF A
<1>7. \A i \in Nat : i > 0 => i \in A
  BY <1>3, <1>5, <1>6, Backwards
<1>8. 1 \in A
  BY <1>7
<1>9. QED
  BY <1>1, <1>4, <1>8 DEF A

\* The part p of a query that begins at s and ends before f.
QueryPart(query, s, f, p) ==
    /\ f = Find(query, Ampersand, s) /\ p = SubSeq(query, s, f - 1)
    /\ f \in s .. Len(query) + 1 /\ (f <= Len(query) => query[f] = Ampersand)
    /\ \A k \in s .. f - 1 : query[k] # Ampersand
    /\ p \in Text /\ Len(p) = f - s
    /\ \A k \in 1 .. f - s : p[k] = query[s + k - 1]
    /\ \A g \in 1 .. (f - s) + 1 :
           End(query, s + g - 1, {Ampersand, Equals}) = s + Find(p, Equals, g) - 2

\* In a part of a query, the next '=' or its end is where the query has its next '='
\* or '&', or ends.
LEMMA PlaceInPart ==
    ASSUME NEW query \in Text, NEW s \in 1 .. Len(query)
    PROVE  \E f, p : QueryPart(query, s, f, p)
<1>0. PICK f, p : f = Find(query, Ampersand, s) /\ p = SubSeq(query, s, f - 1)
  OBVIOUS
<1>1. PICK n : n = Len(query)
  OBVIOUS
<1>2. query \in Seq(Byte) /\ n \in Nat
  BY <1>1, LenProperties DEF Text
<1>3. s \in Nat /\ s > 0
  OBVIOUS
<1>4. /\ f \in s .. n + 1 /\ (f <= n => query[f] = Ampersand)
      /\ \A k \in s .. f - 1 : k <= n /\ query[k] # Ampersand
  <2>1. s \in 1 .. Len(query) + 1 /\ Len(query) \in Nat
    BY <1>1, <1>2
  <2>2. QED
    BY <1>0, <1>1, <2>1, FindPlace
<1>5. /\ p \in Seq(Byte) /\ Len(p) = f - s
      /\ \A k \in 1 .. f - s : p[k] = query[s + k - 1]
  <2>1. f - 1 \in Nat /\ f - 1 <= Len(query) /\ ((f - 1) - s) + 1 = f - s
    BY <1>1, <1>2, <1>3, <1>4
  <2>2. /\ p \in Seq(Byte) /\ Len(p) = IF s <= f - 1 THEN ((f - 1) - s) + 1 ELSE 0
        /\ \A k \in 1 .. ((f - 1) - s) + 1 : p[k] = query[s + k - 1]
    BY <1>0, <1>2, <1>3, <2>1, PartOf
  <2>3. Len(p) = f - s
    BY <1>2, <1>3, <1>4, <2>1, <2>2
  <2>4. QED
    BY <2>1, <2>2, <2>3
<1>6. ASSUME NEW g \in 1 .. (f - s) + 1
      PROVE  End(query, s + g - 1, {Ampersand, Equals}) = s + Find(p, Equals, g) - 2
  <2>1. PICK h, m : h = Find(p, Equals, g) /\ m = f - s
    OBVIOUS
  <2>2. m \in Nat /\ Len(p) = m /\ g \in Nat /\ g > 0 /\ g <= m + 1
    BY <1>2, <1>3, <1>4, <1>5, <2>1
  <2>3. /\ h \in g .. m + 1 /\ (h <= m => p[h] = Equals)
        /\ \A k \in g .. h - 1 : k <= m /\ p[k] # Equals
    <3>1. g \in 1 .. Len(p) + 1 /\ Len(p) \in Nat
      <4>1. g \in 1 .. m + 1
        BY <2>2
      <4>2. QED
        BY <2>2, <4>1
    <3>2. /\ Find(p, Equals, g) \in g .. Len(p) + 1
          /\ Find(p, Equals, g) <= Len(p) => p[Find(p, Equals, g)] = Equals
          /\ \A k \in g .. Find(p, Equals, g) - 1 : k <= Len(p) /\ p[k] # Equals
      BY <3>1, FindPlace
    <3>3. QED
      BY <2>1, <2>2, <3>2
  <2>4. PICK i, e : i = s + g - 1 /\ e = s + h - 1
    OBVIOUS
  <2>5. i \in 1 .. Len(query) + 2 /\ e \in i .. Len(query) + 2 /\ Len(query) \in Nat
        /\ e <= f
    <3>1. h \in Nat /\ h >= g /\ h <= m + 1 /\ s <= f /\ f <= n + 1 /\ m = f - s
      BY <1>2, <1>3, <1>4, <2>1, <2>2, <2>3
    <3>2. i \in 1 .. n + 2 /\ e \in i .. n + 2 /\ e <= f
      BY <1>2, <1>3, <1>4, <2>2, <2>4, <3>1
    <3>3. QED
      BY <1>1, <1>2, <3>2
  <2>6. e > Len(query) \/ query[e] \in {Ampersand, Equals}
    <3>1. CASE h <= m
      <4>1. h \in 1 .. f - s /\ s + h - 1 = e
        BY <2>1, <2>2, <2>3, <2>4, <3>1
      <4>2. query[e] = Equals
        BY <1>5, <2>3, <3>1, <4>1
      <4>3. QED
        BY <4>2
    <3>2. CASE ~ (h <= m)
      <4>1. e = f
        BY <1>2, <1>3, <1>4, <2>1, <2>2, <2>3, <2>4, <3>2
      <4>2. QED
        BY <1>1, <1>2, <1>4, <4>1
    <3>3. QED
      BY <3>1, <3>2
  <2>7. ASSUME NEW k \in i .. e - 1
        PROVE  k <= Len(query) /\ query[k] \notin {Ampersand, Equals}
    <3>1. k \in s .. f - 1
      BY <1>2, <1>3, <1>4, <2>2, <2>3, <2>4, <2>5
    <3>2. PICK l : l = k - s + 1
      OBVIOUS
    <3>3. l \in g .. h - 1 /\ l \in 1 .. f - s /\ s + l - 1 = k
      BY <1>2, <1>3, <1>4, <2>2, <2>3, <2>4, <3>1, <3>2
    <3>4. p[l] # Equals /\ p[l] = query[k]
      BY <1>5, <2>3, <3>3
    <3>5. QED
      BY <1>1, <1>4, <3>1, <3>4
  <2>8. End(query, i, {Ampersand, Equals}) = e - 1
    BY <2>5, <2>6, <2>7, EndPlace
  <2>9. e - 1 = s + h - 2
    BY <1>3, <2>2, <2>3, <2>4
  <2>10. QED
    BY <2>1, <2>4, <2>8, <2>9
<1>7. /\ f \in s .. Len(query) + 1 /\ (f <= Len(query) => query[f] = Ampersand)
      /\ \A k \in s .. f - 1 : query[k] # Ampersand
  BY <1>1, <1>4
<1>8. p \in Text /\ Len(p) = f - s
  BY <1>5 DEF Text
<1>9. \A k \in 1 .. f - s : p[k] = query[s + k - 1]
  BY <1>5
<1>10. QueryPart(query, s, f, p)
  BY <1>0, <1>6, <1>7, <1>8, <1>9 DEF QueryPart
<1>11. QED
  BY <1>10

\* Of a part of a query, what split_string_view makes is its key and its value; the
\* part has both just where the reference finds a part with a value.
LEMMA KeyAndValue ==
    ASSUME NEW query \in Text, NEW s \in 1 .. Len(query), s = 1 \/ query[s - 1] = Ampersand
    PROVE  \E p, split :
               /\ p = SubSeq(query, s, Find(query, Ampersand, s) - 1)
               /\ split = split_string_view(p, Equals)
               /\ Len(split) \in Nat
               /\ Len(split) > 1 <=> s \in ValuedParts(query)
               /\ Len(split) > 1 => split[1] = Key(query, s) /\ split[2] = Value(query, s)
<1>0. PICK f, p : QueryPart(query, s, f, p)
  BY PlaceInPart
<1>1. PICK n, split : n = Len(query) /\ split = split_string_view(p, Equals)
  OBVIOUS
<1>2. query \in Seq(Byte) /\ n \in Nat /\ s \in Nat /\ s > 0 /\ s <= n
  BY <1>1, LenProperties DEF Text
<1>3. /\ f \in s .. n + 1
      /\ f <= n => query[f] = Ampersand
      /\ \A k \in s .. f - 1 : query[k] # Ampersand
      /\ Len(p) = f - s
      /\ \A k \in 1 .. f - s : p[k] = query[s + k - 1]
      /\ \A g \in 1 .. (f - s) + 1 :
             End(query, s + g - 1, {Ampersand, Equals}) = s + Find(p, Equals, g) - 2
  BY <1>0, <1>1 DEF QueryPart
<1>4. PICK m : m = f - s
  OBVIOUS
<1>5. p \in Text /\ m \in Nat /\ Len(p) = m /\ f = s + m
  <2>1. p \in Text
    BY <1>0 DEF QueryPart
  <2>2. f \in s .. n + 1
    BY <1>3
  <2>3. m \in Nat /\ f = s + m
    BY <1>2, <1>4, <2>2
  <2>4. QED
    BY <1>3, <1>4, <2>1, <2>3
<1>6. PICK g : g = Find(p, Equals, 1)
  OBVIOUS
<1>7. /\ g \in 1 .. m + 1 /\ (g <= m => p[g] = Equals)
      /\ \A k \in 1 .. g - 1 : p[k] # Equals
  <2>1. 1 \in 1 .. Len(p) + 1 /\ Len(p) \in Nat
    BY <1>5
  <2>2. /\ Find(p, Equals, 1) \in 1 .. Len(p) + 1
        /\ Find(p, Equals, 1) <= Len(p) => p[Find(p, Equals, 1)] = Equals
        /\ \A k \in 1 .. Find(p, Equals, 1) - 1 : k <= Len(p) /\ p[k] # Equals
    BY <2>1, FindPlace
  <2>3. QED
    BY <1>5, <1>6, <2>2
<1>8. /\ Len(split) \in Nat /\ split[1] = SubSeq(p, 1, g - 1)
      /\ Len(split) > 1 <=> g < m
      /\ g < m => split[2] = SubSeq(p, g + 1, Find(p, Equals, g + 1) - 1)
  <2>1. /\ Len(split) \in Nat /\ split[1] = SubSeq(p, 1, g - 1)
        /\ Len(split) > 1 <=> g < Len(p)
        /\ g < Len(p) => split[2] = SubSeq(p, g + 1, Find(p, Equals, g + 1) - 1)
    <3>1. split = split_string_view(p, Equals)
      BY <1>1
    <3>2. QED
      BY <1>5, <1>6, <3>1, FirstParts
  <2>2. QED
    BY <1>5, <2>1
<1>9. PICK eq : eq = End(query, s, {Ampersand, Equals}) + 1
  OBVIOUS
<1>10. eq = s + g - 1
  <2>1. 1 \in 1 .. (f - s) + 1 /\ s + 1 - 1 = s
    BY <1>2, <1>4, <1>5
  <2>2. End(query, s, {Ampersand, Equals}) = s + g - 2
    BY <1>3, <1>6, <2>1
  <2>3. QED
    BY <1>2, <1>7, <1>9, <2>2
<1>11. s \in ValuedParts(query) <=> eq < n /\ query[eq] = Equals /\ query[eq + 1] # Ampersand
  BY <1>1, <1>9 DEF ValuedParts
<1>12. ASSUME g < m
       PROVE  /\ eq < n /\ query[eq] = Equals /\ query[eq + 1] # Ampersand
              /\ split[1] = Key(query, s) /\ split[2] = Value(query, s)
  <2>1. eq < n /\ eq + 1 \in s .. f - 1 /\ g \in 1 .. f - s /\ g + 1 \in 1 .. (f - s) + 1
    BY <1>2, <1>3, <1>5, <1>7, <1>10, <1>12
  <2>2. query[eq] = Equals
    <3>1. p[g] = query[s + g - 1]
      BY <1>3, <2>1
    <3>2. p[g] = Equals
      BY <1>5, <1>7, <1>12
    <3>3. QED
      BY <1>10, <3>1, <3>2
  <2>3. query[eq + 1] # Ampersand
    BY <1>3, <2>1
  <2>4. End(query, s, {Equals}) = eq - 1
    <3>1. s \in 1 .. Len(query) + 2 /\ eq \in s .. Len(query) + 2 /\ Len(query) \in Nat
      BY <1>1, <1>2, <1>7, <1>10, <2>1
    <3>2. eq > Len(query) \/ query[eq] \in {Equals}
      BY <2>2
    <3>3. ASSUME NEW k \in s .. eq - 1 PROVE k <= Len(query) /\ query[k] \notin {Equals}
      <4>1. PICK l : l = k - s + 1
        OBVIOUS
      <4>2. l \in 1 .. g - 1 /\ l \in 1 .. f - s /\ s + l - 1 = k /\ k <= n
        BY <1>2, <1>3, <1>5, <1>7, <1>10, <1>12, <4>1
      <4>3. p[l] # Equals /\ p[l] = query[k]
        BY <1>3, <1>7, <4>2
      <4>4. QED
        BY <1>1, <4>2, <4>3
    <3>4. QED
      BY <3>1, <3>2, <3>3, EndPlace
  <2>5. split[1] = Key(query, s)
    <3>1. /\ f \in Nat /\ f <= Len(query) + 1 /\ s <= f
          /\ 1 \in Nat /\ 1 > 0 /\ g \in Nat /\ 1 <= g /\ g <= (f - s) + 1
      BY <1>1, <1>2, <1>3, <1>4, <1>5, <1>7
    <3>2. SubSeq(SubSeq(query, s, f - 1), 1, g - 1) = SubSeq(query, s + 1 - 1, s + g - 2)
      BY <1>2, <3>1, PartOfPart
    <3>3. s + 1 - 1 = s /\ s + g - 2 = eq - 1
      BY <1>2, <1>7, <1>10
    <3>4. split[1] = SubSeq(query, s, eq - 1)
      BY <1>0, <1>1, <1>8, <3>2, <3>3 DEF QueryPart
    <3>5. QED
      BY <2>4, <3>4 DEF Key
  <2>6. split[2] = Value(query, s)
    <3>1. PICK h : h = Find(p, Equals, g + 1)
      OBVIOUS
    <3>2. h \in g + 1 .. m + 1
      <4>1. g + 1 \in 1 .. Len(p) + 1 /\ Len(p) \in Nat
        BY <1>5, <1>7, <1>12
      <4>2. Find(p, Equals, g + 1) \in g + 1 .. Len(p) + 1
        BY <4>1, FindPlace
      <4>3. QED
        BY <1>5, <3>1, <4>2
    <3>3. End(query, s + (g + 1) - 1, {Ampersand, Equals}) = s + h - 2
      BY <1>3, <2>1, <3>1
    <3>4. s + (g + 1) - 1 = eq + 1
      BY <1>2, <1>7, <1>10
    <3>5. End(query, eq + 1, {Ampersand, Equals}) = s + h - 2
      BY <3>3, <3>4
    <3>6. End(query, s, {Equals}) + 2 = eq + 1
      BY <1>2, <1>7, <1>10, <2>4
    <3>7. Value(query, s) = SubSeq(query, eq + 1, s + h - 2)
      BY <3>5, <3>6 DEF Value
    <3>8. /\ f \in Nat /\ f <= Len(query) + 1 /\ s <= f
          /\ g + 1 \in Nat /\ g + 1 > 0 /\ h \in Nat /\ g + 1 <= h /\ h <= (f - s) + 1
      BY <1>1, <1>2, <1>3, <1>4, <1>5, <1>7, <3>2
    <3>9. SubSeq(SubSeq(query, s, f - 1), g + 1, h - 1) = SubSeq(query, s + (g + 1) - 1, s + h - 2)
      <4>1. PICK j : j = g + 1
        OBVIOUS
      <4>2. SubSeq(SubSeq(query, s, f - 1), j, h - 1) = SubSeq(query, s + j - 1, s + h - 2)
        <5>1. j \in Nat /\ j > 0 /\ j <= h
          BY <3>8, <4>1
        <5>2. QED
          BY <1>2, <3>8, <5>1, PartOfPart
      <4>3. QED
        BY <4>1, <4>2
    <3>10. split[2] = SubSeq(SubSeq(query, s, f - 1), g + 1, h - 1)
      BY <1>0, <1>1, <1>8, <1>12, <3>1 DEF QueryPart
    <3>11. QED
      BY <3>4, <3>7, <3>9, <3>10
  <2>7. QED
    BY <2>1, <2>2, <2>3, <2>5, <2>6
<1>13. ASSUME eq < n, query[eq] = Equals, query[eq + 1] # Ampersand PROVE g < m
  <2>1. eq # f
    <3>1. Equals # Ampersand
      BY DEF Equals, Ampersand
    <3>2. QED
      BY <1>2, <1>3, <1>13, <3>1
  <2>2. eq + 1 # f
    <3>1. SUFFICES ASSUME eq + 1 = f PROVE FALSE
      OBVIOUS
    <3>2. eq \in Nat
      BY <1>2, <1>7, <1>10
    <3>3. f <= n
      BY <1>2, <1>13, <3>1, <3>2
    <3>4. QED
      BY <1>3, <1>13, <3>1, <3>3
  <2>3. QED
    BY <1>2, <1>5, <1>7, <1>10, <2>1, <2>2
<1>14. /\ p = SubSeq(query, s, Find(query, Ampersand, s) - 1)
       /\ split = split_string_view(p, Equals)
  BY <1>0, <1>1 DEF QueryPart
<1>15. QED
  BY <1>8, <1>11, <1>12, <1>13, <1>14

-----------------------------------------------------------------------------
(* The map of a query.                                                     *)

\* Emplaced, where the first part is new or not, or has no value.
LEMMA EmplacedMap ==
    ASSUME NEW result, NEW split
    PROVE  /\ ~ (Len(split) > 1) /\ Len(split) \in Nat => Emplaced(result, split) = result
           /\ Len(split) > 1 /\ Len(split) \in Nat =>
                  /\ \A key : key \in DOMAIN Emplaced(result, split)
                                  <=> key \in DOMAIN result \/ key = split[1]
                  /\ \A key \in DOMAIN result : Emplaced(result, split)[key] = result[key]
                  /\ split[1] \notin DOMAIN result =>
                         Emplaced(result, split)[split[1]] = split[2]
<1>1. PICK len : len = Len(split)
  OBVIOUS
<1>2. ASSUME len \in Nat, ~ (len > 1) PROVE Emplaced(result, split) = result
  BY <1>1, <1>2 DEF Emplaced
<1>3. ASSUME len \in Nat, len > 1
      PROVE  /\ \A key : key \in DOMAIN Emplaced(result, split)
                             <=> key \in DOMAIN result \/ key = split[1]
             /\ \A key \in DOMAIN result : Emplaced(result, split)[key] = result[key]
             /\ split[1] \notin DOMAIN result =>
                    Emplaced(result, split)[split[1]] = split[2]
  <2>1. PICK a, b : a = split[1] /\ b = split[2]
    OBVIOUS
  <2>2. PICK e : e = Emplaced(result, split)
    OBVIOUS
  <2>3. e = [x \in DOMAIN result \cup {a} |-> IF x \in DOMAIN result THEN result[x] ELSE b]
    <3>1. ~ (len < 2)
      BY <1>3
    <3>2. QED
      BY <1>1, <2>1, <2>2, <3>1 DEF Emplaced
  <2>4. /\ DOMAIN e = DOMAIN result \cup {a}
        /\ \A x \in DOMAIN result : e[x] = result[x]
        /\ a \notin DOMAIN result => e[a] = b
    BY <2>3
  <2>5. QED
    BY <2>1, <2>2, <2>4
<1>4. QED
  BY <1>1, <1>2, <1>3

\* The loop of split_optional_queries has a result.
LEMMA ResultsExist ==
    ASSUME NEW queries
    PROVE  \A m \in Nat : \E r :
               r = [k \in 0 .. m |-> IF k = 0 THEN <<>>
                                     ELSE Emplaced(r[k - 1], split_string_view(queries[k], Equals))]
<1> DEFINE Body(r, k) == IF k = 0 THEN <<>>
                         ELSE Emplaced(r[k - 1], split_string_view(queries[k], Equals))
           B == {m \in Nat : \E r : r = [k \in 0 .. m |-> Body(r, k)]}
<1>a. \A r, s, k : r[k - 1] = s[k - 1] => Body(r, k) = Body(s, k)
  OBVIOUS
<1>b. \A r, s : Body(r, 0) = Body(s, 0)
  OBVIOUS
<1>1. 0 \in B
  <2>1. PICK r : r = [k \in 0 .. 0 |-> <<>>]
    OBVIOUS
  <2>2. r = [k \in 0 .. 0 |-> Body(r, k)]
    BY <2>1
  <2> HIDE DEF Body
  <2>3. QED
    BY <2>2
<1> HIDE DEF Body
<1>2. ASSUME NEW m \in Nat, m \in B PROVE m + 1 \in B
  <2>1. PICK r : r = [k \in 0 .. m |-> Body(r, k)]
    BY <1>2
  <2>2. PICK s : s = [k \in 0 .. m + 1 |-> IF k <= m THEN r[k] ELSE Body(r, k)]
    OBVIOUS
  <2>3. ASSUME NEW k \in 0 .. m + 1 PROVE s[k] = Body(s, k)
    <3>1. s[k] = Body(r, k)
      <4>1. CASE k <= m
        <5>1. k \in 0 .. m
          BY <4>1
        <5>2. r[k] = Body(r, k)
          BY <2>1, <5>1
        <5>3. QED
          BY <2>2, <4>1, <5>2
      <4>2. CASE ~ (k <= m)
        BY <2>2, <4>2
      <4>3. QED
        BY <4>1, <4>2
    <3>2. CASE k = 0
      BY <1>b, <3>1, <3>2
    <3>3. CASE k # 0
      <4>1. k - 1 \in 0 .. m + 1 /\ k - 1 <= m
        BY <3>3
      <4>2. s[k - 1] = r[k - 1]
        BY <2>2, <4>1
      <4>3. QED
        BY <1>a, <3>1, <4>2
    <3>4. QED
      BY <3>2, <3>3
  <2>4. s = [k \in 0 .. m + 1 |-> s[k]]
    BY <2>2
  <2>5. s = [k \in 0 .. m + 1 |-> Body(s, k)]
    BY <2>3, <2>4
  <2>6. QED
    BY <2>5
<1>3. \A m \in Nat : m \in B
  <2> HIDE DEF B
  <2>1. QED
    BY <1>1, <1>2, Induction
<1>4. QED
  BY <1>3 DEF Body

\* split_optional_queries is the map of the first value of each key.
LEMMA QueryMap ==
    ASSUME NEW query \in Text
    PROVE  /\ DOMAIN split_optional_queries(query)
                  = {Key(query, i) : i \in ValuedParts(query)}
           /\ \A key \in DOMAIN split_optional_queries(query) :
                  split_optional_queries(query)[key]
                      = Value(query, Min({i \in ValuedParts(query) : Key(query, i) = key}))
<1>1. PICK n, V : n = Len(query) /\ V = ValuedParts(query)
  OBVIOUS
<1>2. n \in Nat
  BY <1>1, LenProperties DEF Text
<1>3. \A i \in V : i \in 1 .. n /\ (i = 1 \/ query[i - 1] = Ampersand)
  BY <1>1 DEF ValuedParts
<1>4. CASE query = <<>>
  <2>1. split_optional_queries(query) = <<>>
    BY <1>4 DEF split_optional_queries
  <2>2. n = 0
    BY <1>1, <1>4
  <2>3. V = {}
    BY <1>3, <2>2
  <2>4. DOMAIN <<>> = {}
    OBVIOUS
  <2>5. QED
    BY <1>1, <2>1, <2>3, <2>4
<1>5. CASE query # <<>>
  <2>1. PICK queries : queries = split_string_view(query, Ampersand)
    OBVIOUS
  <2>2. PICK st : PartsFrom(st, queries, query, 1)
    BY <1>5, <2>1, QueryParts
  <2>3. PICK m : m = Len(queries)
    OBVIOUS
  <2>4. m \in Nat
    <3>1. queries \in Seq(Text)
      BY <1>5, <2>1, QueryParts
    <3>2. QED
      BY <2>3, <3>1, LenProperties
  <2>5. /\ \A k \in 1 .. m : st[k] \in 1 .. n
        /\ \A k, l \in 1 .. m : k < l => st[k] < st[l]
        /\ \A j \in 1 .. n :
               (j = 1 \/ query[j - 1] = Ampersand) <=> \E k \in 1 .. m : st[k] = j
        /\ \A k \in 1 .. m :
               queries[k] = SubSeq(query, st[k], Find(query, Ampersand, st[k]) - 1)
    BY <1>1, <2>2, <2>3 DEF PartsFrom
  <2>6. PICK r : /\ split_optional_queries(query) = r[m]
                 /\ r[0] = <<>>
                 /\ \A k \in 1 .. m :
                        r[k] = Emplaced(r[k - 1], split_string_view(queries[k], Equals))
    <3> DEFINE Body(f, k) == IF k = 0 THEN <<>>
                             ELSE Emplaced(f[k - 1], split_string_view(queries[k], Equals))
               r == CHOOSE f : f = [k \in 0 .. m |-> Body(f, k)]
    <3>1. split_optional_queries(query) = r[m]
      BY <1>5, <2>1, <2>3 DEF split_optional_queries
    <3>2. \E f : f = [k \in 0 .. m |-> Body(f, k)]
      BY <2>4, ResultsExist
    <3>3. r = [k \in 0 .. m |-> Body(r, k)]
      BY <3>2
    <3> HIDE DEF r
    <3>4. ASSUME NEW k \in 0 .. m PROVE r[k] = Body(r, k)
      <4> HIDE DEF Body
      <4>1. QED
        BY <3>3
    <3>5. r[0] = <<>>
      <4>1. 0 \in 0 .. m
        BY <2>4
      <4>2. r[0] = Body(r, 0)
        BY <3>4, <4>1
      <4>3. QED
        BY <4>2
    <3>6. ASSUME NEW k \in 1 .. m
          PROVE  r[k] = Emplaced(r[k - 1], split_string_view(queries[k], Equals))
      <4>1. k \in 0 .. m /\ k # 0
        BY <2>4
      <4>2. r[k] = Body(r, k)
        BY <3>4, <4>1
      <4>3. QED
        BY <4>1, <4>2
    <3>7. QED
      BY <3>1, <3>5, <3>6
  <2> DEFINE Valued(k) == st[k] \in V
             KeyOf(k) == Key(query, st[k])
             ValueOf(k) == Value(query, st[k])
             Has(k) == \A key : key \in DOMAIN r[k]
                                    <=> \E j \in 1 .. k : Valued(j) /\ KeyOf(j) = key
             Firsts(k) == \A j \in 1 .. k :
                              Valued(j) /\ (\A l \in 1 .. j - 1 : Valued(l) => KeyOf(l) # KeyOf(j))
                                  => r[k][KeyOf(j)] = ValueOf(j)
  <2>7. ASSUME NEW k \in 1 .. m
        PROVE  /\ ~ Valued(k) => r[k] = r[k - 1]
               /\ Valued(k) => /\ \A key : key \in DOMAIN r[k]
                                               <=> key \in DOMAIN r[k - 1] \/ key = KeyOf(k)
                               /\ \A key \in DOMAIN r[k - 1] : r[k][key] = r[k - 1][key]
                               /\ KeyOf(k) \notin DOMAIN r[k - 1] =>
                                      r[k][KeyOf(k)] = ValueOf(k)
    <3>1. PICK s : s = st[k]
      OBVIOUS
    <3>2. s \in 1 .. n
      BY <2>5, <3>1
    <3>3. s \in 1 .. Len(query) /\ (s = 1 \/ query[s - 1] = Ampersand)
      BY <1>1, <2>5, <3>1, <3>2
    <3>4. PICK p, split :
              /\ p = SubSeq(query, s, Find(query, Ampersand, s) - 1)
              /\ split = split_string_view(p, Equals)
              /\ Len(split) \in Nat
              /\ Len(split) > 1 <=> s \in ValuedParts(query)
              /\ Len(split) > 1 => split[1] = Key(query, s) /\ split[2] = Value(query, s)
      BY <3>3, KeyAndValue
    <3>5. queries[k] = p
      BY <2>5, <3>1, <3>4
    <3>6. r[k] = Emplaced(r[k - 1], split)
      BY <2>6, <3>4, <3>5
    <3>7. /\ Len(split) \in Nat
          /\ Len(split) > 1 <=> Valued(k)
          /\ Valued(k) => split[1] = KeyOf(k) /\ split[2] = ValueOf(k)
      BY <1>1, <3>1, <3>4
    <3> HIDE DEF Valued, KeyOf, ValueOf
    <3>8. PICK old : old = r[k - 1]
      OBVIOUS
    <3>9. r[k] = Emplaced(old, split)
      BY <3>6, <3>8
    <3>10. CASE ~ Valued(k)
      BY <3>7, <3>8, <3>9, <3>10, EmplacedMap
    <3>11. CASE Valued(k)
      <4>1. Len(split) > 1 /\ Len(split) \in Nat
        BY <3>7, <3>11
      <4>2. /\ \A key : key \in DOMAIN r[k] <=> key \in DOMAIN old \/ key = split[1]
            /\ \A key \in DOMAIN old : r[k][key] = old[key]
            /\ split[1] \notin DOMAIN old => r[k][split[1]] = split[2]
        BY <3>9, <4>1, EmplacedMap
      <4>3. QED
        BY <3>7, <3>8, <3>11, <4>2
    <3>12. QED
      BY <3>10, <3>11
  <2> HIDE DEF Valued, KeyOf, ValueOf
  <2> DEFINE B == {k \in Nat : k <= m => Has(k) /\ Firsts(k)}
  <2>8. 0 \in B
    <3>1. DOMAIN r[0] = {}
      BY <2>6
    <3>2. 1 .. 0 = {}
      OBVIOUS
    <3>3. QED
      BY <3>1, <3>2
  <2>9. ASSUME NEW i \in Nat, i \in B PROVE i + 1 \in B
    <3>1. SUFFICES ASSUME i + 1 <= m PROVE Has(i + 1) /\ Firsts(i + 1)
      OBVIOUS
    <3>2. PICK k : k = i + 1
      OBVIOUS
    <3>3. k \in 1 .. m /\ k - 1 = i /\ i <= m /\ 1 .. k - 1 = 1 .. i /\ 1 .. k = (1 .. i) \cup {k}
      BY <2>4, <3>1, <3>2
    <3>4. Has(i) /\ Firsts(i)
      BY <2>9, <3>3
    <3>5. /\ ~ Valued(k) => r[k] = r[i]
          /\ Valued(k) => /\ \A key : key \in DOMAIN r[k] <=> key \in DOMAIN r[i] \/ key = KeyOf(k)
                          /\ \A key \in DOMAIN r[i] : r[k][key] = r[i][key]
                          /\ KeyOf(k) \notin DOMAIN r[i] => r[k][KeyOf(k)] = ValueOf(k)
      BY <2>7, <3>3
    <3>6. Has(k)
      <4>1. CASE Valued(k)
        BY <3>3, <3>4, <3>5, <4>1
      <4>2. CASE ~ Valued(k)
        BY <3>3, <3>4, <3>5, <4>2
      <4>3. QED
        BY <4>1, <4>2
    <3>7. ASSUME NEW j \in 1 .. k, Valued(j),
                 \A l \in 1 .. j - 1 : Valued(l) => KeyOf(l) # KeyOf(j)
          PROVE  r[k][KeyOf(j)] = ValueOf(j)
      <4>1. CASE j = k
        <5>1. KeyOf(k) \notin DOMAIN r[i]
          BY <3>3, <3>4, <3>7, <4>1
        <5>2. QED
          BY <3>5, <3>7, <4>1, <5>1
      <4>2. CASE j \in 1 .. i
        <5>1. KeyOf(j) \in DOMAIN r[i] /\ r[i][KeyOf(j)] = ValueOf(j)
          BY <3>4, <3>7, <4>2
        <5>2. r[k][KeyOf(j)] = r[i][KeyOf(j)]
          BY <3>5, <5>1
        <5>3. QED
          BY <5>1, <5>2
      <4>3. QED
        BY <3>3, <4>1, <4>2
    <3>8. QED
      BY <3>2, <3>6, <3>7
  <2>10. Has(m) /\ Firsts(m)
    <3> HIDE DEF B
    <3>1. m \in B
      BY <2>4, <2>8, <2>9, Induction
    <3>2. QED
      BY <2>4, <3>1 DEF B
  <2>11. PICK map : map = split_optional_queries(query) /\ map = r[m]
    BY <2>6
  <2>12. \A k \in 1 .. m : st[k] \in 1 .. n
    BY <2>5
  <2>13. \A i \in V : \E k \in 1 .. m : st[k] = i
    BY <1>3, <2>5
  <2>14. \A k \in 1 .. m : Valued(k) <=> st[k] \in V
    BY DEF Valued
  <2>15. \A k \in 1 .. m : KeyOf(k) = Key(query, st[k]) /\ ValueOf(k) = Value(query, st[k])
    BY DEF KeyOf, ValueOf
  <2>16. DOMAIN map = {Key(query, i) : i \in V}
    <3>1. \A key : key \in DOMAIN map <=> \E j \in 1 .. m : Valued(j) /\ KeyOf(j) = key
      BY <2>10, <2>11
    <3>2. \A key : key \in {Key(query, i) : i \in V} <=> \E i \in V : Key(query, i) = key
      OBVIOUS
    <3>3. \A key : (\E i \in V : Key(query, i) = key)
                       <=> \E j \in 1 .. m : Valued(j) /\ KeyOf(j) = key
      BY <2>13, <2>14, <2>15
    <3>4. QED
      BY <3>1, <3>2, <3>3
  <2>17. ASSUME NEW key \in DOMAIN map
         PROVE  map[key] = Value(query, Min({i \in V : Key(query, i) = key}))
    <3> DEFINE I == {i \in V : Key(query, i) = key}
    <3>1. PICK i0 : i0 = Min(I)
      OBVIOUS
    <3>2. I \in SUBSET Nat /\ I # {}
      BY <1>3, <2>16, <2>17
    <3>3. i0 \in I /\ \A i \in I : i0 <= i
      <4> HIDE DEF I
      <4>1. QED
        BY <3>1, <3>2, MinOfNaturals
    <3>4. i0 \in V /\ Key(query, i0) = key
      BY <3>3
    <3>5. PICK j \in 1 .. m : st[j] = i0
      BY <2>13, <3>4
    <3>6. Valued(j) /\ KeyOf(j) = key /\ ValueOf(j) = Value(query, i0)
      BY <2>14, <2>15, <3>4, <3>5
    <3>7. ASSUME NEW l \in 1 .. j - 1, Valued(l) PROVE KeyOf(l) # KeyOf(j)
      <4>1. l \in 1 .. m /\ l < j
        BY <2>4
      <4>2. st[l] \in 1 .. n /\ st[j] \in 1 .. n /\ st[l] < st[j]
        BY <2>5, <4>1
      <4>3. st[l] \notin I
        BY <3>3, <3>5, <4>2
      <4>4. QED
        BY <2>14, <2>15, <3>6, <3>7, <4>1, <4>3
    <3>8. map[key] = ValueOf(j)
      BY <2>10, <2>11, <3>6, <3>7
    <3>9. QED
      BY <3>1, <3>6, <3>8
  <2>18. QED
    BY <1>1, <2>11, <2>16, <2>17
<1>6. QED
  BY <1>4, <1>5

-----------------------------------------------------------------------------
(* Routing.                                                                *)

\* What a target that decodes to `text' is split into: the path before its first
\* question mark, and the query between that and the next one.
LEMMA PathAndQuery ==
    ASSUME NEW text \in Text, NEW end, end = End(text, 1, {QuestionMark}),
           NEW split, split = split_string_view(text, QuestionMark)
    PROVE  /\ split[1] = SubSeq(text, 1, end)
           /\ (IF Len(split) > 1 THEN split[2] ELSE <<>>)
                  = SubSeq(text, end + 2, End(text, end + 2, {QuestionMark}))
           /\ SubSeq(text, end + 2, End(text, end + 2, {QuestionMark})) \in Text
           /\ text = <<>> => SubSeq(text, end + 2, End(text, end + 2, {QuestionMark})) = <<>>
<1>1. PICK n, f : n = Len(text) /\ f = Find(text, QuestionMark, 1)
  OBVIOUS
<1>2. n \in Nat /\ text \in Seq(Byte)
  BY <1>1, LenProperties DEF Text
<1>3. /\ Len(split) \in Nat /\ f \in 1 .. n + 1
      /\ split[1] = SubSeq(text, 1, f - 1)
      /\ Len(split) > 1 <=> f < n
      /\ f < n => split[2] = SubSeq(text, f + 1, Find(text, QuestionMark, f + 1) - 1)
  <2>1. /\ Len(split) \in Nat /\ f \in 1 .. Len(text) + 1
        /\ split[1] = SubSeq(text, 1, f - 1)
        /\ Len(split) > 1 <=> f < Len(text)
        /\ f < Len(text) => split[2] = SubSeq(text, f + 1, Find(text, QuestionMark, f + 1) - 1)
    BY <1>1, FirstParts, SMTT(40)
  <2>2. QED
    BY <1>1, <2>1
<1>4. end = f - 1
  <2>1. 1 \in 1 .. Len(text) + 1 /\ Len(text) \in Nat
    BY <1>1, <1>2
  <2>2. End(text, 1, {QuestionMark}) = Find(text, QuestionMark, 1) - 1
    BY <2>1, EndFind
  <2>3. QED
    BY <1>1, <2>2
<1>5. f \in Nat /\ end + 2 = f + 1
  BY <1>2, <1>3, <1>4
<1>6. PICK e : e = End(text, f + 1, {QuestionMark})
  OBVIOUS
<1>7. CASE f < n
  <2>1. f + 1 \in 1 .. Len(text) + 1 /\ Len(text) \in Nat
    BY <1>1, <1>2, <1>3, <1>7
  <2>2. e = Find(text, QuestionMark, f + 1) - 1
    BY <1>6, <2>1, EndFind
  <2>3. Find(text, QuestionMark, f + 1) \in f + 1 .. Len(text) + 1
    BY <2>1, FindPlace
  <2>4. e \in Nat /\ e <= n
    BY <1>1, <1>2, <1>5, <2>2, <2>3
  <2>5. SubSeq(text, f + 1, e) \in Text
    <3>1. f + 1 \in Nat /\ f + 1 > 0 /\ e <= Len(text)
      BY <1>1, <1>5, <2>4
    <3>2. QED
      BY <1>2, <2>4, <3>1, PartOf DEF Text
  <2>6. split[2] = SubSeq(text, f + 1, e)
    BY <1>3, <1>7, <2>2
  <2>7. text # <<>>
    BY <1>1, <1>5, <1>7
  <2>8. QED
    BY <1>3, <1>4, <1>5, <1>6, <1>7, <2>5, <2>6, <2>7
<1>8. CASE ~ (f < n)
  <2>1. e < f + 1 /\ e \in Int
    <3>1. PICK g : g = f + 1
      OBVIOUS
    <3>2. g \in 1 .. Len(text) + 2 /\ g \in g .. Len(text) + 2 /\ Len(text) \in Nat /\ g > Len(text)
      BY <1>1, <1>2, <1>3, <1>8, <3>1
    <3>3. \A k \in g .. g - 1 : k <= Len(text) /\ text[k] \notin {QuestionMark}
      BY <3>2
    <3>4. End(text, g, {QuestionMark}) = g - 1
      BY <3>2, <3>3, EndPlace
    <3>5. QED
      BY <1>5, <1>6, <3>1, <3>4
  <2>2. SubSeq(text, f + 1, e) = <<>>
    BY <1>5, <2>1, SubSeqEmpty
  <2>3. ~ (Len(split) > 1)
    BY <1>3, <1>8
  <2>4. <<>> \in Text
    BY DEF Text
  <2>5. QED
    BY <1>3, <1>4, <1>5, <1>6, <2>2, <2>3, <2>4
<1>9. QED
  BY <1>7, <1>8

\* What RoutedByPath asks of the answer to a request.
RightAnswer(text, method, path, query, answer) ==
    /\ (answer.kind = "endpoint")
           <=> \/ text = <<>>
               \/ path \in DOMAIN Endpoints /\ method \in Endpoints[path]
    /\ answer.kind = "endpoint" =>
           /\ answer.path = IF text = <<>> THEN <<Slash>> ELSE path
           /\ DOMAIN answer.query = {Key(query, i) : i \in ValuedParts(query)}
           /\ \A k \in DOMAIN answer.query :
                  answer.query[k] =
                      Value(query, Min({i \in ValuedParts(query) : Key(query, i) = k}))

\* A request is answered by the endpoint that the path of its decoded target names,
\* with the first value given to each key of its query, for targets of every length,
\* whatever lies behind them (handle_requests, session.cpp).
THEOREM RequestsGoByPath == Spec => []RoutedByPath
<1>1. ASSUME target \in Text PROVE RoutedByPath
  <2>1. SUFFICES ASSUME NEW method \in {"GET", "POST"}, NEW b \in Beyond
                 PROVE  LET text   == decode_url(target, b)
                            answer == handle_requests(target, method, b)
                            end    == End(text, 1, {QuestionMark})
                            path   == SubSeq(text, 1, end)
                            query  == SubSeq(text, end + 2, End(text, end + 2, {QuestionMark}))
                        IN  RightAnswer(text, method, path, query, answer)
    BY DEF RoutedByPath, RightAnswer
  <2>a. PICK text, answer :
            text = decode_url(target, b) /\ answer = handle_requests(target, method, b)
    OBVIOUS
  <2>b. PICK end : end = End(text, 1, {QuestionMark})
    OBVIOUS
  <2>c. PICK path, query :
            /\ path = SubSeq(text, 1, end)
            /\ query = SubSeq(text, end + 2, End(text, end + 2, {QuestionMark}))
    OBVIOUS
  <2>d. SUFFICES RightAnswer(text, method, path, query, answer)
    BY <2>a, <2>b, <2>c
  <2>2. text \in Text
    <3>1. b \in Text /\ Len(b) = 2
      BY RequestTargetAssumption
    <3>2. PICK D : Decodes(D, target, b)
      BY <1>1, <3>1, DecodeLoop
    <3>3. D \in [Nat -> Text] /\ text = D[1]
      BY <2>a, <3>2 DEF Decodes
    <3>4. QED
      BY <3>3
  <2>3. PICK split : split = split_string_view(text, QuestionMark)
    OBVIOUS
  <2>4. /\ split[1] = path
        /\ (IF Len(split) > 1 THEN split[2] ELSE <<>>) = query
        /\ query \in Text /\ (text = <<>> => query = <<>>)
    BY <2>b, <2>c, <2>2, <2>3, PathAndQuery
  <2>5. PICK map : map = split_optional_queries(query)
    OBVIOUS
  <2>6. answer = IF text = <<>> THEN Answer("endpoint", <<Slash>>, <<>>)
                 ELSE IF path \notin DOMAIN Endpoints THEN Answer("not_found", path, <<>>)
                 ELSE IF method \notin Endpoints[path]
                 THEN Answer("method_not_allowed", path, <<>>)
                 ELSE Answer("endpoint", path, map)
    BY <2>a, <2>3, <2>4, <2>5 DEF handle_requests
  <2>7. /\ DOMAIN map = {Key(query, i) : i \in ValuedParts(query)}
        /\ \A k \in DOMAIN map :
               map[k] = Value(query, Min({i \in ValuedParts(query) : Key(query, i) = k}))
    BY <2>4, <2>5, QueryMap
  <2>8. text = <<>> => map = <<>>
    BY <2>4, <2>5 DEF split_optional_queries
  <2>9. CASE text = <<>>
    <3>1. answer.kind = "endpoint" /\ answer.path = <<Slash>> /\ answer.query = map
      BY <2>6, <2>8, <2>9 DEF Answer
    <3>2. QED
      BY <2>7, <2>9, <3>1 DEF RightAnswer
  <2>10. CASE text # <<>> /\ path \in DOMAIN Endpoints /\ method \in Endpoints[path]
    <3>1. answer.kind = "endpoint" /\ answer.path = path /\ answer.query = map
      BY <2>6, <2>10 DEF Answer
    <3>2. QED
      BY <2>7, <2>10, <3>1 DEF RightAnswer
  <2>11. CASE text # <<>> /\ ~ (path \in DOMAIN Endpoints /\ method \in Endpoints[path])
    <3>1. answer.kind # "endpoint"
      BY <2>6, <2>11 DEF Answer
    <3>2. QED
      BY <2>11, <3>1 DEF RightAnswer
  <2>12. QED
    BY <2>9, <2>10, <2>11
<1>2. QED
  BY <1>1, TargetsAreTexts, PTL
=============================================================================
