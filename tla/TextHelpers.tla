----------------------------- MODULE TextHelpers -----------------------------
(***************************************************************************)
(* The functions of binance_orders on text: decode_url, split_string_view  *)
(* and get_alphanum_tablename.  A text is a sequence of bytes.             *)
(***************************************************************************)
EXTENDS Integers, Sequences, SequencesExt, FiniteSetsExt

Byte == 0 .. 255
Text == Seq(Byte)

Percent == 37  Ampersand == 38  Slash == 47  Equals == 61  QuestionMark == 63
Digit == 48 .. 57
Upper == 65 .. 90
Lower == 97 .. 122

-----------------------------------------------------------------------------
\* Mutant: the small letters begin at 0.
HexSmallFromZero(ch) ==
    CASE ch \in Digit    -> ch - 48
      [] ch \in 65 .. 70 -> ch - 65 + 10
      [] ch \in 97 .. 102 -> ch - 97
      [] OTHER           -> 0

\* localui1, localui2: what is no digit counts as 0.
Hex(ch) ==
    CASE ch \in Digit    -> ch - 48
      [] ch \in 65 .. 70 -> ch - 65 + 10
      [] ch \in 97 .. 102 -> ch - 97 + 10
      [] OTHER           -> 0

\* A loop over the positions of a text, from the first on: at position i it appends
\* piece[i] to its result and goes on at next[i].
Pieces(n, piece, next) ==
    LET from[i \in Nat] == IF i \in 1 .. n THEN piece[i] \o from[next[i]] ELSE <<>>
    IN  from[1]

\* utilities::decode_url.  The two bytes after a '%' are read wherever the text
\* ends: beyond[1] and beyond[2] are those that lie behind it in memory.
decode_url(str, beyond) ==
    LET At(i) == (str \o beyond)[i]
    IN  Pieces(Len(str),
               [i \in DOMAIN str |->
                   IF str[i] # Percent THEN <<str[i]>>
                   ELSE <<16 * Hex(At(i + 1)) + Hex(At(i + 2))>>],
               [i \in DOMAIN str |-> IF str[i] # Percent THEN i + 1 ELSE i + 3])

-----------------------------------------------------------------------------
\* str.find(delim, from), where the end of the text stands for npos.
Find(str, delim, from) ==
    Min({i \in from .. Len(str) + 1 : i > Len(str) \/ str[i] = delim})

\* utilities::split_string_view, for a delimiter of one character: an empty part
\* is kept, but for one at the end.
split_string_view(str, delim) ==
    IF Find(str, delim, 1) > Len(str) THEN <<str>>
    ELSE Pieces(Len(str),
                [i \in DOMAIN str |-> <<SubSeq(str, i, Find(str, delim, i) - 1)>>],
                [i \in DOMAIN str |-> Find(str, delim, i) + 1])

-----------------------------------------------------------------------------
\* get_alphanum_tablename: letters and digits are kept, in small letters.
get_alphanum_tablename(str) ==
    LET kept == SelectSeq(str, LAMBDA ch : ch \in Digit \cup Upper \cup Lower)
    IN  [i \in DOMAIN kept |-> IF kept[i] \in Upper THEN kept[i] + 32 ELSE kept[i]]
=============================================================================
