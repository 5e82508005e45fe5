---------------------------- MODULE RequestTarget ----------------------------
(***************************************************************************)
(* What session_t::handle_requests makes of the target of a request: the   *)
(* path that selects an endpoint, and the map of its query.  The behaviour *)
(* is a client that writes a target byte by byte; whatever it has written  *)
(* by then is a target that may be sent.                                   *)
(***************************************************************************)
EXTENDS TextHelpers

CONSTANTS Alphabet,     \* bound: the bytes targets are made of
          Beginnings,   \* bound: what a target begins with
          MaxLength,    \* bound: by how many bytes
          Beyond,       \* what may lie behind a target in memory, two bytes each
          Endpoints     \* the methods each endpoint takes

ASSUME RequestTargetAssumption ==
    /\ Alphabet \subseteq Byte /\ MaxLength \in Nat
    /\ Beginnings \subseteq Text
    /\ \A b \in Beyond : b \in Text /\ Len(b) = 2
    /\ \A path \in DOMAIN Endpoints : path \in Text /\ path # <<>> /\ path[1] = Slash

VARIABLE target

-----------------------------------------------------------------------------
\* Mutant: the last value of a key is kept.
EmplacedLast(result, split) ==
    IF Len(split) < 2 THEN result
    ELSE [key \in DOMAIN result \cup {split[1]} |->
              IF key = split[1] THEN split[2] ELSE result[key]]

\* A part without a value is skipped; emplace keeps the value a key has.
Emplaced(result, split) ==
    IF Len(split) < 2 THEN result
    ELSE [key \in DOMAIN result \cup {split[1]} |->
              IF key \in DOMAIN result THEN result[key] ELSE split[2]]

\* session_t::split_optional_queries: result[k] is the map after k parts.
split_optional_queries(optional_query) ==
    LET queries == split_string_view(optional_query, Ampersand)
        result[k \in 0 .. Len(queries)] ==
            IF k = 0 THEN <<>>
            ELSE Emplaced(result[k - 1], split_string_view(queries[k], Equals))
    IN  IF optional_query = <<>> THEN <<>> ELSE result[Len(queries)]

Answer(kind, path, query) == [kind |-> kind, path |-> path, query |-> query]

\* session_t::handle_requests: the target is decoded before it is split.
handle_requests(encoded, method, beyond) ==
    LET request_target == decode_url(encoded, beyond)
        split == split_string_view(request_target, QuestionMark)
        path == split[1]
        query == IF Len(split) > 1 THEN split[2] ELSE <<>>
    IN  IF request_target = <<>> THEN Answer("endpoint", <<Slash>>, <<>>)
        ELSE IF path \notin DOMAIN Endpoints THEN Answer("not_found", path, <<>>)
        ELSE IF method \notin Endpoints[path] THEN Answer("method_not_allowed", path, <<>>)
        ELSE Answer("endpoint", path, split_optional_queries(query))

-----------------------------------------------------------------------------
Init == target \in Beginnings

Writes(ch) ==
    /\ \E p \in Beginnings : IsPrefix(p, target) /\ Len(target) - Len(p) < MaxLength
    /\ target' = Append(target, ch)

Next == \E ch \in Alphabet : Writes(ch)

Spec == Init /\ [][Next]_target

-----------------------------------------------------------------------------
(* References: the encoding of a text, and a query by the places of its     *)
(* delimiters.                                                             *)

HexDigit(d, small) == IF d < 10 THEN 48 + d ELSE IF small THEN 87 + d ELSE 55 + d

\* Every byte of `escaped', and '%', is written as an escape.
Encoded(text, escaped, small) ==
    Pieces(Len(text),
           [i \in DOMAIN text |->
               IF text[i] \in escaped \cup {Percent}
               THEN <<Percent, HexDigit(text[i] \div 16, small), HexDigit(text[i] % 16, small)>>
               ELSE <<text[i]>>],
           [i \in DOMAIN text |-> i + 1])

\* The escapes of a text, the cut ones included: a '%' that is no digit of one.
Escapes(text) ==
    LET percents == {i \in DOMAIN text : text[i] = Percent}
    IN  CHOOSE E \in SUBSET percents :
            E = {i \in percents : i - 1 \notin E /\ i - 2 \notin E}

\* The end of the run that starts at i and has no delimiter.
End(text, i, delims) ==
    Min({j \in i .. Len(text) + 2 : j > Len(text) \/ text[j] \in delims}) - 1

\* The starts of the parts between ampersands that have a value, and their
\* keys and values.
ValuedParts(query) ==
    {i \in 1 .. Len(query) :
        /\ i = 1 \/ query[i - 1] = Ampersand
        /\ LET eq == End(query, i, {Ampersand, Equals}) + 1
           IN  /\ eq < Len(query) /\ query[eq] = Equals
               /\ query[eq + 1] # Ampersand}
Key(query, i) == SubSeq(query, i, End(query, i, {Equals}))
Value(query, i) ==
    LET from == End(query, i, {Equals}) + 2
    IN  SubSeq(query, from, End(query, from, {Ampersand, Equals}))

\* decode_url gives back every text from an encoding of it, with large or small
\* digits, whatever lies behind it in memory; and what lies there can change the
\* text it returns only when an escape is cut off by the end.
DecodingInverts ==
    /\ \A escaped \in {{}, Alphabet}, small \in BOOLEAN, b \in Beyond :
           decode_url(Encoded(target, escaped, small), b) = target
    /\ Escapes(target) \cap {Len(target) - 1, Len(target)} = {}
           => \A b, c \in Beyond : decode_url(target, b) = decode_url(target, c)

\* A request is answered by the endpoint its path names, the path being what
\* precedes the first question mark of the decoded target, with the first value
\* given to each key of what lies between that and the next one; the endpoint "/"
\* answers an empty target as well, but not an empty path with a query.
RoutedByPath ==
    \A method \in {"GET", "POST"}, b \in Beyond :
        LET text   == decode_url(target, b)
            answer == handle_requests(target, method, b)
            end    == End(text, 1, {QuestionMark})
            path   == SubSeq(text, 1, end)
            query  == SubSeq(text, end + 2, End(text, end + 2, {QuestionMark}))
        IN  /\ (answer.kind = "endpoint")
                   <=> \/ text = <<>>
                       \/ path \in DOMAIN Endpoints /\ method \in Endpoints[path]
            /\ answer.kind = "endpoint" =>
                   /\ answer.path = IF text = <<>> THEN <<Slash>> ELSE path
                   /\ DOMAIN answer.query = {Key(query, i) : i \in ValuedParts(query)}
                   /\ \A k \in DOMAIN answer.query :
                          answer.query[k] =
                              Value(query, Min({i \in ValuedParts(query) : Key(query, i) = k}))
=============================================================================
