--------------------------- MODULE MCRequestTarget ---------------------------
(* Instances of RequestTarget for TLC.                                      *)
EXTENDS RequestTarget, TLC

MCAlphabet == {Percent, Slash, QuestionMark, Equals, Ampersand, 50, 70, 102}

\* A target that may be anything, and one that has a query.
MCBeginnings == {<<>>, <<Slash, QuestionMark>>}

\* A zero, as behind a string, or digits.
MCBeyond == {<<0, 0>>, <<51, 70>>}

\* "/" and, for "/upload", "//".
MCEndpoints == (<<Slash>> :> {"GET"}) @@ (<<Slash, Slash>> :> {"POST"})
=============================================================================
