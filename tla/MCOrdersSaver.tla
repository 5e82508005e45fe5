--------------------------- MODULE MCOrdersSaver ---------------------------
(* Instances of OrdersSaver for TLC.                                        *)
EXTENDS OrdersSaver

T == INSTANCE TextHelpers

\* An alias is written for people: "M-1".
MCTableName == [a \in Accounts |-> T!get_alphanum_tablename(<<77, 45, 49>>)]
MCEmpty == <<>>
=============================================================================
