------------------------------ MODULE Dialogue ------------------------------
(***************************************************************************)
(* What a session promises to its client: requests are read one at a time, *)
(* in the order in which they were asked, and the one that was read is     *)
(* answered before the next is read.  Requests may be passed over; nothing *)
(* is read or answered once the session has ended.                         *)
(***************************************************************************)
EXTENDS Naturals, Sequences

CONSTANTS Clients,
          Hasty     \* those that do not wait for an answer to ask again

VARIABLES phase,    \* of each session: "new", "idle", "busy", or "over"
          asked,    \* requests sent so far
          read,     \* the one that was read last, 0 if none
          replies   \* history: the requests answered

vars == <<phase, asked, read, replies>>

Init ==
    /\ phase = [c \in Clients |-> "new"]
    /\ asked = [c \in Clients |-> 0] /\ read = [c \in Clients |-> 0]
    /\ replies = [c \in Clients |-> <<>>]

Moves(c, from, to) == phase[c] \in from /\ phase' = [phase EXCEPT ![c] = to]

Comes(c) == Moves(c, {"new"}, "idle") /\ UNCHANGED <<asked, read, replies>>

Asks(c) ==
    /\ phase[c] # "new"
    /\ c \in Hasty \/ Len(replies[c]) = asked[c]
    /\ asked' = [asked EXCEPT ![c] = @ + 1]
    /\ UNCHANGED <<phase, read, replies>>

Reads(c) ==
    /\ Moves(c, {"idle"}, "busy")
    /\ \E n \in read[c] + 1 .. asked[c] : read' = [read EXCEPT ![c] = n]
    /\ UNCHANGED <<asked, replies>>

Answers(c) ==
    /\ Moves(c, {"busy"}, "idle")
    /\ replies' = [replies EXCEPT ![c] = Append(@, read[c])]
    /\ UNCHANGED <<asked, read>>

Ends(c) == Moves(c, {"idle", "busy"}, "over") /\ UNCHANGED <<asked, read, replies>>

Next == \E c \in Clients : Comes(c) \/ Asks(c) \/ Reads(c) \/ Answers(c) \/ Ends(c)

Spec == Init /\ [][Next]_vars
=============================================================================
