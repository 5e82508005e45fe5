------------------------------ MODULE EventLog ------------------------------
(***************************************************************************)
(* What the saver promises: events are taken in the order in which they    *)
(* came, one after the other.  Each is noticed first and put down after    *)
(* that, before the next is noticed: it has its row then, unless it is of  *)
(* a kind without rows, or the connection has failed.  The end of the      *)
(* process costs the events that wait, and the row of the one in hand.     *)
(***************************************************************************)
EXTENDS Naturals, Sequences

VARIABLES arrived,   \* events that have come so far
          waiting,   \* those to be noticed, in order
          due,       \* the one noticed last until it is put down, else None
          notices,   \* history: the events noticed
          rows,      \* history: the events that have a row
          failing    \* the connection has failed in this process

vars == <<arrived, waiting, due, notices, rows, failing>>

None == <<>>
Kinds == {"order", "balance", "account"}
HasRow(event) == event.kind # "account"

Init ==
    /\ arrived = 0 /\ waiting = <<>> /\ due = None
    /\ notices = <<>> /\ rows = <<>>
    /\ failing = FALSE

\* Events of one kind come together, numbered on from those before.
Arrive(kind) ==
    /\ arrived' \in Nat /\ arrived <= arrived'
    /\ waiting' = waiting \o
           [i \in 1 .. arrived' - arrived |-> [n |-> arrived + i, kind |-> kind]]
    /\ UNCHANGED <<due, notices, rows, failing>>

Notice ==
    /\ due = None /\ waiting # <<>>
    /\ due' = Head(waiting) /\ waiting' = Tail(waiting)
    /\ notices' = Append(notices, Head(waiting))
    /\ UNCHANGED <<arrived, rows, failing>>

\* Its row is written, or given up when the connection fails.
PutDown ==
    /\ due # None /\ due' = None
    /\ \/ HasRow(due) /\ rows' = Append(rows, due) /\ UNCHANGED failing
       \/ ~ HasRow(due) /\ UNCHANGED <<rows, failing>>
       \/ failing' = TRUE /\ UNCHANGED rows
    /\ UNCHANGED <<arrived, waiting, notices>>

\* A failure that costs no row.
Fail == failing' = TRUE /\ UNCHANGED <<arrived, waiting, due, notices, rows>>

Ends ==
    /\ waiting' = <<>> /\ due' = None /\ failing' = FALSE
    /\ UNCHANGED <<arrived, notices, rows>>

Next ==
    \/ \E kind \in Kinds : Arrive(kind)
    \/ Notice \/ PutDown \/ Fail \/ Ends

Spec == Init /\ [][Next]_vars
=============================================================================
