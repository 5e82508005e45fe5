------------------------------ MODULE RowMirror ------------------------------
(***************************************************************************)
(* What the synchronisation of hosts promises: the streams are a copy of   *)
(* the rows that lags behind.  Every change of a row reaches the copy, in  *)
(* the order in which it was noticed and without being dropped or merged;  *)
(* a start takes the rows over one by one, before any change is noticed.   *)
(***************************************************************************)
EXTENDS Naturals, Sequences

CONSTANTS Accounts, Groups, NoRow

VARIABLES rows,      \* the telegram group of each account, NoRow: no row
          streams,   \* the group under which each account is listened to
          waiting,   \* accounts the start has yet to take over
          pending    \* changes noticed and not yet applied

vars == <<rows, streams, waiting, pending>>

RowSet == [Accounts -> Groups \cup {NoRow}]

\* Nothing is listened to and every row is to be taken over.
Fresh(table, mirror, accounts, changes) ==
    /\ mirror = [a \in Accounts |-> NoRow]
    /\ accounts = {a \in Accounts : table[a] # NoRow}
    /\ changes = <<>>

Init == rows \in RowSet /\ Fresh(rows, streams, waiting, pending)

TakeOver(a) ==
    /\ a \in waiting
    /\ waiting' = waiting \ {a}
    /\ streams' = [streams EXCEPT ![a] = rows[a]]
    /\ UNCHANGED <<rows, pending>>

Notice(a, g) ==
    /\ waiting = {} /\ rows[a] # g
    /\ rows' = [rows EXCEPT ![a] = g]
    /\ pending' = Append(pending, [acct |-> a, group |-> g])
    /\ UNCHANGED <<streams, waiting>>

Apply ==
    /\ pending # <<>>
    /\ streams' = [streams EXCEPT ![Head(pending).acct] = Head(pending).group]
    /\ pending' = Tail(pending)
    /\ UNCHANGED <<rows, waiting>>

Restart == rows' \in RowSet /\ Fresh(rows', streams', waiting', pending')

Next ==
    \/ \E a \in Accounts : TakeOver(a)
    \/ \E a \in Accounts, g \in Groups \cup {NoRow} : Notice(a, g)
    \/ Apply \/ Restart

Spec == Init /\ [][Next]_vars
=============================================================================
