---------------------------- MODULE FifoChannel ----------------------------
(***************************************************************************)
(* What a waitable_container_t promises to the threads on both sides of    *)
(* it: whatever is put is taken exactly once, in the order in which it was *)
(* put.  A list is put in one piece: its items follow on each other, with  *)
(* nothing of another thread between them, and none of them is there       *)
(* before all of them are.                                                 *)
(***************************************************************************)
EXTENDS Naturals, Sequences

CONSTANTS Producers,
          MaxBatch    \* the longest list; a single item is a list of one

VARIABLES sent,     \* how many items each producer has put
          history,  \* every item ever put, in the order of the puts
          taken     \* how many of them have been taken

vars == <<sent, history, taken>>

\* An item knows its number among those of its producer, and how many of its
\* list are behind it.
List(p, before, n) ==
    [i \in 1..n |-> [from |-> p, n |-> before + i, behind |-> n - i]]

Init ==
    /\ sent = [p \in Producers |-> 0]
    /\ history = <<>> /\ taken = 0

\* The next n items of a producer are put behind all those put before.
Put(p, n) ==
    /\ history' = history \o List(p, sent[p], n)
    /\ sent' = [sent EXCEPT ![p] = @ + n]
    /\ UNCHANGED taken

\* The oldest item that has not been taken.
Take ==
    /\ taken < Len(history)
    /\ taken' = taken + 1
    /\ UNCHANGED <<sent, history>>

Next == Take \/ \E p \in Producers, n \in 0..MaxBatch : Put(p, n)

Spec == Init /\ [][Next]_vars
=============================================================================
