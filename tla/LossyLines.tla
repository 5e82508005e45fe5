----------------------------- MODULE LossyLines -----------------------------
(***************************************************************************)
(* What the pool of message senders promises: each sender is a line of     *)
(* limited length.  A notification enters one line, at its end, and leaves *)
(* it from the front only: delivered, or given up because of a failure,    *)
(* and then alone.                                                         *)
(***************************************************************************)
EXTENDS Naturals, Sequences

CONSTANTS N, Senders, Capacity, MaxFaults

VARIABLES handed,      \* notifications that have entered a line
          lines,       \* what each sender has yet to deliver, in order
          delivered,   \* history: <<sender, notification>>
          faults

vars == <<handed, lines, delivered, faults>>

Init ==
    /\ handed = 0 /\ faults = 0
    /\ lines = [s \in Senders |-> <<>>]
    /\ delivered = <<>>

Enter(s) ==
    /\ handed < N /\ Len(lines[s]) < Capacity
    /\ handed' = handed + 1
    /\ lines' = [lines EXCEPT ![s] = Append(@, handed + 1)]
    /\ UNCHANGED <<delivered, faults>>

Fault == faults < MaxFaults /\ faults' = faults + 1

Leave(s) ==
    /\ lines[s] # <<>>
    /\ lines' = [lines EXCEPT ![s] = Tail(@)]
    /\ UNCHANGED handed

\* The answer to a delivered notification may be lost.
Deliver(s) ==
    /\ Leave(s)
    /\ delivered' = Append(delivered, <<s, Head(lines[s])>>)
    /\ UNCHANGED faults \/ Fault

GiveUp(s) == Leave(s) /\ Fault /\ UNCHANGED delivered

\* A failure that costs nothing but time, or leaves a line as it is for good.
Trouble == Fault /\ UNCHANGED <<handed, lines, delivered>>

Next == Trouble \/ \E s \in Senders : Enter(s) \/ Deliver(s) \/ GiveUp(s)

Spec == Init /\ [][Next]_vars
=============================================================================
