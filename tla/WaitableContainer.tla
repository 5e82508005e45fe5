------------------------- MODULE WaitableContainer -------------------------
(***************************************************************************)
(* waitable_container_t: the deque behind a mutex and a condition variable *)
(* over which every pair of threads of both programs talks.  Each look at  *)
(* the deque and each change of it, the mutex, the sleep and the wake-up   *)
(* are steps of their own; a sleeper may also wake up for no reason.       *)
(***************************************************************************)
EXTENDS Naturals, Sequences

CONSTANTS Producers,   \* threads that call append and append_list
          Consumers,   \* threads that call get
          NoThread,
          MaxBatch,    \* bound: length of the list given to append_list
          MaxItems     \* bound: items a producer appends in all

ASSUME WaitableContainerAssumption ==
    /\ Producers \cap Consumers = {}
    /\ NoThread \notin Producers \cup Consumers
    /\ MaxBatch \in Nat /\ MaxItems \in Nat

VARIABLES mutex_,      \* the thread that holds it, or NoThread
          container_,
          pc,          \* where each thread is in its call
          new_list,    \* what each call under way has still to insert
          sent,        \* how many items each producer got the mutex for
          delivered    \* what get() has returned, in order

vars == <<mutex_, container_, pc, new_list, sent, delivered>>

Threads == Producers \cup Consumers
Item == [from : Producers, n : Nat \ {0}, behind : Nat]

\* The threads asleep on cv_.
Sleeping == {c \in Consumers : pc[c] = "asleep"}

\* The next n items of producer p, as a list: each with the number of those
\* behind it.
Batch(p, n) ==
    [i \in 1..n |-> [from |-> p, n |-> sent[p] + i, behind |-> n - i]]

-----------------------------------------------------------------------------
\* A thread calls append (n = 1) or append_list (any n, the empty list included).
Call(p, n) ==
    /\ pc[p] = "idle"
    /\ sent[p] + n <= MaxItems
    /\ new_list' = [new_list EXCEPT ![p] = Batch(p, n)]
    /\ pc' = [pc EXCEPT ![p] = "outside"]
    /\ UNCHANGED <<mutex_, container_, sent, delivered>>

\* lock_guard at the head of append and append_list.
LockGuard(p) ==
    /\ mutex_ = NoThread
    /\ pc[p] = "outside"
    /\ mutex_' = p
    /\ pc' = [pc EXCEPT ![p] = "locked"]
    /\ sent' = [sent EXCEPT ![p] = @ + Len(new_list[p])]
    /\ UNCHANGED <<container_, new_list, delivered>>

\* Mutant: append_list takes the lock for each element.
InsertAlone(p) ==
    /\ pc[p] = "locked"
    /\ new_list[p] # <<>>
    /\ container_' = Append(container_, Head(new_list[p]))
    /\ new_list' = [new_list EXCEPT ![p] = Tail(@)]
    /\ mutex_' = NoThread
    /\ pc' = [pc EXCEPT ![p] = "outside"]
    /\ UNCHANGED <<sent, delivered>>

\* push_back, and each element of the insert.
Insert(p) ==
    /\ pc[p] = "locked"
    /\ new_list[p] # <<>>
    /\ container_' = Append(container_, Head(new_list[p]))
    /\ new_list' = [new_list EXCEPT ![p] = Tail(@)]
    /\ UNCHANGED <<mutex_, pc, sent, delivered>>

\* Mutant: the call is forgotten.
NotifyNobody(p) ==
    /\ pc[p] = "locked"
    /\ new_list[p] = <<>>
    /\ pc' = [pc EXCEPT ![p] = "notified"]
    /\ UNCHANGED <<mutex_, container_, new_list, sent, delivered>>

\* cv_.notify_all(), still under the lock.
NotifyAll(p) ==
    /\ pc[p] = "locked"
    /\ new_list[p] = <<>>
    /\ pc' = [t \in Threads |->
                 IF t = p THEN "notified"
                 ELSE IF t \in Sleeping THEN "woken" ELSE pc[t]]
    /\ UNCHANGED <<mutex_, container_, new_list, sent, delivered>>

\* The lock's destructor at the end of append and append_list.
UnlockGuard(p) ==
    /\ pc[p] = "notified"
    /\ mutex_' = NoThread
    /\ pc' = [pc EXCEPT ![p] = "idle"]
    /\ UNCHANGED <<container_, new_list, sent, delivered>>

-----------------------------------------------------------------------------
\* The head of get, and the relocking at the end of cv_.wait.
UniqueLock(c) ==
    /\ mutex_ = NoThread
    /\ pc[c] \in {"outside", "woken"}
    /\ mutex_' = c
    /\ pc' = [pc EXCEPT ![c] = "locked"]
    /\ UNCHANGED <<container_, new_list, sent, delivered>>

\* Mutant: the predicate is looked at, and then the mutex is given up before the
\* thread counts as a sleeper.
FoundEmptyUnlocks(c) ==
    /\ pc[c] = "locked"
    /\ container_ = <<>>
    /\ mutex_' = NoThread
    /\ pc' = [pc EXCEPT ![c] = "empty"]
    /\ UNCHANGED <<container_, new_list, sent, delivered>>

\* The predicate of cv_.wait does not hold.
FoundEmpty(c) ==
    /\ pc[c] = "locked"
    /\ container_ = <<>>
    /\ pc' = [pc EXCEPT ![c] = "empty"]
    /\ UNCHANGED <<mutex_, container_, new_list, sent, delivered>>

\* Inside cv_.wait: to sleep and to give up the mutex are one step.
Wait(c) ==
    /\ pc[c] = "empty"
    /\ mutex_' = NoThread
    /\ pc' = [pc EXCEPT ![c] = "asleep"]
    /\ UNCHANGED <<container_, new_list, sent, delivered>>

SpuriousWakeup(c) ==
    /\ pc[c] = "asleep"
    /\ pc' = [pc EXCEPT ![c] = "woken"]
    /\ UNCHANGED <<mutex_, container_, new_list, sent, delivered>>

\* Mutant: the predicate is not looked at again after a wake-up.
PopFrontUnchecked(c) ==
    /\ pc[c] = "locked"
    /\ delivered' = Append(delivered, IF container_ = <<>> THEN NoThread
                                      ELSE Head(container_))
    /\ container_' = IF container_ = <<>> THEN <<>> ELSE Tail(container_)
    /\ pc' = [pc EXCEPT ![c] = "moved"]
    /\ UNCHANGED <<mutex_, new_list, sent>>

\* The predicate holds: move the front out and pop it.
PopFront(c) ==
    /\ pc[c] = "locked"
    /\ container_ # <<>>
    /\ delivered' = Append(delivered, Head(container_))
    /\ container_' = Tail(container_)
    /\ pc' = [pc EXCEPT ![c] = "moved"]
    /\ UNCHANGED <<mutex_, new_list, sent>>

\* The lock's destructor at the end of get.
Unlock(c) ==
    /\ pc[c] = "moved"
    /\ mutex_' = NoThread
    /\ pc' = [pc EXCEPT ![c] = "outside"]
    /\ UNCHANGED <<container_, new_list, sent, delivered>>

-----------------------------------------------------------------------------
Init ==
    /\ mutex_ = NoThread /\ container_ = <<>>
    /\ pc = [t \in Threads |-> IF t \in Producers THEN "idle" ELSE "outside"]
    /\ new_list = [p \in Producers |-> <<>>]
    /\ sent = [p \in Producers |-> 0]
    /\ delivered = <<>>

\* What a call that was made does.
AppendCall(p) == LockGuard(p) \/ Insert(p) \/ NotifyAll(p) \/ UnlockGuard(p)

\* A consumer calls get again and again.
Get(c) == UniqueLock(c) \/ FoundEmpty(c) \/ Wait(c) \/ PopFront(c) \/ Unlock(c)

Next ==
    \/ \E p \in Producers : AppendCall(p) \/ \E n \in 0..MaxBatch : Call(p, n)
    \/ \E c \in Consumers : Get(c) \/ SpuriousWakeup(c)

Spec == Init /\ [][Next]_vars

\* A thread inside a call goes on; a consumer gets the mutex if it finds it free
\* often enough (strong fairness: empty lists may be appended for ever).
\* Producers need not call.
Fairness ==
    /\ \A p \in Producers : WF_vars(AppendCall(p))
    /\ \A c \in Consumers : SF_vars(Get(c))

FairSpec == Spec /\ Fairness

-----------------------------------------------------------------------------
TypeOK ==
    /\ mutex_ \in Threads \cup {NoThread}
    /\ container_ \in Seq(Item)
    /\ pc \in [Threads -> {"idle", "outside", "locked", "notified",
                           "empty", "asleep", "woken", "moved"}]
    /\ \A p \in Producers : pc[p] \notin {"empty", "asleep", "woken", "moved"}
    /\ \A c \in Consumers : pc[c] \notin {"idle", "notified"}
    /\ new_list \in [Producers -> Seq(Item)]
    /\ sent \in [Producers -> Nat]
    /\ delivered \in Seq(Item)

\* No wake-up is lost: while a consumer sleeps there is nothing for it to
\* take, or somebody who holds the mutex is about to wake it.  A notification
\* between the look at the predicate and the sleep would be lost.
NoLostWakeup ==
    Sleeping # {} =>
        container_ = <<>> \/ \E p \in Producers : pc[p] = "locked"

\* What the holder of the mutex is about to insert: a list is put when its thread
\* gets the mutex, since nobody looks at the deque before it is there.
Inserting == IF mutex_ \in Producers THEN new_list[mutex_] ELSE <<>>

\* The container is a FIFO channel (FifoChannel) into which lists are put in one
\* piece: read off from outside, what was ever put is what was delivered followed by
\* what is still in the deque or about to be there.
Channel == INSTANCE FifoChannel WITH
    history <- delivered \o container_ \o Inserting,
    taken   <- Len(delivered)

ImplementsChannel == Channel!Spec

\* Every item put is taken, however the wake-ups fall.
EventuallyTaken == (container_ # <<>>) ~> (container_ = <<>>)
=============================================================================
