---------------------- MODULE WaitableContainerProofs ----------------------
(***************************************************************************)
(* Proofs about WaitableContainer for any number of producers, consumers   *)
(* and items: types, no lost wake-up, and that the container implements a  *)
(* FIFO channel.                                                           *)
(***************************************************************************)
EXTENDS WaitableContainer, SequenceTheorems, TLAPS

\* Whoever is between the lock and the unlock of a call is the holder of the
\* mutex, so no two threads are.
HolderInv ==
    \A t \in Threads :
        pc[t] \in {"locked", "notified", "empty", "moved"} <=> mutex_ = t

\* What a consumer has seen of the deque is still so when it falls asleep.
EmptyInv == \A c \in Consumers : pc[c] = "empty" => container_ = <<>>

\* A call that waits for the mutex has a list to insert that goes on where its
\* thread has stopped; when it has notified, there is nothing left of it.
ListReady(p) ==
    /\ pc[p] = "outside" => \E n \in 0..MaxBatch : new_list[p] = Batch(p, n)
    /\ pc[p] \in {"idle", "notified"} => new_list[p] = <<>>

ListInv == \A p \in Producers : ListReady(p)

Inv == TypeOK /\ HolderInv /\ EmptyInv /\ ListInv /\ NoLostWakeup

LEMMA BatchType ==
    ASSUME TypeOK, NEW p \in Producers, NEW n \in Nat
    PROVE  Batch(p, n) \in Seq(Item) /\ Len(Batch(p, n)) = n
<1>1. sent[p] \in Nat
  BY DEF TypeOK
<1>2. ASSUME NEW i \in 1..n
      PROVE  [from |-> p, n |-> sent[p] + i, behind |-> n - i] \in Item
  <2>1. sent[p] + i \in Nat \ {0} /\ n - i \in Nat
    BY <1>1
  <2>2. QED
    BY <2>1 DEF Item
<1>3. Batch(p, n) \in [1..n -> Item]
  BY <1>2 DEF Batch
<1>4. QED
  BY <1>3

LEMMA ThreadKinds ==
    ASSUME NEW t \in Threads
    PROVE  /\ t # NoThread
           /\ (t \in Producers /\ t \notin Consumers) \/ (t \in Consumers /\ t \notin Producers)
BY WaitableContainerAssumption DEF Threads

\* A step of another thread leaves a producer's list ready.
LEMMA ReadyKept ==
    ASSUME NEW p \in Producers, ListReady(p),
           pc'[p] = pc[p], new_list'[p] = new_list[p], sent'[p] = sent[p]
    PROVE  ListReady(p)'
<1>1. \A n : Batch(p, n)' = Batch(p, n)
  BY DEF Batch
<1>2. QED
  BY <1>1 DEF ListReady

\* A call is made, and gets the mutex.
LEMMA CallStep ==
    ASSUME Inv, NEW p \in Producers, NEW n \in 0..MaxBatch, Call(p, n)
    PROVE  Inv'
<1> USE DEF Inv
<1>1. p \in Threads /\ p \notin Consumers
  BY WaitableContainerAssumption DEF Threads
<1>2. Batch(p, n) \in Seq(Item)
  BY BatchType, WaitableContainerAssumption
<1>3. TypeOK'
  BY <1>1, <1>2 DEF Call, TypeOK
<1>4. HolderInv'
  BY <1>1 DEF Call, HolderInv, TypeOK
<1>5. EmptyInv'
  BY <1>1 DEF Call, EmptyInv, TypeOK, Threads
<1>6. ListInv'
  <2>1. ListReady(p)'
    <3>1. pc'[p] = "outside" /\ new_list'[p] = Batch(p, n)
      BY <1>1 DEF Call, TypeOK
    <3>2. Batch(p, n)' = Batch(p, n)
      BY DEF Call, Batch
    <3>3. QED
      BY <3>1, <3>2 DEF ListReady
  <2>2. ASSUME NEW q \in Producers, q # p PROVE ListReady(q)'
    <3>1. pc'[q] = pc[q] /\ new_list'[q] = new_list[q] /\ sent'[q] = sent[q]
      BY <2>2 DEF Call, TypeOK, Threads
    <3>2. QED
      BY <3>1, ReadyKept DEF ListInv
  <2>3. QED
    BY <2>1, <2>2 DEF ListInv
<1>7. NoLostWakeup'
  BY <1>1 DEF Call, NoLostWakeup, Sleeping, TypeOK, Threads
<1>8. QED
  BY <1>3, <1>4, <1>5, <1>6, <1>7

LEMMA LockGuardStep ==
    ASSUME Inv, NEW p \in Producers, LockGuard(p)
    PROVE  Inv'
<1> USE DEF Inv
<1>1. p \in Threads /\ p \notin Consumers
  BY WaitableContainerAssumption DEF Threads
<1>2. Len(new_list[p]) \in Nat
  BY LenProperties DEF TypeOK
<1>3. TypeOK'
  BY <1>1, <1>2 DEF LockGuard, TypeOK
<1>4. HolderInv'
  BY <1>1, ThreadKinds DEF LockGuard, HolderInv, TypeOK
<1>5. EmptyInv'
  BY <1>1 DEF LockGuard, EmptyInv, TypeOK, Threads
<1>6. ListInv'
  <2>1. ASSUME NEW q \in Producers, q # p
        PROVE  pc'[q] = pc[q] /\ new_list'[q] = new_list[q] /\ sent'[q] = sent[q]
    BY <2>1 DEF LockGuard, TypeOK, Threads
  <2>2. pc'[p] = "locked"
    BY <1>1 DEF LockGuard, TypeOK
  <2>3. ListReady(p)'
    BY <2>2 DEF ListReady
  <2>4. QED
    BY <2>1, <2>3, ReadyKept DEF ListInv
<1>7. NoLostWakeup'
  BY <1>1 DEF LockGuard, NoLostWakeup, Sleeping, TypeOK, Threads
<1>8. QED
  BY <1>3, <1>4, <1>5, <1>6, <1>7

\* What a producer does while it holds the mutex.
LEMMA InsertStep ==
    ASSUME Inv, NEW p \in Producers, Insert(p)
    PROVE  Inv'
<1> USE DEF Inv
<1>1. p \in Threads /\ p \notin Consumers
  BY WaitableContainerAssumption DEF Threads
<1>2. Head(new_list[p]) \in Item /\ Tail(new_list[p]) \in Seq(Item)
  BY HeadTailProperties DEF Insert, TypeOK
<1>3. TypeOK'
  BY <1>1, <1>2 DEF Insert, TypeOK
<1>4. HolderInv'
  BY DEF Insert, HolderInv
<1>5. EmptyInv'
  BY <1>1, ThreadKinds DEF Insert, EmptyInv, HolderInv, Threads
<1>6. ListInv'
  <2>1. ListReady(p)'
    BY DEF Insert, ListReady
  <2>2. ASSUME NEW q \in Producers, q # p PROVE ListReady(q)'
    <3>1. pc'[q] = pc[q] /\ new_list'[q] = new_list[q] /\ sent'[q] = sent[q]
      BY <2>2 DEF Insert, TypeOK
    <3>2. QED
      BY <3>1, ReadyKept DEF ListInv
  <2>3. QED
    BY <2>1, <2>2 DEF ListInv
<1>7. NoLostWakeup'
  BY DEF Insert, NoLostWakeup
<1>8. QED
  BY <1>3, <1>4, <1>5, <1>6, <1>7

LEMMA NotifyAllStep ==
    ASSUME Inv, NEW p \in Producers, NotifyAll(p)
    PROVE  Inv'
<1> USE DEF Inv
<1>1. p \in Threads /\ p \notin Consumers
  BY WaitableContainerAssumption DEF Threads
<1>2. TypeOK'
  BY <1>1, ThreadKinds DEF NotifyAll, TypeOK, Sleeping, Threads
<1>3. HolderInv'
  BY <1>1, ThreadKinds DEF NotifyAll, HolderInv, Sleeping, Threads, TypeOK
<1>4. EmptyInv'
  BY <1>1 DEF NotifyAll, EmptyInv, Sleeping, Threads
<1>5. ListInv'
  <2>1. ListReady(p)'
    BY <1>1 DEF NotifyAll, ListReady
  <2>2. ASSUME NEW q \in Producers, q # p PROVE ListReady(q)'
    <3>1. q \in Threads /\ q \notin Sleeping
      BY WaitableContainerAssumption DEF Sleeping, Threads
    <3>2. pc'[q] = pc[q] /\ new_list'[q] = new_list[q] /\ sent'[q] = sent[q]
      BY <2>2, <3>1 DEF NotifyAll
    <3>3. QED
      BY <3>2, ReadyKept DEF ListInv
  <2>3. QED
    BY <2>1, <2>2 DEF ListInv
<1>6. Sleeping' = {}
  BY <1>1 DEF NotifyAll, Sleeping, Threads
<1>7. QED
  BY <1>2, <1>3, <1>4, <1>5, <1>6 DEF NoLostWakeup

LEMMA UnlockGuardStep ==
    ASSUME Inv, NEW p \in Producers, UnlockGuard(p)
    PROVE  Inv'
<1> USE DEF Inv
<1>1. p \in Threads /\ p \notin Consumers
  BY WaitableContainerAssumption DEF Threads
<1>2. TypeOK'
  BY <1>1 DEF UnlockGuard, TypeOK
<1>3. HolderInv'
  BY <1>1, ThreadKinds DEF UnlockGuard, HolderInv, TypeOK
<1>4. EmptyInv'
  BY <1>1 DEF UnlockGuard, EmptyInv, TypeOK, Threads
<1>5. ListInv'
  <2>1. ListReady(p)'
    BY <1>1 DEF UnlockGuard, ListReady, ListInv, TypeOK
  <2>2. ASSUME NEW q \in Producers, q # p PROVE ListReady(q)'
    <3>1. pc'[q] = pc[q] /\ new_list'[q] = new_list[q] /\ sent'[q] = sent[q]
      BY <2>2 DEF UnlockGuard, TypeOK, Threads
    <3>2. QED
      BY <3>1, ReadyKept DEF ListInv
  <2>3. QED
    BY <2>1, <2>2 DEF ListInv
<1>6. NoLostWakeup'
  BY <1>1 DEF UnlockGuard, NoLostWakeup, Sleeping, TypeOK, Threads
<1>7. QED
  BY <1>2, <1>3, <1>4, <1>5, <1>6

\* Nothing a consumer does touches the lists of the producers.
LEMMA ListsKept ==
    ASSUME Inv, NEW c \in Consumers, UNCHANGED <<new_list, sent>>,
           \A t \in Threads : t # c => pc'[t] = pc[t]
    PROVE  ListInv'
<1>1. \A p \in Producers : p \in Threads /\ p # c
  BY WaitableContainerAssumption DEF Threads
<1>2. QED
  BY <1>1, ReadyKept DEF Inv, ListInv

LEMMA ConsumerLocks ==
    ASSUME Inv, NEW c \in Consumers, UniqueLock(c) \/ Unlock(c)
    PROVE  Inv'
<1> USE DEF Inv
<1>1. c \in Threads /\ c \notin Producers
  BY WaitableContainerAssumption DEF Threads
<1>2. TypeOK'
  BY <1>1 DEF UniqueLock, Unlock, TypeOK, Threads
<1>3. HolderInv'
  BY <1>1, ThreadKinds DEF UniqueLock, Unlock, HolderInv, TypeOK
<1>4. EmptyInv'
  BY <1>1 DEF UniqueLock, Unlock, EmptyInv, TypeOK, Threads
<1>5. ListInv'
  BY <1>1, ListsKept DEF UniqueLock, Unlock, TypeOK
<1>6. NoLostWakeup'
  BY <1>1 DEF UniqueLock, Unlock, NoLostWakeup, Sleeping, TypeOK, Threads
<1>7. QED
  BY <1>2, <1>3, <1>4, <1>5, <1>6

LEMMA ConsumerSleeps ==
    ASSUME Inv, NEW c \in Consumers, FoundEmpty(c) \/ Wait(c) \/ SpuriousWakeup(c)
    PROVE  Inv'
<1> USE DEF Inv
<1>1. c \in Threads /\ c \notin Producers
  BY WaitableContainerAssumption DEF Threads
<1>2. TypeOK'
  BY <1>1 DEF FoundEmpty, Wait, SpuriousWakeup, TypeOK, Threads
<1>3. HolderInv'
  BY <1>1, ThreadKinds DEF FoundEmpty, Wait, SpuriousWakeup, HolderInv, TypeOK
<1>4. EmptyInv'
  BY <1>1 DEF FoundEmpty, Wait, SpuriousWakeup, EmptyInv, TypeOK, Threads
<1>5. ListInv'
  BY <1>1, ListsKept DEF FoundEmpty, Wait, SpuriousWakeup, TypeOK
<1>6. NoLostWakeup'
  <2>1. CASE Wait(c)
    BY <2>1 DEF Wait, EmptyInv, NoLostWakeup
  <2>2. CASE FoundEmpty(c)
    BY <2>2 DEF FoundEmpty, NoLostWakeup
  <2>3. CASE SpuriousWakeup(c)
    BY <1>1, <2>3 DEF SpuriousWakeup, NoLostWakeup, Sleeping, TypeOK, Threads
  <2>4. QED
    BY <2>1, <2>2, <2>3
<1>7. QED
  BY <1>2, <1>3, <1>4, <1>5, <1>6

LEMMA PopFrontStep ==
    ASSUME Inv, NEW c \in Consumers, PopFront(c)
    PROVE  Inv'
<1> USE DEF Inv
<1>1. c \in Threads /\ c \notin Producers
  BY WaitableContainerAssumption DEF Threads
<1>2. /\ container_ \in Seq(Item) /\ container_ # <<>>
      /\ delivered \in Seq(Item)
  BY DEF PopFront, TypeOK
<1>3. Head(container_) \in Item /\ Tail(container_) \in Seq(Item)
  BY <1>2, HeadTailProperties
<1>4. TypeOK'
  BY <1>1, <1>2, <1>3 DEF PopFront, TypeOK
<1>5. HolderInv'
  BY <1>1 DEF PopFront, HolderInv, TypeOK
<1>6. EmptyInv'
  BY <1>1, <1>2 DEF PopFront, EmptyInv, TypeOK, Threads
<1>7. ListInv'
  BY <1>1, ListsKept DEF PopFront, TypeOK
<1>8. Sleeping = {}
  BY <1>1, <1>2, ThreadKinds DEF PopFront, HolderInv, NoLostWakeup, Threads
<1>9. NoLostWakeup'
  BY <1>1, <1>8 DEF PopFront, NoLostWakeup, Sleeping, TypeOK, Threads
<1>10. QED
  BY <1>4, <1>5, <1>6, <1>7, <1>9

LEMMA InvInit == Init => Inv
<1> SUFFICES ASSUME Init PROVE Inv
  OBVIOUS
<1>1. TypeOK
  BY ThreadKinds DEF Init, TypeOK, Threads
<1>2. HolderInv
  BY ThreadKinds DEF Init, HolderInv
<1>3. EmptyInv /\ ListInv /\ NoLostWakeup
  BY ThreadKinds DEF Init, EmptyInv, ListInv, ListReady, NoLostWakeup, Sleeping, Threads
<1>4. QED
  BY <1>1, <1>2, <1>3 DEF Inv

LEMMA InvStep == Inv /\ [Next]_vars => Inv'
<1> SUFFICES ASSUME Inv, [Next]_vars PROVE Inv'
  OBVIOUS
<1>1. CASE Next
  BY <1>1, CallStep, LockGuardStep, InsertStep, NotifyAllStep, UnlockGuardStep,
     ConsumerLocks, ConsumerSleeps, PopFrontStep DEF Next, AppendCall, Get
<1>2. CASE UNCHANGED vars
  <2>1. ListInv'
    BY <1>2, ReadyKept DEF vars, Inv, ListInv
  <2>2. QED
    BY <1>2, <2>1 DEF vars, Inv, TypeOK, HolderInv, EmptyInv, NoLostWakeup, Sleeping
<1>3. QED
  BY <1>1, <1>2

-----------------------------------------------------------------------------
\* While a consumer sleeps on cv_ the deque is empty or the thread that filled
\* it is about to notify, though the thread had looked at the deque before it
\* slept; all variables keep their types.
THEOREM NoWakeupIsLost == Spec => [](TypeOK /\ NoLostWakeup)
<1>1. Inv => TypeOK /\ NoLostWakeup
  BY DEF Inv
<1>2. QED
  BY <1>1, InvInit, InvStep, PTL DEF Spec

\* The mutex has one holder at most, every thread is where its kind may be, and
\* the deque and what was taken from it hold items.
THEOREM Typing == Spec => []TypeOK
BY NoWakeupIsLost, PTL

-----------------------------------------------------------------------------
(***************************************************************************)
(* Refinement of FifoChannel.                                              *)
(***************************************************************************)

\* Moving the head of one sequence to the end of another leaves their
\* concatenation as it is.
LEMMA MoveHead ==
    ASSUME NEW S, NEW s \in Seq(S), NEW t \in Seq(S), t # <<>>
    PROVE  Append(s, Head(t)) \o Tail(t) = s \o t
<1>1. /\ Head(t) \in S /\ Tail(t) \in Seq(S) /\ Len(Tail(t)) = Len(t) - 1
      /\ Len(t) \in Nat /\ Len(t) > 0 /\ Len(s) \in Nat
      /\ Head(t) = t[1] /\ \A i \in 1..(Len(t) - 1) : Tail(t)[i] = t[i + 1]
  BY HeadTailProperties, EmptySeq, LenProperties
<1> DEFINE u == Append(s, Head(t))
<1>2. /\ u \in Seq(S) /\ Len(u) = Len(s) + 1
      /\ \A i \in 1..Len(s) : u[i] = s[i]
      /\ u[Len(s) + 1] = Head(t)
  BY <1>1, AppendProperties
<1> HIDE DEF u
<1>3. /\ u \o Tail(t) \in Seq(S) /\ Len(u \o Tail(t)) = Len(s) + Len(t)
      /\ s \o t \in Seq(S) /\ Len(s \o t) = Len(s) + Len(t)
  <2>1. /\ u \o Tail(t) \in Seq(S) /\ Len(u \o Tail(t)) = Len(u) + Len(Tail(t))
        /\ s \o t \in Seq(S) /\ Len(s \o t) = Len(s) + Len(t)
    BY <1>1, <1>2, ConcatProperties
  <2>2. QED
    BY <1>1, <1>2, <2>1
<1>4. ASSUME NEW i \in 1..(Len(s) + Len(t)) PROVE (u \o Tail(t))[i] = (s \o t)[i]
  <2>1. (s \o t)[i] = IF i <= Len(s) THEN s[i] ELSE t[i - Len(s)]
    BY <1>4, ConcatProperties
  <2>2. (u \o Tail(t))[i] = IF i <= Len(s) + 1 THEN u[i] ELSE Tail(t)[i - (Len(s) + 1)]
    <3>1. i \in 1..(Len(u) + Len(Tail(t)))
      BY <1>1, <1>2
    <3>2. u \in Seq(S) /\ Tail(t) \in Seq(S) /\ Len(u) = Len(s) + 1
      BY <1>1, <1>2
    <3>3. QED
      BY <3>1, <3>2, ConcatProperties
  <2>3. CASE i <= Len(s) + 1
    BY <1>1, <1>2, <2>1, <2>2, <2>3
  <2>4. CASE ~ (i <= Len(s) + 1)
    <3>1. /\ i - (Len(s) + 1) \in 1..(Len(t) - 1)
          /\ (i - (Len(s) + 1)) + 1 = i - Len(s)
      BY <1>1, <2>4
    <3>2. Tail(t)[i - (Len(s) + 1)] = t[i - Len(s)]
      BY <1>1, <3>1
    <3>3. ~ (i <= Len(s))
      BY <1>1, <2>4
    <3>4. QED
      BY <2>1, <2>2, <2>4, <3>2, <3>3
  <2>5. QED
    BY <1>1, <2>3, <2>4
<1>5. u \o Tail(t) = s \o t
  BY <1>3, <1>4, SeqEqual
<1>6. QED
  BY <1>5 DEF u

\* The library's facts about concatenation, under a name that the provers do not
\* look into.
Joined(s, t) == s \o t

LEMMA JoinedTwice ==
    ASSUME NEW S, NEW r \in Seq(S), NEW s \in Seq(S), NEW t \in Seq(S)
    PROVE  Joined(Joined(r, s), t) = Joined(r, Joined(s, t))
<1>1. (r \o s) \o t = r \o (s \o t)
  BY ConcatAssociative, SMTT(40)
<1>2. QED
  BY <1>1 DEF Joined

\* Two ways to cut a sequence in two stay so behind a third one.
LEMMA CutBehind ==
    ASSUME NEW S, NEW r \in Seq(S), NEW s \in Seq(S), NEW t \in Seq(S),
           NEW u \in Seq(S), NEW v \in Seq(S), Joined(u, v) = Joined(s, t)
    PROVE  Joined(Joined(r, u), v) = Joined(Joined(r, s), t)
<1>1. Joined(Joined(r, u), v) = Joined(r, Joined(u, v))
  BY JoinedTwice
<1>2. Joined(Joined(r, s), t) = Joined(r, Joined(s, t))
  BY JoinedTwice
<1>3. QED
  BY <1>1, <1>2

\* The mapping: what is delivered, in the deque and about to be there.
History == delivered \o container_ \o Inserting

LEMMA HistoryTypes ==
    ASSUME Inv
    PROVE  /\ delivered \in Seq(Item) /\ container_ \in Seq(Item) /\ Inserting \in Seq(Item)
           /\ delivered \o container_ \in Seq(Item) /\ History \in Seq(Item)
           /\ Len(delivered) \in Nat
<1>1. delivered \in Seq(Item) /\ container_ \in Seq(Item) /\ Inserting \in Seq(Item)
  BY DEF Inv, TypeOK, Inserting
<1>2. delivered \o container_ \in Seq(Item)
  BY <1>1, ConcatProperties
<1>3. History \in Seq(Item)
  BY <1>1, <1>2, ConcatProperties DEF History
<1>4. QED
  BY <1>1, <1>2, <1>3, LenProperties

\* A list is put when its thread gets the mutex.
LEMMA PutWhenLocked ==
    ASSUME Inv, NEW p \in Producers, LockGuard(p)
    PROVE  \E n \in 0..MaxBatch : Channel!Put(p, n)
<1>1. PICK n \in 0..MaxBatch : new_list[p] = Batch(p, n)
  BY DEF Inv, ListInv, ListReady, LockGuard
<1>2. n \in Nat /\ Batch(p, n) \in Seq(Item) /\ Len(Batch(p, n)) = n
  BY BatchType, WaitableContainerAssumption DEF Inv
<1>3. Inserting = <<>> /\ Inserting' = Batch(p, n)
  BY <1>1, WaitableContainerAssumption DEF LockGuard, Inserting, Inv, TypeOK
<1>4. History = delivered \o container_
  BY <1>3, HistoryTypes DEF History
<1>5. History' = History \o Batch(p, n)
  BY <1>3, <1>4 DEF LockGuard, History
<1>6. sent' = [sent EXCEPT ![p] = @ + n] /\ delivered' = delivered
  BY <1>1, <1>2 DEF LockGuard
<1>7. Batch(p, n) = Channel!List(p, sent[p], n)
  BY DEF Batch, Channel!List
<1>8. QED
  BY <1>5, <1>6, <1>7 DEF Channel!Put, History

\* Then its items go from the list to the deque one by one, unseen.
LEMMA UnseenInsert ==
    ASSUME Inv, NEW p \in Producers, Insert(p)
    PROVE  UNCHANGED Channel!vars
<1>1. mutex_ = p /\ mutex_' = p
  BY DEF Insert, Inv, HolderInv, Threads
<1>2. Inserting = new_list[p] /\ Inserting' = Tail(new_list[p])
  BY <1>1 DEF Inserting, Insert, Inv, TypeOK
<1>3. new_list[p] \in Seq(Item) /\ new_list[p] # <<>>
  BY DEF Insert, Inv, TypeOK
<1>4. container_' = Append(container_, Head(new_list[p])) /\ UNCHANGED <<delivered, sent>>
  BY DEF Insert
<1>5. PICK d \in Seq(Item), c \in Seq(Item), l \in Seq(Item),
           e \in Seq(Item), m \in Seq(Item) :
        /\ d = delivered /\ c = container_ /\ l = new_list[p]
        /\ e = Append(c, Head(l)) /\ m = Tail(l)
  BY <1>3, HistoryTypes, HeadTailProperties, AppendProperties
<1>6. Joined(e, m) = Joined(c, l)
  <2>1. l # <<>>
    BY <1>3, <1>5
  <2>2. Append(c, Head(l)) \o Tail(l) = c \o l
    BY <2>1, MoveHead
  <2>3. QED
    BY <1>5, <2>2 DEF Joined
<1>7. Joined(Joined(d, e), m) = Joined(Joined(d, c), l)
  BY <1>6, CutBehind
<1>8. delivered' \o container_' \o Inserting' = delivered \o container_ \o Inserting
  BY <1>2, <1>4, <1>5, <1>7 DEF Joined
<1>9. QED
  BY <1>4, <1>8 DEF Channel!vars

\* A pop takes the oldest item from the history.
LEMMA TakeWhenPopped ==
    ASSUME Inv, NEW c \in Consumers, PopFront(c)
    PROVE  Channel!Take
<1>1. mutex_ = c /\ c \notin Producers
  BY WaitableContainerAssumption DEF PopFront, Inv, HolderInv, Threads
<1>2. Inserting = <<>> /\ Inserting' = <<>>
  BY <1>1 DEF PopFront, Inserting
<1>3. container_ # <<>> /\ container_ \in Seq(Item) /\ delivered \in Seq(Item)
  BY HistoryTypes DEF PopFront
<1>4. delivered' \o container_' = delivered \o container_
  BY <1>3, MoveHead DEF PopFront
<1>5. History' = History
  BY <1>2, <1>4 DEF History
<1>6. Len(delivered') = Len(delivered) + 1
  BY <1>3, HeadTailProperties, AppendProperties DEF PopFront
<1>7. Len(delivered) < Len(History)
  <2>1. History = delivered \o container_
    BY <1>2, HistoryTypes DEF History
  <2>2. Len(delivered \o container_) = Len(delivered) + Len(container_)
    BY <1>3, ConcatProperties
  <2>3. Len(container_) \in Nat /\ Len(container_) > 0 /\ Len(delivered) \in Nat
    BY <1>3, EmptySeq, LenProperties
  <2>4. QED
    BY <2>1, <2>2, <2>3
<1>8. sent' = sent
  BY DEF PopFront
<1>9. QED
  BY <1>5, <1>6, <1>7, <1>8 DEF Channel!Take, History

\* No other step shows: the mutex is taken and given up with nothing to insert.
LEMMA UnseenSteps ==
    ASSUME Inv, UNCHANGED <<container_, delivered, sent>>, Inserting' = Inserting
    PROVE  UNCHANGED Channel!vars
BY DEF Channel!vars

LEMMA ProducerUnseen ==
    ASSUME Inv, NEW p \in Producers,
           NotifyAll(p) \/ UnlockGuard(p) \/ \E n \in 0..MaxBatch : Call(p, n)
    PROVE  UNCHANGED Channel!vars
<1>1. p \in Threads /\ p # NoThread /\ NoThread \notin Producers
  BY WaitableContainerAssumption DEF Threads
<1>2. UNCHANGED <<container_, delivered, sent>>
  BY DEF NotifyAll, UnlockGuard, Call
<1>3. CASE NotifyAll(p)
  BY <1>2, <1>3, UnseenSteps DEF NotifyAll, Inserting
<1>4. CASE UnlockGuard(p)
  <2>1. mutex_ = p /\ new_list[p] = <<>>
    BY <1>1, <1>4 DEF UnlockGuard, Inv, HolderInv, ListInv, ListReady
  <2>2. QED
    BY <1>1, <1>2, <1>4, <2>1, UnseenSteps DEF UnlockGuard, Inserting
<1>5. ASSUME NEW n \in 0..MaxBatch, Call(p, n) PROVE UNCHANGED Channel!vars
  <2>1. mutex_ # p
    BY <1>1, <1>5 DEF Call, Inv, HolderInv
  <2>2. Inserting' = Inserting
    BY <1>5, <2>1 DEF Call, Inserting, Inv, TypeOK
  <2>3. QED
    BY <1>2, <2>2, UnseenSteps
<1>6. QED
  BY <1>3, <1>4, <1>5

LEMMA ConsumerUnseen ==
    ASSUME Inv, NEW c \in Consumers,
           UniqueLock(c) \/ FoundEmpty(c) \/ Wait(c) \/ Unlock(c) \/ SpuriousWakeup(c)
    PROVE  UNCHANGED Channel!vars
<1>1. c \in Threads /\ c \notin Producers /\ NoThread \notin Producers
  BY WaitableContainerAssumption DEF Threads
<1>2. UNCHANGED <<container_, delivered, sent, new_list>>
  BY DEF UniqueLock, FoundEmpty, Wait, Unlock, SpuriousWakeup
<1>3. mutex_' = mutex_ \/ (mutex_ \notin Producers /\ mutex_' \notin Producers)
  BY <1>1 DEF UniqueLock, FoundEmpty, Wait, Unlock, SpuriousWakeup, Inv, HolderInv
<1>4. Inserting' = Inserting
  BY <1>2, <1>3 DEF Inserting
<1>5. QED
  BY <1>2, <1>4, UnseenSteps

\* Every behaviour of the container is one of a FIFO channel: nothing is lost,
\* duplicated or reordered between append and get, and nothing comes between the
\* items of a list.
THEOREM ContainerIsFifo == Spec => ImplementsChannel
<1>1. Init => Channel!Init
  <2> SUFFICES ASSUME Init PROVE Channel!Init
    OBVIOUS
  <2>1. Inserting = <<>>
    BY WaitableContainerAssumption DEF Init, Inserting
  <2>2. QED
    BY <2>1 DEF Init, Channel!Init
<1>2. Inv /\ [Next]_vars => [Channel!Next]_(Channel!vars)
  <2> SUFFICES ASSUME Inv, [Next]_vars PROVE [Channel!Next]_(Channel!vars)
    OBVIOUS
  <2>1. ASSUME NEW p \in Producers, AppendCall(p) \/ \E n \in 0..MaxBatch : Call(p, n)
        PROVE  [Channel!Next]_(Channel!vars)
    BY <2>1, PutWhenLocked, UnseenInsert, ProducerUnseen DEF AppendCall, Channel!Next
  <2>2. ASSUME NEW c \in Consumers, Get(c) \/ SpuriousWakeup(c)
        PROVE  [Channel!Next]_(Channel!vars)
    BY <2>2, TakeWhenPopped, ConsumerUnseen DEF Get, Channel!Next
  <2>3. CASE UNCHANGED vars
    BY <2>3, UnseenSteps DEF vars, Inserting
  <2>4. QED
    BY <2>1, <2>2, <2>3 DEF Next
<1>3. QED
  BY <1>1, <1>2, InvInit, InvStep, PTL DEF Spec, Channel!Spec, ImplementsChannel
=============================================================================
