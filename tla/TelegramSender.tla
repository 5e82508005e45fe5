--------------------------- MODULE TelegramSender ---------------------------
(***************************************************************************)
(* The notifications: persistent_orders_saver's thread hands each payload  *)
(* to the first tg_message_sender_t of its pool that is available, or to a *)
(* new one; every sender is a chain of asynchronous operations that runs   *)
(* on the io_context and writes the payloads of its deque one after the    *)
(* other over one HTTPS connection.  The two threads share the deque and   *)
(* the flag operation_completed_ without a lock.                           *)
(*                                                                         *)
(* The payloads are numbered in the order they are handed over, and their  *)
(* chat is known (the look-up precedes all of this).                       *)
(***************************************************************************)
EXTENDS Naturals, Sequences, FiniteSets, SequencesExt

CONSTANTS N,           \* bound: the notifications there are
          Limit,       \* payloads a sender accepts (20 in the code)
          PruneAbove,  \* pool size above which completed senders go (3)
          MaxFaults    \* bound: operations that fail, answers that refuse

ASSUME TelegramSenderAssumption ==
    /\ N \in Nat /\ Limit \in Nat \ {0} /\ PruneAbove \in Nat /\ MaxFaults \in Nat

VARIABLES
    process,      \* "up", or "down" once undefined behaviour has ended it
    saverPc,      \* "idle", "scan", or "chosen"
    at,           \* the sender the saver has looked at last, 0 if none
    handed,       \* notifications handed to a sender so far
    message_senders,   \* the pool: its senders, which stay in the order of their ids
    op,           \* the operation each sender waits for; "mute" when it waits for
                  \* none and has not completed; "wild" once the deque was popped
                  \* while empty: garbage is sent from then on
    payloads_, operation_completed_,
    request,      \* the payload of the exchange under way (http_request_ itself
                  \* is reset when it is written)
    delivered,    \* history: <<sender, payload>> as the server took them
    faults

saverVars  == <<saverPc, at, handed, message_senders>>
senderVars == <<op, payloads_, operation_completed_, request>>
vars == <<process, saverVars, senderVars, delivered, faults>>

Senders == 1 .. N      \* a new sender always comes with a payload
None == 0              \* no request
Ops == {"unborn", "none", "resolve", "connect", "handshake", "write", "read",
        "mute", "wild"}

-----------------------------------------------------------------------------
(* The saver's thread: send_telegram_message.                              *)

Current == handed + 1

Take ==
    /\ process = "up" /\ saverPc = "idle" /\ handed < N
    /\ saverPc' = "scan" /\ at' = 0
    /\ UNCHANGED <<process, handed, message_senders, senderVars, delivered, faults>>

\* available_with_less_tasks: a deque popped while empty has an enormous size.
AvailableWithLessTasks(s) ==
    /\ ~ operation_completed_[s]
    /\ Len(payloads_[s]) < Limit
    /\ op[s] # "wild"

ToLookAt == {s \in message_senders : s > at}

LookAtSender ==
    /\ process = "up" /\ saverPc = "scan"
    /\ at' \in ToLookAt /\ \A s \in ToLookAt : at' <= s
    /\ saverPc' = IF AvailableWithLessTasks(at') THEN "chosen" ELSE "scan"
    /\ UNCHANGED <<process, handed, message_senders, senderVars, delivered, faults>>

\* The sender may have gone on, or completed, since it was looked at.
AddPayload ==
    /\ process = "up" /\ saverPc = "chosen"
    /\ payloads_' = [payloads_ EXCEPT ![at] = Append(@, Current)]
    /\ handed' = Current
    /\ saverPc' = "idle" /\ at' = 0
    /\ UNCHANGED <<process, message_senders, op, request, operation_completed_,
                   delivered, faults>>

Pruned ==
    IF Cardinality(message_senders) > PruneAbove
    THEN {s \in message_senders : ~ operation_completed_[s]}
    ELSE message_senders

\* Mutant: the position in the pool outlives the pruning.
StartSenderStale ==
    /\ process = "up" /\ saverPc = "scan" /\ ToLookAt = {}
    /\ LET s == Cardinality({x \in Senders : op[x] # "unborn"}) + 1 IN
         /\ message_senders' = Pruned \cup {s}
         /\ op' = [op EXCEPT ![s] = "resolve"]
         /\ payloads_' = [payloads_ EXCEPT ![s] = <<Current>>]
    /\ handed' = Current
    /\ saverPc' = "idle"
    /\ UNCHANGED <<process, at, request, operation_completed_, delivered, faults>>

\* None was available: a new sender, which starts to resolve the host.
StartSender ==
    /\ process = "up" /\ saverPc = "scan" /\ ToLookAt = {}
    /\ LET s == Cardinality({x \in Senders : op[x] # "unborn"}) + 1 IN
         /\ message_senders' = Pruned \cup {s}
         /\ op' = [op EXCEPT ![s] = "resolve"]
         /\ payloads_' = [payloads_ EXCEPT ![s] = <<Current>>]
    /\ handed' = Current
    /\ saverPc' = "idle" /\ at' = 0
    /\ UNCHANGED <<process, request, operation_completed_, delivered, faults>>

-----------------------------------------------------------------------------
(* The senders, on the io_context.                                         *)

Goto(s, o) == op' = [op EXCEPT ![s] = o]

\* Undefined behaviour: the process dies, or the sender goes on with garbage.
PopEmpty(s) ==
    \/ /\ Goto(s, "wild")
       /\ UNCHANGED <<process, payloads_, request>>
    \/ /\ process' = "down"
       /\ Goto(s, "none")
       /\ UNCHANGED <<payloads_, request>>

\* Mutant: the payload that came last is taken.
SendRequestNewest(s) ==
    \/ /\ payloads_[s] # <<>>
       /\ request' = [request EXCEPT ![s] = Last(payloads_[s])]
       /\ payloads_' = [payloads_ EXCEPT ![s] = Front(@)]
       /\ Goto(s, "write")
       /\ UNCHANGED process
    \/ payloads_[s] = <<>> /\ PopEmpty(s)

\* send_request.  prepare_payload would keep a request that is there, but the
\* handler of the write has always reset it.
SendRequest(s) ==
    \/ /\ payloads_[s] # <<>>
       /\ request' = [request EXCEPT ![s] = Head(payloads_[s])]
       /\ payloads_' = [payloads_ EXCEPT ![s] = Tail(@)]
       /\ Goto(s, "write")
       /\ UNCHANGED process
    \/ payloads_[s] = <<>> /\ PopEmpty(s)

Resolved(s) ==
    /\ process = "up" /\ op[s] = "resolve"
    /\ Goto(s, "connect")
    /\ UNCHANGED <<process, saverVars, payloads_, request, operation_completed_,
                   delivered, faults>>

Connected(s) ==
    /\ process = "up" /\ op[s] = "connect"
    /\ Goto(s, "handshake")
    /\ UNCHANGED <<process, saverVars, payloads_, request, operation_completed_,
                   delivered, faults>>

HandshakeDone(s) ==
    /\ process = "up" /\ op[s] = "handshake"
    /\ SendRequest(s)
    /\ UNCHANGED <<saverVars, operation_completed_, delivered, faults>>

Fault == faults < MaxFaults /\ faults' = faults + 1

\* A connection that is not established: the sender has completed, whatever
\* its deque still holds.
ConnectionFails(s) ==
    /\ process = "up" /\ op[s] \in {"resolve", "connect", "handshake"}
    /\ Fault
    /\ Goto(s, "none")
    /\ operation_completed_' = [operation_completed_ EXCEPT ![s] = TRUE]
    /\ UNCHANGED <<process, saverVars, payloads_, request, delivered>>

\* The host name cannot be set: the same, but for the flag, so that the saver
\* goes on to choose a sender that sends nothing.
SetHostNameFails(s) ==
    /\ process = "up" /\ op[s] = "connect"
    /\ Fault
    /\ Goto(s, "mute")
    /\ UNCHANGED <<process, saverVars, payloads_, request, operation_completed_,
                   delivered>>

\* The server has taken the message.
Served(s) == delivered' = Append(delivered, <<s, request[s]>>)

Written(s) ==
    /\ process = "up" /\ op[s] = "write"
    /\ Goto(s, "read")
    /\ UNCHANGED <<process, saverVars, payloads_, request, operation_completed_,
                   delivered, faults>>

\* Mutant: what could not be sent is put back.
ExchangeFailsPutsBack(s) ==
    /\ process = "up" /\ op[s] \in {"write", "read"}
    /\ Fault
    /\ Goto(s, "resolve")
    /\ payloads_' = [payloads_ EXCEPT ![s] = <<request[s]>> \o @]
    /\ request' = [request EXCEPT ![s] = None]
    /\ Served(s) \/ UNCHANGED delivered
    /\ UNCHANGED <<process, saverVars, operation_completed_>>

\* The write or the read fails, after the server has taken the message or not:
\* the payload is given up and the connection made anew.
ExchangeFails(s) ==
    /\ process = "up" /\ op[s] \in {"write", "read"}
    /\ Fault
    /\ Goto(s, "resolve")
    /\ request' = [request EXCEPT ![s] = None]
    /\ Served(s) \/ UNCHANGED delivered
    /\ UNCHANGED <<process, saverVars, payloads_, operation_completed_>>

\* Mutant: the last payload is not looked for.
SendNextRequestEarly(s) ==
    IF Len(payloads_[s]) <= 1
    THEN /\ Goto(s, "none")
         /\ request' = [request EXCEPT ![s] = None]
         /\ UNCHANGED <<process, payloads_, operation_completed_>>
    ELSE SendRequest(s) /\ UNCHANGED operation_completed_

SendNextRequest(s) ==
    IF payloads_[s] = <<>>
    THEN /\ Goto(s, "none")
         /\ request' = [request EXCEPT ![s] = None]
         /\ operation_completed_' = [operation_completed_ EXCEPT ![s] = TRUE]
         /\ UNCHANGED <<process, payloads_>>
    ELSE SendRequest(s) /\ UNCHANGED operation_completed_

\* A response.  Its status is not looked at: a refusal counts as an answer.
Answered(s) ==
    /\ process = "up" /\ op[s] = "read"
    /\ \/ Served(s) /\ UNCHANGED faults
       \/ Fault /\ UNCHANGED delivered
    /\ SendNextRequest(s)
    /\ UNCHANGED saverVars

\* What garbage may come to at any time.
GarbageCrashes(s) ==
    /\ process = "up" /\ op[s] = "wild"
    /\ process' = "down"
    /\ UNCHANGED <<saverVars, senderVars, delivered, faults>>

-----------------------------------------------------------------------------
Init ==
    /\ process = "up"
    /\ saverPc = "idle" /\ at = 0 /\ handed = 0 /\ message_senders = {}
    /\ op = [s \in Senders |-> "unborn"]
    /\ payloads_ = [s \in Senders |-> <<>>]
    /\ request = [s \in Senders |-> None]
    /\ operation_completed_ = [s \in Senders |-> FALSE]
    /\ delivered = <<>>
    /\ faults = 0

Saver == Take \/ LookAtSender \/ AddPayload \/ StartSender

\* The operations a sender waits for complete, one way or the other.
Proceeds(s) ==
    \/ Resolved(s) \/ Connected(s) \/ HandshakeDone(s) \/ Written(s) \/ Answered(s)

Fails(s) == ConnectionFails(s) \/ SetHostNameFails(s) \/ ExchangeFails(s)

Next ==
    \/ Saver
    \/ \E s \in Senders : Proceeds(s) \/ Fails(s) \/ GarbageCrashes(s)

Spec == Init /\ [][Next]_vars

\* The saver's thread goes on and every operation of a sender completes: each
\* carries a timeout, but for the look-up of the host.
FairSpec == Spec /\ WF_vars(Saver) /\ \A s \in Senders : WF_vars(Proceeds(s))

-----------------------------------------------------------------------------
TypeOK ==
    /\ process \in {"up", "down"}
    /\ saverPc \in {"idle", "scan", "chosen"}
    /\ handed \in 0 .. N
    /\ message_senders \subseteq Senders
    /\ at \in {0} \cup message_senders
    /\ op \in [Senders -> Ops]
    /\ payloads_ \in [Senders -> Seq(1 .. N)]
    /\ request \in [Senders -> 0 .. N]
    /\ operation_completed_ \in [Senders -> BOOLEAN]
    /\ delivered \in Seq(Senders \X (1 .. N))
    /\ faults \in 0 .. MaxFaults

Queued(s) == Range(payloads_[s])
Sent == {delivered[i][2] : i \in DOMAIN delivered}

\* The saver checks the length of a deque and adds to it later, while the sender
\* works on it: the limit holds all the same.
WithinLimit == \A s \in Senders : Len(payloads_[s]) <= Limit

AtMostOnce ==
    /\ Cardinality(Sent) = Len(delivered)
    /\ \A s, t \in Senders : Queued(s) \cap Sent = {} /\ (s # t => Queued(s) \cap Queued(t) = {})

InOrder ==
    \A i, j \in DOMAIN delivered :
        i < j /\ delivered[i][1] = delivered[j][1] => delivered[i][2] < delivered[j][2]

\* However connections are lost and made anew, no notification is delivered
\* twice, none that is still queued has been delivered, and one sender delivers
\* in the order in which it was handed its payloads.
OnceAndInOrder == AtMostOnce /\ InOrder

\* While the process lives, an operation that fails costs one notification at
\* most: every other is delivered, under way, or in a deque (of a sender that may
\* have completed: see EventuallyDelivered).
LossPerFault ==
    process = "up" =>
        Cardinality((1 .. handed) \ (Sent \cup Range(request)
                                        \cup UNION {Queued(s) : s \in Senders})) <= faults

\* Each sender is a line (LossyLines): the request under way, if there is one, in
\* front of the deque.  Whatever the saver's unlocked look at the deques and the
\* reconnections do, notifications enter a line behind the others, leave it in
\* order, and are given up one per failure.
Joined(r, payloads) == IF r = None THEN payloads ELSE <<r>> \o payloads
LineOf == [s \in Senders |-> Joined(request[s], payloads_[s])]

Pool == INSTANCE LossyLines WITH lines <- LineOf, Capacity <- Limit + 1

ImplementsLines == Pool!Spec

\* What is in the deque of a sender that is at work is taken from it in the end,
\* unless a failure ends the sender first.
DequesDrain ==
    \A s \in Senders, m \in 1 .. N :
        (m \in Queued(s) /\ op[s] \notin {"none", "mute", "wild"})
            ~> \/ m \notin Queued(s)
               \/ operation_completed_[s] \/ op[s] = "mute" \/ process = "down"

\* Without failures every notification is delivered (README: "It allows me to
\* receive Telegram notification of my cancelled, fully/partially filled orders").
EventuallyDelivered == \A m \in 1 .. N : <>(m \in Sent)
=============================================================================
