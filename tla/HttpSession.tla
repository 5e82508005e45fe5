----------------------------- MODULE HttpSession -----------------------------
(***************************************************************************)
(* The HTTP server of binance_orders: server_t accepts connections and     *)
(* keeps a session_t for each in its list, pruned of closed ones when more *)
(* than Limit are kept; a session reads a request, answers it, and reads   *)
(* the next.  Every handler of a session holds a raw `this': only the list *)
(* keeps the session alive, and the acceptor, on a strand of its own,      *)
(* prunes it whenever its socket is closed.                                *)
(*                                                                         *)
(* A connection is numbered as it is accepted.  Its requests are numbered  *)
(* as the client sends them; what is on the wire is a sequence of them,    *)
(* 0 standing for the rest of a request whose beginning was thrown away.   *)
(***************************************************************************)
EXTENDS Naturals, Sequences, FiniteSets, SequencesExt

CONSTANTS MaxConns,     \* bound: connections there will be
          Pipelining,   \* the clients that do not wait for an answer to ask again
          Limit,        \* sessions above which closed ones are pruned (20)
          MaxRequests,  \* bound: requests of a client
          MaxFaults     \* bound: resets

Conns == 1 .. MaxConns

ASSUME HttpSessionAssumption ==
    /\ MaxConns \in Nat
    /\ Pipelining \subseteq Conns
    /\ Limit \in Nat /\ MaxRequests \in Nat /\ MaxFaults \in Nat

VARIABLES
    process,     \* "up", or "down" after undefined behaviour
    accepted,    \* connections accepted so far
    sessions_,   \* those in the server's list, whose order does not matter
    op,          \* what each session waits for: "header", "body", "answer" (the
                 \* write of one after which it reads on), "last" (one after which
                 \* it closes), or "none"
    is_open,     \* the socket: is_closed() is its negation
    request,     \* the number of the request that was read last, 0 if none
    wire, sent,  \* what is on the way to the server, requests sent
    gone,        \* the client has closed its side, or reset the connection
    answered,    \* history: the requests answered, in order
    timedOut,    \* history: the connections whose 5 minutes were over
    unwritten,   \* history: the connections an answer could not be written to
    faults

clientVars  == <<wire, sent, gone>>
sessionVars == <<op, is_open, request>>
vars == <<process, accepted, sessions_, sessionVars, clientVars, answered,
          timedOut, unwritten, faults>>

Fault == faults < MaxFaults /\ faults' = faults + 1

-----------------------------------------------------------------------------
(* The clients.                                                            *)

ClientSends(c) ==
    /\ process = "up" /\ c <= accepted /\ gone[c] = "no"
    /\ sent[c] < MaxRequests
    /\ c \in Pipelining \/ Len(answered[c]) = sent[c]
    /\ sent' = [sent EXCEPT ![c] = @ + 1]
    /\ wire' = [wire EXCEPT ![c] = Append(@, sent'[c])]
    /\ UNCHANGED <<process, accepted, sessions_, sessionVars, gone, answered,
                   timedOut, unwritten, faults>>

\* It has its answers, or does not want them any more.
ClientCloses(c) ==
    /\ process = "up" /\ c <= accepted
    /\ \/ gone[c] = "no" /\ gone' = [gone EXCEPT ![c] = "closed"] /\ UNCHANGED faults
       \/ gone[c] # "reset" /\ gone' = [gone EXCEPT ![c] = "reset"] /\ Fault
    /\ UNCHANGED <<process, accepted, sessions_, sessionVars, wire, sent, answered,
                   timedOut, unwritten>>

-----------------------------------------------------------------------------
(* server_t.                                                               *)

Pruned ==
    IF Cardinality(sessions_) > Limit THEN {c \in sessions_ : is_open[c]} ELSE sessions_

\* Mutant: a session is kept for an accept that failed.
OnConnectionAcceptedFailed ==
    /\ process = "up" /\ accepted + 1 \in Conns
    /\ accepted' \in {accepted, accepted + 1}
    /\ sessions_' = Pruned \cup {accepted + 1}
    /\ op' = [op EXCEPT ![accepted + 1] = "header"]
    /\ is_open' = [is_open EXCEPT ![accepted + 1] = TRUE]
    /\ UNCHANGED <<process, request, clientVars, answered, timedOut, unwritten, faults>>

\* on_connection_accepted: the new session begins to read.
OnConnectionAccepted ==
    /\ process = "up" /\ accepted + 1 \in Conns
    /\ accepted' = accepted + 1
    /\ sessions_' = Pruned \cup {accepted'}
    /\ op' = [op EXCEPT ![accepted'] = "header"]
    /\ is_open' = [is_open EXCEPT ![accepted'] = TRUE]
    /\ UNCHANGED <<process, request, clientVars, answered, timedOut, unwritten, faults>>

-----------------------------------------------------------------------------
(* session_t.  A handler of a session that was pruned uses freed memory.   *)

Runs(c) == process = "up" /\ c \in sessions_

\* http_read_data: the buffer is emptied, and what was read ahead is lost.
HttpReadData(c) == op' = [op EXCEPT ![c] = "header"] /\ UNCHANGED is_open

\* shutdown_socket.
ShutdownSocket(c) ==
    /\ op' = [op EXCEPT ![c] = "none"]
    /\ is_open' = [is_open EXCEPT ![c] = FALSE]

\* A read may bring more than it needs into the buffer: whole requests and the
\* beginning of another, which leaves its rest on the wire.  The buffer is used
\* by nobody until http_read_data empties it.
ReadsAhead(c, rest) ==
    \E n \in 0 .. Len(rest) :
        \/ wire' = [wire EXCEPT ![c] = SubSeq(rest, n + 1, Len(rest))]
        \/ /\ n < Len(rest)
           /\ wire' = [wire EXCEPT ![c] = <<0>> \o SubSeq(rest, n + 2, Len(rest))]

\* Mutant: the request of the connection is the first that was parsed.
OnHeaderReadOnce(c) ==
    /\ Runs(c) /\ op[c] = "header" /\ is_open[c] /\ gone[c] # "reset"
    /\ wire[c] # <<>> /\ Head(wire[c]) # 0
    /\ op' = [op EXCEPT ![c] = "body"]
    /\ request' = [request EXCEPT ![c] = IF @ = 0 THEN Head(wire[c]) ELSE @]
    /\ ReadsAhead(c, Tail(wire[c]))
    /\ UNCHANGED <<process, accepted, sessions_, is_open, sent, gone, answered,
                   timedOut, unwritten, faults>>

\* on_header_read: the parser of the request goes on with the body.
OnHeaderRead(c) ==
    /\ Runs(c) /\ op[c] = "header" /\ is_open[c] /\ gone[c] # "reset"
    /\ wire[c] # <<>> /\ Head(wire[c]) # 0
    /\ op' = [op EXCEPT ![c] = "body"]
    /\ request' = [request EXCEPT ![c] = Head(wire[c])]
    /\ ReadsAhead(c, Tail(wire[c]))
    /\ UNCHANGED <<process, accepted, sessions_, is_open, sent, gone, answered,
                   timedOut, unwritten, faults>>

\* handle_requests: whatever its target and method, one answer is written,
\* after which the session reads on.
OnDataRead(c) ==
    /\ Runs(c) /\ op[c] = "body" /\ is_open[c] /\ gone[c] # "reset"
    /\ op' = [op EXCEPT ![c] = "answer"]
    /\ ReadsAhead(c, wire[c])
    /\ UNCHANGED <<process, accepted, sessions_, is_open, request, sent, gone,
                   answered, timedOut, unwritten, faults>>

\* The time is over, the connection is reset, the header does not parse, or the
\* body is cut short or longer than 50 MiB.
ReadError(c) == ~ is_open[c] \/ gone[c] = "reset" \/ op[c] = "body" \/ wire[c] # <<>>

\* Mutant: the socket is closed before the error has been written.
ReadFailsClosesFirst(c) ==
    /\ Runs(c) /\ op[c] \in {"header", "body"}
    /\ ReadError(c)
    /\ op' = [op EXCEPT ![c] = "last"]
    /\ is_open' = [is_open EXCEPT ![c] = FALSE]
    /\ UNCHANGED <<process, accepted, sessions_, request, clientVars,
                   answered, timedOut, unwritten, faults>>

\* An error is written, whatever has failed, and the socket closed after it.
ReadFails(c) ==
    /\ Runs(c) /\ op[c] \in {"header", "body"}
    /\ ReadError(c)
    /\ op' = [op EXCEPT ![c] = "last"]
    /\ UNCHANGED <<process, accepted, sessions_, is_open, request, clientVars,
                   answered, timedOut, unwritten, faults>>

\* Mutant: nobody waits for the client to go.
EndOfStreamIgnored(c) ==
    /\ Runs(c) /\ op[c] = "header" /\ is_open[c]
    /\ gone[c] = "closed" /\ wire[c] = <<>>
    /\ op' = [op EXCEPT ![c] = "none"]
    /\ UNCHANGED <<process, accepted, sessions_, is_open, request, clientVars,
                   answered, timedOut, unwritten, faults>>

\* The client has closed its side and all it sent was read.
EndOfStream(c) ==
    /\ Runs(c) /\ op[c] = "header" /\ is_open[c]
    /\ gone[c] = "closed" /\ wire[c] = <<>>
    /\ ShutdownSocket(c)
    /\ UNCHANGED <<process, accepted, sessions_, request, clientVars, answered,
                   timedOut, unwritten, faults>>

\* on_data_written: the next request is read, also when the client has asked
\* for the connection to be closed.
OnDataWritten(c) ==
    /\ Runs(c) /\ op[c] = "answer" /\ is_open[c] /\ gone[c] # "reset"
    /\ answered' = [answered EXCEPT ![c] = Append(@, request[c])]
    /\ HttpReadData(c)
    /\ UNCHANGED <<process, accepted, sessions_, request, clientVars, timedOut,
                   unwritten, faults>>

\* The answer cannot be written: that is logged, and nothing follows; a socket
\* that the time-out has not closed stays open.
WriteFails(c) ==
    /\ Runs(c) /\ op[c] = "answer"
    /\ ~ is_open[c] \/ gone[c] = "reset"
    /\ op' = [op EXCEPT ![c] = "none"]
    /\ unwritten' = unwritten \cup {c}
    /\ UNCHANGED <<process, accepted, sessions_, is_open, request, clientVars,
                   answered, timedOut, faults>>

\* The write of the error is over, however it went.
LastWritten(c) ==
    /\ Runs(c) /\ op[c] = "last"
    /\ ShutdownSocket(c)
    /\ UNCHANGED <<process, accepted, sessions_, request, clientVars, answered,
                   timedOut, unwritten, faults>>

\* Mutant: the stream is given its time for the first request only.
TimeOutFirstOnly(c) ==
    /\ Runs(c) /\ op[c] # "none" /\ is_open[c] /\ answered[c] = <<>>
    /\ is_open' = [is_open EXCEPT ![c] = FALSE]
    /\ timedOut' = timedOut \cup {c}
    /\ UNCHANGED <<process, accepted, sessions_, op, request, clientVars, answered,
                   unwritten, faults>>

\* The 5 minutes since the reading began are over: the stream closes its socket,
\* and the operation under way is about to end with an error.
TimeOut(c) ==
    /\ Runs(c) /\ op[c] # "none" /\ is_open[c]
    /\ is_open' = [is_open EXCEPT ![c] = FALSE]
    /\ timedOut' = timedOut \cup {c}
    /\ UNCHANGED <<process, accepted, sessions_, op, request, clientVars, answered,
                   unwritten, faults>>

\* The handler of a session that is no more: it finds what is left of it, or
\* the process dies.
OrphanRuns(c) ==
    /\ process = "up" /\ c \notin sessions_ /\ op[c] # "none"
    /\ \/ op' = [op EXCEPT ![c] = "none"] /\ UNCHANGED process
       \/ process' = "down" /\ UNCHANGED op
    /\ UNCHANGED <<accepted, sessions_, is_open, request, clientVars, answered,
                   timedOut, unwritten, faults>>

-----------------------------------------------------------------------------
Init ==
    /\ process = "up" /\ accepted = 0 /\ sessions_ = {}
    /\ op = [c \in Conns |-> "none"]
    /\ is_open = [c \in Conns |-> FALSE]
    /\ request = [c \in Conns |-> 0]
    /\ wire = [c \in Conns |-> <<>>]
    /\ sent = [c \in Conns |-> 0] /\ gone = [c \in Conns |-> "no"]
    /\ answered = [c \in Conns |-> <<>>]
    /\ timedOut = {} /\ unwritten = {} /\ faults = 0

Completes(c) ==
    \/ OnHeaderRead(c) \/ OnDataRead(c) \/ OnDataWritten(c)
    \/ ReadFails(c) \/ EndOfStream(c) \/ WriteFails(c) \/ LastWritten(c)
    \/ OrphanRuns(c)

Next ==
    \/ OnConnectionAccepted
    \/ \E c \in Conns : ClientSends(c) \/ ClientCloses(c) \/ Completes(c) \/ TimeOut(c)

Spec == Init /\ [][Next]_vars

\* The io_context runs what is ready, and the timers expire; no client has to
\* do anything.
FairSpec == Spec /\ \A c \in Conns : WF_vars(Completes(c)) /\ WF_vars(TimeOut(c))

-----------------------------------------------------------------------------
Ascending(s) == \A i, j \in DOMAIN s : i < j => s[i] < s[j]

TypeOK ==
    /\ process \in {"up", "down"}
    /\ accepted \in 0 .. MaxConns
    /\ sessions_ \subseteq 1 .. accepted
    /\ op \in [Conns -> {"header", "body", "answer", "last", "none"}]
    /\ is_open \in [Conns -> BOOLEAN]
    /\ \A c \in Conns : request[c] \in 0 .. sent[c] /\ sent[c] \in 0 .. MaxRequests
    /\ \A c \in Conns : Range(wire[c]) \subseteq 0 .. sent[c]
    /\ gone \in [Conns -> {"no", "closed", "reset"}]
    /\ timedOut \subseteq Conns /\ unwritten \subseteq Conns
    /\ faults \in 0 .. MaxFaults

\* An answer is to a request the client has sent, in the order of the requests,
\* and no request is answered twice; the client that waits for its answers gets
\* every one of them up to the last it has asked for.  One that does not may miss
\* some: http_read_data empties a buffer that holds their requests.
AnswersInOrder ==
    \A c \in Conns :
        /\ Ascending(answered[c]) /\ Range(answered[c]) \subseteq 1 .. sent[c]
        /\ c \notin Pipelining =>
               /\ Range(answered[c]) = 1 .. Len(answered[c])
               /\ sent[c] <= Len(answered[c]) + 1

\* Each connection is a dialogue (Dialogue), which is over for good when its socket
\* is closed, the error that is written last is on its way, or no handler follows:
\* what the client, the time-out and the acceptor do then brings no other answer.
Phase == [c \in Conns |->
    IF c > accepted THEN "new"
    ELSE IF ~ is_open[c] \/ op[c] \in {"last", "none"} THEN "over"
    ELSE IF op[c] = "header" THEN "idle" ELSE "busy"]

Talk == INSTANCE Dialogue WITH
    Clients <- Conns, Hasty <- Pipelining,
    phase <- Phase, asked <- sent, read <- request, replies <- answered

ImplementsDialogue == Talk!Spec

\* A session whose handler is still to run is freed by the acceptor only after
\* the time-out has closed its socket under it: on every other path the socket is
\* closed by the last handler, though every handler holds a raw `this`.
OrphansTimedOut ==
    \A c \in 1 .. accepted :
        /\ op[c] # "none" /\ (c \notin sessions_ \/ ~ is_open[c]) => c \in timedOut
        /\ is_open[c] => c \in sessions_

\* A session that no handler will run for, with its socket still open, is never
\* pruned: it is one an answer could not be written to, on_data_written having
\* returned without closing.
LeaksUnwritten ==
    \A c \in 1 .. accepted : op[c] = "none" /\ is_open[c] => c \in unwritten

\* No client keeps a session waiting for ever: the time-out of each reading ends
\* it, whatever the client does (http_read_data's expires_after).
ConnectionsEnd ==
    \A c \in Conns : op[c] # "none" ~> (op[c] = "none" \/ process = "down")
=============================================================================
