--------------------------- MODULE UserDataStream ---------------------------
(***************************************************************************)
(* The life of one user_data_stream_t: a chain of asynchronous operations  *)
(* that fetches a listen key over HTTPS, opens the websocket of that key,  *)
(* and reads from it until the connection is severed, when it starts again *)
(* 10 s later; the key of an open websocket is renewed every 30 minutes.   *)
(* The handlers run one at a time on the io_context; stop() is called on   *)
(* the launcher's thread and interleaves with them.                        *)
(*                                                                         *)
(* `pending' holds the completion handlers that will run: each of them     *)
(* keeps the object alive, and uses optionals that must still be engaged.  *)
(***************************************************************************)
EXTENDS ListenKeepalive, FiniteSets

CONSTANTS MaxSetupFaults,  \* bound: operations that fail before the websocket is open
          MaxDrops,        \* bound: open websockets that are lost
          MayStop          \* whether the account may be removed

ASSUME UserDataStreamAssumption ==
    MaxSetupFaults \in Nat /\ MaxDrops \in Nat /\ MayStop \in BOOLEAN

VARIABLES
    process,       \* "up", or "down" until the supervisor starts it again
    pending,
    ssl_web_stream_,   \* "none", "rest", "ws", "upgrading" (holds the control
                       \* callback), "open"
    listen_key_, listen_key_timer_,   \* whether engaged
    stopped_,
    stopPc,        \* the launcher in stop(): "idle", "flagged", "seen", "erased"
    closing,       \* async_close was accepted by an open websocket
    setupFaults, drops

objectVars == <<ssl_web_stream_, listen_key_, listen_key_timer_>>
stopVars   == <<stopped_, stopPc, closing>>
bounds     == <<setupFaults, drops>>
vars == <<process, pending, objectVars, keepaliveVars, stopVars, bounds>>

RestOps == {"rest_resolve", "rest_connect", "rest_ssl", "rest_write", "rest_read"}
WsOps   == {"ws_resolve", "ws_connect", "ws_ssl", "ws_handshake"}
SetupOps == RestOps \cup WsOps
\* What the io_context runs at once: the completion of a read whose stream the
\* control callback has already severed, the handler of an expired 30 min timer,
\* and the posted re-arming of that timer.
Ready == {"ws_read_aborted", "listen_due", "listen_post"}
Handlers == SetupOps \cup Ready \cup {"run", "ws_read", "error_timer", "listen_wait"}

\* Handler h runs and starts the operations of `next'.
Continue(h, next) == pending' = (pending \ {h}) \cup next

\* What undefined behaviour and an exception nobody catches end in.
Terminate ==
    /\ process' = "down"
    /\ pending' = {}
    /\ ssl_web_stream_' = "none" /\ listen_key_' = FALSE /\ listen_key_timer_' = FALSE
    /\ listen_key_keepalive_' = "none" /\ orphan' = FALSE
    /\ keyAge' = 0 /\ UNCHANGED renewFaults
    /\ closing' = FALSE
    /\ stopPc' = IF stopped_ THEN "erased" ELSE "idle"
    /\ UNCHANGED stopped_

-----------------------------------------------------------------------------
\* Called by run() and by the retry timer.
RestApiInitiateConnection(h) ==
    /\ h \in pending \cap {"run", "error_timer"}
    \* The retry timer takes 10 s: what was ready by then has run.
    /\ h = "error_timer" => pending \cap Ready = {} /\ ~ orphan
    /\ IF stopped_
       THEN Continue(h, {}) /\ UNCHANGED listen_key_timer_
       ELSE /\ pending' = (pending \ {"run", "error_timer", "listen_wait"})
                          \cup {"rest_resolve"}
            /\ listen_key_timer_' = FALSE
    /\ UNCHANGED <<process, keepaliveVars, ssl_web_stream_, listen_key_, stopVars, bounds>>

\* The REST leg up to the response, each handler starting the next operation.
RestStep(h, next) ==
    /\ h \in pending
    /\ Continue(h, {next})
    /\ ssl_web_stream_' = IF h = "rest_resolve" THEN "rest" ELSE ssl_web_stream_
    /\ listen_key_' = IF h = "rest_write" THEN FALSE ELSE listen_key_
    /\ UNCHANGED <<process, keepaliveVars, listen_key_timer_, stopVars, bounds>>

\* A response that carries a key: on to the websocket, unless stopped.
RestApiOnDataReceived ==
    /\ "rest_read" \in pending
    /\ listen_key_' = TRUE
    /\ IF stopped_
       THEN Continue("rest_read", {}) /\ ssl_web_stream_' = "none"
       ELSE Continue("rest_read", {"ws_resolve"}) /\ ssl_web_stream_' = "ws"
    /\ UNCHANGED <<process, keepaliveVars, listen_key_timer_, stopVars, bounds>>

\* A response without a key (the stream object stays) or one that does not
\* parse (it goes): nothing further is started.
RestApiNoListenKey ==
    /\ "rest_read" \in pending
    /\ setupFaults < MaxSetupFaults
    /\ setupFaults' = setupFaults + 1
    /\ Continue("rest_read", {})
    /\ ssl_web_stream_' \in {"rest", "none"}
    /\ UNCHANGED <<process, keepaliveVars, listen_key_, listen_key_timer_, stopVars, drops>>

WsStep(h, next) ==
    /\ h \in pending
    /\ Continue(h, {next})
    /\ ssl_web_stream_' = IF next = "ws_handshake" THEN "upgrading" ELSE ssl_web_stream_
    /\ UNCHANGED <<process, keepaliveVars, listen_key_, listen_key_timer_, stopVars, bounds>>

\* The websocket is open: arm the 30 min timer if there is none, and read.
WsOpened ==
    /\ "ws_handshake" \in pending
    /\ Continue("ws_handshake",
                IF listen_key_timer_ THEN {"ws_read"} ELSE {"ws_read", "listen_wait"})
    /\ ssl_web_stream_' = "open"
    /\ listen_key_timer_' = TRUE
    /\ UNCHANGED <<process, keepaliveVars, listen_key_, stopVars, bounds>>

\* Every error of an operation before that is logged, and that is all.
SetupFails(h) ==
    /\ h \in pending \cap SetupOps
    /\ setupFaults < MaxSetupFaults
    /\ setupFaults' = setupFaults + 1
    /\ Continue(h, {})
    /\ UNCHANGED <<process, keepaliveVars, objectVars, stopVars, drops>>

-----------------------------------------------------------------------------
\* The key that was being kept alive goes with its websocket.
LoseKeepalive == Replace("none") /\ keyAge' = 0 /\ UNCHANGED renewFaults

\* Mutant: the second call reconnects at once.
OnWsConnectionSeveredAtOnce(h, later) ==
    /\ pending' = (pending \ {h, "listen_wait"}) \cup later
                  \cup (IF ssl_web_stream_ = "none" THEN {"rest_resolve"} ELSE {"error_timer"})
    /\ ssl_web_stream_' = "none" /\ listen_key_' = FALSE /\ listen_key_timer_' = FALSE
    /\ LoseKeepalive
    /\ closing' = FALSE
    /\ UNCHANGED <<process, stopped_, stopPc>>

\* Mutant: no retry timer is armed.
OnWsConnectionSeveredNoRetry(h, later) ==
    /\ pending' = (pending \ {h, "listen_wait", "error_timer"}) \cup later
    /\ ssl_web_stream_' = "none" /\ listen_key_' = FALSE /\ listen_key_timer_' = FALSE
    /\ LoseKeepalive
    /\ closing' = FALSE
    /\ UNCHANGED <<process, stopped_, stopPc>>

\* on_ws_connection_severed, from handler h with `later' still to complete.
\* close({}) is the overload that throws when the websocket is not open, and
\* nothing catches.  The timers' previous waits are cancelled.
OnWsConnectionSevered(h, later) ==
    \/ /\ pending' = (pending \ {h, "listen_wait"}) \cup later \cup {"error_timer"}
       /\ ssl_web_stream_' = "none" /\ listen_key_' = FALSE /\ listen_key_timer_' = FALSE
       /\ LoseKeepalive
       /\ closing' = FALSE
       /\ UNCHANGED <<process, stopped_, stopPc>>
    \/ ssl_web_stream_ # "none" /\ Terminate

\* The read fails: reset, idle for 5 minutes, ...
ReadFails ==
    /\ "ws_read" \in pending
    /\ drops < MaxDrops
    /\ drops' = drops + 1
    /\ OnWsConnectionSevered("ws_read", {})
    /\ UNCHANGED setupFaults

\* The peer sends a close frame: the control callback severs the connection
\* in the middle of the read, which completes with an error afterwards.
PeerCloses ==
    /\ "ws_read" \in pending
    /\ ~ stopped_
    /\ drops < MaxDrops
    /\ drops' = drops + 1
    /\ OnWsConnectionSevered("ws_read", {"ws_read_aborted"})
    /\ UNCHANGED setupFaults

\* The read of the websocket that the callback has destroyed; on the way to its
\* handler it shuts down the TLS layer that went with it, which is undefined.
ReadAborted ==
    /\ "ws_read_aborted" \in pending
    /\ OnWsConnectionSevered("ws_read_aborted", {}) \/ Terminate
    /\ UNCHANGED bounds

\* Mutant: the handler of the read returns at once when stopped.
CloseCompletesReturns ==
    /\ "ws_read" \in pending
    /\ stopped_ /\ closing
    /\ Continue("ws_read", {})
    /\ UNCHANGED <<process, keepaliveVars, objectVars, stopVars, bounds>>

\* The answer to our close frame, or a close frame after stop(): the callback
\* ignores it, the read ends with an error all the same.
CloseCompletes ==
    /\ "ws_read" \in pending
    /\ stopped_ /\ closing
    /\ OnWsConnectionSevered("ws_read", {})
    /\ UNCHANGED bounds

-----------------------------------------------------------------------------
\* A websocket has been open for another 30 minutes, the time in which all that
\* was ready has run and all exchanges are over.  The timer, if it is armed,
\* expires; destroyed from now on it cancels nothing.
HalfHourPasses ==
    /\ "ws_read" \in pending /\ pending \cap Ready = {} /\ ~ orphan
    /\ listen_key_keepalive_ \notin RenewOps
    /\ keyAge < 2
    /\ keyAge' = keyAge + 1
    /\ pending' = IF "listen_wait" \in pending
                  THEN (pending \ {"listen_wait"}) \cup {"listen_due"} ELSE pending
    /\ UNCHANGED <<process, objectVars, listen_key_keepalive_, orphan, renewFaults,
                   stopVars, bounds>>

\* Mutant: the timer is not armed again.
ListenDueOnce ==
    /\ "listen_due" \in pending
    /\ Continue("listen_due", {})
    /\ IF ssl_web_stream_ = "none"
       THEN UNCHANGED keepaliveVars
       ELSE Replace("resolve") /\ UNCHANGED <<keyAge, renewFaults>>
    /\ UNCHANGED <<process, objectVars, stopVars, bounds>>

\* Renew the key, in an exchange of its own, and post the re-arming.
ListenDue ==
    /\ "listen_due" \in pending
    /\ IF ssl_web_stream_ = "none"
       THEN Continue("listen_due", {}) /\ UNCHANGED keepaliveVars
       ELSE /\ Continue("listen_due", {"listen_post"})
            /\ Replace("resolve") /\ UNCHANGED <<keyAge, renewFaults>>
    /\ UNCHANGED <<process, objectVars, stopVars, bounds>>

\* on_periodic_time_timeout: a disengaged timer is undefined behaviour.
ListenPost ==
    /\ "listen_post" \in pending
    /\ \/ /\ listen_key_timer_
          /\ Continue("listen_post", {"listen_wait"})
          /\ UNCHANGED <<process, keepaliveVars, objectVars, stopVars, bounds>>
       \/ /\ ~ listen_key_timer_
          /\ Continue("listen_post", {})
          /\ UNCHANGED <<process, keepaliveVars, objectVars, stopVars, bounds>>
       \/ ~ listen_key_timer_ /\ Terminate /\ UNCHANGED bounds

\* The renewal goes on beside the stream.
Renewal ==
    /\ RenewalProceeds \/ RenewalFails
    /\ UNCHANGED <<process, pending, objectVars, stopVars, bounds>>

\* The handler of a destroyed object is undefined behaviour, unless it runs as
\* if nothing were wrong and comes to nothing.
OrphanRuns ==
    /\ process = "up" /\ orphan
    /\ \/ orphan' = FALSE
          /\ UNCHANGED <<process, pending, objectVars, listen_key_keepalive_, keyAge,
                         renewFaults, stopVars>>
       \/ Terminate
    /\ UNCHANGED bounds

-----------------------------------------------------------------------------
\* Mutant: the flag is not set.
StopFlagForgotten ==
    /\ MayStop /\ process = "up" /\ stopPc = "idle"
    /\ stopPc' = "flagged"
    /\ UNCHANGED <<process, keepaliveVars, pending, objectVars, stopped_, closing, bounds>>

\* stop(), called by the launcher when the account is removed.
StopFlag ==
    /\ MayStop /\ process = "up" /\ stopPc = "idle"
    /\ stopped_' = TRUE
    /\ stopPc' = "flagged"
    /\ UNCHANGED <<process, keepaliveVars, pending, objectVars, closing, bounds>>

StopLook ==
    /\ stopPc = "flagged"
    /\ stopPc' = IF ssl_web_stream_ = "none" THEN "erased" ELSE "seen"
    /\ UNCHANGED <<process, keepaliveVars, pending, objectVars, stopped_, closing, bounds>>

\* async_close: sends a close frame on an open websocket, reports an error on
\* any other; the optional may have been reset since it was looked at.
StopClose ==
    /\ stopPc = "seen"
    /\ \/ /\ stopPc' = "erased"
          /\ closing' = (ssl_web_stream_ = "open")
          /\ UNCHANGED <<process, keepaliveVars, pending, objectVars, stopped_, bounds>>
       \/ ssl_web_stream_ = "none" /\ Terminate /\ UNCHANGED bounds

\* The last reference is gone; the control callback's own reference to the
\* object keeps it alive while the websocket that holds it is engaged.
Destroy ==
    /\ stopPc = "erased" /\ process = "up"
    /\ pending = {}
    /\ ssl_web_stream_ \in {"rest", "ws"}
    /\ \/ ssl_web_stream_' = "none" /\ UNCHANGED process
       \/ ssl_web_stream_' = "none" /\ process' = "down"
    /\ UNCHANGED <<pending, keepaliveVars, listen_key_, listen_key_timer_, stopVars, bounds>>

\* The supervisor starts the process again, which launches the account if its
\* row is still there.
Restart ==
    /\ process = "down" /\ ~ stopped_
    /\ process' = "up"
    /\ pending' = {"run"}
    /\ UNCHANGED <<keepaliveVars, objectVars, stopVars, bounds>>

-----------------------------------------------------------------------------
Init ==
    /\ process = "up" /\ pending = {"run"}
    /\ ssl_web_stream_ = "none" /\ listen_key_ = FALSE /\ listen_key_timer_ = FALSE
    /\ stopped_ = FALSE /\ stopPc = "idle" /\ closing = FALSE
    /\ setupFaults = 0 /\ drops = 0
    /\ KeepaliveInit

\* What an operation started before the websocket is open completes with.
Setup ==
    \/ \E h \in {"run", "error_timer"} : RestApiInitiateConnection(h)
    \/ RestStep("rest_resolve", "rest_connect") \/ RestStep("rest_connect", "rest_ssl")
    \/ RestStep("rest_ssl", "rest_write") \/ RestStep("rest_write", "rest_read")
    \/ RestApiOnDataReceived \/ RestApiNoListenKey
    \/ WsStep("ws_resolve", "ws_connect") \/ WsStep("ws_connect", "ws_ssl")
    \/ WsStep("ws_ssl", "ws_handshake") \/ WsOpened
    \/ \E h \in SetupOps : SetupFails(h)

Keepalive == HalfHourPasses \/ ListenDue \/ ListenPost \/ Renewal \/ OrphanRuns
Stop == StopLook \/ StopClose

Next ==
    \/ Setup \/ ReadFails \/ PeerCloses \/ ReadAborted \/ CloseCompletes
    \/ Keepalive \/ StopFlag \/ Stop \/ Destroy \/ Restart

Spec == Init /\ [][Next]_vars

\* Operations complete (all but the name look-ups carry a timeout), the
\* io_context runs what is ready, a close frame is answered or times out, a
\* thread inside stop() goes on, the supervisor restarts the process.
Fairness ==
    /\ WF_vars(Setup) /\ WF_vars(ReadAborted) /\ WF_vars(CloseCompletes)
    /\ WF_vars(ListenDue) /\ WF_vars(ListenPost) /\ WF_vars(OrphanRuns)
    /\ WF_vars(Stop) /\ WF_vars(Restart)

FairSpec == Spec /\ Fairness

-----------------------------------------------------------------------------
TypeOK ==
    /\ process \in {"up", "down"}
    /\ pending \in SUBSET Handlers
    /\ ssl_web_stream_ \in {"none", "rest", "ws", "upgrading", "open"}
    /\ listen_key_ \in BOOLEAN /\ listen_key_timer_ \in BOOLEAN
    /\ stopped_ \in BOOLEAN /\ closing \in BOOLEAN
    /\ stopPc \in {"idle", "flagged", "seen", "erased"}
    /\ stopped_ = (stopPc # "idle")
    /\ setupFaults \in 0 .. MaxSetupFaults /\ drops \in 0 .. MaxDrops
    /\ KeepaliveTypeOK

OneChain ==
    Cardinality(pending \cap (SetupOps \cup {"run", "ws_read", "error_timer"})) <= 1

HandlersFindTheirObjects ==
    /\ pending \cap (RestOps \ {"rest_resolve"}) # {} => ssl_web_stream_ = "rest"
    /\ pending \cap (WsOps \ {"ws_handshake"}) # {} => ssl_web_stream_ = "ws" /\ listen_key_
    /\ "ws_handshake" \in pending => ssl_web_stream_ = "upgrading" /\ listen_key_
    /\ "ws_read" \in pending => ssl_web_stream_ = "open" /\ listen_key_
    /\ "listen_wait" \in pending => listen_key_timer_
    /\ pending \cap {"listen_wait", "listen_due"} # {} /\ ssl_web_stream_ # "none"
           => listen_key_
    /\ listen_key_keepalive_ # "none" => ssl_web_stream_ = "open"

\* Although a close frame severs the connection twice (in the control callback
\* and in the handler of the read), there is never more than one chain of
\* operations under way (two would work on the same optionals), and every handler
\* that will run finds the optionals it dereferences engaged; the posted re-arming
\* is the exception (see ListenPost).
ChainOwnsItsObjects == OneChain /\ HandlersFindTheirObjects

\* As long as no renewal fails, the key of an open websocket never comes to the
\* end of its 60 minutes, whatever websockets were lost before.
KeyRenewedInTime == renewFaults = 0 => keyAge < 2

\* The stream is up again and again, or the account was removed.
Watched == []<>(ssl_web_stream_ = "open" \/ stopped_)

\* However often an open websocket is lost, severed by the peer or taken down
\* by an exception, the stream comes back, as long as the set-up succeeds.
AlwaysBack == [](setupFaults = 0) => Watched

\* The same whatever fails ("a self-contain program I use to monitor the state of
\* the orders I make in my Binance account").
NeverGivesUp == Watched

\* A stream stopped while its websocket is open comes to rest: the websocket
\* is closed and no handler is left, so that the object can go.
StopSettles == closing ~> (pending = {} /\ ssl_web_stream_ = "none")
=============================================================================
