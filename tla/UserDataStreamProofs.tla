------------------------- MODULE UserDataStreamProofs -------------------------
(***************************************************************************)
(* Proofs about UserDataStream, for any number of failures, losses and     *)
(* failed renewals: one chain of operations works on the stream, its       *)
(* handlers find what they dereference, and the listen key is renewed in   *)
(* time as long as no renewal fails.                                       *)
(***************************************************************************)
EXTENDS UserDataStream, FiniteSetTheorems, TLAPS

\* The handlers before the websocket is open.
Beginnings == SetupOps \cup {"run"}

ChainOps == Beginnings \cup {"ws_read", "error_timer"}
ListenHandlers == {"listen_wait", "listen_due", "listen_post"}

\* Before the websocket is open one handler is pending, and no other of any kind:
\* whatever the websocket before left behind has run.  While it is read, the
\* half-hourly handlers are under way; when it is lost, the retry timer is.
ChainInv ==
    /\ pending \in SUBSET Handlers
    /\ \A g, h \in pending \cap ChainOps : g = h
    /\ \A h \in pending \cap Beginnings : pending = {h} /\ ~ listen_key_timer_
    /\ "ws_read_aborted" \in pending => "ws_read" \notin pending
    /\ ssl_web_stream_ = "open" => pending \cap (Beginnings \cup {"error_timer"}) = {}
    /\ process = "down" => pending = {} /\ ssl_web_stream_ = "none" /\ ~ listen_key_timer_
    /\ ssl_web_stream_ \in {"rest", "ws", "upgrading"} => ~ listen_key_timer_
    /\ pending \cap ListenHandlers # {} /\ ssl_web_stream_ # "none" =>
          ssl_web_stream_ = "open" /\ listen_key_
    /\ "ws_read" \in pending => listen_key_timer_ /\ pending \cap ListenHandlers # {}
    /\ HandlersFindTheirObjects

\* A key that has aged is about to be renewed.
RenewalInv ==
    /\ keyAge \in Nat /\ renewFaults \in Nat
    /\ keyAge # 0 => ssl_web_stream_ = "open"
    /\ renewFaults = 0 /\ keyAge # 0 =>
          keyAge = 1 /\ ("listen_due" \in pending \/ listen_key_keepalive_ \in RenewOps)

StreamInv == ChainInv /\ RenewalInv

streamVars == <<process, pending, objectVars, keepaliveVars>>

\* The sets of handlers, for the provers.
LEMMA HandlerSets ==
    /\ Beginnings = {"run", "rest_resolve", "rest_connect", "rest_ssl", "rest_write",
                     "rest_read", "ws_resolve", "ws_connect", "ws_ssl", "ws_handshake"}
    /\ ChainOps = Beginnings \cup {"ws_read", "error_timer"}
    /\ Handlers = ChainOps \cup ListenHandlers \cup {"ws_read_aborted"}
BY DEF Beginnings, ChainOps, Handlers, SetupOps, RestOps, WsOps, Ready, ListenHandlers

-----------------------------------------------------------------------------
LEMMA Stutters ==
    ASSUME StreamInv, UNCHANGED streamVars PROVE StreamInv'
BY DEF StreamInv, ChainInv, RenewalInv, HandlersFindTheirObjects, streamVars,
       objectVars, keepaliveVars

\* An end by undefined behaviour or an exception leaves nothing.
LEMMA TerminateKeeps ==
    ASSUME StreamInv, Terminate PROVE StreamInv'
<1>1. ChainInv'
  BY DEF Terminate, ChainInv, HandlersFindTheirObjects
<1>2. RenewalInv'
  BY DEF Terminate, StreamInv, RenewalInv
<1> QED BY <1>1, <1>2 DEF StreamInv

\* A handler of the chain starts the next operation of the set-up.
LEMMA SetupMoves ==
    ASSUME StreamInv, NEW h \in pending \cap Beginnings, NEW next \in Beginnings,
           Continue(h, {next})
    PROVE  /\ pending = {h} /\ pending' = {next} /\ ~ listen_key_timer_
           /\ ssl_web_stream_ # "open" /\ process # "down"
BY DEF StreamInv, ChainInv, Continue

\* What the invariant says while one handler of the set-up is pending.
LEMMA SetupInv ==
    ASSUME NEW h \in Beginnings, pending' = {h}, ~ listen_key_timer_',
           ssl_web_stream_' # "open", process' # "down",
           HandlersFindTheirObjects', RenewalInv'
    PROVE  StreamInv'
<1>1. h \notin ListenHandlers \cup {"ws_read", "ws_read_aborted", "error_timer"}
  BY HandlerSets DEF ListenHandlers
<1>2. pending' \in SUBSET Handlers
  BY HandlerSets
<1> QED BY <1>1, <1>2 DEF StreamInv, ChainInv

LEMMA SeverKeeps ==
    ASSUME StreamInv, NEW h \in {"ws_read", "ws_read_aborted"}, h \in pending,
           NEW later \in SUBSET {"ws_read_aborted"},
           later # {} => h = "ws_read",
           OnWsConnectionSevered(h, later)
    PROVE  StreamInv'
<1>1. CASE ssl_web_stream_ # "none" /\ Terminate
  BY <1>1, TerminateKeeps
<1>2. CASE /\ pending' = (pending \ {h, "listen_wait"}) \cup later \cup {"error_timer"}
           /\ ssl_web_stream_' = "none" /\ listen_key_' = FALSE /\ listen_key_timer_' = FALSE
           /\ LoseKeepalive
           /\ UNCHANGED process
  <2>1. \A g \in pending : g \notin Beginnings
    BY HandlerSets DEF StreamInv, ChainInv
  <2>2. \A g \in pending' : g \in {"error_timer", "listen_due", "listen_post", "ws_read_aborted"}
    BY <1>2, <2>1, HandlerSets DEF StreamInv, ChainInv, ListenHandlers
  <2>3. HandlersFindTheirObjects'
    BY <1>2, <2>2 DEF HandlersFindTheirObjects, LoseKeepalive, Replace, RestOps, WsOps
  <2>4. process' # "down"
    BY <1>2 DEF StreamInv, ChainInv
  <2>5. ChainInv'
    BY <1>2, <2>2, <2>3, <2>4, HandlerSets DEF ChainInv, ListenHandlers
  <2>6. RenewalInv'
    BY <1>2 DEF StreamInv, RenewalInv, LoseKeepalive
  <2> QED BY <2>5, <2>6 DEF StreamInv
<1> QED BY <1>1, <1>2 DEF OnWsConnectionSevered

-----------------------------------------------------------------------------
(* The set-up.                                                             *)

LEMMA InitiateKeeps ==
    ASSUME StreamInv, NEW h \in {"run", "error_timer"}, RestApiInitiateConnection(h)
    PROVE  StreamInv'
<1>1. /\ h \in pending
      /\ pending \cap Ready = {} \/ pending = {h}
  <2>1. CASE h = "run"
    BY <2>1, HandlerSets DEF RestApiInitiateConnection, StreamInv, ChainInv
  <2>2. CASE h = "error_timer"
    BY <2>2 DEF RestApiInitiateConnection
  <2> QED BY <2>1, <2>2
<1>2. \A g \in pending : g = h \/ g = "listen_wait"
  BY <1>1, HandlerSets DEF StreamInv, ChainInv, Ready, ListenHandlers
<1>3. h \in pending /\ ssl_web_stream_ # "open" /\ process # "down"
  BY <1>1, HandlerSets DEF StreamInv, ChainInv
<1>4. CASE stopped_
  <2>1. pending' = pending \ {h} /\ UNCHANGED <<process, objectVars, keepaliveVars>>
    BY <1>4 DEF RestApiInitiateConnection, Continue, objectVars
  <2>2. \A g \in pending' : g = "listen_wait"
    BY <1>2, <2>1
  <2>3. ChainInv'
    BY <1>2, <1>3, <2>1, <2>2, HandlerSets
       DEF StreamInv, ChainInv, HandlersFindTheirObjects, objectVars, keepaliveVars,
           RestOps, WsOps, ListenHandlers
  <2>4. RenewalInv'
    BY <1>3, <2>1 DEF StreamInv, RenewalInv, objectVars, keepaliveVars
  <2> QED BY <2>3, <2>4 DEF StreamInv
<1>5. CASE ~ stopped_
  <2>1. /\ pending' = {"rest_resolve"} /\ listen_key_timer_' = FALSE
        /\ UNCHANGED <<process, ssl_web_stream_, listen_key_, keepaliveVars>>
    BY <1>2, <1>5 DEF RestApiInitiateConnection
  <2>2. HandlersFindTheirObjects'
    BY <1>3, <2>1 DEF HandlersFindTheirObjects, RestOps, WsOps, keepaliveVars,
                      StreamInv, ChainInv
  <2>3. RenewalInv'
    BY <1>3, <2>1 DEF StreamInv, RenewalInv, keepaliveVars
  <2> QED BY <1>3, <2>1, <2>2, <2>3, SetupInv, HandlerSets
<1> QED BY <1>4, <1>5

LEMMA RestStepKeeps ==
    ASSUME StreamInv,
           NEW h \in {"rest_resolve", "rest_connect", "rest_ssl", "rest_write"},
           NEW next \in RestOps \ {"rest_resolve"}, RestStep(h, next)
    PROVE  StreamInv'
<1>1. h \in pending /\ h \in Beginnings /\ next \in Beginnings
  BY HandlerSets DEF RestStep, RestOps
<1>2. /\ pending = {h} /\ pending' = {next} /\ ~ listen_key_timer_'
      /\ ssl_web_stream_ # "open" /\ process' # "down"
  BY <1>1, SetupMoves DEF RestStep
<1>3. ssl_web_stream_' = "rest"
  BY <1>2 DEF RestStep, StreamInv, ChainInv, HandlersFindTheirObjects, RestOps
<1>4. HandlersFindTheirObjects'
  BY <1>2, <1>3 DEF RestStep, StreamInv, ChainInv, HandlersFindTheirObjects, RestOps,
                    WsOps, keepaliveVars
<1>5. RenewalInv'
  BY <1>2 DEF RestStep, StreamInv, RenewalInv, keepaliveVars
<1> QED BY <1>1, <1>2, <1>3, <1>4, <1>5, SetupInv

LEMMA WsStepKeeps ==
    ASSUME StreamInv, NEW h \in {"ws_resolve", "ws_connect", "ws_ssl"},
           NEW next \in WsOps \ {"ws_resolve"}, WsStep(h, next)
    PROVE  StreamInv'
<1>1. h \in pending /\ h \in Beginnings /\ next \in Beginnings
  BY HandlerSets DEF WsStep, WsOps
<1>2. /\ pending = {h} /\ pending' = {next} /\ ~ listen_key_timer_'
      /\ ssl_web_stream_ # "open" /\ process' # "down"
  BY <1>1, SetupMoves DEF WsStep
<1>3. /\ ssl_web_stream_' = IF next = "ws_handshake" THEN "upgrading" ELSE "ws"
      /\ listen_key_'
  BY <1>2 DEF WsStep, StreamInv, ChainInv, HandlersFindTheirObjects, WsOps
<1>4. HandlersFindTheirObjects'
  BY <1>2, <1>3 DEF WsStep, StreamInv, ChainInv, HandlersFindTheirObjects, RestOps,
                    WsOps, keepaliveVars
<1>5. RenewalInv'
  BY <1>2 DEF WsStep, StreamInv, RenewalInv, keepaliveVars
<1> QED BY <1>1, <1>2, <1>3, <1>4, <1>5, SetupInv

\* The set-up ends without another handler.
LEMMA SetupEnds ==
    ASSUME StreamInv, NEW h \in pending \cap Beginnings, Continue(h, {}),
           ssl_web_stream_' # "open", UNCHANGED <<process, listen_key_timer_, keepaliveVars>>
    PROVE  StreamInv'
<1>1. /\ pending = {h} /\ pending' = {} /\ ssl_web_stream_ # "open"
      /\ process # "down"
  BY DEF StreamInv, ChainInv, Continue
<1>2. ChainInv'
  BY <1>1 DEF StreamInv, ChainInv, HandlersFindTheirObjects, keepaliveVars
<1>3. RenewalInv'
  BY <1>1 DEF StreamInv, RenewalInv, keepaliveVars
<1> QED BY <1>2, <1>3 DEF StreamInv

LEMMA ReceivedKeeps ==
    ASSUME StreamInv, RestApiOnDataReceived \/ RestApiNoListenKey
    PROVE  StreamInv'
<1>1. "rest_read" \in pending \cap Beginnings
  BY HandlerSets DEF RestApiOnDataReceived, RestApiNoListenKey
<1>2. CASE RestApiOnDataReceived /\ ~ stopped_
  <2>1. "ws_resolve" \in Beginnings
    BY HandlerSets
  <2>2. /\ pending' = {"ws_resolve"} /\ ~ listen_key_timer_' /\ process' # "down"
        /\ ssl_web_stream_ # "open"
    BY <1>1, <1>2, <2>1, SetupMoves DEF RestApiOnDataReceived
  <2>3. listen_key_' /\ ssl_web_stream_' = "ws"
    BY <1>2 DEF RestApiOnDataReceived
  <2>4. HandlersFindTheirObjects'
    BY <1>2, <2>2, <2>3 DEF RestApiOnDataReceived, StreamInv, ChainInv,
       HandlersFindTheirObjects, RestOps, WsOps, keepaliveVars
  <2>5. RenewalInv'
    BY <1>2, <2>2 DEF RestApiOnDataReceived, StreamInv, RenewalInv, keepaliveVars
  <2> QED BY <2>1, <2>2, <2>3, <2>4, <2>5, SetupInv
<1>3. CASE RestApiOnDataReceived /\ stopped_
  BY <1>1, <1>3, SetupEnds DEF RestApiOnDataReceived
<1>4. CASE RestApiNoListenKey
  BY <1>1, <1>4, SetupEnds DEF RestApiNoListenKey
<1> QED BY <1>2, <1>3, <1>4

LEMMA FailsKeeps ==
    ASSUME StreamInv, NEW h \in SetupOps, SetupFails(h)
    PROVE  StreamInv'
<1>1. h \in pending \cap Beginnings
  BY DEF SetupFails, Beginnings
<1>2. ssl_web_stream_' # "open"
  BY <1>1 DEF SetupFails, objectVars, StreamInv, ChainInv
<1> QED BY <1>1, <1>2, SetupEnds DEF SetupFails, objectVars

LEMMA OpenedKeeps == ASSUME StreamInv, WsOpened PROVE StreamInv'
<1>1. "ws_handshake" \in pending \cap Beginnings
  BY HandlerSets DEF WsOpened
<1>2. /\ pending = {"ws_handshake"} /\ ~ listen_key_timer_ /\ listen_key_
      /\ process # "down" /\ ssl_web_stream_ # "open"
  BY <1>1 DEF StreamInv, ChainInv, HandlersFindTheirObjects
<1>3. /\ pending' = {"ws_read", "listen_wait"} /\ ssl_web_stream_' = "open"
      /\ listen_key_timer_' /\ listen_key_'
      /\ UNCHANGED <<process, keepaliveVars>>
  BY <1>2 DEF WsOpened, Continue
<1>4. HandlersFindTheirObjects'
  BY <1>3 DEF HandlersFindTheirObjects, RestOps, WsOps
<1>5. ChainInv'
  BY <1>2, <1>3, <1>4, HandlerSets DEF ChainInv, ListenHandlers
<1>6. RenewalInv'
  BY <1>2, <1>3 DEF StreamInv, RenewalInv, keepaliveVars
<1> QED BY <1>5, <1>6 DEF StreamInv

-----------------------------------------------------------------------------
(* Keeping the key alive.                                                  *)

LEMMA HalfHourKeeps == ASSUME StreamInv, HalfHourPasses PROVE StreamInv'
<1>1. /\ ssl_web_stream_ = "open" /\ listen_key_ /\ listen_key_timer_
      /\ "listen_wait" \in pending /\ "ws_read" \in pending
  BY DEF HalfHourPasses, StreamInv, ChainInv, HandlersFindTheirObjects, ListenHandlers, Ready
<1>2. /\ pending' = (pending \ {"listen_wait"}) \cup {"listen_due"}
      /\ keyAge' = keyAge + 1
      /\ UNCHANGED <<process, objectVars, listen_key_keepalive_, renewFaults>>
  BY <1>1 DEF HalfHourPasses
<1>3. HandlersFindTheirObjects'
  BY <1>1, <1>2 DEF StreamInv, ChainInv, HandlersFindTheirObjects, objectVars, RestOps, WsOps
<1>4. \A g \in ChainOps \cup {"ws_read_aborted"} : g \in pending' <=> g \in pending
  BY <1>2, HandlerSets
<1>5. \A g \in pending : g \notin Beginnings
  BY <1>1, HandlerSets DEF StreamInv, ChainInv
<1>6. ChainInv'
  BY <1>1, <1>2, <1>3, <1>4, <1>5, HandlerSets
     DEF StreamInv, ChainInv, objectVars, ListenHandlers
<1>7. renewFaults = 0 => keyAge = 0
  BY DEF HalfHourPasses, StreamInv, RenewalInv, Ready
<1>8. RenewalInv'
  BY <1>1, <1>2, <1>7 DEF StreamInv, RenewalInv, objectVars
<1> QED BY <1>6, <1>8 DEF StreamInv

\* A half-hourly handler makes room for another one, or for none if the
\* websocket it was armed for is gone.
LEMMA ListenMoves ==
    ASSUME StreamInv, NEW g \in ListenHandlers, g \in pending,
           NEW next \in SUBSET ListenHandlers, Continue(g, next),
           "listen_wait" \in next => listen_key_timer_,
           next = {} => "ws_read" \notin pending,
           UNCHANGED <<process, objectVars>>,
           listen_key_keepalive_' # "none" => ssl_web_stream_ = "open"
    PROVE  ChainInv'
<1>1. \A h \in pending : h \notin Beginnings
  BY HandlerSets DEF StreamInv, ChainInv, ListenHandlers
<1>2. \A h \in Handlers : h \notin ListenHandlers => (h \in pending' <=> h \in pending)
  BY DEF Continue
<1>3. pending' \in SUBSET Handlers
  BY HandlerSets DEF Continue, StreamInv, ChainInv
<1>4. HandlersFindTheirObjects'
  BY DEF Continue, StreamInv, ChainInv, HandlersFindTheirObjects, objectVars, RestOps, WsOps,
         ListenHandlers
<1>5. \A h \in ChainOps \cup {"ws_read_aborted"} : h \in Handlers /\ h \notin ListenHandlers
  BY HandlerSets DEF ListenHandlers
<1>6. "ws_read" \in pending' => listen_key_timer_' /\ pending' \cap ListenHandlers # {}
  BY DEF Continue, StreamInv, ChainInv, objectVars, ListenHandlers
<1>7. process # "down"
  BY DEF StreamInv, ChainInv
<1> QED BY <1>1, <1>2, <1>3, <1>4, <1>5, <1>6, <1>7, HandlerSets
           DEF StreamInv, ChainInv, objectVars

LEMMA ListenDueKeeps == ASSUME StreamInv, ListenDue PROVE StreamInv'
<1>1. "listen_due" \in pending /\ "listen_due" \in ListenHandlers
  BY DEF ListenDue, ListenHandlers
<1>2. CASE ssl_web_stream_ = "none"
  <2>1. ChainInv'
    BY <1>1, <1>2, ListenMoves
       DEF ListenDue, StreamInv, ChainInv, HandlersFindTheirObjects, keepaliveVars
  <2>2. RenewalInv'
    BY <1>2 DEF ListenDue, StreamInv, RenewalInv, keepaliveVars, objectVars
  <2> QED BY <2>1, <2>2 DEF StreamInv
<1>3. CASE ssl_web_stream_ # "none"
  <2>1. ssl_web_stream_ = "open"
    BY <1>1, <1>3 DEF StreamInv, ChainInv
  <2>2. {"listen_post"} \in SUBSET ListenHandlers
    BY DEF ListenHandlers
  <2>3. ChainInv'
    BY <1>1, <1>3, <2>1, <2>2, ListenMoves DEF ListenDue
  <2>4. RenewalInv'
    BY <1>3, <2>1 DEF ListenDue, StreamInv, RenewalInv, objectVars, Replace, RenewOps
  <2> QED BY <2>3, <2>4 DEF StreamInv
<1> QED BY <1>2, <1>3

LEMMA ListenPostKeeps == ASSUME StreamInv, ListenPost PROVE StreamInv'
<1>1. "listen_post" \in pending /\ "listen_post" \in ListenHandlers
  BY DEF ListenPost, ListenHandlers
<1>2. CASE Terminate
  BY <1>2, TerminateKeeps
<1>3. CASE ~ Terminate
  <2>1. PICK next \in {{"listen_wait"}, {}} :
          /\ Continue("listen_post", next)
          /\ next = {} <=> ~ listen_key_timer_
          /\ UNCHANGED <<process, keepaliveVars, objectVars>>
    BY <1>3 DEF ListenPost
  <2>2. next \in SUBSET ListenHandlers
    BY DEF ListenHandlers
  <2>3. ChainInv'
    BY <1>1, <2>1, <2>2, ListenMoves
       DEF StreamInv, ChainInv, HandlersFindTheirObjects, keepaliveVars
  <2>4. RenewalInv'
    BY <2>1 DEF StreamInv, RenewalInv, keepaliveVars, objectVars, Continue
  <2> QED BY <2>3, <2>4 DEF StreamInv
<1> QED BY <1>2, <1>3

LEMMA RenewalKeeps == ASSUME StreamInv, Renewal PROVE StreamInv'
<1>1. listen_key_keepalive_ \in RenewOps /\ UNCHANGED <<process, pending, objectVars>>
  BY DEF Renewal, RenewalProceeds, RenewalFails
<1>2. ChainInv'
  BY <1>1 DEF StreamInv, ChainInv, HandlersFindTheirObjects, objectVars, RenewOps
<1>3. RenewalFails => RenewalInv'
  BY <1>1 DEF RenewalFails, StreamInv, RenewalInv, objectVars
<1>4. RenewalProceeds => RenewalInv'
  BY <1>1 DEF RenewalProceeds, AfterOp, RenewOps, StreamInv, RenewalInv, objectVars
<1>5. RenewalInv'
  BY <1>3, <1>4 DEF Renewal
<1> QED BY <1>2, <1>5 DEF StreamInv

LEMMA OrphanKeeps == ASSUME StreamInv, OrphanRuns PROVE StreamInv'
<1>1. CASE Terminate
  BY <1>1, TerminateKeeps
<1>2. CASE UNCHANGED <<process, pending, objectVars, listen_key_keepalive_, keyAge, renewFaults>>
  BY <1>2 DEF StreamInv, ChainInv, RenewalInv, HandlersFindTheirObjects, objectVars
<1> QED BY <1>1, <1>2 DEF OrphanRuns

-----------------------------------------------------------------------------
(* Removal of the account, and restarts.                                   *)

LEMMA StopKeeps == ASSUME StreamInv, StopFlag \/ Stop PROVE StreamInv'
<1>1. CASE Terminate
  BY <1>1, TerminateKeeps
<1>2. CASE UNCHANGED streamVars
  BY <1>2, Stutters
<1> QED BY <1>1, <1>2 DEF StopFlag, Stop, StopLook, StopClose, streamVars

LEMMA DestroyKeeps == ASSUME StreamInv, Destroy PROVE StreamInv'
<1>1. /\ pending = {} /\ pending' = {} /\ ssl_web_stream_' = "none"
      /\ ssl_web_stream_ # "open" /\ ~ listen_key_timer_
      /\ UNCHANGED <<keepaliveVars, listen_key_timer_>>
  BY DEF Destroy, StreamInv, ChainInv
<1>2. HandlersFindTheirObjects'
  BY <1>1 DEF StreamInv, ChainInv, HandlersFindTheirObjects, keepaliveVars
<1>3. ChainInv'
  BY <1>1, <1>2 DEF ChainInv
<1>4. RenewalInv'
  BY <1>1 DEF StreamInv, RenewalInv, keepaliveVars
<1> QED BY <1>3, <1>4 DEF StreamInv

LEMMA RestartKeeps == ASSUME StreamInv, Restart PROVE StreamInv'
<1>1. /\ pending' = {"run"} /\ process' = "up" /\ ssl_web_stream_' = "none"
      /\ ~ listen_key_timer_' /\ UNCHANGED keepaliveVars /\ ssl_web_stream_ = "none"
  BY DEF Restart, StreamInv, ChainInv, objectVars
<1>2. HandlersFindTheirObjects'
  BY <1>1 DEF StreamInv, ChainInv, HandlersFindTheirObjects, keepaliveVars, RestOps, WsOps
<1>3. RenewalInv'
  BY <1>1 DEF StreamInv, RenewalInv, keepaliveVars
<1> QED BY <1>1, <1>2, <1>3, SetupInv, HandlerSets

-----------------------------------------------------------------------------
LEMMA StreamInit == Init => StreamInv
BY HandlerSets DEF Init, KeepaliveInit, StreamInv, ChainInv, RenewalInv,
   HandlersFindTheirObjects, RestOps, WsOps, ListenHandlers

LEMMA SetupKeeps == ASSUME StreamInv, Setup PROVE StreamInv'
<1>1. CASE \E h \in {"run", "error_timer"} : RestApiInitiateConnection(h)
  BY <1>1, InitiateKeeps
<1>2. CASE \/ RestStep("rest_resolve", "rest_connect") \/ RestStep("rest_connect", "rest_ssl")
           \/ RestStep("rest_ssl", "rest_write") \/ RestStep("rest_write", "rest_read")
  BY <1>2, RestStepKeeps DEF RestOps
<1>3. CASE RestApiOnDataReceived \/ RestApiNoListenKey
  BY <1>3, ReceivedKeeps
<1>4. CASE \/ WsStep("ws_resolve", "ws_connect") \/ WsStep("ws_connect", "ws_ssl")
           \/ WsStep("ws_ssl", "ws_handshake")
  BY <1>4, WsStepKeeps DEF WsOps
<1>5. CASE WsOpened
  BY <1>5, OpenedKeeps
<1>6. CASE \E h \in SetupOps : SetupFails(h)
  BY <1>6, FailsKeeps
<1> QED BY <1>1, <1>2, <1>3, <1>4, <1>5, <1>6 DEF Setup

LEMMA StreamStep == StreamInv /\ [Next]_vars => StreamInv'
<1> SUFFICES ASSUME StreamInv, [Next]_vars PROVE StreamInv'
  OBVIOUS
<1>1. CASE Setup
  BY <1>1, SetupKeeps
<1>2. CASE ReadFails
  BY <1>2, SeverKeeps DEF ReadFails
<1>3. CASE PeerCloses
  BY <1>3, SeverKeeps DEF PeerCloses
<1>4. CASE ReadAborted
  BY <1>4, SeverKeeps, TerminateKeeps DEF ReadAborted
<1>5. CASE CloseCompletes
  BY <1>5, SeverKeeps DEF CloseCompletes
<1>6. CASE Keepalive
  BY <1>6, HalfHourKeeps, ListenDueKeeps, ListenPostKeeps, RenewalKeeps, OrphanKeeps
     DEF Keepalive
<1>7. CASE StopFlag \/ Stop
  BY <1>7, StopKeeps
<1>8. CASE Destroy
  BY <1>8, DestroyKeeps
<1>9. CASE Restart
  BY <1>9, RestartKeeps
<1>10. CASE UNCHANGED vars
  BY <1>10, Stutters DEF vars, streamVars
<1> QED BY <1>1, <1>2, <1>3, <1>4, <1>5, <1>6, <1>7, <1>8, <1>9, <1>10 DEF Next

THEOREM StreamInvariant == Spec => []StreamInv
<1> QED BY StreamInit, StreamStep, PTL DEF Spec

\* A set whose members are all equal has at most one.
LEMMA AtMostOne ==
    ASSUME NEW S, \A g, h \in S : g = h PROVE Cardinality(S) <= 1
<1>1. CASE S = {}
  BY <1>1, FS_EmptySet
<1>2. CASE S # {}
  <2>1. PICK g : S = {g}
    BY <1>2
  <2> QED BY <2>1, FS_Singleton
<1> QED BY <1>1, <1>2

\* At most one chain of operations of user_data_stream_t works on its optionals,
\* though a close frame severs the connection twice, and every handler finds those
\* it dereferences engaged, after any number of losses, at any moment of stop().
THEOREM OneChainAtWork == Spec => []ChainOwnsItsObjects
<1>1. ChainOps = SetupOps \cup {"run", "ws_read", "error_timer"}
  BY DEF ChainOps, Beginnings
<1>2. StreamInv => OneChain
  BY <1>1, AtMostOne DEF StreamInv, ChainInv, OneChain
<1>3. StreamInv => HandlersFindTheirObjects
  BY DEF StreamInv, ChainInv
<1>4. StreamInv => ChainOwnsItsObjects
  BY <1>2, <1>3 DEF ChainOwnsItsObjects
<1> QED BY <1>4, StreamInvariant, PTL

\* Unless a renewal fails, listen_key_keepalive_t renews the key of an open
\* websocket before its 60 minutes are over.
THEOREM RenewedInTime == Spec => []KeyRenewedInTime
<1>1. StreamInv => KeyRenewedInTime
  BY DEF StreamInv, RenewalInv, KeyRenewedInTime
<1> QED BY <1>1, StreamInvariant, PTL

-----------------------------------------------------------------------------
(* Types.                                                                  *)

\* A keep-alive that goes with its key.
LEMMA TypedLost ==
    ASSUME KeepaliveTypeOK, listen_key_keepalive_' = "none", orphan' \in BOOLEAN, keyAge' = 0,
           UNCHANGED renewFaults
    PROVE  KeepaliveTypeOK'
<1>1. keyAge' \in 0 .. 2
  OBVIOUS
<1>2. renewFaults' \in 0 .. MaxRenewFaults
  BY DEF KeepaliveTypeOK
<1> QED BY <1>1, <1>2 DEF KeepaliveTypeOK

LEMMA TypedTerminate ==
    ASSUME TypeOK, Terminate, setupFaults' \in 0 .. MaxSetupFaults, drops' \in 0 .. MaxDrops
    PROVE  TypeOK'
<1>1. KeepaliveTypeOK'
  BY TypedLost DEF TypeOK, Terminate
<1>2. /\ stopped_' \in BOOLEAN /\ stopPc' \in {"idle", "flagged", "seen", "erased"}
      /\ stopped_' = (stopPc' # "idle")
  BY DEF TypeOK, Terminate
<1> QED BY <1>1, <1>2 DEF TypeOK, Terminate

\* The variables of the account's removal and of the renewals stay, or the latter go.
LEMMA TypedSevered ==
    ASSUME TypeOK, NEW h, NEW later \in SUBSET Handlers, OnWsConnectionSevered(h, later),
           setupFaults' \in 0 .. MaxSetupFaults, drops' \in 0 .. MaxDrops
    PROVE  TypeOK'
<1>1. CASE Terminate
  BY <1>1, TypedTerminate
<1>2. CASE ~ Terminate
  <2>1. pending' \in SUBSET Handlers
    <3>1. pending' = (pending \ {h, "listen_wait"}) \cup later \cup {"error_timer"}
      BY <1>2 DEF OnWsConnectionSevered
    <3> QED BY <3>1, HandlerSets DEF TypeOK
  <2>2. KeepaliveTypeOK'
    <3>1. LoseKeepalive
      BY <1>2 DEF OnWsConnectionSevered
    <3>2. orphan' \in BOOLEAN
      BY <3>1 DEF LoseKeepalive, Replace, TypeOK, KeepaliveTypeOK
    <3> QED BY <3>1, <3>2, TypedLost DEF LoseKeepalive, Replace, TypeOK
  <2> QED BY <1>2, <2>1, <2>2 DEF OnWsConnectionSevered, TypeOK
<1> QED BY <1>1, <1>2

LEMMA TypedSetup == ASSUME TypeOK, Setup PROVE TypeOK'
<1>1. UNCHANGED <<process, keepaliveVars, stopVars, drops>>
  BY DEF Setup, RestApiInitiateConnection, RestStep, RestApiOnDataReceived,
         RestApiNoListenKey, WsStep, WsOpened, SetupFails, bounds
<1>2. KeepaliveTypeOK'
  BY <1>1 DEF TypeOK, KeepaliveTypeOK, keepaliveVars
<1>3. pending' \in SUBSET Handlers
  BY DEF TypeOK, Setup, RestApiInitiateConnection, RestStep, RestApiOnDataReceived,
         RestApiNoListenKey, WsStep, WsOpened, SetupFails, Continue, Handlers, SetupOps,
         RestOps, WsOps
<1>4. /\ ssl_web_stream_' \in {"none", "rest", "ws", "upgrading", "open"}
      /\ listen_key_' \in BOOLEAN /\ listen_key_timer_' \in BOOLEAN
  BY DEF TypeOK, Setup, RestApiInitiateConnection, RestStep, RestApiOnDataReceived,
         RestApiNoListenKey, WsStep, WsOpened, SetupFails, objectVars
<1>5. setupFaults' \in 0 .. MaxSetupFaults
  <2>1. \/ setupFaults' = setupFaults
        \/ setupFaults < MaxSetupFaults /\ setupFaults' = setupFaults + 1
    BY DEF Setup, RestApiInitiateConnection, RestStep, RestApiOnDataReceived,
           RestApiNoListenKey, WsStep, WsOpened, SetupFails, bounds
  <2> QED BY <2>1, UserDataStreamAssumption DEF TypeOK
<1> QED BY <1>1, <1>2, <1>3, <1>4, <1>5 DEF TypeOK, stopVars

LEMMA TypedLosses ==
    ASSUME TypeOK, ReadFails \/ PeerCloses \/ ReadAborted \/ CloseCompletes PROVE TypeOK'
<1>1. drops' \in 0 .. MaxDrops /\ setupFaults' \in 0 .. MaxSetupFaults
  <2>1. /\ setupFaults' = setupFaults
        /\ drops' = drops \/ (drops < MaxDrops /\ drops' = drops + 1)
    BY DEF ReadFails, PeerCloses, ReadAborted, CloseCompletes, bounds
  <2> QED BY <2>1, UserDataStreamAssumption DEF TypeOK
<1>2. {"ws_read_aborted"} \in SUBSET Handlers /\ {} \in SUBSET Handlers
  BY HandlerSets
<1> QED BY <1>1, <1>2, TypedSevered, TypedTerminate
        DEF ReadFails, PeerCloses, ReadAborted, CloseCompletes

LEMMA TypedKeepalive == ASSUME TypeOK, Keepalive PROVE TypeOK'
<1>1. CASE Terminate /\ UNCHANGED bounds
  BY <1>1, TypedTerminate DEF bounds, TypeOK
<1>2. CASE ~ Terminate
  <2>1. /\ UNCHANGED <<process, objectVars, stopVars, bounds>>
        /\ pending' \in SUBSET Handlers
    BY <1>2 DEF Keepalive, HalfHourPasses, ListenDue, ListenPost, Renewal, OrphanRuns,
       Continue, TypeOK, Handlers, Ready
  <2>2. CASE HalfHourPasses
    BY <2>1, <2>2 DEF HalfHourPasses, TypeOK, KeepaliveTypeOK, objectVars, stopVars, bounds
  <2>3. CASE ListenDue
    <3>1. KeepaliveTypeOK'
      BY <2>3 DEF ListenDue, Replace, keepaliveVars, RenewOps, TypeOK, KeepaliveTypeOK
    <3> QED BY <3>1, <2>1 DEF TypeOK, objectVars, stopVars, bounds
  <2>4. CASE ListenPost
    BY <1>2, <2>1, <2>4 DEF ListenPost, keepaliveVars, TypeOK, KeepaliveTypeOK,
       objectVars, stopVars, bounds
  <2>5. CASE Renewal
    <3>1. KeepaliveTypeOK'
      BY <2>5, ListenKeepaliveAssumption
         DEF Renewal, RenewalProceeds, RenewalFails, AfterOp, RenewOps, TypeOK, KeepaliveTypeOK
    <3> QED BY <2>1, <3>1 DEF TypeOK, objectVars, stopVars, bounds
  <2>6. CASE OrphanRuns
    BY <1>2, <2>1, <2>6 DEF OrphanRuns, TypeOK, KeepaliveTypeOK, objectVars, stopVars, bounds
  <2> QED BY <2>2, <2>3, <2>4, <2>5, <2>6 DEF Keepalive
<1> QED BY <1>1, <1>2 DEF Keepalive, HalfHourPasses, ListenDue, ListenPost, Renewal, OrphanRuns

LEMMA TypedRest ==
    ASSUME TypeOK, StopFlag \/ Stop \/ Destroy \/ Restart PROVE TypeOK'
<1>1. CASE Terminate /\ UNCHANGED bounds
  BY <1>1, TypedTerminate DEF bounds, TypeOK
<1>2. CASE ~ Terminate
  <2>1. UNCHANGED <<keepaliveVars, bounds, listen_key_, listen_key_timer_>>
    BY <1>2 DEF StopFlag, Stop, StopLook, StopClose, Destroy, Restart, objectVars
  <2>2. KeepaliveTypeOK'
    BY <2>1 DEF TypeOK, KeepaliveTypeOK, keepaliveVars
  <2>3. /\ process' \in {"up", "down"} /\ pending' \in SUBSET Handlers
        /\ ssl_web_stream_' \in {"none", "rest", "ws", "upgrading", "open"}
    BY <1>2, HandlerSets
       DEF StopFlag, Stop, StopLook, StopClose, Destroy, Restart, objectVars, TypeOK
  <2>4. /\ stopped_' \in BOOLEAN /\ closing' \in BOOLEAN
        /\ stopPc' \in {"idle", "flagged", "seen", "erased"}
        /\ stopped_' = (stopPc' # "idle")
    BY <1>2 DEF StopFlag, Stop, StopLook, StopClose, Destroy, Restart, stopVars, TypeOK
  <2> QED BY <2>1, <2>2, <2>3, <2>4 DEF TypeOK, bounds
<1> QED BY <1>1, <1>2 DEF Stop, StopFlag, StopLook, StopClose, Destroy, Restart

\* Every variable of user_data_stream_t and of its keep-alive keeps its type.
THEOREM Typing == Spec => []TypeOK
<1>1. Init => TypeOK
  <2> SUFFICES ASSUME Init PROVE TypeOK
    OBVIOUS
  <2>1. /\ 0 \in 0 .. MaxSetupFaults /\ 0 \in 0 .. MaxDrops /\ 0 \in 0 .. MaxRenewFaults
        /\ 0 \in 0 .. 2
    BY UserDataStreamAssumption, ListenKeepaliveAssumption
  <2>2. pending \in SUBSET Handlers
    BY HandlerSets DEF Init
  <2>3. KeepaliveTypeOK
    BY <2>1 DEF Init, KeepaliveInit, KeepaliveTypeOK
  <2> QED BY <2>1, <2>2, <2>3 DEF Init, TypeOK
<1>2. TypeOK /\ [Next]_vars => TypeOK'
  <2>1. TypeOK /\ UNCHANGED vars => TypeOK'
    BY DEF TypeOK, KeepaliveTypeOK, vars, objectVars, keepaliveVars, stopVars, bounds
  <2> QED BY <2>1, TypedSetup, TypedLosses, TypedKeepalive, TypedRest DEF Next
<1> QED BY <1>1, <1>2, PTL DEF Spec
=============================================================================
