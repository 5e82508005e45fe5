--------------------------- MODULE MarketDataStream ---------------------------
(***************************************************************************)
(* binance_prices: the one market_data_stream_t, a chain of asynchronous   *)
(* operations on main's io_context, and the detached price saver, which    *)
(* takes what the stream appends to tokens_container_ and keeps the last   *)
(* price of every instrument.  The chain lists the instruments over HTTPS, *)
(* then reads the websocket of all tickers; when that is lost it opens     *)
(* another at once.  When the chain ends, io_context::run and main return, *)
(* and the supervisor starts the program again.                            *)
(*                                                                         *)
(* The prices of the n-th message the exchange pushes are the number n.    *)
(***************************************************************************)
EXTENDS Naturals, Sequences, FiniteSets

CONSTANTS Instruments,
          MaxMessages,     \* bound: messages the exchange pushes
          MaxBatch,        \* bound: tickers in one message
          MaxSetupFaults,  \* bound: operations that fail before the first read
          MaxDrops         \* bound: open websockets that are lost

ASSUME MarketDataStreamAssumption ==
    /\ MaxMessages \in Nat /\ MaxBatch \in Nat
    /\ MaxSetupFaults \in Nat /\ MaxDrops \in Nat

VARIABLES
    process,            \* "up", "down", or "hung" in its own exit
    pending,            \* the completion handlers that will run
    ssl_web_stream_,    \* "none", "rest", "ws", or "open"
    engaged,            \* the other optionals that hold an object
    all_listed_instruments_,
    tokens_container_,
    item,               \* what the saver has taken and not stored: <<>> or <<ticker>>
    all_pushed_sub_data_,   \* the price kept for each name, 0 if there is none
    messages,           \* how many the exchange has pushed
    refused,            \* history: those that could not be interpreted
    setupFaults, drops

dataVars   == <<all_listed_instruments_, tokens_container_, item, all_pushed_sub_data_>>
streamVars == <<pending, ssl_web_stream_, engaged>>
inputVars  == <<messages, refused>>
bounds     == <<setupFaults, drops>>
vars == <<process, streamVars, dataVars, inputVars, bounds>>

\* An instrument's name as the exchange spells it.
Names == Instruments \X {"upper", "other"}
to_upper(name) == <<name[1], "upper">>

Tickers == [instrument_id : Names, price : 1 .. MaxMessages]
Malformed == <<>>       \* an element without a field, or with one that is no number
Messages == UNION {[1 .. n -> Names \cup {Malformed}] : n \in 0 .. MaxBatch}
WellFormed(m) == \A i \in DOMAIN m : m[i] # Malformed

RestOps == {"rest_resolve", "rest_connect", "rest_ssl", "rest_write", "rest_read"}
WsOps   == {"ws_resolve", "ws_connect", "ws_ssl", "ws_handshake"}
SetupOps == RestOps \cup WsOps
Handlers == SetupOps \cup {"ws_read", "ws_read_aborted"}
Optionals == {"resolver_", "http_request_", "http_response_", "buffer_"}

-----------------------------------------------------------------------------
(* The stream.                                                             *)

\* Handler h starts the operation `next'.
Continue(h, next) == h \in pending /\ pending' = (pending \ {h}) \cup {next}

DataUnchanged == UNCHANGED <<process, dataVars, inputVars, bounds>>

\* rest_api_connect_to_resolved_names.
RestResolved ==
    /\ Continue("rest_resolve", "rest_connect")
    /\ ssl_web_stream_' = "rest" /\ engaged' = engaged \ {"resolver_"}
    /\ DataUnchanged

RestConnected ==
    /\ Continue("rest_connect", "rest_ssl")
    /\ UNCHANGED <<ssl_web_stream_, engaged>> /\ DataUnchanged

\* rest_api_get_all_available_instruments.
RestSecured ==
    /\ Continue("rest_ssl", "rest_write")
    /\ engaged' = engaged \cup {"http_request_"}
    /\ UNCHANGED ssl_web_stream_ /\ DataUnchanged

\* rest_api_receive_response.
RestWritten ==
    /\ Continue("rest_write", "rest_read")
    /\ engaged' = (engaged \ {"http_request_"}) \cup {"buffer_", "http_response_"}
    /\ UNCHANGED ssl_web_stream_ /\ DataUnchanged

\* The list of instruments, all of it, then the websocket.
RestApiOnDataReceived ==
    /\ Continue("rest_read", "ws_resolve")
    /\ engaged' = engaged \cup {"resolver_"}
    /\ \E listed \in SUBSET Instruments :
           all_listed_instruments_' = all_listed_instruments_ \cup listed
    /\ UNCHANGED <<process, ssl_web_stream_, tokens_container_, item,
                   all_pushed_sub_data_, inputVars, bounds>>

\* websock_connect_to_resolved_names.
WsResolved ==
    /\ Continue("ws_resolve", "ws_connect")
    /\ ssl_web_stream_' = "ws" /\ engaged' = engaged \ {"resolver_"}
    /\ DataUnchanged

\* websock_perform_ssl_handshake, negotiate_websocket_connection.
WsConnected ==
    /\ Continue("ws_connect", "ws_ssl")
    /\ engaged' = engaged \ {"http_request_", "http_response_"}
    /\ UNCHANGED ssl_web_stream_ /\ DataUnchanged

\* perform_websocket_handshake.
WsSecured ==
    /\ Continue("ws_ssl", "ws_handshake")
    /\ UNCHANGED <<ssl_web_stream_, engaged>> /\ DataUnchanged

\* wait_for_messages.
WsOpened ==
    /\ Continue("ws_handshake", "ws_read")
    /\ ssl_web_stream_' = "open" /\ engaged' = engaged \cup {"buffer_"}
    /\ DataUnchanged

\* Every error before the first read, a list that cannot be interpreted among
\* them, is logged, and that is all.
SetupFails ==
    /\ setupFaults < MaxSetupFaults
    /\ setupFaults' = setupFaults + 1
    /\ \E h \in pending \cap SetupOps : pending' = pending \ {h}
    /\ UNCHANGED <<process, ssl_web_stream_, engaged, dataVars, inputVars, drops>>

-----------------------------------------------------------------------------
\* The tickers of message number n.
PushedList(m, n) == [i \in DOMAIN m |-> [instrument_id |-> m[i], price |-> n]]

\* Mutant: the last message is put before those that wait.
ProcessTickersInFront(m, n) ==
    IF WellFormed(m)
    THEN tokens_container_' = PushedList(m, n) \o tokens_container_
         /\ UNCHANGED refused
    ELSE refused' = refused \cup {n} /\ UNCHANGED tokens_container_

\* Mutant: every ticker is appended as soon as it is read.
ProcessTickersOneByOne(m, n) ==
    /\ \E k \in 0 .. Len(m) :
          /\ WellFormed(SubSeq(m, 1, k))
          /\ k < Len(m) => m[k + 1] = Malformed
          /\ tokens_container_' = tokens_container_ \o PushedList(SubSeq(m, 1, k), n)
    /\ refused' = IF WellFormed(m) THEN refused ELSE refused \cup {n}

\* Mutant: an element that cannot be read is appended as it is.
ProcessTickersUnread(m, n) ==
    /\ tokens_container_' = tokens_container_ \o PushedList(m, n)
    /\ refused' = IF WellFormed(m) THEN refused ELSE refused \cup {n}

\* process_pushed_tickers_data: the list is appended when all of it is read.
ProcessTickers(m, n) ==
    IF WellFormed(m)
    THEN tokens_container_' = tokens_container_ \o PushedList(m, n)
         /\ UNCHANGED refused
    ELSE refused' = refused \cup {n} /\ UNCHANGED tokens_container_

\* interpret_generic_messages, which reads on whatever the message was.
InterpretGenericMessages ==
    /\ "ws_read" \in pending
    /\ messages < MaxMessages
    /\ messages' = messages + 1
    /\ \E m \in Messages : ProcessTickers(m, messages + 1)
    /\ UNCHANGED <<process, streamVars, all_listed_instruments_, item,
                   all_pushed_sub_data_, bounds>>

\* ssl_web_stream_.reset and initiate_websocket_connection, from handler h, with
\* `later' still to complete.
Reconnect(h, later) ==
    /\ pending' = (pending \ {h}) \cup later \cup {"ws_resolve"}
    /\ ssl_web_stream_' = "none"
    /\ engaged' = engaged \cup {"resolver_"}

Drop == drops < MaxDrops /\ drops' = drops + 1

\* The read ends with an error: closed, reset, idle for 20 s.
ReadFails ==
    /\ "ws_read" \in pending
    /\ Drop
    /\ Reconnect("ws_read", {})
    /\ UNCHANGED <<process, dataVars, inputVars, setupFaults>>

\* A close frame: the control callback replaces the websocket in the middle of
\* its read, which ends later.
PeerCloses ==
    /\ "ws_read" \in pending
    /\ Drop
    /\ Reconnect("ws_read", {"ws_read_aborted"})
    /\ UNCHANGED <<process, dataVars, inputVars, setupFaults>>

\* What the process keeps in memory is gone.
Forget ==
    /\ pending' = {} /\ ssl_web_stream_' = "none" /\ engaged' = {}
    /\ all_listed_instruments_' = {} /\ tokens_container_' = <<>> /\ item' = <<>>
    /\ all_pushed_sub_data_' = [name \in Names |-> 0]

\* Mutant: an aborted read is treated as any other that failed.
ReadAbortedReconnects ==
    /\ "ws_read_aborted" \in pending
    /\ Reconnect("ws_read_aborted", {})
    /\ UNCHANGED <<process, dataVars, inputVars, bounds>>

\* The read of a websocket that is gone ends with operation_aborted; on the way
\* there it writes a close frame through the TLS layer that went with it, which
\* is undefined.
ReadAborted ==
    /\ "ws_read_aborted" \in pending
    /\ \/ /\ pending' = pending \ {"ws_read_aborted"}
          /\ UNCHANGED <<process, ssl_web_stream_, engaged, dataVars>>
       \/ process' = "down" /\ Forget
    /\ UNCHANGED <<inputVars, bounds>>

-----------------------------------------------------------------------------
(* The saver: background_price_saver.                                      *)

SaverTakes ==
    /\ process = "up" /\ item = <<>> /\ tokens_container_ # <<>>
    /\ item' = <<Head(tokens_container_)>>
    /\ tokens_container_' = Tail(tokens_container_)
    /\ UNCHANGED <<process, streamVars, all_listed_instruments_,
                   all_pushed_sub_data_, inputVars, bounds>>

\* Mutant: the name is not converted.
SaverStoresAsSpelt ==
    /\ process = "up" /\ item # <<>>
    /\ all_pushed_sub_data_' =
           [all_pushed_sub_data_ EXCEPT ![item[1].instrument_id] = item[1].price]
    /\ item' = <<>>
    /\ UNCHANGED <<process, streamVars, all_listed_instruments_, tokens_container_,
                   inputVars, bounds>>

SaverStores ==
    /\ process = "up" /\ item # <<>>
    /\ all_pushed_sub_data_' =
           [all_pushed_sub_data_ EXCEPT ![to_upper(item[1].instrument_id)] = item[1].price]
    /\ item' = <<>>
    /\ UNCHANGED <<process, streamVars, all_listed_instruments_, tokens_container_,
                   inputVars, bounds>>

-----------------------------------------------------------------------------
\* Mutant: a work guard keeps run from returning.
RunWaits == process = "up" /\ pending = {} /\ UNCHANGED vars

\* Nothing is pending: run and main return.  The exit destroys the container
\* whose condition variable the detached saver may be asleep on, which is
\* undefined, and in glibc waits for the sleeper for ever.
MainReturns ==
    /\ process = "up" /\ pending = {}
    /\ \/ process' = "down"
       \/ process' = "hung" /\ item = <<>> /\ tokens_container_ = <<>>
    /\ Forget
    /\ UNCHANGED <<inputVars, bounds>>

\* supervisord: main launches the price watcher anew.
Restart ==
    /\ process = "down"
    /\ process' = "up"
    /\ pending' = {"rest_resolve"} /\ engaged' = {"resolver_"}
    /\ UNCHANGED <<ssl_web_stream_, dataVars, inputVars, bounds>>

Init ==
    /\ process = "up"
    /\ pending = {"rest_resolve"} /\ ssl_web_stream_ = "none" /\ engaged = {"resolver_"}
    /\ all_listed_instruments_ = {} /\ tokens_container_ = <<>> /\ item = <<>>
    /\ all_pushed_sub_data_ = [name \in Names |-> 0]
    /\ messages = 0 /\ refused = {}
    /\ setupFaults = 0 /\ drops = 0

SetupProceeds ==
    \/ RestResolved \/ RestConnected \/ RestSecured \/ RestWritten
    \/ RestApiOnDataReceived
    \/ WsResolved \/ WsConnected \/ WsSecured \/ WsOpened

Saver == SaverTakes \/ SaverStores

Next ==
    \/ SetupProceeds \/ SetupFails
    \/ InterpretGenericMessages \/ ReadFails \/ PeerCloses \/ ReadAborted
    \/ Saver \/ MainReturns \/ Restart

Spec == Init /\ [][Next]_vars

\* Operations complete (all but the name look-ups carry a timeout), a stream
\* that was destroyed ends its read, the saver loops for ever, main returns when
\* it has nothing to run and the supervisor starts the program again.
FairSpec ==
    /\ Spec
    /\ WF_vars(SetupProceeds) /\ WF_vars(ReadAborted) /\ WF_vars(Saver)
    /\ WF_vars(MainReturns) /\ WF_vars(Restart)

-----------------------------------------------------------------------------
TypeOK ==
    /\ process \in {"up", "down", "hung"}
    /\ pending \in SUBSET Handlers
    /\ ssl_web_stream_ \in {"none", "rest", "ws", "open"}
    /\ engaged \in SUBSET Optionals
    /\ all_listed_instruments_ \in SUBSET Instruments
    /\ tokens_container_ \in Seq(Tickers)
    /\ item \in {<<>>} \cup {<<t>> : t \in Tickers}
    /\ all_pushed_sub_data_ \in [Names -> 0 .. MaxMessages]
    /\ messages \in 0 .. MaxMessages /\ refused \in SUBSET (1 .. messages)
    /\ setupFaults \in 0 .. MaxSetupFaults /\ drops \in 0 .. MaxDrops

OneConnection == Cardinality(pending \ {"ws_read_aborted"}) <= 1

HandlersFindTheirObjects ==
    /\ pending \cap (RestOps \ {"rest_resolve"}) # {} => ssl_web_stream_ = "rest"
    /\ pending \cap (WsOps \ {"ws_resolve"}) # {} => ssl_web_stream_ = "ws"
    /\ "ws_read" \in pending => ssl_web_stream_ = "open" /\ "buffer_" \in engaged
    /\ pending \cap {"rest_resolve", "ws_resolve"} # {} => "resolver_" \in engaged
    /\ "rest_write" \in pending => "http_request_" \in engaged
    /\ "rest_read" \in pending => {"http_response_", "buffer_"} \subseteq engaged

\* Although a close frame is answered twice, by the control callback and by the
\* handler of the read it interrupts, there is one chain of operations at most
\* (two would replace each other's websocket), and it works on optionals that are
\* engaged and that its handlers find so.
ChainOwnsItsObjects == OneConnection /\ HandlersFindTheirObjects

\* As long as the program runs, the price kept for an instrument is never
\* replaced by an older one, across messages, spellings and websockets.
PricesMoveForward ==
    [][process = "up" /\ process' = "up" =>
           \A name \in Names : all_pushed_sub_data_'[name] >= all_pushed_sub_data_[name]]_vars

\* A message that cannot be interpreted to its end changes no price at all: none
\* of its tickers is queued, taken or kept.
AllOrNothing ==
    /\ \A i \in DOMAIN tokens_container_ : tokens_container_[i].price \notin refused
    /\ item # <<>> => item[1].price \notin refused
    /\ \A name \in Names : all_pushed_sub_data_[name] \notin refused

\* Whatever fails, the tickers are read again in the end, unless the program
\* hangs in its exit.
AlwaysBack == []<>(ssl_web_stream_ = "open" \/ process = "hung")

\* What was queued becomes the price kept under the instrument's one name,
\* unless a later one does or the program ends.
Queued(i, n) == \E k \in DOMAIN tokens_container_ :
    tokens_container_[k].instrument_id[1] = i /\ tokens_container_[k].price = n

EventuallyPriced ==
    \A i \in Instruments, n \in 1 .. MaxMessages :
        Queued(i, n) ~> (all_pushed_sub_data_[<<i, "upper">>] >= n \/ process # "up")
=============================================================================
