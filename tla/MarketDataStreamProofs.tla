------------------------ MODULE MarketDataStreamProofs ------------------------
(***************************************************************************)
(* Proofs about MarketDataStream, for any instruments and bounds: the      *)
(* chain of operations is one and finds its objects, a message counts      *)
(* whole or not at all, and a kept price only gets newer.                  *)
(***************************************************************************)
EXTENDS MarketDataStream, FiniteSetTheorems, SequenceTheorems, TLAPS

-----------------------------------------------------------------------------
(* The chain.                                                              *)

\* The handlers that go on with the chain.
Chain == pending \ {"ws_read_aborted"}

\* OneConnection, without a cardinality.
AtMostOneHandler == \A g, h \in Chain : g = h

ChainInv ==
    /\ pending \in SUBSET Handlers
    /\ engaged \in SUBSET Optionals
    /\ AtMostOneHandler
    /\ HandlersFindTheirObjects

\* A handler that starts another takes its place in the chain.
LEMMA ChainMoves ==
    ASSUME AtMostOneHandler, pending \in SUBSET Handlers,
           NEW h \in Chain, NEW next \in Handlers \ {"ws_read_aborted"},
           NEW later \in SUBSET {"ws_read_aborted"},
           pending' = (pending \ {h}) \cup later \cup {next}
    PROVE  /\ pending' \in SUBSET Handlers
           /\ Chain' = {next}
           /\ AtMostOneHandler'
<1>1. h \in pending /\ h # "ws_read_aborted"
  BY DEF Chain
<1>2. pending' \in SUBSET Handlers
  <2>1. "ws_read_aborted" \in Handlers
    BY DEF Handlers
  <2> QED BY <2>1
<1>3. \A x \in Chain' : x = next
  <2> SUFFICES ASSUME NEW x \in pending', x # "ws_read_aborted", x # next PROVE FALSE
    BY DEF Chain
  <2>1. x \in Chain /\ x # h
    BY DEF Chain
  <2> QED BY <2>1 DEF AtMostOneHandler
<1>4. next \in Chain'
  BY DEF Chain
<1>5. Chain' = {next}
  BY <1>3, <1>4
<1> QED BY <1>2, <1>3, <1>5 DEF AtMostOneHandler

\* What the two invariants of the chain become when nothing of it changes.
LEMMA ChainStutters ==
    ASSUME ChainInv, UNCHANGED streamVars
    PROVE  ChainInv'
BY DEF ChainInv, Chain, AtMostOneHandler, HandlersFindTheirObjects, streamVars

LEMMA ChainInit == Init => ChainInv
BY DEF Init, ChainInv, Chain, AtMostOneHandler, HandlersFindTheirObjects, Handlers,
       Optionals, SetupOps, RestOps, WsOps

LEMMA ChainStep == ChainInv /\ [Next]_vars => ChainInv'
<1> SUFFICES ASSUME ChainInv, [Next]_vars PROVE ChainInv'
    OBVIOUS
<1> USE DEF Handlers, SetupOps, RestOps, WsOps, Optionals
<1>1. ASSUME SetupProceeds PROVE ChainInv'
  <2> DEFINE Follows(h, next) == /\ h \in pending /\ next \in Handlers \ {"ws_read_aborted"}
                                 /\ Chain' = {next} /\ pending' \in SUBSET Handlers
                                 /\ AtMostOneHandler'
  <2>1. ASSUME NEW h \in SetupOps, NEW next \in Handlers \ {"ws_read_aborted"},
               Continue(h, next)
        PROVE  Follows(h, next)
    <3>1. h \in pending /\ h \in Chain
      BY <2>1 DEF Continue, Chain
    <3>2. pending' = (pending \ {h}) \cup {} \cup {next}
      BY <2>1 DEF Continue
    <3>3. {} \in SUBSET {"ws_read_aborted"}
      OBVIOUS
    <3> QED BY ONLY <3>1, <3>2, <3>3, ChainMoves, ChainInv, <2>1 DEF ChainInv
  <2> HIDE DEF Follows
  <2>2. CASE RestResolved
    <3>1. Follows("rest_resolve", "rest_connect")
      BY <2>2, <2>1 DEF RestResolved
    <3> QED BY <2>2, <3>1 DEF RestResolved, Follows, ChainInv, Chain, HandlersFindTheirObjects
  <2>3. CASE RestConnected
    <3>1. Follows("rest_connect", "rest_ssl")
      BY <2>3, <2>1 DEF RestConnected
    <3> QED BY <2>3, <3>1 DEF RestConnected, Follows, ChainInv, Chain, HandlersFindTheirObjects
  <2>4. CASE RestSecured
    <3>1. Follows("rest_ssl", "rest_write")
      BY <2>4, <2>1 DEF RestSecured
    <3> QED BY <2>4, <3>1 DEF RestSecured, Follows, ChainInv, Chain, HandlersFindTheirObjects
  <2>5. CASE RestWritten
    <3>1. Follows("rest_write", "rest_read")
      BY <2>5, <2>1 DEF RestWritten
    <3> QED BY <2>5, <3>1 DEF RestWritten, Follows, ChainInv, Chain, HandlersFindTheirObjects
  <2>6. CASE RestApiOnDataReceived
    <3>1. Follows("rest_read", "ws_resolve")
      BY <2>6, <2>1 DEF RestApiOnDataReceived
    <3> QED BY <2>6, <3>1 DEF RestApiOnDataReceived, Follows, ChainInv, Chain,
                              HandlersFindTheirObjects
  <2>7. CASE WsResolved
    <3>1. Follows("ws_resolve", "ws_connect")
      BY <2>7, <2>1 DEF WsResolved
    <3> QED BY <2>7, <3>1 DEF WsResolved, Follows, ChainInv, Chain, HandlersFindTheirObjects
  <2>8. CASE WsConnected
    <3>1. Follows("ws_connect", "ws_ssl")
      BY <2>8, <2>1 DEF WsConnected
    <3> QED BY <2>8, <3>1 DEF WsConnected, Follows, ChainInv, Chain, HandlersFindTheirObjects
  <2>9. CASE WsSecured
    <3>1. Follows("ws_ssl", "ws_handshake")
      BY <2>9, <2>1 DEF WsSecured
    <3> QED BY <2>9, <3>1 DEF WsSecured, Follows, ChainInv, Chain, HandlersFindTheirObjects
  <2>10. CASE WsOpened
    <3>1. Follows("ws_handshake", "ws_read")
      BY <2>10, <2>1 DEF WsOpened
    <3> QED BY <2>10, <3>1 DEF WsOpened, Follows, ChainInv, Chain, HandlersFindTheirObjects
  <2> QED BY <1>1, <2>2, <2>3, <2>4, <2>5, <2>6, <2>7, <2>8, <2>9, <2>10 DEF SetupProceeds
<1>2. ASSUME SetupFails PROVE ChainInv'
  BY <1>2 DEF SetupFails, ChainInv, Chain, AtMostOneHandler, HandlersFindTheirObjects
<1>3. ASSUME ReadFails PROVE ChainInv'
  <2>1. Chain' = {"ws_resolve"} /\ AtMostOneHandler' /\ pending' \in SUBSET Handlers
    BY <1>3, ChainMoves, {} \in SUBSET {"ws_read_aborted"}
       DEF ReadFails, Reconnect, ChainInv, Chain
  <2> QED BY <1>3, <2>1 DEF ReadFails, Reconnect, ChainInv, Chain, HandlersFindTheirObjects
<1>4. ASSUME PeerCloses PROVE ChainInv'
  <2>1. Chain' = {"ws_resolve"} /\ AtMostOneHandler' /\ pending' \in SUBSET Handlers
    BY <1>4, ChainMoves, {"ws_read_aborted"} \in SUBSET {"ws_read_aborted"}
       DEF PeerCloses, Reconnect, ChainInv, Chain
  <2> QED BY <1>4, <2>1 DEF PeerCloses, Reconnect, ChainInv, Chain, HandlersFindTheirObjects
<1>5. ASSUME ReadAborted PROVE ChainInv'
  BY <1>5 DEF ReadAborted, Forget, ChainInv, Chain, AtMostOneHandler,
              HandlersFindTheirObjects
<1>6. ASSUME MainReturns PROVE ChainInv'
  BY <1>6 DEF MainReturns, Forget, ChainInv, Chain, AtMostOneHandler,
              HandlersFindTheirObjects
<1>7. ASSUME Restart PROVE ChainInv'
  BY <1>7 DEF Restart, ChainInv, Chain, AtMostOneHandler, HandlersFindTheirObjects
<1>8. ASSUME InterpretGenericMessages \/ Saver \/ UNCHANGED vars PROVE ChainInv'
  <2>1. UNCHANGED streamVars
    BY <1>8 DEF InterpretGenericMessages, Saver, SaverTakes, SaverStores, vars
  <2> QED BY <2>1, ChainStutters
<1> QED BY <1>1, <1>2, <1>3, <1>4, <1>5, <1>6, <1>7, <1>8 DEF Next

\* The price stream is never handled by two chains of operations at once, and no
\* handler and no operation finds an optional empty.
THEOREM OneChainAtWork == Spec => []ChainOwnsItsObjects
<1>1. ChainInv => ChainOwnsItsObjects
  <2> SUFFICES ASSUME ChainInv PROVE OneConnection
    BY DEF ChainInv, ChainOwnsItsObjects
  <2>1. CASE Chain = {}
    BY <2>1, FS_EmptySet DEF OneConnection, Chain
  <2>2. CASE Chain # {}
    <3>1. PICK h : Chain = {h}
      BY <2>2 DEF ChainInv, AtMostOneHandler
    <3> QED BY <3>1, FS_Singleton DEF OneConnection, Chain
  <2> QED BY <2>1, <2>2
<1> QED BY <1>1, ChainInit, ChainStep, PTL DEF Spec

-----------------------------------------------------------------------------
(* Types.                                                                  *)

LEMMA PushedListType ==
    ASSUME NEW m \in Messages, WellFormed(m), NEW n \in 1 .. MaxMessages
    PROVE  /\ PushedList(m, n) \in Seq(Tickers)
           /\ \A i \in DOMAIN PushedList(m, n) : PushedList(m, n)[i].price = n
<1>1. PICK k \in 0 .. MaxBatch : m \in [1 .. k -> Names \cup {Malformed}]
  BY DEF Messages
<1>2. \A i \in 1 .. k : m[i] \in Names
  BY <1>1 DEF WellFormed
<1>3. \A i \in 1 .. k : [instrument_id |-> m[i], price |-> n] \in Tickers
  BY <1>2 DEF Tickers
<1>4. PushedList(m, n) \in [1 .. k -> Tickers]
  BY <1>1, <1>3 DEF PushedList
<1>5. k \in Nat
  BY <1>1, MarketDataStreamAssumption
<1> QED BY <1>1, <1>4, <1>5 DEF PushedList

\* A message that is read to its end is appended, any other is refused.
LEMMA MessageEffect ==
    ASSUME TypeOK, InterpretGenericMessages
    PROVE  /\ messages' = messages + 1 /\ messages' \in 1 .. MaxMessages
           /\ \/ /\ refused' = refused
                 /\ \E s \in Seq(Tickers) :
                       /\ tokens_container_' = tokens_container_ \o s
                       /\ \A i \in DOMAIN s : s[i].price = messages'
              \/ refused' = refused \cup {messages'} /\ UNCHANGED tokens_container_
<1>1. messages' = messages + 1 /\ messages' \in 1 .. MaxMessages
  BY MarketDataStreamAssumption DEF TypeOK, InterpretGenericMessages
<1>2. PICK m \in Messages : ProcessTickers(m, messages + 1)
  BY DEF InterpretGenericMessages
<1>3. CASE WellFormed(m)
  <2>1. /\ PushedList(m, messages') \in Seq(Tickers)
        /\ \A i \in DOMAIN PushedList(m, messages') :
               PushedList(m, messages')[i].price = messages'
    BY <1>1, <1>3, PushedListType
  <2> QED BY <1>1, <1>2, <1>3, <2>1 DEF ProcessTickers
<1>4. CASE ~ WellFormed(m)
  BY <1>1, <1>2, <1>4 DEF ProcessTickers
<1> QED BY <1>3, <1>4

LEMMA TypeInit == Init => TypeOK
<1> SUFFICES ASSUME Init PROVE TypeOK
    OBVIOUS
<1>1. tokens_container_ \in Seq(Tickers)
  BY EmptySeq DEF Init
<1>2. all_pushed_sub_data_ \in [Names -> 0 .. MaxMessages]
  BY MarketDataStreamAssumption DEF Init
<1> QED BY <1>1, <1>2, MarketDataStreamAssumption
        DEF Init, TypeOK, Handlers, SetupOps, RestOps, Optionals

\* The parts of TypeOK about the stream, and about the rest.
StreamTypeOK ==
    /\ process \in {"up", "down", "hung"}
    /\ pending \in SUBSET Handlers
    /\ ssl_web_stream_ \in {"none", "rest", "ws", "open"}
    /\ engaged \in SUBSET Optionals
    /\ setupFaults \in 0 .. MaxSetupFaults /\ drops \in 0 .. MaxDrops

DataTypeOK ==
    /\ all_listed_instruments_ \in SUBSET Instruments
    /\ tokens_container_ \in Seq(Tickers)
    /\ item \in {<<>>} \cup {<<t>> : t \in Tickers}
    /\ all_pushed_sub_data_ \in [Names -> 0 .. MaxMessages]
    /\ messages \in 0 .. MaxMessages /\ refused \in SUBSET (1 .. messages)

LEMMA ForgetType ==
    ASSUME Forget, UNCHANGED inputVars, DataTypeOK
    PROVE  DataTypeOK'
<1>1. tokens_container_' \in Seq(Tickers)
  BY EmptySeq DEF Forget
<1>2. all_pushed_sub_data_' \in [Names -> 0 .. MaxMessages]
  BY MarketDataStreamAssumption DEF Forget
<1> QED BY <1>1, <1>2 DEF Forget, DataTypeOK, inputVars

LEMMA StreamTypeStep == TypeOK /\ [Next]_vars => StreamTypeOK'
<1> SUFFICES ASSUME TypeOK, [Next]_vars PROVE StreamTypeOK'
    OBVIOUS
<1>0. StreamTypeOK
  BY DEF TypeOK, StreamTypeOK
<1> USE <1>0 DEF StreamTypeOK, Handlers, SetupOps, RestOps, WsOps, Optionals
<1>1. ASSUME SetupProceeds PROVE StreamTypeOK'
  BY <1>1 DEF SetupProceeds, RestResolved, RestConnected, RestSecured, RestWritten,
       RestApiOnDataReceived, WsResolved, WsConnected, WsSecured, WsOpened, Continue,
       DataUnchanged, bounds
<1>2. ASSUME SetupFails PROVE StreamTypeOK'
  BY <1>2, MarketDataStreamAssumption DEF SetupFails
<1>3. ASSUME ReadFails \/ PeerCloses PROVE StreamTypeOK'
  <2>1. drops' \in 0 .. MaxDrops
    BY <1>3, MarketDataStreamAssumption DEF ReadFails, PeerCloses, Drop
  <2>2. /\ pending' \subseteq pending \cup {"ws_read_aborted", "ws_resolve"}
        /\ ssl_web_stream_' = "none" /\ engaged' = engaged \cup {"resolver_"}
        /\ UNCHANGED <<process, setupFaults>>
    BY <1>3 DEF ReadFails, PeerCloses, Reconnect
  <2> QED BY <2>1, <2>2
<1>4. ASSUME ReadAborted PROVE StreamTypeOK'
  <2>1. UNCHANGED bounds
    BY <1>4 DEF ReadAborted
  <2>2. \/ /\ process' = process /\ pending' \subseteq pending
           /\ ssl_web_stream_' = ssl_web_stream_ /\ engaged' = engaged
        \/ /\ process' = "down" /\ pending' = {}
           /\ ssl_web_stream_' = "none" /\ engaged' = {}
    BY <1>4 DEF ReadAborted, Forget
  <2> QED BY <2>1, <2>2 DEF bounds
<1>5. ASSUME MainReturns \/ Restart PROVE StreamTypeOK'
  <2>1. UNCHANGED bounds
    BY <1>5 DEF MainReturns, Restart
  <2>2. process' \in {"up", "down", "hung"}
    BY <1>5 DEF MainReturns, Restart
  <2>3. \/ pending' = {} /\ ssl_web_stream_' = "none" /\ engaged' = {}
        \/ /\ pending' = {"rest_resolve"} /\ engaged' = {"resolver_"}
           /\ ssl_web_stream_' = ssl_web_stream_
    BY <1>5 DEF MainReturns, Restart, Forget
  <2> QED BY <2>1, <2>2, <2>3 DEF bounds
<1>6. ASSUME InterpretGenericMessages \/ Saver \/ UNCHANGED vars PROVE StreamTypeOK'
  BY <1>6 DEF InterpretGenericMessages, Saver, SaverTakes, SaverStores, vars,
       streamVars, bounds
<1> QED BY <1>1, <1>2, <1>3, <1>4, <1>5, <1>6 DEF Next

LEMMA DataTypeStep == TypeOK /\ [Next]_vars => DataTypeOK'
<1> SUFFICES ASSUME TypeOK, [Next]_vars PROVE DataTypeOK'
    OBVIOUS
<1>0. DataTypeOK
  BY DEF TypeOK, DataTypeOK
<1>1. ASSUME UNCHANGED <<dataVars, inputVars>> PROVE DataTypeOK'
  BY <1>0, <1>1 DEF DataTypeOK, dataVars, inputVars
<1>2. ASSUME RestApiOnDataReceived PROVE DataTypeOK'
  BY <1>0, <1>2 DEF DataTypeOK, RestApiOnDataReceived, inputVars
<1>3. ASSUME SetupProceeds, ~ RestApiOnDataReceived PROVE DataTypeOK'
  BY <1>1, <1>3 DEF SetupProceeds, RestResolved, RestConnected, RestSecured,
       RestWritten, WsResolved, WsConnected, WsSecured, WsOpened, DataUnchanged
<1>4. ASSUME InterpretGenericMessages PROVE DataTypeOK'
  <2>0. messages \in Nat /\ messages' = messages + 1 /\ messages' \in 1 .. MaxMessages
    BY <1>0, <1>4, MessageEffect, MarketDataStreamAssumption DEF DataTypeOK
  <2>1. messages' \in 0 .. MaxMessages /\ refused' \in SUBSET (1 .. messages')
    <3>1. refused' = refused \/ refused' = refused \cup {messages'}
      BY <1>4, MessageEffect
    <3>2. messages' \in 0 .. MaxMessages
      BY <2>0, MarketDataStreamAssumption
    <3>3. refused \in SUBSET (1 .. messages')
      BY <1>0, <2>0 DEF DataTypeOK
    <3>4. messages' \in 1 .. messages'
      BY <2>0
    <3> QED BY <3>1, <3>2, <3>3, <3>4
  <2>2. tokens_container_' \in Seq(Tickers)
    BY <1>0, <1>4, MessageEffect, ConcatProperties DEF DataTypeOK
  <2> QED BY <1>0, <1>4, <2>1, <2>2 DEF DataTypeOK, InterpretGenericMessages
<1>5. ASSUME SaverTakes PROVE DataTypeOK'
  <2>1. Head(tokens_container_) \in Tickers /\ tokens_container_' \in Seq(Tickers)
    BY <1>0, <1>5, HeadTailProperties DEF DataTypeOK, SaverTakes
  <2> QED BY <1>0, <1>5, <2>1 DEF DataTypeOK, SaverTakes, inputVars
<1>6. ASSUME SaverStores PROVE DataTypeOK'
  <2>1. item[1] \in Tickers
    BY <1>0, <1>6 DEF DataTypeOK, SaverStores
  <2>2. item[1].price \in 0 .. MaxMessages
    BY <2>1, MarketDataStreamAssumption DEF Tickers
  <2>3. all_pushed_sub_data_' \in [Names -> 0 .. MaxMessages]
    BY <1>0, <1>6, <2>2 DEF DataTypeOK, SaverStores
  <2> QED BY <1>0, <1>6, <2>3 DEF DataTypeOK, SaverStores, inputVars
<1>7. ASSUME ReadAborted PROVE DataTypeOK'
  BY <1>0, <1>1, <1>7, ForgetType DEF ReadAborted
<1>8. ASSUME MainReturns PROVE DataTypeOK'
  BY <1>0, <1>8, ForgetType DEF MainReturns
<1>9. ASSUME SetupFails \/ ReadFails \/ PeerCloses \/ Restart \/ UNCHANGED vars
      PROVE  DataTypeOK'
  BY <1>1, <1>9 DEF SetupFails, ReadFails, PeerCloses, Restart, vars
<1> QED BY <1>2, <1>3, <1>4, <1>5, <1>6, <1>7, <1>8, <1>9 DEF Next, Saver

\* The types, for any instruments and bounds.
THEOREM Typing == Spec => []TypeOK
<1>1. TypeOK /\ [Next]_vars => TypeOK'
  BY StreamTypeStep, DataTypeStep DEF TypeOK, StreamTypeOK, DataTypeOK
<1> QED BY <1>1, TypeInit, PTL DEF Spec

-----------------------------------------------------------------------------
(* The order of the prices.                                                *)

\* Prices only wait for newer ones: those kept, then the one the saver holds,
\* then those in the queue from its front on, then those still to come.
OrderInv ==
    /\ \A i, j \in DOMAIN tokens_container_ :
          i < j => tokens_container_[i].price <= tokens_container_[j].price
    /\ \A i \in DOMAIN tokens_container_ : tokens_container_[i].price <= messages
    /\ item # <<>> =>
          /\ item[1].price <= messages
          /\ \A i \in DOMAIN tokens_container_ : item[1].price <= tokens_container_[i].price
    /\ \A name \in Names :
          /\ all_pushed_sub_data_[name] <= messages
          /\ item # <<>> => all_pushed_sub_data_[name] <= item[1].price
          /\ \A i \in DOMAIN tokens_container_ :
                all_pushed_sub_data_[name] <= tokens_container_[i].price

PriceInv == TypeOK /\ OrderInv /\ AllOrNothing

\* The numbers the invariant compares.
LEMMA PriceTypes ==
    ASSUME TypeOK
    PROVE  /\ messages \in Nat /\ Len(tokens_container_) \in Nat
           /\ DOMAIN tokens_container_ = 1 .. Len(tokens_container_)
           /\ \A i \in DOMAIN tokens_container_ :
                 tokens_container_[i].price \in 1 .. MaxMessages
           /\ item # <<>> => item[1] \in Tickers /\ item[1].price \in 1 .. MaxMessages
           /\ \A name \in Names : all_pushed_sub_data_[name] \in 0 .. MaxMessages
<1>1. tokens_container_ \in Seq(Tickers)
  BY DEF TypeOK
<1>2. /\ Len(tokens_container_) \in Nat
      /\ DOMAIN tokens_container_ = 1 .. Len(tokens_container_)
      /\ \A i \in DOMAIN tokens_container_ : tokens_container_[i] \in Tickers
  BY <1>1, LenProperties, ElementOfSeq
<1>3. \A t \in Tickers : t.price \in 1 .. MaxMessages
  BY DEF Tickers
<1>4. item # <<>> => item[1] \in Tickers
  BY DEF TypeOK
<1>5. messages \in Nat /\ \A name \in Names : all_pushed_sub_data_[name] \in 0 .. MaxMessages
  BY MarketDataStreamAssumption DEF TypeOK
<1> QED BY <1>2, <1>3, <1>4, <1>5

LEMMA PriceInit == Init => PriceInv
<1> SUFFICES ASSUME Init PROVE OrderInv /\ AllOrNothing
    BY TypeInit DEF PriceInv
<1>1. DOMAIN tokens_container_ = {}
  BY DEF Init
<1>2. \A name \in Names : all_pushed_sub_data_[name] = 0
  BY DEF Init
<1> QED BY <1>1, <1>2 DEF Init, OrderInv, AllOrNothing

\* A message that is appended is newer than all there is.
LEMMA PriceMessage ==
    ASSUME PriceInv, TypeOK', InterpretGenericMessages
    PROVE  OrderInv' /\ AllOrNothing'
<1>1. /\ TypeOK /\ OrderInv /\ AllOrNothing
      /\ item' = item /\ all_pushed_sub_data_' = all_pushed_sub_data_
  BY DEF PriceInv, InterpretGenericMessages
<1>2. messages \in Nat /\ messages' = messages + 1 /\ refused \in SUBSET (1 .. messages)
  BY <1>1, MessageEffect DEF TypeOK
<1>3. messages' \notin refused
  BY <1>2
<1>4. CASE refused' = refused \cup {messages'} /\ UNCHANGED tokens_container_
  <2>1. OrderInv'
    BY <1>1, <1>2, <1>4, PriceTypes DEF OrderInv
  <2>2. AllOrNothing'
    BY <1>1, <1>2, <1>4, PriceTypes DEF AllOrNothing, OrderInv
  <2> QED BY <2>1, <2>2
<1>5. ASSUME NEW s \in Seq(Tickers), tokens_container_' = tokens_container_ \o s,
             \A i \in DOMAIN s : s[i].price = messages', refused' = refused
      PROVE  OrderInv' /\ AllOrNothing'
  <2>1. tokens_container_ \in Seq(Tickers)
    BY <1>1 DEF TypeOK
  <2> DEFINE n == Len(tokens_container_)
  <2>2. n \in Nat /\ Len(s) \in Nat /\ DOMAIN s = 1 .. Len(s)
        /\ DOMAIN tokens_container_ = 1 .. n
        /\ DOMAIN tokens_container_' = 1 .. n + Len(s)
    BY <1>5, <2>1, ConcatProperties, LenProperties
  <2>3. \A i \in 1 .. n + Len(s) :
           tokens_container_'[i] = IF i <= n THEN tokens_container_[i] ELSE s[i - n]
    BY <1>5, <2>1, ConcatProperties
  <2>4. ASSUME NEW i \in DOMAIN tokens_container_'
        PROVE  \/ /\ i \in DOMAIN tokens_container_
                  /\ tokens_container_'[i].price = tokens_container_[i].price
               \/ /\ i \in Nat /\ n < i
                  /\ tokens_container_'[i].price = messages'
    <3>1. CASE i <= n
      BY <2>2, <2>3, <2>4, <3>1
    <3>2. CASE ~ (i <= n)
      <4>1. i - n \in DOMAIN s
        BY <2>2, <2>4, <3>2
      <4> QED BY <1>5, <2>2, <2>3, <2>4, <3>2, <4>1
    <3> QED BY <3>1, <3>2
  <2>5. \A i \in DOMAIN tokens_container_ :
           tokens_container_[i].price \in Nat /\ tokens_container_[i].price <= messages
    BY <1>1, PriceTypes DEF OrderInv
  <2> HIDE DEF n
  <2>6. OrderInv'
    <3>1. \A i, j \in DOMAIN tokens_container_' :
             i < j => tokens_container_'[i].price <= tokens_container_'[j].price
      <4> SUFFICES ASSUME NEW i \in DOMAIN tokens_container_',
                          NEW j \in DOMAIN tokens_container_', i < j
                   PROVE  tokens_container_'[i].price <= tokens_container_'[j].price
        OBVIOUS
      <4>1. CASE j \in DOMAIN tokens_container_
                 /\ tokens_container_'[j].price = tokens_container_[j].price
        <5>1. i \in DOMAIN tokens_container_
              /\ tokens_container_'[i].price = tokens_container_[i].price
          BY <2>2, <2>4, <4>1
        <5> QED BY <1>1, <4>1, <5>1 DEF OrderInv
      <4>2. CASE tokens_container_'[j].price = messages'
        BY <1>2, <2>4, <2>5, <4>2
      <4> QED BY <2>4, <4>1, <4>2
    <3>2. \A i \in DOMAIN tokens_container_' : tokens_container_'[i].price <= messages'
      BY <1>2, <2>4, <2>5
    <3>3. item # <<>> =>
            /\ item[1].price <= messages'
            /\ \A i \in DOMAIN tokens_container_' : item[1].price <= tokens_container_'[i].price
      BY <1>1, <1>2, <2>4, PriceTypes DEF OrderInv
    <3>4. \A name \in Names :
            /\ all_pushed_sub_data_[name] <= messages'
            /\ item # <<>> => all_pushed_sub_data_[name] <= item[1].price
            /\ \A i \in DOMAIN tokens_container_' :
                  all_pushed_sub_data_[name] <= tokens_container_'[i].price
      BY <1>1, <1>2, <2>4, PriceTypes DEF OrderInv
    <3> QED BY <1>1, <3>1, <3>2, <3>3, <3>4 DEF OrderInv
  <2>7. AllOrNothing'
    BY <1>1, <1>3, <1>5, <2>4 DEF AllOrNothing
  <2> QED BY <2>6, <2>7
<1> QED BY <1>1, <1>4, <1>5, MessageEffect

LEMMA PriceTaken ==
    ASSUME PriceInv, SaverTakes
    PROVE  OrderInv' /\ AllOrNothing'
<1>1. /\ TypeOK /\ OrderInv /\ AllOrNothing
      /\ messages' = messages /\ refused' = refused
      /\ all_pushed_sub_data_' = all_pushed_sub_data_
  BY DEF PriceInv, SaverTakes, inputVars
<1>2. tokens_container_ \in Seq(Tickers) /\ tokens_container_ # <<>>
  BY <1>1 DEF TypeOK, SaverTakes
<1> DEFINE n == Len(tokens_container_)
<1>3. /\ n \in Nat \ {0} /\ DOMAIN tokens_container_ = 1 .. n
      /\ DOMAIN tokens_container_' = 1 .. n - 1
  BY <1>2, HeadTailProperties, LenProperties, EmptySeq DEF SaverTakes
<1>4. \A i \in DOMAIN tokens_container_' :
         i + 1 \in DOMAIN tokens_container_ /\ tokens_container_'[i] = tokens_container_[i + 1]
  BY <1>2, <1>3, HeadTailProperties DEF SaverTakes
<1>5. 1 \in DOMAIN tokens_container_ /\ item' = <<tokens_container_[1]>>
  BY <1>2, <1>3 DEF SaverTakes
<1>6. item'[1] = tokens_container_[1] /\ item' # <<>>
  BY <1>5
<1>7. OrderInv'
  <2>1. \A i, j \in DOMAIN tokens_container_' :
           i < j => tokens_container_'[i].price <= tokens_container_'[j].price
    BY <1>1, <1>3, <1>4 DEF OrderInv
  <2>2. \A i \in DOMAIN tokens_container_' : tokens_container_'[i].price <= messages
    BY <1>1, <1>4 DEF OrderInv
  <2>3. item'[1].price <= messages
    BY <1>1, <1>5, <1>6 DEF OrderInv
  <2>4. \A i \in DOMAIN tokens_container_' : item'[1].price <= tokens_container_'[i].price
    BY <1>1, <1>3, <1>4, <1>5, <1>6 DEF OrderInv
  <2>5. \A name \in Names :
           /\ all_pushed_sub_data_[name] <= messages
           /\ all_pushed_sub_data_[name] <= item'[1].price
           /\ \A i \in DOMAIN tokens_container_' :
                 all_pushed_sub_data_[name] <= tokens_container_'[i].price
    BY <1>1, <1>4, <1>5, <1>6 DEF OrderInv
  <2> QED BY <1>1, <2>1, <2>2, <2>3, <2>4, <2>5 DEF OrderInv
<1>8. AllOrNothing'
  BY <1>1, <1>4, <1>5, <1>6 DEF AllOrNothing
<1> QED BY <1>7, <1>8

LEMMA PriceStored ==
    ASSUME PriceInv, SaverStores
    PROVE  /\ OrderInv' /\ AllOrNothing'
           /\ \A name \in Names : all_pushed_sub_data_'[name] >= all_pushed_sub_data_[name]
<1>1. /\ TypeOK /\ OrderInv /\ AllOrNothing /\ item # <<>> /\ item' = <<>>
      /\ messages' = messages /\ refused' = refused
      /\ tokens_container_' = tokens_container_
  BY DEF PriceInv, SaverStores, inputVars
<1>2. \A name \in Names : \/ all_pushed_sub_data_'[name] = all_pushed_sub_data_[name]
                          \/ all_pushed_sub_data_'[name] = item[1].price
  BY <1>1 DEF TypeOK, SaverStores
<1>3. OrderInv'
  BY <1>1, <1>2 DEF OrderInv
<1>4. AllOrNothing'
  BY <1>1, <1>2 DEF AllOrNothing
<1>5. \A name \in Names : all_pushed_sub_data_'[name] >= all_pushed_sub_data_[name]
  BY <1>1, <1>2, PriceTypes DEF OrderInv
<1> QED BY <1>3, <1>4, <1>5

LEMMA PriceForgotten ==
    ASSUME PriceInv, Forget, UNCHANGED inputVars
    PROVE  OrderInv' /\ AllOrNothing'
<1>1. messages \in Nat /\ messages' = messages /\ refused' = refused
      /\ refused \in SUBSET (1 .. messages)
  BY PriceTypes DEF PriceInv, TypeOK, inputVars
<1>2. DOMAIN tokens_container_' = {} /\ item' = <<>>
      /\ \A name \in Names : all_pushed_sub_data_'[name] = 0
  BY DEF Forget
<1> QED BY <1>1, <1>2 DEF OrderInv, AllOrNothing

\* Steps that change none of this: those of the stream and of the environment.
LEMMA PriceStutters ==
    ASSUME PriceInv,
           UNCHANGED <<tokens_container_, item, all_pushed_sub_data_, messages, refused>>
    PROVE  OrderInv' /\ AllOrNothing' /\ UNCHANGED all_pushed_sub_data_
BY DEF PriceInv, OrderInv, AllOrNothing

LEMMA PriceStep ==
    ASSUME PriceInv, [Next]_vars
    PROVE  /\ PriceInv'
           /\ process = "up" /\ process' = "up" =>
                 \A name \in Names : all_pushed_sub_data_'[name] >= all_pushed_sub_data_[name]
<1> DEFINE Forward == process = "up" /\ process' = "up" =>
              \A name \in Names : all_pushed_sub_data_'[name] >= all_pushed_sub_data_[name]
<1>1. TypeOK'
  BY StreamTypeStep, DataTypeStep DEF PriceInv, TypeOK, StreamTypeOK, DataTypeOK
<1>2. UNCHANGED all_pushed_sub_data_ => Forward
  BY PriceTypes DEF PriceInv
<1>3. CASE SetupProceeds \/ SetupFails \/ ReadFails \/ PeerCloses \/ Restart
             \/ UNCHANGED vars
  <2>1. UNCHANGED <<tokens_container_, item, all_pushed_sub_data_, messages, refused>>
    BY <1>3 DEF SetupProceeds, RestResolved, RestConnected, RestSecured, RestWritten,
       RestApiOnDataReceived, WsResolved, WsConnected, WsSecured, WsOpened, DataUnchanged,
       SetupFails, ReadFails, PeerCloses, Restart, vars, dataVars, inputVars
  <2> QED BY <1>1, <1>2, <2>1, PriceStutters DEF PriceInv
<1>4. CASE InterpretGenericMessages
  <2>1. UNCHANGED all_pushed_sub_data_
    BY <1>4 DEF InterpretGenericMessages
  <2> QED BY <1>1, <1>2, <1>4, <2>1, PriceMessage DEF PriceInv
<1>5. CASE SaverTakes
  <2>1. UNCHANGED all_pushed_sub_data_
    BY <1>5 DEF SaverTakes
  <2> QED BY <1>1, <1>2, <1>5, <2>1, PriceTaken DEF PriceInv
<1>6. CASE SaverStores
  BY <1>1, <1>6, PriceStored DEF PriceInv
<1>7. CASE ReadAborted
  <2>1. CASE UNCHANGED <<process, ssl_web_stream_, engaged, dataVars>>
    <3>1. UNCHANGED <<tokens_container_, item, all_pushed_sub_data_, messages, refused>>
      BY <1>7, <2>1 DEF ReadAborted, dataVars, inputVars
    <3> QED BY <1>1, <1>2, <3>1, PriceStutters DEF PriceInv
  <2>2. CASE process' = "down" /\ Forget
    <3>1. UNCHANGED inputVars
      BY <1>7 DEF ReadAborted
    <3> QED BY <1>1, <2>2, <3>1, PriceForgotten DEF PriceInv
  <2> QED BY <1>7, <2>1, <2>2 DEF ReadAborted
<1>8. CASE MainReturns
  <2>1. Forget /\ UNCHANGED inputVars /\ process' # "up"
    BY <1>8 DEF MainReturns
  <2> QED BY <1>1, <2>1, PriceForgotten DEF PriceInv
<1> QED BY <1>3, <1>4, <1>5, <1>6, <1>7, <1>8 DEF Next, Saver

\* Whatever is pushed and lost, a message that cannot be interpreted to its end
\* leaves no trace in the queue, the saver or the prices.
THEOREM WholeMessages == Spec => []AllOrNothing
<1>1. PriceInv /\ [Next]_vars => PriceInv'
  BY PriceStep
<1>2. PriceInv => AllOrNothing
  BY DEF PriceInv
<1> QED BY <1>1, <1>2, PriceInit, PTL DEF Spec

\* While the program runs, no price that is kept is replaced by an older one.
THEOREM PricesGetNewer == Spec => PricesMoveForward
<1>1. PriceInv /\ [Next]_vars => PriceInv'
  BY PriceStep
<1>2. PriceInv /\ [Next]_vars =>
        [process = "up" /\ process' = "up" =>
           \A name \in Names : all_pushed_sub_data_'[name] >= all_pushed_sub_data_[name]]_vars
  BY PriceStep
<1> QED BY <1>1, <1>2, PriceInit, PTL DEF Spec, PricesMoveForward
=============================================================================
