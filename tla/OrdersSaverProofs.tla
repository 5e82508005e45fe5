------------------------- MODULE OrdersSaverProofs -------------------------
(* What the saver promises for every number of events, accounts, chats,     *)
(* crashes and failures of the connection.                                  *)
EXTENDS OrdersSaver, SequenceTheorems, TLAPS

-----------------------------------------------------------------------------
(* Types.                                                                  *)

LEMMA KeepBusyTypes ==
    ASSUME ConnectorTypeOK, KeepSqlServerBusy \/ ConnectionDrops \/ Connect
    PROVE  ConnectorTypeOK'
<1> USE DEF KeepSqlServerBusy, SelectBegins, SelectEnds, Rlogon, ConnectionDrops, Connect
<1>1. /\ process' \in {"up", "down"}
      /\ connection' \in {"up", "broken", "off"}
      /\ busyPc' \in {"asleep", "select", "rlogon"}
  BY DEF ConnectorTypeOK
<1>2. raced' \in BOOLEAN
  BY Zenon DEF ConnectorTypeOK
<1>3. faults' \in 0 .. MaxFaults
  BY DatabaseConnectorAssumption DEF ConnectorTypeOK
<1> QED BY <1>1, <1>2, <1>3 DEF ConnectorTypeOK

LEMMA DiesTypes == ConnectorTypeOK /\ Dies => ConnectorTypeOK'
<1> SUFFICES ASSUME ConnectorTypeOK, Dies PROVE ConnectorTypeOK'
  OBVIOUS
<1>1. faults' \in 0 .. MaxFaults
  BY DatabaseConnectorAssumption DEF ConnectorTypeOK, Dies
<1> QED BY <1>1 DEF ConnectorTypeOK, Dies

LEMMA StatementTypes ==
    ASSUME ConnectorTypeOK, failed \in BOOLEAN, UNCHANGED <<process, connection, busyPc, faults>>,
           raced' = (raced \/ busyPc = "select"), UNCHANGED failed \/ failed' = TRUE
    PROVE  ConnectorTypeOK' /\ failed' \in BOOLEAN
BY DEF ConnectorTypeOK

LEMMA Ids ==
    /\ Unknown \in [telegram_chat_id : Nat, database_id : {0, 1}]
    /\ TypeOK => \A read : FromTable(read) \in [Chats -> [telegram_chat_id : Nat, database_id : {0, 1}]]
    /\ TypeOK => \A learnt : Learnt(learnt) \in [Chats -> [telegram_chat_id : Nat, database_id : {0, 1}]]
<1>1. Unknown \in [telegram_chat_id : Nat, database_id : {0, 1}]
  BY DEF Unknown
<1>2. ASSUME TypeOK, NEW read
      PROVE  FromTable(read) \in [Chats -> [telegram_chat_id : Nat, database_id : {0, 1}]]
  BY <1>1, <1>2 DEF TypeOK, FromTable
<1>3. ASSUME TypeOK, NEW learnt
      PROVE  Learnt(learnt) \in [Chats -> [telegram_chat_id : Nat, database_id : {0, 1}]]
  BY <1>3 DEF TypeOK, Learnt
<1> QED BY <1>1, <1>2, <1>3

LEMMA InfoType ==
    ASSUME NEW k \in Kinds, NEW a \in Accounts, NEW g \in Chats, NEW n \in Nat
    PROVE  Info(k, a, g, n) \in Event /\ Info(k, a, g, n).n = n /\ Info(k, a, g, n).kind = k
BY DEF Info, Event

\* What the streams append are events of one kind, numbered on from those that came.
LEMMA ArrivingEvents ==
    ASSUME TypeOK, Streams
    PROVE  \E items \in Seq(Event), kind \in Kinds :
               /\ Arrives(items)
               /\ \A i \in 1 .. Len(items) : items[i].n = arrived + i /\ items[i].kind = kind
<1>1. arrived \in Nat
  BY DEF TypeOK
<1>2. PICK a \in Accounts, g \in Chats :
         \/ OrdersExecutionReport(a, g) \/ BalanceUpdate(a, g)
         \/ \E balances \in 0 .. MaxBatch : AccountPosition(a, g, balances)
  BY DEF Streams
<1>3. ASSUME NEW k \in Kinds, Arrives(<<Info(k, a, g, arrived + 1)>>)
      PROVE  \E items \in Seq(Event) :
                 /\ Arrives(items)
                 /\ \A i \in 1 .. Len(items) : items[i].n = arrived + i /\ items[i].kind = k
  <2> DEFINE e == Info(k, a, g, arrived + 1)
  <2>1. e \in Event /\ e.n = arrived + 1 /\ e.kind = k
    BY <1>1, InfoType
  <2> HIDE DEF e
  <2>2. <<e>> \in Seq(Event) /\ Len(<<e>>) = 1 /\ <<e>>[1] = e
    BY <2>1
  <2>3. \A i \in 1 .. Len(<<e>>) : <<e>>[i].n = arrived + i /\ <<e>>[i].kind = k
    BY <2>1, <2>2
  <2>4. Arrives(<<e>>)
    BY <1>3 DEF e
  <2> QED BY <2>2, <2>3, <2>4
<1>4. ASSUME NEW balances \in 0 .. MaxBatch, AccountPosition(a, g, balances)
      PROVE  \E items \in Seq(Event) :
                 /\ Arrives(items)
                 /\ \A i \in 1 .. Len(items) : items[i].n = arrived + i /\ items[i].kind = "account"
  <2> DEFINE items == [i \in 1 .. balances |-> Info("account", a, g, arrived + i)]
  <2>1. balances \in Nat
    BY <1>4, OrdersSaverAssumption
  <2>2. \A i \in 1 .. balances :
           items[i] \in Event /\ items[i].n = arrived + i /\ items[i].kind = "account"
    BY <1>1, <2>1, InfoType DEF Kinds
  <2>3. items \in Seq(Event) /\ Len(items) = balances
    BY <2>1, <2>2, IsASeq
  <2> QED BY <2>2, <2>3, <1>4 DEF AccountPosition
<1> QED BY <1>2, <1>3, <1>4 DEF OrdersExecutionReport, BalanceUpdate, Kinds

LEMMA TypesInit == Init => TypeOK
<1> SUFFICES ASSUME Init PROVE TypeOK
  OBVIOUS
<1>1. <<>> \in Seq(Event)
  OBVIOUS
<1>2. /\ raced \in BOOLEAN /\ failed \in BOOLEAN
      /\ process = "up" /\ connection = "up" /\ busyPc = "asleep" /\ faults = 0
  BY Zenon DEF Init, ConnectorInit
<1>3. chats_id_map \in [Chats -> [telegram_chat_id : Nat, database_id : {0, 1}]]
  BY Ids DEF Init
<1>4. ConnectorTypeOK
  BY <1>2, DatabaseConnectorAssumption DEF ConnectorTypeOK
<1>5. /\ saverPc \in Pcs /\ item \in Event \cup {NoItem} /\ todo \in SUBSET Chats
      /\ DOMAIN account_table_map = Accounts /\ stream_container \in Seq(Event)
  BY <1>1 DEF Init, Pcs
<1>6. /\ arrived \in Nat /\ born \in 0 .. arrived
      /\ chatId \in [Chats -> Nat] /\ tg_id_cache \in [Chats -> Nat]
  BY DEF Init
<1> QED BY <1>2, <1>3, <1>4, <1>5, <1>6 DEF TypeOK

LEMMA TypesStep == TypeOK /\ [Next]_vars => TypeOK'
<1> SUFFICES ASSUME TypeOK, [Next]_vars PROVE TypeOK'
  OBVIOUS
<1>1. ASSUME GetTgCachedIds PROVE TypeOK'
  <2>1. /\ ConnectorTypeOK' /\ failed' \in BOOLEAN
    BY <1>1, StatementTypes DEF GetTgCachedIds, Statement, Uses, TypeOK
  <2>2. chats_id_map' \in [Chats -> [telegram_chat_id : Nat, database_id : {0, 1}]]
    BY <1>1, Ids DEF GetTgCachedIds, Statement
  <2> QED BY <1>1, <2>1, <2>2 DEF GetTgCachedIds, TypeOK, storeVars, Pcs
<1>2. ASSUME TgGetNewUpdates PROVE TypeOK'
  <2>1. chats_id_map' \in [Chats -> [telegram_chat_id : Nat, database_id : {0, 1}]]
    BY <1>2, Ids DEF TgGetNewUpdates
  <2>2. todo' \in SUBSET Chats /\ saverPc' \in Pcs
    BY <1>2 DEF TgGetNewUpdates, AfterLookUp, Pcs
  <2> QED BY <1>2, <2>1, <2>2 DEF TgGetNewUpdates, TypeOK, lifeVars, connectorVars, storeVars,
                                  ConnectorTypeOK
<1>3. ASSUME NEW c \in Chats, InsertUpdateCachedId(c) PROVE TypeOK'
  <2>1. ConnectorTypeOK' /\ failed' \in BOOLEAN
    BY <1>3, StatementTypes DEF InsertUpdateCachedId, Statement, Uses, TypeOK
  <2>2. tg_id_cache' \in [Chats -> Nat]
    BY <1>3 DEF InsertUpdateCachedId, Statement, TypeOK
  <2>3. todo' \in SUBSET Chats /\ saverPc' \in Pcs
    BY <1>3 DEF InsertUpdateCachedId, AfterLookUp, Pcs, TypeOK
  <2> QED BY <1>3, <2>1, <2>2, <2>3 DEF InsertUpdateCachedId, TypeOK
<1>4. ASSUME Get PROVE TypeOK'
  <2>1. /\ stream_container \in Seq(Event) /\ stream_container # <<>>
        /\ item' = Head(stream_container) /\ stream_container' = Tail(stream_container)
    BY <1>4 DEF Get, TypeOK
  <2>2. item' \in Event /\ stream_container' \in Seq(Event)
    BY <2>1, HeadTailProperties
  <2>3. saverPc' \in Pcs /\ DOMAIN account_table_map' = Accounts
    BY <1>4 DEF Get, Notify, TableAlias, Pcs, TypeOK
  <2> QED BY <1>4, <2>2, <2>3 DEF Get, TypeOK, ConnectorTypeOK, lifeVars, connectorVars, storeVars
<1>5. ASSUME NotifyAfterLookUp PROVE TypeOK'
  BY <1>5 DEF NotifyAfterLookUp, Notify, TableAlias, Pcs, TypeOK, ConnectorTypeOK, lifeVars,
              connectorVars, storeVars
<1>6. ASSUME CreateOrderTable \/ CreateBalanceTable PROVE TypeOK'
  <2>1. ConnectorTypeOK' /\ failed' \in BOOLEAN
    BY <1>6, StatementTypes
       DEF CreateOrderTable, CreateBalanceTable, CreateTable, Statement, Uses, TypeOK
  <2> QED BY <1>6, <2>1 DEF CreateOrderTable, CreateBalanceTable, CreateTable, TypeOK, Pcs
<1>7. ASSUME Save PROVE TypeOK'
  <2>1. ConnectorTypeOK' /\ failed' \in BOOLEAN
    BY <1>7, StatementTypes DEF Save, Statement, Uses, TypeOK
  <2> QED BY <1>7, <2>1 DEF Save, TypeOK, Pcs
<1>8. ASSUME SaveNothing PROVE TypeOK'
  BY <1>8 DEF SaveNothing, TypeOK, Pcs, ConnectorTypeOK, lifeVars, connectorVars, storeVars
<1>9. ASSUME Streams PROVE TypeOK'
  <2>1. PICK items \in Seq(Event) : Arrives(items)
    BY <1>9, ArrivingEvents
  <2>2. stream_container' \in Seq(Event) /\ Len(items) \in Nat
    BY <2>1, ConcatProperties, LenProperties DEF Arrives, TypeOK
  <2> QED BY <2>1, <2>2 DEF Arrives, TypeOK, ConnectorTypeOK, lifeVars, connectorVars, saverVars,
                            storeVars
<1>10. ASSUME KeepBusy \/ Drop \/ Restart PROVE TypeOK'
  <2>1. ConnectorTypeOK'
    BY <1>10, KeepBusyTypes DEF KeepBusy, Drop, Restart, TypeOK
  <2> QED BY <1>10, <2>1 DEF KeepBusy, Drop, Restart, SaverUnchanged, saverVars, storeVars, TypeOK
<1>11. ASSUME Crash PROVE TypeOK'
  <2>1. ConnectorTypeOK'
    BY <1>11, DiesTypes DEF Crash, Terminate, TypeOK
  <2>2. <<>> \in Seq(Event)
    OBVIOUS
  <2>3. failed' \in BOOLEAN
    BY <1>11, Zenon DEF Crash
  <2>4. /\ chats_id_map' \in [Chats -> [telegram_chat_id : Nat, database_id : {0, 1}]]
        /\ DOMAIN account_table_map' = Accounts
    BY <1>11, Ids DEF Crash
  <2>5. saverPc' \in Pcs /\ item' = NoItem /\ todo' = {} /\ stream_container' = <<>>
    BY <1>11 DEF Crash, Pcs
  <2>6. UNCHANGED <<chatId, arrived, tg_id_cache>> /\ born' = arrived
    BY <1>11 DEF Crash, storeVars
  <2> QED BY <2>1, <2>2, <2>3, <2>4, <2>5, <2>6 DEF TypeOK
<1>12. ASSUME NEW c \in Chats, ChatMoves(c) PROVE TypeOK'
  BY <1>12 DEF ChatMoves, TypeOK, ConnectorTypeOK, lifeVars, connectorVars, saverVars, storeVars
<1>13. CASE UNCHANGED vars
  BY <1>13 DEF vars, TypeOK, ConnectorTypeOK, lifeVars, connectorVars, saverVars, storeVars
<1> QED BY <1>1, <1>2, <1>3, <1>4, <1>5, <1>6, <1>7, <1>8, <1>9, <1>10, <1>11, <1>12, <1>13
        DEF Next, Saver

\* Every event, id and statement of the saver and every state of the connection
\* has its type, for every instance.
THEOREM Typing == Spec => []TypeOK
BY TypesInit, TypesStep, PTL DEF Spec

-----------------------------------------------------------------------------
(* The chats in memory and in the table.                                   *)

Agrees(c) ==
    /\ Known(chats_id_map, c) <=> tg_id_cache[c] # 0
    /\ chats_id_map[c].database_id # 0 => tg_id_cache[c] = chats_id_map[c].telegram_chat_id

\* While the entries are written, those that are still to be are known, and the
\* others agree.
CacheInv ==
    /\ \A c \in Chats : chatId[c] # 0
    /\ saverPc # "store" => todo = {}
    /\ ~ failed /\ saverPc # "start" =>
           \A c \in Chats : (c \in todo => Known(chats_id_map, c)) /\ (c \notin todo => Agrees(c))

\* A step that touches neither and leaves the saver where entries are not written.
LEMMA CacheKept ==
    ASSUME CacheInv, UNCHANGED <<chats_id_map, tg_id_cache, todo>>,
           \A c \in Chats : chatId'[c] # 0,
           saverPc' = saverPc \/ (saverPc' # "store" /\ saverPc \notin {"start", "store"}),
           ~ failed' => ~ failed
    PROVE  CacheInv'
BY DEF CacheInv, Agrees, Known

LEMMA CacheStep == TypeOK /\ CacheInv /\ [Next]_vars => CacheInv'
<1> SUFFICES ASSUME TypeOK, CacheInv, [Next]_vars PROVE CacheInv'
  OBVIOUS
<1>1. ASSUME GetTgCachedIds PROVE CacheInv'
  <2>1. todo' = {} /\ saverPc' = "updates" /\ UNCHANGED <<chatId, tg_id_cache>>
    BY <1>1 DEF GetTgCachedIds, CacheInv, storeVars
  <2>2. ASSUME ~ failed', NEW c \in Chats PROVE Agrees(c)'
    <3>1. chats_id_map' = FromTable(Chats)
      BY <1>1, <2>2 DEF GetTgCachedIds, Statement
    <3> QED BY <3>1, <2>1 DEF FromTable, Unknown, Agrees, Known
  <2> QED BY <2>1, <2>2 DEF CacheInv
<1>2. ASSUME TgGetNewUpdates PROVE CacheInv'
  <2>1. /\ saverPc = "updates" /\ todo = {}
        /\ todo' = {c \in Chats : Known(chats_id_map', c)}
        /\ saverPc' # "start" /\ (saverPc' # "store" => todo' = {})
        /\ UNCHANGED <<chatId, tg_id_cache, failed>>
    BY <1>2 DEF TgGetNewUpdates, AfterLookUp, CacheInv, storeVars
  <2>2. PICK learnt \in SUBSET Chats : chats_id_map' = Learnt(learnt)
    BY <1>2 DEF TgGetNewUpdates
  <2>3. ASSUME ~ failed', NEW c \in Chats, ~ Known(chats_id_map', c) PROVE Agrees(c)'
    <3>1. c \notin learnt
      BY <2>2, <2>3 DEF Learnt, Known, CacheInv, TypeOK
    <3>2. chats_id_map'[c] = chats_id_map[c]
      BY <2>2, <3>1 DEF Learnt
    <3>3. Agrees(c)
      BY <2>1, <2>3 DEF CacheInv
    <3> QED BY <3>2, <3>3, <2>1 DEF Agrees, Known
  <2> QED BY <2>1, <2>3 DEF CacheInv
<1>3. ASSUME NEW c \in Chats, InsertUpdateCachedId(c) PROVE CacheInv'
  <2>1. /\ saverPc = "store" /\ c \in todo /\ todo' = todo \ {c}
        /\ saverPc' # "start" /\ (saverPc' # "store" => todo' = {})
        /\ UNCHANGED <<chatId, chats_id_map>>
    BY <1>3 DEF InsertUpdateCachedId, AfterLookUp
  <2>2. ASSUME ~ failed'
        PROVE  /\ ~ failed
               /\ tg_id_cache' = tg_id_cache \/ tg_id_cache' = [tg_id_cache EXCEPT ![c] = chats_id_map[c].telegram_chat_id]
               /\ \/ chats_id_map[c].database_id = 0 /\ tg_id_cache[c] # 0
                  \/ tg_id_cache' = [tg_id_cache EXCEPT ![c] = chats_id_map[c].telegram_chat_id]
    BY <1>3, <2>2 DEF InsertUpdateCachedId, Statement
  <2>3. ASSUME ~ failed', NEW d \in Chats
        PROVE  (d \in todo' => Known(chats_id_map, d)') /\ (d \notin todo' => Agrees(d)')
    <3>1. CASE d # c
      <4>1. tg_id_cache'[d] = tg_id_cache[d]
        BY <2>2, <2>3, <3>1 DEF TypeOK
      <4>2. (d \in todo => Known(chats_id_map, d)) /\ (d \notin todo => Agrees(d))
        BY <2>1, <2>2, <2>3 DEF CacheInv
      <4> QED BY <3>1, <4>1, <4>2, <2>1 DEF Agrees, Known
    <3>2. CASE d = c
      <4>1. Known(chats_id_map, c)
        BY <2>1, <2>2, <2>3 DEF CacheInv
      <4>2. \/ chats_id_map[c].database_id = 0 /\ tg_id_cache'[c] # 0
            \/ tg_id_cache'[c] = chats_id_map[c].telegram_chat_id
        BY <2>2, <2>3, <4>1 DEF TypeOK, Known
      <4> QED BY <3>2, <4>1, <4>2, <2>1 DEF Agrees, Known
    <3> QED BY <3>1, <3>2
  <2>4. \A d \in Chats : chatId'[d] # 0
    BY <2>1 DEF CacheInv
  <2> QED BY <2>1, <2>3, <2>4 DEF CacheInv
<1>4. ASSUME Get \/ NotifyAfterLookUp \/ CreateOrderTable \/ CreateBalanceTable \/ Save
             \/ SaveNothing
      PROVE  CacheInv'
  <2>1. /\ saverPc' # "store" /\ saverPc \notin {"start", "store"}
        /\ UNCHANGED <<chats_id_map, tg_id_cache, todo, chatId>>
    BY <1>4 DEF Get, NotifyAfterLookUp, Notify, TableAlias, CreateOrderTable,
                CreateBalanceTable, CreateTable, Save, SaveNothing, storeVars
  <2>2. ~ failed' => ~ failed
    BY <1>4 DEF Get, NotifyAfterLookUp, CreateOrderTable, CreateBalanceTable, CreateTable,
                Save, SaveNothing, Statement
  <2> QED BY <2>1, <2>2, CacheKept DEF CacheInv
<1>5. ASSUME Streams PROVE CacheInv'
  <2>1. PICK items \in Seq(Event) : Arrives(items)
    BY <1>5, ArrivingEvents
  <2>2. UNCHANGED <<chats_id_map, tg_id_cache, todo, chatId, saverPc, failed>>
    BY <2>1 DEF Arrives, saverVars, storeVars
  <2> QED BY <2>2, CacheKept DEF CacheInv
<1>6. ASSUME KeepBusy \/ Drop \/ Restart PROVE CacheInv'
  <2>1. UNCHANGED <<chats_id_map, tg_id_cache, todo, chatId, saverPc, failed>>
    BY <1>6 DEF KeepBusy, Drop, Restart, SaverUnchanged, saverVars, storeVars
  <2> QED BY <2>1, CacheKept DEF CacheInv
<1>7. ASSUME Crash PROVE CacheInv'
  BY <1>7 DEF Crash, CacheInv
<1>8. ASSUME NEW c \in Chats, ChatMoves(c) PROVE CacheInv'
  <2>1. UNCHANGED <<chats_id_map, tg_id_cache, todo, saverPc, failed>>
    BY <1>8 DEF ChatMoves, saverVars, storeVars
  <2>2. \A d \in Chats : chatId'[d] # 0
    BY <1>8 DEF ChatMoves, TypeOK, CacheInv
  <2> QED BY <2>1, <2>2, CacheKept
<1>9. CASE UNCHANGED vars
  BY <1>9, CacheKept DEF vars, saverVars, storeVars, CacheInv
<1> QED BY <1>1, <1>2, <1>3, <1>4, <1>5, <1>6, <1>7, <1>8, <1>9 DEF Next, Saver

\* For every number of chats: while no look-up is being written and the connection
\* has failed no statement, the map of persistent_orders_saver and tg_id_cache know
\* the same chats, whatever was learnt and however chats changed their ids.
THEOREM MapMeetsTable == Spec => []CacheAgrees
<1>1. Init => CacheInv
  BY DEF Init, CacheInv
<1>2. CacheInv => CacheAgrees
  BY DEF CacheInv, CacheAgrees, Agrees
<1> QED BY <1>1, <1>2, TypesInit, TypesStep, CacheStep, PTL DEF Spec

-----------------------------------------------------------------------------
(* From the queue to the rows.                                             *)

Note == [n : Nat, kind : Kinds]

\* Every item from m to n was handled.
Covers(h, m, n) == \A x \in m .. n : \E i \in 1 .. Len(h) : h[i].n = x

IsSequence(s) == \E S : s \in Seq(S)

\* What holds between the items h that were handled, the rows s, the items q that
\* are not handled yet, the number b of those that came before the process and the
\* number a of all that came.
Flow(h, s, q, b, a) ==
    /\ a \in Nat /\ b \in Nat
    /\ q \in Seq(Event) /\ b + Len(q) <= a
    /\ \A i \in 1 .. Len(q) : q[i].n = a - Len(q) + i
    /\ h \in Seq(Note)
    /\ \A i \in 1 .. Len(h) : h[i].n <= a - Len(q)
    /\ \A i, j \in 1 .. Len(h) : i < j => h[i].n < h[j].n
    /\ Covers(h, b + 1, a - Len(q))
    /\ IsSequence(s)
    /\ \A i \in 1 .. Len(s) : s[i].n \in Nat /\ \E j \in 1 .. Len(h) : h[j].n = s[i].n
    /\ \A i, j \in 1 .. Len(s) : i < j => s[i].n < s[j].n

\* The item that was handled last, whose row is still to come.
InHand(x, s, q, b, a) ==
    /\ x.n = a - Len(q) /\ b < x.n
    /\ \A i \in 1 .. Len(s) : s[i].n < x.n

LEMMA FlowArrives ==
    ASSUME NEW h, NEW s, NEW q, NEW b, NEW a, Flow(h, s, q, b, a),
           NEW items \in Seq(Event), \A i \in 1 .. Len(items) : items[i].n = a + i
    PROVE  Flow(h, s, q \o items, b, a + Len(items))
<1> DEFINE r == q \o items
<1>1. /\ a \in Nat /\ b \in Nat /\ q \in Seq(Event) /\ Len(q) \in Nat /\ b + Len(q) <= a
      /\ Len(items) \in Nat
  BY LenProperties DEF Flow
<1>2. /\ r \in Seq(Event) /\ Len(r) = Len(q) + Len(items)
      /\ \A i \in 1 .. Len(q) + Len(items) : r[i] = IF i <= Len(q) THEN q[i] ELSE items[i - Len(q)]
  BY <1>1, ConcatProperties
<1> HIDE DEF r
<1>3. a + Len(items) \in Nat /\ a + Len(items) - Len(r) = a - Len(q)
      /\ b + Len(r) <= a + Len(items)
  BY <1>1, <1>2
<1>4. ASSUME NEW i \in 1 .. Len(r) PROVE r[i].n = a + Len(items) - Len(r) + i
  <2>1. CASE i <= Len(q)
    <3>1. i \in 1 .. Len(q) /\ r[i] = q[i]
      BY <1>1, <1>2, <2>1
    <3> QED BY <3>1, <1>3 DEF Flow
  <2>2. CASE ~ (i <= Len(q))
    <3>1. i - Len(q) \in 1 .. Len(items) /\ r[i] = items[i - Len(q)]
      BY <1>1, <1>2, <2>2
    <3>2. r[i].n = a + (i - Len(q))
      BY <3>1
    <3> QED BY <3>2, <1>1, <1>2
  <2> QED BY <2>1, <2>2
<1>5. Flow(h, s, r, b, a + Len(items))
  <2>1. \A i \in 1 .. Len(h) : h[i].n <= a + Len(items) - Len(r)
    BY <1>3 DEF Flow
  <2>2. Covers(h, b + 1, a + Len(items) - Len(r))
    BY <1>3 DEF Flow
  <2>3. /\ h \in Seq(Note)
        /\ \A i, j \in 1 .. Len(h) : i < j => h[i].n < h[j].n
        /\ IsSequence(s)
        /\ \A i \in 1 .. Len(s) : s[i].n \in Nat /\ \E j \in 1 .. Len(h) : h[j].n = s[i].n
        /\ \A i, j \in 1 .. Len(s) : i < j => s[i].n < s[j].n
    BY DEF Flow
  <2>4. b \in Nat /\ r \in Seq(Event) /\ \A i \in 1 .. Len(r) : r[i].n = a + Len(items) - Len(r) + i
    BY <1>1, <1>2, <1>4
  <2>5. a + Len(items) \in Nat /\ b + Len(r) <= a + Len(items)
    BY <1>3
  <2> QED BY <2>1, <2>2, <2>3, <2>4, <2>5, <1>1 DEF Flow
<1> QED BY <1>5 DEF r

\* The next item is handled: its notification is handed over, or dropped.
LEMMA FlowHands ==
    ASSUME NEW h, NEW s, NEW x \in Event, NEW q \in Seq(Event), NEW b, NEW a,
           Flow(h, s, <<x>> \o q, b, a)
    PROVE  /\ Flow(Append(h, [n |-> x.n, kind |-> x.kind]), s, q, b, a)
           /\ InHand(x, s, q, b, a)
<1> DEFINE p == <<x>> \o q
           e == [n |-> x.n, kind |-> x.kind]
           k == Append(h, e)
<1>1. <<x>> \in Seq(Event) /\ Len(<<x>>) = 1 /\ <<x>>[1] = x /\ Len(q) \in Nat
  BY LenProperties
<1>2. /\ Len(p) = 1 + Len(q)
      /\ \A i \in 1 .. 1 + Len(q) : p[i] = IF i <= 1 THEN <<x>>[i] ELSE q[i - 1]
  BY <1>1, ConcatProperties
<1>3. Flow(h, s, p, b, a)
  OBVIOUS
<1>4. x.n \in Nat /\ e \in Note /\ e.n = x.n
  BY DEF Event, Note
<1> HIDE DEF p
<1>5. a \in Nat /\ b \in Nat /\ b + 1 + Len(q) <= a
  BY <1>1, <1>2, <1>3 DEF Flow
<1>6. x.n = a - Len(q)
  <2>1. 1 \in 1 .. Len(p) /\ p[1] = x
    BY <1>1, <1>2
  <2>2. x.n = a - Len(p) + 1
    BY <2>1, <1>3 DEF Flow
  <2> QED BY <2>2, <1>1, <1>2, <1>5
<1>7. ASSUME NEW i \in 1 .. Len(q) PROVE q[i].n = a - Len(q) + i
  <2>1. i + 1 \in 1 .. Len(p) /\ p[i + 1] = q[i]
    BY <1>1, <1>2
  <2>2. q[i].n = a - Len(p) + (i + 1)
    BY <2>1, <1>3 DEF Flow
  <2> QED BY <2>2, <1>1, <1>2, <1>5
<1>8. h \in Seq(Note) /\ Len(h) \in Nat
      /\ \A i \in 1 .. Len(h) : h[i].n \in Nat /\ h[i].n < x.n /\ h[i].n <= a - Len(q)
  <2>1. h \in Seq(Note) /\ Len(h) \in Nat
    BY <1>3, LenProperties DEF Flow
  <2>2. ASSUME NEW i \in 1 .. Len(h) PROVE h[i].n \in Nat /\ h[i].n <= a - Len(p)
    <3>1. h[i] \in Note
      BY <2>1, ElementOfSeq
    <3> QED BY <3>1, <1>3 DEF Flow, Note
  <2> QED BY <2>1, <2>2, <1>1, <1>2, <1>5, <1>6
<1> HIDE DEF e
<1>9. /\ k \in Seq(Note) /\ Len(k) = Len(h) + 1
      /\ \A i \in 1 .. Len(h) : k[i] = h[i]
      /\ k[Len(h) + 1] = e
  BY <1>4, <1>8, AppendProperties
<1> HIDE DEF k
<1>10. \A i \in 1 .. Len(k) : i \in 1 .. Len(h) \/ i = Len(h) + 1
  BY <1>8, <1>9
<1>11. ASSUME NEW i \in 1 .. Len(k) PROVE k[i].n <= a - Len(q)
  <2>1. CASE i \in 1 .. Len(h)
    BY <2>1, <1>8, <1>9
  <2>2. CASE i = Len(h) + 1
    <3>1. k[i].n = x.n
      BY <2>2, <1>4, <1>9
    <3> QED BY <3>1, <1>1, <1>4, <1>5, <1>6
  <2> QED BY <2>1, <2>2, <1>10
<1>12. ASSUME NEW i \in 1 .. Len(k), NEW j \in 1 .. Len(k), i < j PROVE k[i].n < k[j].n
  <2>1. i \in 1 .. Len(h)
    BY <1>8, <1>9, <1>12
  <2>2. CASE j \in 1 .. Len(h)
    BY <2>1, <2>2, <1>3, <1>9, <1>12 DEF Flow
  <2>3. CASE j = Len(h) + 1
    BY <2>1, <2>3, <1>4, <1>8, <1>9
  <2> QED BY <2>2, <2>3, <1>10
<1>13. 1 .. Len(h) \subseteq 1 .. Len(k) /\ Len(h) + 1 \in 1 .. Len(k)
  BY <1>8, <1>9
<1>14. ASSUME NEW m \in b + 1 .. a - Len(q) PROVE \E i \in 1 .. Len(k) : k[i].n = m
  <2>1. CASE m = x.n
    BY <2>1, <1>4, <1>9, <1>13
  <2>2. CASE m # x.n
    <3>1. m \in b + 1 .. a - Len(p)
      <4>1. m \in Int /\ b + 1 <= m /\ m <= a - Len(q) /\ m # a - Len(q)
        BY <2>2, <1>1, <1>5, <1>6
      <4>2. a - Len(p) = a - Len(q) - 1
        BY <1>1, <1>2, <1>5
      <4> QED BY <4>1, <4>2, <1>1, <1>5
    <3>2. PICK i \in 1 .. Len(h) : h[i].n = m
      BY <3>1, <1>3 DEF Flow, Covers
    <3> QED BY <3>2, <1>9, <1>13
  <2> QED BY <2>1, <2>2
<1>15. ASSUME NEW i \in 1 .. Len(s)
       PROVE  s[i].n \in Nat /\ s[i].n < x.n /\ \E j \in 1 .. Len(k) : k[j].n = s[i].n
  <2>1. s[i].n \in Nat /\ \E j \in 1 .. Len(h) : h[j].n = s[i].n
    BY <1>3 DEF Flow
  <2>2. PICK j \in 1 .. Len(h) : h[j].n = s[i].n
    BY <2>1
  <2>3. j \in 1 .. Len(k) /\ k[j].n = s[i].n
    BY <2>2, <1>9, <1>13
  <2> QED BY <2>1, <2>2, <2>3, <1>8
<1>16. Flow(k, s, q, b, a)
  <2>1. b + Len(q) <= a
    BY <1>1, <1>5
  <2>2. IsSequence(s) /\ \A i, j \in 1 .. Len(s) : i < j => s[i].n < s[j].n
    BY <1>3 DEF Flow
  <2>3. Covers(k, b + 1, a - Len(q))
    BY <1>14 DEF Covers
  <2> QED BY <2>1, <2>2, <2>3, <1>5, <1>7, <1>9, <1>11, <1>12, <1>15 DEF Flow
<1>17. InHand(x, s, q, b, a)
  BY <1>1, <1>5, <1>6, <1>15 DEF InHand
<1> QED BY <1>16, <1>17 DEF k, e

\* Its row is inserted.
LEMMA FlowSaves ==
    ASSUME NEW h, NEW s, NEW x \in Event, NEW q, NEW b, NEW a, NEW t,
           Flow(h, s, q, b, a), InHand(x, s, q, b, a)
    PROVE  Flow(h, Append(s, [n |-> x.n, table |-> t]), q, b, a)
<1> DEFINE e == [n |-> x.n, table |-> t]
           r == Append(s, e)
<1>1. e.n = x.n /\ x.n \in Nat
  BY DEF Event
<1>2. PICK S : s \in Seq(S)
  BY DEF Flow, IsSequence
<1>3. s \in Seq(S \cup {e}) /\ e \in S \cup {e} /\ Len(s) \in Nat
  BY <1>2, SeqMonotonic, LenProperties
<1> HIDE DEF e
<1>4. /\ r \in Seq(S \cup {e}) /\ Len(r) = Len(s) + 1
      /\ \A i \in 1 .. Len(s) : r[i] = s[i]
      /\ r[Len(s) + 1] = e
  BY <1>3, AppendProperties
<1> HIDE DEF r
<1>5. \A i \in 1 .. Len(r) : i \in 1 .. Len(s) \/ i = Len(s) + 1
  BY <1>3, <1>4
<1>6. x.n \in b + 1 .. a - Len(q)
  BY <1>1, LenProperties DEF Flow, InHand
<1>7. \E j \in 1 .. Len(h) : h[j].n = x.n
  BY <1>6 DEF Flow, Covers
<1>8. \A i \in 1 .. Len(r) : r[i].n \in Nat /\ \E j \in 1 .. Len(h) : h[j].n = r[i].n
  BY <1>1, <1>4, <1>5, <1>7 DEF Flow
<1>9. ASSUME NEW i \in 1 .. Len(r), NEW j \in 1 .. Len(r), i < j PROVE r[i].n < r[j].n
  <2>1. i \in 1 .. Len(s)
    BY <1>3, <1>4, <1>9
  <2>2. CASE j \in 1 .. Len(s)
    BY <2>1, <2>2, <1>4, <1>9 DEF Flow
  <2>3. CASE j = Len(s) + 1
    BY <2>1, <2>3, <1>1, <1>4 DEF InHand
  <2> QED BY <2>2, <2>3, <1>5
<1>10. Flow(h, r, q, b, a)
  <2>1. IsSequence(r)
    BY <1>4 DEF IsSequence
  <2> QED BY <2>1, <1>8, <1>9 DEF Flow
<1> QED BY <1>10 DEF r, e

\* The process ends, and what was queued with it.
LEMMA FlowEnds ==
    ASSUME NEW h, NEW s, NEW q, NEW b, NEW a, Flow(h, s, q, b, a)
    PROVE  Flow(h, s, <<>>, a, a)
<1>1. <<>> \in Seq(Event) /\ Len(<<>>) = 0
  OBVIOUS
<1>2. a \in Nat /\ Len(q) \in Nat /\ h \in Seq(Note)
  BY LenProperties DEF Flow
<1>3. \A i \in 1 .. Len(h) : h[i].n \in Nat /\ h[i].n <= a - Len(q)
  <2>1. \A i \in 1 .. Len(h) : h[i] \in Note
    BY <1>2, ElementOfSeq
  <2> QED BY <2>1 DEF Flow, Note
<1>4. \A i \in 1 .. Len(h) : h[i].n <= a - 0
  BY <1>2, <1>3
<1>5. a + 0 <= a /\ a + 1 .. a - 0 = {}
  BY <1>2
<1>6. Covers(h, a + 1, a - 0)
  BY <1>5 DEF Covers
<1> QED BY <1>1, <1>2, <1>4, <1>5, <1>6 DEF Flow

LEMMA FirstAndRest ==
    ASSUME NEW S, NEW s \in Seq(S), s # <<>> PROVE <<Head(s)>> \o Tail(s) = s
<1> DEFINE x == Head(s)  t == Tail(s)  p == <<x>> \o t
<1>1. /\ x \in S /\ t \in Seq(S) /\ Len(t) = Len(s) - 1
      /\ \A i \in 1 .. Len(t) : t[i] = s[i + 1]
      /\ Len(s) \in Nat \ {0} /\ x = s[1]
  BY HeadTailProperties, EmptySeq, LenProperties
<1> HIDE DEF x, t
<1>2. <<x>> \in Seq(S) /\ Len(<<x>>) = 1 /\ <<x>>[1] = x
  BY <1>1
<1>3. /\ p \in Seq(S) /\ Len(p) = 1 + Len(t)
      /\ \A i \in 1 .. 1 + Len(t) : p[i] = IF i <= 1 THEN <<x>>[i] ELSE t[i - 1]
  BY <1>1, <1>2, ConcatProperties
<1> HIDE DEF p
<1>4. Len(p) = Len(s)
  BY <1>1, <1>3
<1>5. ASSUME NEW i \in 1 .. Len(p) PROVE p[i] = s[i]
  <2>1. CASE i = 1
    BY <2>1, <1>1, <1>2, <1>3
  <2>2. CASE i # 1
    <3>1. i - 1 \in 1 .. Len(t) /\ p[i] = t[i - 1]
      BY <2>2, <1>1, <1>3
    <3> QED BY <3>1, <1>1
  <2> QED BY <2>1, <2>2
<1>6. p = s
  BY <1>3, <1>4, <1>5, SeqEqual
<1> QED BY <1>6 DEF p, x, t

Putting == {"create_orders", "create_balance", "save"}

FlowInv ==
    /\ Flow(handled, saved, Ahead, born, arrived)
    /\ saverPc \in {"start", "get"} => item = NoItem
    /\ saverPc \in {"refind"} \cup Putting => item \in Event
    /\ saverPc \in Putting => InHand(item, saved, stream_container, born, arrived)

LEMMA EventIsNotNoItem == \A e \in Event : e # NoItem
<1> SUFFICES ASSUME NEW e \in Event, e = NoItem PROVE FALSE
  OBVIOUS
<1>1. "n" \in DOMAIN e
  BY DEF Event
<1>2. DOMAIN NoItem = {}
  BY DEF NoItem
<1> QED BY <1>1, <1>2

\* A step that handles and saves nothing, and keeps what is ahead.
LEMMA FlowKept ==
    ASSUME FlowInv, UNCHANGED <<handled, saved, Ahead, born, arrived, stream_container>>,
           saverPc' \in {"start", "get"} => item' = NoItem,
           saverPc' \in {"refind"} \cup Putting => item' \in Event,
           saverPc' \in Putting => saverPc \in Putting /\ item' = item
    PROVE  FlowInv'
<1>1. Flow(handled, saved, Ahead, born, arrived)'
  BY DEF FlowInv
<1>2. ASSUME saverPc' \in Putting PROVE InHand(item, saved, stream_container, born, arrived)'
  BY <1>2 DEF FlowInv
<1> QED BY <1>1, <1>2 DEF FlowInv

LEMMA HandsOver ==
    ASSUME TypeOK, FlowInv, NEW x \in Event, Ahead = <<x>> \o stream_container', item' = x,
           stream_container' \in Seq(Event), Notify(x), UNCHANGED <<saved, born, arrived>>
    PROVE  FlowInv'
<1>1. /\ handled' = Append(handled, [n |-> x.n, kind |-> x.kind])
      /\ saverPc' \in Putting
  BY DEF Notify, TableAlias, Putting
<1>2. /\ Flow(handled', saved, stream_container', born, arrived)
      /\ InHand(x, saved, stream_container', born, arrived)
  BY <1>1, FlowHands DEF FlowInv
<1>3. Ahead' = stream_container'
  BY <1>1 DEF Ahead, Putting
<1> QED BY <1>1, <1>2, <1>3 DEF FlowInv, Putting

LEMMA AheadGrows ==
    ASSUME TypeOK, NEW items \in Seq(Event), Arrives(items) PROVE Ahead' = Ahead \o items
<1>1. stream_container' = stream_container \o items /\ UNCHANGED <<saverPc, item>>
  BY DEF Arrives, saverVars
<1>2. CASE item # NoItem /\ saverPc \in {"updates", "store", "refind"}
  <2>1. <<item>> \in Seq(Event) /\ stream_container \in Seq(Event)
    BY <1>2 DEF TypeOK
  <2>2. <<item>> \o (stream_container \o items) = (<<item>> \o stream_container) \o items
    BY <2>1, ConcatAssociative, SMTT(40)
  <2>3. Ahead = <<item>> \o stream_container /\ Ahead' = <<item>> \o (stream_container \o items)
    BY <1>1, <1>2 DEF Ahead
  <2> QED BY <2>2, <2>3
<1>3. CASE ~ (item # NoItem /\ saverPc \in {"updates", "store", "refind"})
  BY <1>1, <1>3 DEF Ahead
<1> QED BY <1>2, <1>3

LEMMA FlowStep == TypeOK /\ FlowInv /\ [Next]_vars => FlowInv'
<1> SUFFICES ASSUME TypeOK, FlowInv, [Next]_vars PROVE FlowInv'
  OBVIOUS
<1>1. ASSUME GetTgCachedIds PROVE FlowInv'
  <2>1. /\ item = NoItem /\ saverPc' = "updates"
        /\ UNCHANGED <<handled, saved, born, arrived, stream_container, item>>
    BY <1>1 DEF GetTgCachedIds, FlowInv, storeVars
  <2>2. Ahead' = Ahead
    BY <2>1 DEF Ahead
  <2> QED BY <2>1, <2>2, FlowKept DEF Putting
<1>2. ASSUME TgGetNewUpdates \/ \E c \in Chats : InsertUpdateCachedId(c) PROVE FlowInv'
  <2>1. /\ saverPc \in {"updates", "store"}
        /\ UNCHANGED <<handled, saved, born, arrived, stream_container, item>>
        /\ \/ saverPc' = "store"
           \/ saverPc' = "get" /\ item = NoItem
           \/ saverPc' = "refind" /\ item # NoItem
    BY <1>2 DEF TgGetNewUpdates, InsertUpdateCachedId, AfterLookUp, lifeVars, storeVars
  <2>2. Ahead' = Ahead
    BY <2>1 DEF Ahead
  <2>3. item # NoItem => item \in Event
    BY DEF TypeOK
  <2> QED BY <2>1, <2>2, <2>3, FlowKept DEF Putting
<1>3. ASSUME Get PROVE FlowInv'
  <2>1. /\ stream_container \in Seq(Event) /\ stream_container # <<>>
        /\ item' = Head(stream_container) /\ stream_container' = Tail(stream_container)
        /\ saverPc = "get" /\ item = NoItem /\ UNCHANGED <<saved, born, arrived>>
    BY <1>3 DEF Get, TypeOK, FlowInv, storeVars, lifeVars
  <2>2. item' \in Event /\ stream_container' \in Seq(Event)
    BY <2>1, HeadTailProperties
  <2>3. Ahead = stream_container
    BY <2>1 DEF Ahead
  <2>4. stream_container = <<item'>> \o stream_container'
    BY <2>1, FirstAndRest
  <2>5. CASE Known(chats_id_map, item'.telegram_group)
    <3>1. Notify(item')
      BY <1>3, <2>5 DEF Get
    <3> QED BY <3>1, <2>1, <2>2, <2>3, <2>4, HandsOver
  <2>6. CASE ~ Known(chats_id_map, item'.telegram_group)
    <3>1. saverPc' = "updates" /\ UNCHANGED handled
      BY <1>3, <2>6 DEF Get
    <3>2. Ahead' = <<item'>> \o stream_container'
      BY <3>1, <2>2, EventIsNotNoItem DEF Ahead
    <3>3. Flow(handled, saved, Ahead, born, arrived)'
      BY <3>1, <3>2, <2>1, <2>3, <2>4 DEF FlowInv
    <3> QED BY <3>1, <3>3 DEF FlowInv, Putting
  <2> QED BY <2>5, <2>6
<1>4. ASSUME NotifyAfterLookUp PROVE FlowInv'
  <2>1. /\ Notify(item) /\ saverPc = "refind" /\ item \in Event
        /\ UNCHANGED <<saved, born, arrived, stream_container, item>>
    BY <1>4 DEF NotifyAfterLookUp, FlowInv, storeVars, lifeVars
  <2>2. Ahead = <<item>> \o stream_container'
    BY <2>1, EventIsNotNoItem DEF Ahead
  <2> QED BY <2>1, <2>2, HandsOver DEF TypeOK
<1>5. ASSUME CreateOrderTable \/ CreateBalanceTable PROVE FlowInv'
  <2>1. /\ saverPc \in Putting /\ saverPc' \in Putting
        /\ UNCHANGED <<handled, saved, born, arrived, stream_container, item>>
    BY <1>5 DEF CreateOrderTable, CreateBalanceTable, CreateTable, Putting
  <2>2. Ahead' = Ahead
    BY <2>1 DEF Ahead, Putting
  <2>3. item' \in Event
    BY <2>1 DEF FlowInv
  <2> QED BY <2>1, <2>2, <2>3, FlowKept DEF Putting
<1>6. ASSUME Save \/ SaveNothing PROVE FlowInv'
  <2>1. /\ saverPc = "save" /\ saverPc' = "get" /\ item' = NoItem
        /\ UNCHANGED <<handled, born, arrived, stream_container>>
        /\ \/ UNCHANGED saved
           \/ \E t : saved' = Append(saved, [n |-> item.n, table |-> t])
    BY <1>6 DEF Save, SaveNothing, Statement, lifeVars, storeVars
  <2>2. Ahead = stream_container /\ Ahead' = stream_container
    BY <2>1 DEF Ahead
  <2>3. /\ item \in Event /\ Flow(handled, saved, stream_container, born, arrived)
        /\ InHand(item, saved, stream_container, born, arrived)
    BY <2>1, <2>2 DEF FlowInv, Putting
  <2>4. Flow(handled, saved', stream_container, born, arrived)
    BY <2>1, <2>3, FlowSaves
  <2> QED BY <2>1, <2>2, <2>4 DEF FlowInv, Putting
<1>7. ASSUME Streams PROVE FlowInv'
  <2>1. PICK items \in Seq(Event) :
           Arrives(items) /\ \A i \in 1 .. Len(items) : items[i].n = arrived + i
    BY <1>7, ArrivingEvents
  <2>2. /\ stream_container' = stream_container \o items /\ arrived' = arrived + Len(items)
        /\ UNCHANGED <<handled, saved, born, saverPc, item>>
    BY <2>1 DEF Arrives, saverVars, storeVars, lifeVars
  <2>3. Flow(handled, saved, Ahead \o items, born, arrived + Len(items))
    BY <2>1, FlowArrives DEF FlowInv
  <2>4. stream_container \in Seq(Event) /\ Len(stream_container) \in Nat /\ Len(items) \in Nat
        /\ arrived \in Nat
    BY LenProperties DEF TypeOK
  <2>5. Ahead' = Ahead \o items
    BY <2>1, AheadGrows
  <2>6. Len(stream_container') = Len(stream_container) + Len(items)
    BY <2>2, <2>4, ConcatProperties
  <2>7. arrived' - Len(stream_container') = arrived - Len(stream_container)
    BY <2>2, <2>4, <2>6
  <2>8. ASSUME saverPc' \in Putting PROVE InHand(item, saved, stream_container, born, arrived)'
    BY <2>2, <2>7, <2>8 DEF FlowInv, InHand
  <2> QED BY <2>2, <2>3, <2>5, <2>8 DEF FlowInv
<1>8. ASSUME Crash PROVE FlowInv'
  <2>1. /\ saverPc' = "start" /\ item' = NoItem /\ stream_container' = <<>> /\ born' = arrived
        /\ UNCHANGED <<handled, saved, arrived>>
    BY <1>8 DEF Crash, storeVars
  <2>2. Ahead' = <<>>
    BY <2>1 DEF Ahead
  <2>3. Flow(handled, saved, <<>>, arrived, arrived)
    BY FlowEnds DEF FlowInv
  <2> QED BY <2>1, <2>2, <2>3 DEF FlowInv, Putting
<1>9. ASSUME KeepBusy \/ Drop \/ Restart \/ (\E c \in Chats : ChatMoves(c)) \/ UNCHANGED vars
      PROVE  FlowInv'
  <2>1. UNCHANGED <<handled, saved, born, arrived, stream_container, item, saverPc>>
    BY <1>9 DEF KeepBusy, Drop, Restart, SaverUnchanged, ChatMoves, vars, saverVars, storeVars,
                lifeVars
  <2>2. Ahead' = Ahead
    BY <2>1 DEF Ahead
  <2> QED BY <2>1, <2>2, FlowKept DEF FlowInv
<1> QED BY <1>1, <1>2, <1>3, <1>4, <1>5, <1>6, <1>7, <1>8, <1>9 DEF Next, Saver

LEMMA FlowInit == Init => FlowInv
<1> SUFFICES ASSUME Init PROVE FlowInv
  OBVIOUS
<1>1. Ahead = <<>> /\ handled = <<>> /\ saved = <<>> /\ born = 0 /\ arrived = 0
  BY DEF Init, Ahead
<1>2. <<>> \in Seq(Event) /\ <<>> \in Seq(Note) /\ Len(<<>>) = 0
  OBVIOUS
<1>3. 0 + 1 .. 0 - 0 = {} /\ 1 .. 0 = {}
  OBVIOUS
<1>4. Flow(<<>>, <<>>, <<>>, 0, 0)
  <2>1. IsSequence(<<>>)
    BY <1>2 DEF IsSequence
  <2>2. Covers(<<>>, 0 + 1, 0 - 0)
    BY <1>3 DEF Covers
  <2> QED BY <2>1, <2>2, <1>2, <1>3 DEF Flow
<1> QED BY <1>1, <1>4 DEF Init, FlowInv, Putting

\* However the process dies and the connection fails: the thread of
\* persistent_orders_saver handles the events of the process one after the other as
\* they came, none twice, and those not handled are ahead of it.
THEOREM HandledInTurn == Spec => []NothingSkipped
<1>1. ASSUME FlowInv PROVE NothingSkipped
  <2>1. /\ Flow(handled, saved, Ahead, born, arrived)
        /\ DOMAIN handled = 1 .. Len(handled) /\ DOMAIN Ahead = 1 .. Len(Ahead)
        /\ Len(Ahead) \in Nat
    BY <1>1, LenProperties DEF FlowInv, Flow
  <2>2. \A i \in 1 .. Len(handled) : handled[i].n \in Nat
    <3>1. \A i \in 1 .. Len(handled) : handled[i] \in Note
      BY <2>1, ElementOfSeq DEF Flow
    <3> QED BY <3>1 DEF Note
  <2>3. Handled \cap (born + 1 .. arrived) \subseteq born + 1 .. arrived - Len(Ahead)
    BY <2>1, <2>2 DEF Flow, Handled
  <2>4. born + 1 .. arrived - Len(Ahead) \subseteq Handled \cap (born + 1 .. arrived)
    <3>1. \A m \in born + 1 .. arrived - Len(Ahead) : m \in Handled
      BY <2>1 DEF Flow, Covers, Handled
    <3>2. \A m \in born + 1 .. arrived - Len(Ahead) : m \in born + 1 .. arrived
      BY <2>1 DEF Flow
    <3> QED BY <3>1, <3>2
  <2>5. \A i, j \in DOMAIN handled : i < j => handled[i].n < handled[j].n
    BY <2>1 DEF Flow
  <2>6. \A i \in DOMAIN Ahead : Ahead[i].n = arrived - Len(Ahead) + i
    BY <2>1 DEF Flow
  <2> QED BY <2>3, <2>4, <2>5, <2>6 DEF NothingSkipped
<1> QED BY <1>1, TypesInit, TypesStep, FlowInit, FlowStep, PTL DEF Spec

\* However the process dies and the connection fails: add_new_order and
\* add_new_balance insert rows in the order of their events, none twice, and each
\* after its notification.
THEOREM RowsComeLater == Spec => []RowsFollowNotices
<1>1. ASSUME FlowInv PROVE RowsFollowNotices
  <2>1. /\ Flow(handled, saved, Ahead, born, arrived)
        /\ DOMAIN handled = 1 .. Len(handled) /\ DOMAIN saved = 1 .. Len(saved)
    <3>1. Flow(handled, saved, Ahead, born, arrived)
      BY <1>1 DEF FlowInv
    <3>2. handled \in Seq(Note) /\ \E S : saved \in Seq(S)
      BY <3>1 DEF Flow, IsSequence
    <3> QED BY <3>1, <3>2, LenProperties
  <2>2. \A i, j \in DOMAIN saved : i < j => saved[i].n < saved[j].n
    BY <2>1 DEF Flow
  <2>3. \A i \in DOMAIN saved : \E j \in DOMAIN handled : saved[i].n = handled[j].n
    BY <2>1 DEF Flow
  <2> QED BY <2>2, <2>3 DEF RowsFollowNotices, Saved, Handled
<1> QED BY <1>1, TypesInit, TypesStep, FlowInit, FlowStep, PTL DEF Spec

-----------------------------------------------------------------------------
(* The tables and the rows.                                                *)

TablesThere(a) ==
    \A k \in {"order", "balance"} : <<account_table_map[a], k>> \in tables

\* Until the connection fails a statement: the tables of an alias that is
\* remembered are there or about to be created, and what was handled is saved.
RowsInv ==
    /\ saverPc \in Putting =>
           \A i \in 1 .. Len(handled) : handled[i].n = item.n => handled[i].kind = item.kind
    /\ ~ failed =>
        /\ \A a \in Accounts :
               account_table_map[a] # Empty
               /\ ~ (saverPc \in {"create_orders", "create_balance"} /\ a = item.for_aliased_account)
                   => TablesThere(a)
        /\ saverPc = "create_balance" => TableOf("order") \in tables
        /\ saverPc = "save" => TablesThere(item.for_aliased_account)
        /\ \A i \in 1 .. Len(handled) :
               handled[i].n > born /\ handled[i].kind # "account"
               /\ (saverPc \in Putting => handled[i].n # item.n)
                   => \E j \in 1 .. Len(saved) : saved[j].n = handled[i].n

\* A step that handles, saves and creates nothing.
LEMMA RowsKept ==
    ASSUME RowsInv, UNCHANGED <<handled, saved, born, account_table_map, tables>>,
           saverPc \notin Putting, saverPc' \notin Putting, ~ failed' => ~ failed
    PROVE  RowsInv'
BY DEF RowsInv, TablesThere, Putting

LEMMA RowsHands ==
    ASSUME TypeOK, FlowInv, RowsInv, saverPc \notin Putting,
           NEW x \in Event, Ahead = <<x>> \o stream_container', item' = x,
           stream_container' \in Seq(Event), Notify(x), UNCHANGED <<saved, born, tables, failed>>
    PROVE  RowsInv'
<1> DEFINE e == [n |-> x.n, kind |-> x.kind]
           d == x.for_aliased_account
<1>1. /\ handled' = Append(handled, e)
      /\ \/ /\ account_table_map[d] = Empty /\ saverPc' = "create_orders"
            /\ account_table_map' = [account_table_map EXCEPT ![d] = TableName[d]]
         \/ /\ account_table_map[d] # Empty /\ saverPc' = "save"
            /\ UNCHANGED account_table_map
  BY DEF Notify, TableAlias
<1>2. d \in Accounts /\ e \in Note /\ e.n = x.n /\ e.kind = x.kind
  BY DEF Event, Note
<1>3. handled \in Seq(Note) /\ Len(handled) \in Nat
  BY LenProperties DEF FlowInv, Flow
<1> HIDE DEF e
<1>4. /\ Len(handled') = Len(handled) + 1
      /\ \A i \in 1 .. Len(handled) : handled'[i] = handled[i]
      /\ handled'[Len(handled) + 1] = e
  BY <1>1, <1>2, <1>3, AppendProperties
<1>5. \A i \in 1 .. Len(handled') : i \in 1 .. Len(handled) \/ i = Len(handled) + 1
  BY <1>3, <1>4
<1>6. \A i \in 1 .. Len(handled) : handled[i].n # x.n
  <2>1. Ahead \in Seq(Event) /\ Len(Ahead) \in Nat \ {0} /\ Ahead[1] = x
    <3>1. <<x>> \in Seq(Event) /\ Len(<<x>>) = 1 /\ <<x>>[1] = x /\ Len(stream_container') \in Nat
      BY LenProperties
    <3> QED BY <3>1, ConcatProperties
  <2>2. x.n = arrived - Len(Ahead) + 1 /\ arrived \in Nat
    BY <2>1 DEF FlowInv, Flow
  <2>3. \A i \in 1 .. Len(handled) : handled[i] \in Note /\ handled[i].n <= arrived - Len(Ahead)
    BY <1>3, ElementOfSeq DEF FlowInv, Flow
  <2> QED BY <2>1, <2>2, <2>3 DEF Note
<1>7. saverPc' \in Putting
  BY <1>1 DEF Putting
<1>8. \A i \in 1 .. Len(handled') : handled'[i].n = item'.n => handled'[i].kind = item'.kind
  BY <1>2, <1>4, <1>5, <1>6
<1>9. ASSUME ~ failed', NEW i \in 1 .. Len(handled'), handled'[i].n > born',
             handled'[i].kind # "account", handled'[i].n # item'.n
      PROVE  \E j \in 1 .. Len(saved') : saved'[j].n = handled'[i].n
  <2>1. i \in 1 .. Len(handled)
    BY <1>2, <1>4, <1>5, <1>9
  <2> QED BY <2>1, <1>4, <1>9 DEF RowsInv
<1>10. ASSUME ~ failed', NEW a \in Accounts, account_table_map'[a] # Empty,
              ~ (saverPc' \in {"create_orders", "create_balance"} /\ a = d)
       PROVE  TablesThere(a)'
  <2>1. account_table_map'[a] = account_table_map[a]
    BY <1>1, <1>2, <1>10 DEF TypeOK
  <2>2. TablesThere(a)
    BY <2>1, <1>10 DEF RowsInv, Putting
  <2> QED BY <2>1, <2>2 DEF TablesThere
<1>11. ASSUME ~ failed', saverPc' = "save" PROVE TablesThere(d)'
  BY <1>1, <1>2, <1>10, <1>11
<1>12. saverPc' # "create_balance"
  BY <1>1
<1> QED BY <1>7, <1>8, <1>9, <1>10, <1>11, <1>12 DEF RowsInv

LEMMA RowsCreate ==
    ASSUME TypeOK, FlowInv, RowsInv, CreateOrderTable \/ CreateBalanceTable PROVE RowsInv'
<1>1. /\ saverPc \in Putting /\ saverPc' \in Putting /\ item \in Event
      /\ UNCHANGED <<handled, saved, born, item, account_table_map>>
  BY DEF CreateOrderTable, CreateBalanceTable, CreateTable, Putting, FlowInv
<1>2. ASSUME ~ failed' PROVE ~ failed /\ tables \subseteq tables'
  BY <1>2 DEF CreateOrderTable, CreateBalanceTable, CreateTable, Statement
<1>3. \A k : TableOf(k)' = TableOf(k)
  BY <1>1 DEF TableOf
<1>4. \A a : ~ failed' /\ TablesThere(a) => TablesThere(a)'
  BY <1>1, <1>2 DEF TablesThere
<1>5. CASE CreateOrderTable
  <2>1. saverPc = "create_orders" /\ saverPc' = "create_balance"
        /\ (~ failed' => TableOf("order") \in tables')
    BY <1>5 DEF CreateOrderTable, CreateTable, Statement
  <2> QED BY <2>1, <1>1, <1>2, <1>3, <1>4 DEF RowsInv
<1>6. CASE CreateBalanceTable
  <2>1. saverPc = "create_balance" /\ saverPc' = "save"
        /\ (~ failed' => TableOf("balance") \in tables')
    BY <1>6 DEF CreateBalanceTable, CreateTable, Statement
  <2>2. ~ failed' => TableOf("order") \in tables'
    BY <2>1, <1>2 DEF RowsInv
  <2>3. ~ failed' => TablesThere(item.for_aliased_account)'
    BY <2>1, <2>2, <1>1, <1>3 DEF TablesThere, TableOf
  <2> QED BY <2>1, <2>3, <1>1, <1>2, <1>4 DEF RowsInv
<1> QED BY <1>5, <1>6

LEMMA RowsSave ==
    ASSUME TypeOK, FlowInv, RowsInv, Save \/ SaveNothing PROVE RowsInv'
<1>1. /\ saverPc = "save" /\ saverPc' = "get" /\ item \in Event
      /\ UNCHANGED <<handled, born, account_table_map, tables>>
  BY DEF Save, SaveNothing, Statement, lifeVars, storeVars, FlowInv, Putting
<1>2. ~ failed' => ~ failed
  BY DEF Save, SaveNothing, Statement
<1>3. ASSUME ~ failed'
      PROVE  \/ item.kind = "account" /\ saved' = saved
             \/ saved' = Append(saved, [n |-> item.n, table |-> TableOf(item.kind)])
  <2>1. CASE SaveNothing
    BY <2>1 DEF SaveNothing, storeVars
  <2>2. CASE Save
    <3>1. item.kind \in {"order", "balance"}
      BY <2>2, <1>1 DEF Save, Event, Kinds
    <3>2. TableOf(item.kind) \in tables
      BY <3>1, <1>1, <1>2, <1>3 DEF RowsInv, TablesThere, TableOf
    <3> QED BY <3>2, <2>2, <1>3 DEF Save, Statement
  <2> QED BY <2>1, <2>2
<1>4. ASSUME ~ failed', NEW i \in 1 .. Len(handled), handled[i].n > born,
             handled[i].kind # "account"
      PROVE  \E j \in 1 .. Len(saved') : saved'[j].n = handled[i].n
  <2>1. PICK S : saved \in Seq(S)
    BY DEF FlowInv, Flow, IsSequence
  <2>2. CASE item.kind = "account" /\ saved' = saved
    <3>1. handled[i].n # item.n
      BY <2>2, <1>1, <1>4 DEF RowsInv, Putting
    <3> QED BY <3>1, <2>2, <1>2, <1>4 DEF RowsInv
  <2>3. CASE saved' = Append(saved, [n |-> item.n, table |-> TableOf(item.kind)])
    <3> DEFINE r == [n |-> item.n, table |-> TableOf(item.kind)]
    <3>1. saved \in Seq(S \cup {r}) /\ r \in S \cup {r} /\ Len(saved) \in Nat /\ r.n = item.n
      BY <2>1, SeqMonotonic, LenProperties
    <3> HIDE DEF r
    <3>2. /\ Len(Append(saved, r)) = Len(saved) + 1
          /\ \A j \in 1 .. Len(saved) : Append(saved, r)[j] = saved[j]
          /\ Append(saved, r)[Len(saved) + 1] = r
      BY <3>1, AppendProperties
    <3>3. saved' = Append(saved, r)
      BY <2>3 DEF r
    <3>4. 1 .. Len(saved) \subseteq 1 .. Len(saved') /\ Len(saved) + 1 \in 1 .. Len(saved')
      BY <3>1, <3>2, <3>3
    <3>5. CASE handled[i].n = item.n
      BY <3>1, <3>2, <3>3, <3>4, <3>5
    <3>6. CASE handled[i].n # item.n
      <4>1. PICK j \in 1 .. Len(saved) : saved[j].n = handled[i].n
        BY <3>6, <1>2, <1>4 DEF RowsInv
      <4> QED BY <4>1, <3>2, <3>3, <3>4
    <3> QED BY <3>5, <3>6
  <2> QED BY <2>2, <2>3, <1>3, <1>4
<1>5. ASSUME ~ failed', NEW a \in Accounts, account_table_map[a] # Empty PROVE TablesThere(a)'
  BY <1>1, <1>2, <1>5 DEF RowsInv, TablesThere
<1> QED BY <1>1, <1>4, <1>5 DEF RowsInv, Putting

LEMMA RowsStep == TypeOK /\ FlowInv /\ RowsInv /\ [Next]_vars => RowsInv'
<1> SUFFICES ASSUME TypeOK, FlowInv, RowsInv, [Next]_vars PROVE RowsInv'
  OBVIOUS
<1>1. ASSUME GetTgCachedIds \/ TgGetNewUpdates \/ \E c \in Chats : InsertUpdateCachedId(c)
      PROVE  RowsInv'
  <2>1. saverPc \notin Putting /\ saverPc' \notin Putting
    BY <1>1 DEF GetTgCachedIds, TgGetNewUpdates, InsertUpdateCachedId, AfterLookUp, Putting
  <2>2. UNCHANGED <<handled, saved, born, account_table_map, tables>>
    BY <1>1 DEF GetTgCachedIds, TgGetNewUpdates, InsertUpdateCachedId, storeVars, lifeVars
  <2>3. ~ failed' => ~ failed
    BY <1>1 DEF GetTgCachedIds, TgGetNewUpdates, InsertUpdateCachedId, Statement
  <2> QED BY <2>1, <2>2, <2>3, RowsKept
<1>2. ASSUME NotifyAfterLookUp PROVE RowsInv'
  <2>1. /\ Notify(item) /\ saverPc = "refind" /\ item \in Event
        /\ UNCHANGED <<saved, born, tables, failed, stream_container, item>>
    BY <1>2 DEF NotifyAfterLookUp, FlowInv, storeVars, lifeVars
  <2>2. Ahead = <<item>> \o stream_container'
    BY <2>1, EventIsNotNoItem DEF Ahead
  <2> QED BY <2>1, <2>2, RowsHands DEF TypeOK, Putting
<1>3. ASSUME Get PROVE RowsInv'
  <2>1. /\ stream_container \in Seq(Event) /\ stream_container # <<>>
        /\ item' = Head(stream_container) /\ stream_container' = Tail(stream_container)
        /\ saverPc = "get" /\ item = NoItem /\ UNCHANGED <<saved, born, tables, failed>>
    BY <1>3 DEF Get, TypeOK, FlowInv, storeVars, lifeVars
  <2>2. item' \in Event /\ stream_container' \in Seq(Event)
    BY <2>1, HeadTailProperties
  <2>3. Ahead = <<item'>> \o stream_container'
    BY <2>1, FirstAndRest DEF Ahead
  <2>4. CASE Known(chats_id_map, item'.telegram_group)
    <3>1. Notify(item')
      BY <1>3, <2>4 DEF Get
    <3> QED BY <3>1, <2>1, <2>2, <2>3, RowsHands DEF Putting
  <2>5. CASE ~ Known(chats_id_map, item'.telegram_group)
    <3>1. saverPc' = "updates" /\ UNCHANGED <<handled, account_table_map>>
      BY <1>3, <2>5 DEF Get
    <3> QED BY <3>1, <2>1, RowsKept DEF Putting
  <2> QED BY <2>4, <2>5
<1>4. ASSUME Streams \/ KeepBusy \/ Drop \/ Restart \/ (\E c \in Chats : ChatMoves(c))
             \/ UNCHANGED vars
      PROVE  RowsInv'
  <2>1. UNCHANGED <<handled, saved, born, item, saverPc, account_table_map, tables, failed>>
    <3>1. CASE Streams
      <4>1. PICK items \in Seq(Event) : Arrives(items)
        BY <3>1, ArrivingEvents
      <4> QED BY <4>1 DEF Arrives, lifeVars, saverVars, storeVars
    <3>2. CASE ~ Streams
      BY <1>4, <3>2 DEF KeepBusy, Drop, Restart, SaverUnchanged, ChatMoves, vars, saverVars,
                        storeVars, lifeVars
    <3> QED BY <3>1, <3>2
  <2> QED BY <2>1 DEF RowsInv, TablesThere, TableOf
<1>5. ASSUME Crash PROVE RowsInv'
  <2>1. /\ saverPc' = "start" /\ born' = arrived /\ UNCHANGED handled
        /\ account_table_map' = [a \in Accounts |-> Empty]
    BY <1>5 DEF Crash
  <2>2. \A i \in 1 .. Len(handled) : ~ (handled[i].n > arrived)
    <3>1. /\ handled \in Seq(Note) /\ arrived \in Nat /\ Len(Ahead) \in Nat
      BY LenProperties DEF FlowInv, Flow
    <3>2. \A i \in 1 .. Len(handled) : handled[i] \in Note
      BY <3>1, ElementOfSeq
    <3>3. \A i \in 1 .. Len(handled) : handled[i].n <= arrived - Len(Ahead)
      BY DEF FlowInv, Flow
    <3> QED BY <3>1, <3>2, <3>3 DEF Note
  <2> QED BY <2>1, <2>2 DEF RowsInv, Putting
<1> QED BY <1>1, <1>2, <1>3, <1>4, <1>5, RowsCreate, RowsSave DEF Next, Saver

\* For every number of accounts and events: in a process whose connection has not
\* failed a statement, create_order_table and create_balance_table have made what
\* add_new_order and add_new_balance need, and no row is missing.
THEOREM RowsMissingAfterFailures == Spec => []RowsLostByFailuresOnly
<1>1. Init => RowsInv
  BY DEF Init, RowsInv, Putting
<1>2. ASSUME FlowInv, RowsInv PROVE RowsLostByFailuresOnly
  <2>1. ASSUME process = "up", ~ failed, NEW i \in DOMAIN handled,
               handled[i].n > born, handled[i].kind # "account",
               item # NoItem => handled[i].n # item.n
        PROVE  handled[i].n \in Saved
    <3>1. DOMAIN handled = 1 .. Len(handled) /\ DOMAIN saved = 1 .. Len(saved)
      BY <1>2, LenProperties DEF FlowInv, Flow
    <3>2. saverPc \in Putting => handled[i].n # item.n
      BY <1>2, <2>1, EventIsNotNoItem DEF FlowInv
    <3>3. \E j \in 1 .. Len(saved) : saved[j].n = handled[i].n
      BY <3>1, <3>2, <1>2, <2>1 DEF RowsInv
    <3> QED BY <3>1, <3>3 DEF Saved
  <2> QED BY <2>1 DEF RowsLostByFailuresOnly
<1> QED BY <1>1, <1>2, TypesInit, TypesStep, FlowInit, FlowStep, RowsStep, PTL DEF Spec

-----------------------------------------------------------------------------
(* The saver keeps a log of its events.                                    *)

LEMMA ShortOfEvent ==
    \A e \in Event : Short(e) \in Note /\ Short(e) # NoItem
                    /\ Short(e).n = e.n /\ Short(e).kind = e.kind
<1> SUFFICES ASSUME NEW e \in Event
             PROVE  Short(e) \in Note /\ Short(e) # NoItem
                    /\ Short(e).n = e.n /\ Short(e).kind = e.kind
  OBVIOUS
<1>1. Short(e) = [n |-> e.n, kind |-> e.kind]
  BY DEF Short
<1>2. e.n \in Nat /\ e.kind \in Kinds
  BY DEF Event
<1>3. Short(e) # NoItem
  <2>1. "n" \in DOMAIN Short(e)
    BY <1>1
  <2>2. DOMAIN NoItem = {}
    BY DEF NoItem
  <2> QED BY <2>1, <2>2
<1> QED BY <1>1, <1>2, <1>3 DEF Note

LEMMA ShortsType ==
    ASSUME NEW q \in Seq(Event)
    PROVE  /\ Shorts(q) \in Seq(Note) /\ Len(Shorts(q)) = Len(q)
           /\ \A i \in 1 .. Len(q) : Shorts(q)[i] = Short(q[i])
<1>1. Len(q) \in Nat /\ DOMAIN q = 1 .. Len(q)
  BY LenProperties
<1>2. \A i \in 1 .. Len(q) : q[i] \in Event
  BY ElementOfSeq
<1>3. Shorts(q) = [i \in 1 .. Len(q) |-> Short(q[i])]
  BY <1>1 DEF Shorts
<1>4. \A i \in 1 .. Len(q) : Short(q[i]) \in Note
  BY <1>2, ShortOfEvent
<1>5. Shorts(q) \in Seq(Note) /\ Len(Shorts(q)) = Len(q)
  BY <1>1, <1>3, <1>4, IsASeq
<1>6. \A i \in 1 .. Len(q) : Shorts(q)[i] = Short(q[i])
  BY <1>3
<1> QED BY <1>5, <1>6

\* The first of the events that wait, and those behind it.
LEMMA ShortsFirst ==
    ASSUME NEW x \in Event, NEW q \in Seq(Event)
    PROVE  /\ Shorts(<<x>> \o q) # <<>>
           /\ Head(Shorts(<<x>> \o q)) = Short(x)
           /\ Tail(Shorts(<<x>> \o q)) = Shorts(q)
<1> DEFINE p == <<x>> \o q
           s == Shorts(p)
<1>1. <<x>> \in Seq(Event) /\ Len(<<x>>) = 1 /\ <<x>>[1] = x /\ Len(q) \in Nat
  BY LenProperties
<1>2. /\ p \in Seq(Event) /\ Len(p) = 1 + Len(q)
      /\ \A i \in 1 .. 1 + Len(q) : p[i] = IF i <= 1 THEN <<x>>[i] ELSE q[i - 1]
  BY <1>1, ConcatProperties
<1> HIDE DEF p
<1>3. /\ s \in Seq(Note) /\ Len(s) = 1 + Len(q)
      /\ \A i \in 1 .. 1 + Len(q) : s[i] = Short(p[i])
  BY <1>2, ShortsType
<1> HIDE DEF s
<1>4. s # <<>> /\ s[1] = Short(x)
  <2>1. 1 \in 1 .. 1 + Len(q) /\ p[1] = x
    BY <1>1, <1>2
  <2>2. s[1] = Short(x)
    BY <2>1, <1>3
  <2>3. s # <<>>
    BY <1>1, <1>3, EmptySeq
  <2> QED BY <2>2, <2>3
<1>5. /\ Head(s) = s[1] /\ Tail(s) \in Seq(Note) /\ Len(Tail(s)) = Len(q)
      /\ \A i \in 1 .. Len(q) : Tail(s)[i] = s[i + 1]
  BY <1>1, <1>3, <1>4, HeadTailProperties
<1>6. ASSUME NEW i \in 1 .. Len(q) PROVE Tail(s)[i] = Shorts(q)[i]
  <2>1. i + 1 \in 1 .. 1 + Len(q) /\ p[i + 1] = q[i]
    BY <1>1, <1>2
  <2>2. s[i + 1] = Short(q[i])
    BY <2>1, <1>3
  <2>3. Shorts(q)[i] = Short(q[i])
    BY ShortsType
  <2> QED BY <2>2, <2>3, <1>5
<1>7. Tail(s) = Shorts(q)
  BY <1>5, <1>6, ShortsType, SeqEqual
<1> QED BY <1>4, <1>5, <1>7 DEF s, p

LEMMA NotesJoined ==
    \A s, t \in Seq(Note) :
        /\ s \o t \in Seq(Note) /\ Len(s \o t) = Len(s) + Len(t)
        /\ \A i \in 1 .. Len(s) + Len(t) :
               (s \o t)[i] = IF i <= Len(s) THEN s[i] ELSE t[i - Len(s)]
<1> SUFFICES ASSUME NEW s \in Seq(Note), NEW t \in Seq(Note)
             PROVE  /\ s \o t \in Seq(Note) /\ Len(s \o t) = Len(s) + Len(t)
                    /\ \A i \in 1 .. Len(s) + Len(t) :
                           (s \o t)[i] = IF i <= Len(s) THEN s[i] ELSE t[i - Len(s)]
  OBVIOUS
<1> QED BY ConcatProperties

Numbered(items, a, kind) == \A i \in 1 .. Len(items) : items[i].n = a + i /\ items[i].kind = kind
Batch(k, a, kind) == [i \in 1 .. k |-> [n |-> a + i, kind |-> kind]]

\* Events that come behind those that wait.
LEMMA ShortsBehind ==
    ASSUME NEW q \in Seq(Event), NEW items \in Seq(Event), NEW a \in Nat, NEW kind \in Kinds,
           Numbered(items, a, kind)
    PROVE  Shorts(q \o items) = Shorts(q) \o Batch(Len(items), a, kind)
<1> DEFINE r == q \o items
           new == [i \in 1 .. Len(items) |-> [n |-> a + i, kind |-> kind]]
           w == Shorts(q) \o new
<1>1. Len(q) \in Nat /\ Len(items) \in Nat
  BY LenProperties
<1>2. /\ r \in Seq(Event) /\ Len(r) = Len(q) + Len(items)
      /\ \A i \in 1 .. Len(q) + Len(items) : r[i] = IF i <= Len(q) THEN q[i] ELSE items[i - Len(q)]
  BY <1>1, ConcatProperties
<1>3. \A i \in 1 .. Len(items) : new[i] = Short(items[i]) /\ new[i] \in Note
  <2> SUFFICES ASSUME NEW i \in 1 .. Len(items) PROVE new[i] = Short(items[i]) /\ new[i] \in Note
    OBVIOUS
  <2>1. items[i] \in Event /\ items[i].n = a + i /\ items[i].kind = kind
    BY ElementOfSeq DEF Numbered
  <2>2. new[i] = [n |-> a + i, kind |-> kind]
    OBVIOUS
  <2>3. Short(items[i]) = new[i]
    BY <2>1, <2>2 DEF Short
  <2> QED BY <2>1, <2>3, ShortOfEvent
<1>4. new \in Seq(Note) /\ Len(new) = Len(items)
  BY <1>1, <1>3, IsASeq
<1> HIDE DEF r, new
<1>5. /\ Shorts(q) \in Seq(Note) /\ Len(Shorts(q)) = Len(q)
      /\ \A i \in 1 .. Len(q) : Shorts(q)[i] = Short(q[i])
  BY ShortsType
<1>6. /\ w \in Seq(Note) /\ Len(w) = Len(q) + Len(items)
      /\ \A i \in 1 .. Len(q) + Len(items) :
             w[i] = IF i <= Len(q) THEN Shorts(q)[i] ELSE new[i - Len(q)]
  <2>1. /\ w \in Seq(Note) /\ Len(w) = Len(Shorts(q)) + Len(new)
        /\ \A i \in 1 .. Len(Shorts(q)) + Len(new) :
               w[i] = IF i <= Len(Shorts(q)) THEN Shorts(q)[i] ELSE new[i - Len(Shorts(q))]
    BY <1>4, <1>5, NotesJoined
  <2> QED BY <2>1, <1>4, <1>5
<1> HIDE DEF w
<1>7. /\ Shorts(r) \in Seq(Note) /\ Len(Shorts(r)) = Len(q) + Len(items)
      /\ \A i \in 1 .. Len(q) + Len(items) : Shorts(r)[i] = Short(r[i])
  BY <1>2, ShortsType
<1>8. ASSUME NEW i \in 1 .. Len(q) + Len(items) PROVE Shorts(r)[i] = w[i]
  <2>1. CASE i <= Len(q)
    <3>1. i \in 1 .. Len(q) /\ r[i] = q[i] /\ w[i] = Shorts(q)[i]
      BY <2>1, <1>1, <1>2, <1>6
    <3> QED BY <3>1, <1>5, <1>7
  <2>2. CASE ~ (i <= Len(q))
    <3>1. i - Len(q) \in 1 .. Len(items) /\ r[i] = items[i - Len(q)] /\ w[i] = new[i - Len(q)]
      BY <2>2, <1>1, <1>2, <1>6
    <3>2. new[i - Len(q)] = Short(items[i - Len(q)])
      BY <3>1, <1>3
    <3> QED BY <3>1, <3>2, <1>7
  <2> QED BY <2>1, <2>2
<1>9. Shorts(r) = w
  BY <1>6, <1>7, <1>8, SeqEqual
<1> QED BY <1>9 DEF r, new, w, Batch

\* The row of the event in hand joins the others.
LEMMA RowsAppended ==
    ASSUME NEW S, saved \in Seq(S), NEW x \in Event, NEW t,
           saved' = Append(saved, [n |-> x.n, table |-> <<t, x.kind>>])
    PROVE  RowsOf' = Append(RowsOf, Short(x))
<1> DEFINE r == [n |-> x.n, table |-> <<t, x.kind>>]
           m == Len(saved)
           T == {Short([n |-> y.n, kind |-> y.table[2]]) : y \in S} \cup {Short(x)}
<1>1. m \in Nat /\ DOMAIN saved = 1 .. m /\ \A i \in 1 .. m : saved[i] \in S
  BY LenProperties, ElementOfSeq
<1>2. saved \in Seq(S \cup {r}) /\ r \in S \cup {r}
  BY SeqMonotonic
<1>3. [n |-> r.n, kind |-> r.table[2]] = Short(x)
  BY DEF Short
<1> HIDE DEF r
<1>4. saved' = Append(saved, r)
  BY DEF r
<1>5. /\ saved' \in Seq(S \cup {r}) /\ Len(saved') = m + 1
      /\ \A i \in 1 .. m : saved'[i] = saved[i]
      /\ saved'[m + 1] = r
  BY <1>2, <1>4, AppendProperties
<1> HIDE DEF m
<1>6. DOMAIN saved' = 1 .. m + 1
  BY <1>5, LenProperties
<1>7. RowsOf = [i \in 1 .. m |-> [n |-> saved[i].n, kind |-> saved[i].table[2]]]
      /\ RowsOf' = [i \in 1 .. m + 1 |-> [n |-> saved'[i].n, kind |-> saved'[i].table[2]]]
  BY <1>1, <1>6 DEF RowsOf
<1>8. /\ \A i \in 1 .. m : RowsOf[i] \in T
      /\ Short(x) \in T
  <2>1. ASSUME NEW i \in 1 .. m PROVE RowsOf[i] \in T
    <3>1. saved[i] \in S /\ RowsOf[i] = [n |-> saved[i].n, kind |-> saved[i].table[2]]
      BY <1>1, <1>7
    <3>2. RowsOf[i] = Short([n |-> saved[i].n, kind |-> saved[i].table[2]])
      BY <3>1 DEF Short
    <3> QED BY <3>1, <3>2
  <2> QED BY <2>1
<1> HIDE DEF T
<1>9. RowsOf \in Seq(T) /\ Len(RowsOf) = m
  BY <1>1, <1>7, <1>8, IsASeq
<1> DEFINE w == Append(RowsOf, Short(x))
<1>10. /\ w \in Seq(T) /\ Len(w) = m + 1
       /\ \A i \in 1 .. m : w[i] = RowsOf[i]
       /\ w[m + 1] = Short(x)
  BY <1>8, <1>9, AppendProperties
<1> HIDE DEF w
<1>11. DOMAIN w = 1 .. m + 1
  BY <1>10, LenProperties
<1>12. ASSUME NEW i \in 1 .. m + 1 PROVE RowsOf'[i] = w[i]
  <2>1. RowsOf'[i] = [n |-> saved'[i].n, kind |-> saved'[i].table[2]]
    BY <1>7
  <2>2. CASE i \in 1 .. m
    <3>1. RowsOf[i] = [n |-> saved[i].n, kind |-> saved[i].table[2]]
      BY <1>7, <2>2
    <3> QED BY <2>1, <2>2, <3>1, <1>5, <1>10
  <2>3. CASE i = m + 1
    BY <2>1, <2>3, <1>3, <1>5, <1>10
  <2> QED BY <2>2, <2>3, <1>1
<1>13. w = [i \in 1 .. m + 1 |-> w[i]]
  <2>1. w = [i \in 1 .. Len(w) |-> w[i]]
    BY <1>10, SeqDef
  <2> QED BY <2>1, <1>10
<1>14. RowsOf' = w
  BY <1>7, <1>12, <1>13
<1> QED BY <1>14 DEF w

LEMMA LogArrives == TypeOK /\ FlowInv /\ Streams => [Log!Next]_(Log!vars)
<1> SUFFICES ASSUME TypeOK, FlowInv, Streams PROVE [Log!Next]_(Log!vars)
  OBVIOUS
<1>1. PICK items \in Seq(Event), kind \in Kinds :
         /\ Arrives(items)
         /\ \A i \in 1 .. Len(items) : items[i].n = arrived + i /\ items[i].kind = kind
  BY ArrivingEvents
<1>2. /\ arrived' = arrived + Len(items)
      /\ UNCHANGED <<handled, saved, failed, saverPc, item>>
  BY <1>1 DEF Arrives, saverVars, storeVars
<1>3. arrived \in Nat /\ Len(items) \in Nat /\ Ahead \in Seq(Event)
  BY LenProperties DEF FlowInv, Flow
<1>4. arrived' \in Nat /\ arrived <= arrived' /\ arrived' - arrived = Len(items)
  BY <1>2, <1>3
<1>5. Waiting' = Shorts(Ahead \o items)
  BY <1>1, AheadGrows DEF Waiting, Shorts, Short
<1>6. Waiting' = Waiting \o Batch(Len(items), arrived, kind)
  <2>1. Numbered(items, arrived, kind)
    BY <1>1 DEF Numbered
  <2>2. Shorts(Ahead \o items) = Shorts(Ahead) \o Batch(Len(items), arrived, kind)
    BY <2>1, <1>3, ShortsBehind
  <2> QED BY <2>2, <1>5 DEF Waiting
<1>7. Due' = Due /\ RowsOf' = RowsOf
  BY <1>2 DEF Due, RowsOf, Short
<1>8. Log!Arrive(kind)
  BY <1>2, <1>4, <1>6, <1>7 DEF Log!Arrive, Batch
<1> QED BY <1>8 DEF Log!Next, Log!Kinds, Kinds

LEMMA LogNotices ==
    ASSUME saverPc \notin Putting, NEW x \in Event, Ahead = <<x>> \o stream_container', item' = x,
           stream_container' \in Seq(Event), Notify(x), UNCHANGED <<saved, arrived, failed>>
    PROVE  [Log!Next]_(Log!vars)
<1>1. handled' = Append(handled, Short(x)) /\ saverPc' \in Putting
  BY DEF Notify, TableAlias, Putting, Short
<1>2. Ahead' = stream_container'
  BY <1>1 DEF Ahead, Putting
<1>3. Waiting # <<>> /\ Head(Waiting) = Short(x) /\ Tail(Waiting) = Shorts(stream_container')
  BY ShortsFirst DEF Waiting
<1>4. Waiting' = Shorts(stream_container')
  BY <1>2 DEF Waiting, Shorts, Short
<1>5. Due = Log!None /\ Due' = Short(x)
  BY <1>1 DEF Due, Putting, Log!None, NoItem, Short
<1>6. RowsOf' = RowsOf
  BY DEF RowsOf
<1>7. Log!Notice
  BY <1>1, <1>3, <1>4, <1>5, <1>6 DEF Log!Notice
<1> QED BY <1>7 DEF Log!Next

LEMMA LogPutsDown ==
    ASSUME TypeOK, FlowInv, RowsInv, Save \/ SaveNothing PROVE [Log!Next]_(Log!vars)
<1>1. /\ saverPc = "save" /\ saverPc' = "get" /\ item \in Event
      /\ UNCHANGED <<handled, arrived, stream_container>>
  BY DEF Save, SaveNothing, FlowInv, Putting
<1>2. Due = Short(item) /\ Due # Log!None /\ Due' = Log!None
  BY <1>1, ShortOfEvent DEF Due, Log!None, NoItem
<1>3. Waiting' = Waiting
  BY <1>1 DEF Waiting, Shorts, Short, Ahead
<1>4. Log!HasRow(Due) <=> item.kind # "account"
  BY <1>1, <1>2, ShortOfEvent DEF Log!HasRow
<1>5. \/ Log!HasRow(Due) /\ RowsOf' = Append(RowsOf, Due) /\ UNCHANGED failed
      \/ ~ Log!HasRow(Due) /\ UNCHANGED <<RowsOf, failed>>
      \/ failed' = TRUE /\ UNCHANGED RowsOf
  <2>1. CASE SaveNothing
    BY <2>1, <1>4 DEF SaveNothing, storeVars, RowsOf
  <2>2. CASE Save /\ TableOf(item.kind) \in tables
    <3>1. \/ saved' = Append(saved, [n |-> item.n, table |-> TableOf(item.kind)]) /\ UNCHANGED failed
          \/ UNCHANGED saved /\ failed' = TRUE
      BY <2>2 DEF Save, Statement
    <3>2. ASSUME saved' = Append(saved, [n |-> item.n, table |-> TableOf(item.kind)])
          PROVE  RowsOf' = Append(RowsOf, Due)
      <4>1. PICK S : saved \in Seq(S)
        BY DEF FlowInv, Flow, IsSequence
      <4> QED BY <4>1, <3>2, <1>1, <1>2, RowsAppended DEF TableOf
    <3> QED BY <3>1, <3>2, <2>2, <1>4 DEF Save, RowsOf
  <2>3. CASE Save /\ TableOf(item.kind) \notin tables
    <3>1. item.kind \in {"order", "balance"}
      BY <2>3, <1>1 DEF Save, Event, Kinds
    <3>2. ~ ~ failed
      BY <3>1, <2>3, <1>1 DEF RowsInv, TablesThere, TableOf
    <3>3. failed = TRUE
      BY <3>2, Zenon DEF TypeOK
    <3> QED BY <3>3, <2>3 DEF Save, RowsOf
  <2> QED BY <2>1, <2>2, <2>3
<1>6. Log!PutDown
  BY <1>1, <1>2, <1>3, <1>5 DEF Log!PutDown
<1> QED BY <1>6 DEF Log!Next

\* A step that shows by nothing but a failure.
LEMMA LogKept ==
    ASSUME UNCHANGED <<handled, saved, arrived, Ahead, Due>>, UNCHANGED failed \/ failed' = TRUE
    PROVE  [Log!Next]_(Log!vars)
<1>1. Waiting' = Waiting /\ RowsOf' = RowsOf
  BY DEF Waiting, Shorts, Short, RowsOf
<1>2. CASE UNCHANGED failed
  BY <1>1, <1>2 DEF Log!vars
<1>3. CASE failed' = TRUE
  BY <1>1, <1>3 DEF Log!Fail, Log!Next
<1> QED BY <1>2, <1>3

LEMMA LogStep == TypeOK /\ FlowInv /\ RowsInv /\ [Next]_vars => [Log!Next]_(Log!vars)
<1> SUFFICES ASSUME TypeOK, FlowInv, RowsInv, [Next]_vars PROVE [Log!Next]_(Log!vars)
  OBVIOUS
<1>1. ASSUME GetTgCachedIds \/ TgGetNewUpdates \/ \E c \in Chats : InsertUpdateCachedId(c)
      PROVE  [Log!Next]_(Log!vars)
  <2>1. /\ saverPc \notin Putting /\ saverPc' \notin Putting
        /\ UNCHANGED <<handled, saved, arrived, stream_container, item>>
    BY <1>1 DEF GetTgCachedIds, TgGetNewUpdates, InsertUpdateCachedId, AfterLookUp, Putting,
                storeVars
  <2>2. UNCHANGED failed \/ failed' = TRUE
    BY <1>1 DEF GetTgCachedIds, TgGetNewUpdates, InsertUpdateCachedId, Statement
  <2>3. Due' = Due
    BY <2>1 DEF Due, Putting
  <2>4. Ahead' = Ahead
    BY <1>1, <2>1 DEF Ahead, FlowInv, GetTgCachedIds, TgGetNewUpdates, InsertUpdateCachedId,
                      AfterLookUp
  <2> QED BY <2>1, <2>2, <2>3, <2>4, LogKept
<1>2. ASSUME Get PROVE [Log!Next]_(Log!vars)
  <2>1. /\ stream_container \in Seq(Event) /\ stream_container # <<>>
        /\ item' = Head(stream_container) /\ stream_container' = Tail(stream_container)
        /\ saverPc = "get" /\ item = NoItem /\ UNCHANGED <<saved, arrived, failed>>
    BY <1>2 DEF Get, TypeOK, FlowInv, storeVars
  <2>2. item' \in Event /\ stream_container' \in Seq(Event)
    BY <2>1, HeadTailProperties
  <2>3. Ahead = <<item'>> \o stream_container'
    BY <2>1, FirstAndRest DEF Ahead
  <2>4. CASE Known(chats_id_map, item'.telegram_group)
    <3>1. Notify(item')
      BY <1>2, <2>4 DEF Get
    <3> QED BY <3>1, <2>1, <2>2, <2>3, LogNotices DEF Putting
  <2>5. CASE ~ Known(chats_id_map, item'.telegram_group)
    <3>1. saverPc' = "updates" /\ UNCHANGED handled
      BY <1>2, <2>5 DEF Get
    <3>2. Ahead' = Ahead
      BY <3>1, <2>2, <2>3, EventIsNotNoItem DEF Ahead
    <3>3. Due' = Due
      BY <3>1, <2>1 DEF Due
    <3> QED BY <3>1, <3>2, <3>3, <2>1, LogKept
  <2> QED BY <2>4, <2>5
<1>3. ASSUME NotifyAfterLookUp PROVE [Log!Next]_(Log!vars)
  <2>1. /\ Notify(item) /\ saverPc = "refind" /\ item \in Event
        /\ UNCHANGED <<saved, arrived, failed, stream_container, item>>
    BY <1>3 DEF NotifyAfterLookUp, FlowInv, storeVars
  <2>2. Ahead = <<item>> \o stream_container'
    BY <2>1, EventIsNotNoItem DEF Ahead
  <2> QED BY <2>1, <2>2, LogNotices DEF TypeOK, Putting
<1>4. ASSUME CreateOrderTable \/ CreateBalanceTable PROVE [Log!Next]_(Log!vars)
  <2>1. /\ saverPc \in Putting /\ saverPc' \in Putting
        /\ UNCHANGED <<handled, saved, arrived, stream_container, item>>
        /\ UNCHANGED failed \/ failed' = TRUE
    BY <1>4 DEF CreateOrderTable, CreateBalanceTable, CreateTable, Statement, Putting
  <2>2. Ahead' = Ahead /\ Due' = Due
    BY <2>1 DEF Ahead, Due, Putting, Short
  <2> QED BY <2>1, <2>2, LogKept
<1>5. ASSUME KeepBusy \/ Drop \/ Restart \/ (\E c \in Chats : ChatMoves(c)) \/ UNCHANGED vars
      PROVE  [Log!Next]_(Log!vars)
  <2>1. UNCHANGED <<handled, saved, arrived, stream_container, item, saverPc, failed>>
    BY <1>5 DEF KeepBusy, Drop, Restart, SaverUnchanged, ChatMoves, vars, saverVars, storeVars,
                lifeVars
  <2>2. Ahead' = Ahead /\ Due' = Due
    BY <2>1 DEF Ahead, Due, Short
  <2> QED BY <2>1, <2>2, LogKept
<1>6. ASSUME Crash PROVE [Log!Next]_(Log!vars)
  <2>1. /\ saverPc' = "start" /\ item' = NoItem /\ stream_container' = <<>> /\ failed' = FALSE
        /\ UNCHANGED <<handled, saved, arrived>>
    BY <1>6, Zenon DEF Crash, storeVars
  <2>2. Waiting' = <<>>
    <3>1. Ahead' = <<>>
      BY <2>1 DEF Ahead
    <3>2. Shorts(<<>>) = <<>>
      BY DEF Shorts
    <3> QED BY <3>1, <3>2 DEF Waiting, Shorts, Short
  <2>3. Due' = Log!None
    BY <2>1 DEF Due, Log!None, NoItem
  <2>4. RowsOf' = RowsOf
    BY <2>1 DEF RowsOf
  <2>5. Log!Ends
    BY <2>1, <2>2, <2>3, <2>4 DEF Log!Ends
  <2> QED BY <2>5 DEF Log!Next
<1> QED BY <1>1, <1>2, <1>3, <1>4, <1>5, <1>6, LogArrives, LogPutsDown DEF Next, Saver

LEMMA LogInit == Init => Log!Init
<1> SUFFICES ASSUME Init PROVE Log!Init
  OBVIOUS
<1>1. /\ arrived = 0 /\ handled = <<>> /\ saved = <<>> /\ stream_container = <<>>
      /\ saverPc = "start" /\ item = NoItem
  BY DEF Init
<1>2. Waiting = <<>>
  BY <1>1 DEF Waiting, Shorts, Ahead
<1>3. RowsOf = <<>>
  BY <1>1 DEF RowsOf
<1>4. Due = Log!None
  BY <1>1 DEF Due, Log!None, NoItem
<1>5. failed = FALSE
  BY Zenon DEF Init
<1> QED BY <1>1, <1>2, <1>3, <1>4, <1>5 DEF Log!Init

\* For every number of accounts, chats, events, crashes and failures: what the thread
\* of persistent_orders_saver does is what EventLog allows.  Each event is noticed as
\* it came and put down before the next is taken; what waits ends with the process
\* only, and a row that is due ends with the process or with the connection.
THEOREM SaverKeepsALog == Spec => ImplementsLog
<1>1. Init => RowsInv
  BY DEF Init, RowsInv, Putting
<1> QED BY <1>1, TypesInit, TypesStep, FlowInit, FlowStep, RowsStep, LogInit, LogStep, PTL
        DEF Spec, ImplementsLog, Log!Spec

=============================================================================
