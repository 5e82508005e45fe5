---------------------------- MODULE OrdersSaver ----------------------------
(***************************************************************************)
(* From an event of an account to its notification and its row.  The       *)
(* handlers of the user-data streams append what they parse to the stream  *)
(* container; the thread of persistent_orders_saver takes one item after   *)
(* the other, finds the chat of its telegram group (asking the bot server  *)
(* with getUpdates for chats it does not know), hands the notification to  *)
(* a sender, and then saves the row, all over the connection that          *)
(* DatabaseConnector describes.                                            *)
(*                                                                         *)
(* The map chat_ids lives in memory, the table tg_id_cache survives the    *)
(* process.  Both map a chat to its id, 0 when it has none.                *)
(***************************************************************************)
EXTENDS DatabaseConnector, Sequences, FiniteSets, SequencesExt

CONSTANTS Accounts, Chats,
          TableName,    \* get_alphanum_tablename of each alias, Empty if nothing is left
          Empty,        \* the empty string
          MaxEvents,    \* bound: items the streams append
          MaxBatch,     \* bound: balances of one account position
          Movers,       \* bound: the chats that may be given another id
          MaxMoves      \* bound: how often

ASSUME OrdersSaverAssumption ==
    /\ MaxEvents \in Nat /\ MaxBatch \in Nat /\ MaxMoves \in Nat
    /\ DOMAIN TableName = Accounts /\ Movers \subseteq Chats

VARIABLES
    chatId,             \* the id each chat has at the bot server
    arrived,            \* items appended so far: the next one is arrived + 1
    stream_container,   \* request_handler_t::stream_container_
    saverPc, item,      \* the saver: where it is, the item in hand (or none)
    todo,               \* chats insert_update_cached_ids has yet to write
    chats_id_map, account_table_map,
    tg_id_cache, tables,
    saved,              \* history: the rows of all tables in order of insertion
    handled,            \* history: items whose notification was handed over or dropped
    born, failed        \* of this process: items that came before it, and whether
                        \* the connection has failed one of its statements

saverVars == <<saverPc, item, todo, chats_id_map, account_table_map>>
storeVars == <<tg_id_cache, tables, saved>>
lifeVars  == <<process, faults, born>>
vars == <<lifeVars, connectorVars, chatId, arrived, stream_container, saverVars,
          storeVars, handled, failed>>

-----------------------------------------------------------------------------
Kinds == {"order", "balance", "account"}
Event == [n : Nat, kind : Kinds, for_aliased_account : Accounts, telegram_group : Chats]
NoItem == <<>>

Info(k, a, g, n) ==
    [n |-> n, kind |-> k, for_aliased_account |-> a, telegram_group |-> g]

Known(map, c) == map[c].telegram_chat_id # 0
Unknown == [telegram_chat_id |-> 0, database_id |-> 0]

\* A statement of the saver that succeeds or is logged and given up.
Statement(succeeds, fails) ==
    /\ Uses
    /\ \/ Executes /\ succeeds /\ UNCHANGED failed
       \/ Throws /\ fails /\ failed' = TRUE

-----------------------------------------------------------------------------
(* The handlers of the streams.  A message that lacks a field throws before  *)
(* anything is appended: it leaves no trace.                                 *)

Arrives(items) ==
    /\ process = "up"
    /\ stream_container' = stream_container \o items
    /\ arrived' = arrived + Len(items)
    /\ UNCHANGED <<lifeVars, connectorVars, chatId, saverVars, storeVars, handled, failed>>

OrdersExecutionReport(a, g) ==
    arrived < MaxEvents /\ Arrives(<<Info("order", a, g, arrived + 1)>>)

BalanceUpdate(a, g) ==
    arrived < MaxEvents /\ Arrives(<<Info("balance", a, g, arrived + 1)>>)

\* One item per balance of the position, appended together.
AccountPosition(a, g, balances) ==
    /\ balances <= MaxEvents - arrived
    /\ Arrives([i \in 1 .. balances |-> Info("account", a, g, arrived + i)])

-----------------------------------------------------------------------------
(* persistent_orders_saver.                                                *)

\* Mutant: two columns are read in each other's place.
FromTableSwapped(read) ==
    [c \in Chats |-> IF c \in read /\ tg_id_cache[c] # 0
                     THEN [telegram_chat_id |-> 1, database_id |-> tg_id_cache[c]]
                     ELSE Unknown]

\* The rows that were read: all of them, or those before an exception.
FromTable(read) ==
    [c \in Chats |-> IF c \in read /\ tg_id_cache[c] # 0
                     THEN [telegram_chat_id |-> tg_id_cache[c], database_id |-> 1]
                     ELSE Unknown]

GetTgCachedIds ==
    /\ process = "up" /\ saverPc = "start"
    /\ Statement(chats_id_map' = FromTable(Chats),
                 \E read \in SUBSET Chats : chats_id_map' = FromTable(read))
    /\ saverPc' = "updates"
    /\ UNCHANGED <<born, chatId, arrived, stream_container, item, todo,
                   account_table_map, storeVars, handled>>

\* on_tg_update_completion: the id of a chat is replaced, its database_id kept
\* (0 in an entry that is new).
Learnt(learnt) ==
    [c \in Chats |-> IF c \in learnt
                     THEN [chats_id_map[c] EXCEPT !.telegram_chat_id = chatId[c]]
                     ELSE chats_id_map[c]]

\* Mutant: the chat of the item is looked up until it is known.
AfterLookUpAgain(left) ==
    /\ todo' = left
    /\ saverPc' = IF left # {} THEN "store" ELSE IF item = NoItem THEN "get"
                  ELSE IF Known(chats_id_map, item.telegram_group) THEN "refind" ELSE "updates"

\* The look-up is over when nothing is left to write: back to the loop, or to
\* the item that asked for it.
AfterLookUp(left) ==
    /\ todo' = left
    /\ saverPc' = IF left # {} THEN "store" ELSE IF item = NoItem THEN "get" ELSE "refind"

\* tg_get_new_updates, run to its end on this thread: whatever went wrong with
\* the exchange or the response, what was learnt until then stays, and every
\* entry is about to be written.
TgGetNewUpdates ==
    /\ process = "up" /\ saverPc = "updates"
    /\ \E learnt \in SUBSET Chats : chats_id_map' = Learnt(learnt)
    /\ AfterLookUp({c \in Chats : Known(chats_id_map', c)})
    /\ UNCHANGED <<lifeVars, connectorVars, chatId, arrived, stream_container, item,
                   account_table_map, storeVars, handled, failed>>

\* Mutant: entries that came from the table are not written again.
InsertUpdateCachedIdInsertsOnly(c) ==
    /\ process = "up" /\ saverPc = "store" /\ c \in todo
    /\ AfterLookUp(todo \ {c})
    /\ LET info == chats_id_map[c] IN
         IF tg_id_cache[c] # 0
         THEN Statement(UNCHANGED tg_id_cache, UNCHANGED tg_id_cache)
         ELSE Statement(tg_id_cache' = [tg_id_cache EXCEPT ![c] = info.telegram_chat_id],
                        UNCHANGED tg_id_cache)
    /\ UNCHANGED <<born, chatId, arrived, stream_container, item, chats_id_map,
                   account_table_map, tables, saved, handled>>

\* insert_update_cached_ids, one entry: an entry without a database_id is
\* inserted, which the unique index refuses when the chat has a row already;
\* one that came from the table updates its row.
InsertUpdateCachedId(c) ==
    /\ process = "up" /\ saverPc = "store" /\ c \in todo
    /\ AfterLookUp(todo \ {c})
    /\ LET info == chats_id_map[c] IN
         IF info.database_id = 0 /\ tg_id_cache[c] # 0
         THEN Statement(UNCHANGED tg_id_cache, UNCHANGED tg_id_cache)
         ELSE Statement(tg_id_cache' = [tg_id_cache EXCEPT ![c] = info.telegram_chat_id],
                        UNCHANGED tg_id_cache)
    /\ UNCHANGED <<born, chatId, arrived, stream_container, item, chats_id_map,
                   account_table_map, tables, saved, handled>>

\* The first item of an account (or of one whose alias leaves nothing): the
\* alias is remembered before the tables are created, whatever comes of it.
TableAlias(a) ==
    IF account_table_map[a] = Empty
    THEN /\ account_table_map' = [account_table_map EXCEPT ![a] = TableName[a]]
         /\ saverPc' = "create_orders"
    ELSE saverPc' = "save" /\ UNCHANGED account_table_map

\* The notification is handed over, or dropped when the chat is not known; the
\* tables come after it.
Notify(taken) ==
    /\ handled' = Append(handled, [n |-> taken.n, kind |-> taken.kind])
    /\ TableAlias(taken.for_aliased_account)

\* Mutant: the front of the queue is not popped.
GetPeeks ==
    /\ process = "up" /\ saverPc = "get" /\ stream_container # <<>>
    /\ item' = Head(stream_container)
    /\ IF Known(chats_id_map, item'.telegram_group)
       THEN Notify(item')
       ELSE saverPc' = "updates" /\ UNCHANGED <<account_table_map, handled>>
    /\ UNCHANGED <<lifeVars, connectorVars, chatId, arrived, stream_container, todo,
                   chats_id_map, storeVars, failed>>

\* The next item, and send_telegram_message: a chat that is not known is first
\* looked up.
Get ==
    /\ process = "up" /\ saverPc = "get" /\ stream_container # <<>>
    /\ item' = Head(stream_container)
    /\ stream_container' = Tail(stream_container)
    /\ IF Known(chats_id_map, item'.telegram_group)
       THEN Notify(item')
       ELSE saverPc' = "updates" /\ UNCHANGED <<account_table_map, handled>>
    /\ UNCHANGED <<lifeVars, connectorVars, chatId, arrived, todo, chats_id_map,
                   storeVars, failed>>

\* After its look-up, known or not.
NotifyAfterLookUp ==
    /\ process = "up" /\ saverPc = "refind"
    /\ Notify(item)
    /\ UNCHANGED <<lifeVars, connectorVars, chatId, arrived, stream_container, item, todo,
                   chats_id_map, storeVars, failed>>

\* The name of a table is the alias with "_orders" or "_balance" after it.
TableOf(kind) == <<account_table_map[item.for_aliased_account], kind>>

CreateTable(pc, kind, next) ==
    /\ process = "up" /\ saverPc = pc
    /\ Statement(tables' = tables \cup {TableOf(kind)}, UNCHANGED tables)
    /\ saverPc' = next
    /\ UNCHANGED <<born, chatId, arrived, stream_container, item, todo, chats_id_map,
                   account_table_map, tg_id_cache, saved, handled>>

\* Mutant: the tables of balances are not created.
CreateBalanceTableSkipped ==
    /\ process = "up" /\ saverPc = "create_balance"
    /\ saverPc' = "save"
    /\ UNCHANGED <<lifeVars, connectorVars, chatId, arrived, stream_container, item, todo,
                   chats_id_map, account_table_map, storeVars, handled, failed>>

CreateOrderTable   == CreateTable("create_orders", "order", "create_balance")
CreateBalanceTable == CreateTable("create_balance", "balance", "save")

\* Mutant: the item stays in hand when its row is refused.
SaveKeepsItem ==
    /\ process = "up" /\ saverPc = "save" /\ item.kind # "account"
    /\ IF TableOf(item.kind) \in tables
       THEN \/ /\ Statement(saved' = Append(saved, [n |-> item.n, table |-> TableOf(item.kind)]),
                            FALSE)
               /\ saverPc' = "get" /\ item' = NoItem
            \/ /\ Statement(FALSE, UNCHANGED saved)
               /\ saverPc' = "refind" /\ UNCHANGED item
       ELSE /\ Uses /\ UNCHANGED <<saved, failed>>
            /\ saverPc' = "get" /\ item' = NoItem
    /\ UNCHANGED <<born, chatId, arrived, stream_container, todo, chats_id_map,
                   account_table_map, tg_id_cache, tables, handled>>

\* add_new_order, add_new_balance: the row, unless its table is missing.
Save ==
    /\ process = "up" /\ saverPc = "save" /\ item.kind # "account"
    /\ IF TableOf(item.kind) \in tables
       THEN Statement(saved' = Append(saved, [n |-> item.n, table |-> TableOf(item.kind)]),
                      UNCHANGED saved)
       ELSE Uses /\ UNCHANGED <<saved, failed>>
    /\ saverPc' = "get" /\ item' = NoItem
    /\ UNCHANGED <<born, chatId, arrived, stream_container, todo, chats_id_map,
                   account_table_map, tg_id_cache, tables, handled>>

\* The positions of an account are notified and not saved.
SaveNothing ==
    /\ process = "up" /\ saverPc = "save" /\ item.kind = "account"
    /\ saverPc' = "get" /\ item' = NoItem
    /\ UNCHANGED <<lifeVars, connectorVars, chatId, arrived, stream_container, todo,
                   chats_id_map, account_table_map, storeVars, handled, failed>>

-----------------------------------------------------------------------------
\* A chat gets another id (a group that becomes a supergroup).
ChatMoves(c) ==
    /\ c \in Movers /\ chatId[c] <= MaxMoves
    /\ chatId' = [chatId EXCEPT ![c] = @ + 1]
    /\ UNCHANGED <<lifeVars, connectorVars, arrived, stream_container, saverVars,
                   storeVars, handled, failed>>

SaverUnchanged ==
    UNCHANGED <<born, chatId, arrived, stream_container, saverVars, storeVars, handled, failed>>

\* The process dies, of what the keep-busy thread throws or of anything else:
\* what it remembered is gone, the tables stay.
Crash ==
    /\ Terminate \/ (process = "up" /\ Dies)
    /\ stream_container' = <<>>
    /\ saverPc' = "start" /\ item' = NoItem /\ todo' = {}
    /\ chats_id_map' = [c \in Chats |-> Unknown]
    /\ account_table_map' = [a \in Accounts |-> Empty]
    /\ born' = arrived /\ failed' = FALSE
    /\ UNCHANGED <<chatId, arrived, storeVars, handled>>

Restart == Connect /\ SaverUnchanged

Init ==
    /\ ConnectorInit
    /\ stream_container = <<>>
    /\ saverPc = "start" /\ item = NoItem /\ todo = {}
    /\ chats_id_map = [c \in Chats |-> Unknown]
    /\ account_table_map = [a \in Accounts |-> Empty]
    /\ failed = FALSE
    /\ chatId = [c \in Chats |-> 1]
    /\ arrived = 0 /\ born = 0
    /\ tg_id_cache = [c \in Chats |-> 0] /\ tables = {}
    /\ saved = <<>> /\ handled = <<>>

KeepBusy == KeepSqlServerBusy /\ SaverUnchanged
Drop == ConnectionDrops /\ SaverUnchanged

Saver ==
    \/ GetTgCachedIds \/ TgGetNewUpdates
    \/ \E c \in Chats : InsertUpdateCachedId(c)
    \/ Get \/ NotifyAfterLookUp
    \/ CreateOrderTable \/ CreateBalanceTable \/ Save \/ SaveNothing

Streams ==
    \E a \in Accounts, g \in Chats :
        \/ OrdersExecutionReport(a, g) \/ BalanceUpdate(a, g)
        \/ \E balances \in 0 .. MaxBatch : AccountPosition(a, g, balances)

Next ==
    \/ Saver \/ Streams \/ KeepBusy \/ Drop
    \/ Crash \/ Restart
    \/ \E c \in Chats : ChatMoves(c)

Spec == Init /\ [][Next]_vars

\* Both threads go on, the look-up ends (its operations have timeouts), and the
\* supervisor restarts what has died.
FairSpec == Spec /\ WF_vars(Saver) /\ WF_vars(KeepBusy) /\ WF_vars(Restart)

-----------------------------------------------------------------------------
Pcs == {"start", "updates", "store", "get", "refind",
        "create_orders", "create_balance", "save"}

TypeOK ==
    /\ ConnectorTypeOK
    /\ chatId \in [Chats -> Nat]
    /\ arrived \in Nat /\ born \in 0 .. arrived
    /\ stream_container \in Seq(Event)
    /\ saverPc \in Pcs
    /\ item \in Event \cup {NoItem}
    /\ todo \in SUBSET Chats
    /\ chats_id_map \in [Chats -> [telegram_chat_id : Nat, database_id : {0, 1}]]
    /\ DOMAIN account_table_map = Accounts
    /\ tg_id_cache \in [Chats -> Nat]
    /\ failed \in BOOLEAN

Handled == {handled[i].n : i \in DOMAIN handled}
Saved   == {saved[i].n : i \in DOMAIN saved}

\* Whatever dies or is lost in between, rows are inserted in the order in which
\* their events came, none twice, and each only after its notification was handed
\* over or dropped ("first send the telegram message", background_threads.cpp 87).
RowsFollowNotices ==
    /\ \A i, j \in DOMAIN saved : i < j => saved[i].n < saved[j].n
    /\ Saved \subseteq Handled

\* No event is skipped or handled twice: whatever dies, events are handled in the
\* order in which they came; those of this process that were not are the one in
\* hand, if it waits for its chat, and the queue.
Ahead == IF item # NoItem /\ saverPc \in {"updates", "store", "refind"}
         THEN <<item>> \o stream_container ELSE stream_container
NothingSkipped ==
    LET last == arrived - Len(Ahead) IN
    /\ \A i, j \in DOMAIN handled : i < j => handled[i].n < handled[j].n
    /\ Handled \cap (born + 1 .. arrived) = born + 1 .. last
    /\ \A i \in DOMAIN Ahead : Ahead[i].n = last + i

\* The saver keeps a log of its events (EventLog): the one in hand is noticed when
\* its notification is handed over, and due until its row is written or given up;
\* look-ups, tables and the connection do not show, but for a failure of the last.
Short(event) == [n |-> event.n, kind |-> event.kind]
Shorts(items) == [i \in DOMAIN items |-> Short(items[i])]
Waiting == Shorts(Ahead)
Due == IF saverPc \in {"create_orders", "create_balance", "save"} THEN Short(item) ELSE NoItem
RowsOf == [i \in DOMAIN saved |-> [n |-> saved[i].n, kind |-> saved[i].table[2]]]

Log == INSTANCE EventLog WITH
    waiting <- Waiting, due <- Due, notices <- handled, rows <- RowsOf, failing <- failed

ImplementsLog == Log!Spec

\* A row is lost only in a process that the connection has failed: until then the
\* tables are there, and every order and balance that was handled and put down is
\* in its own.
RowsLostByFailuresOnly ==
    process = "up" /\ ~ failed =>
        \A i \in DOMAIN handled :
            LET e == handled[i] IN
            e.n > born /\ e.kind # "account" /\ (item # NoItem => e.n # item.n) => e.n \in Saved

\* The map and tg_id_cache agree when no look-up is under way and the connection
\* has failed no statement: they know the same chats, and the id of an entry that
\* came from the table is the row's.  (An entry learnt by this process keeps
\* database_id 0, so that its row keeps the first id it had: see README.)
CacheAgrees ==
    process = "up" /\ ~ failed /\ saverPc \notin {"start", "store"} =>
        \A c \in Chats :
            /\ Known(chats_id_map, c) <=> tg_id_cache[c] # 0
            /\ chats_id_map[c].database_id # 0 => tg_id_cache[c] = chats_id_map[c].telegram_chat_id

\* The queue is worked off again and again, through look-ups that fail, statements
\* that throw and restarts: the saver never stops at an item.
WorkedOff == []<>(process = "up" /\ saverPc = "get" /\ stream_container = <<>>)

\* However often it is dropped, and also when it was logged off without need,
\* the connection is there again ("keeping DB server busy").
ComesBack == []<>(process = "up" /\ connection = "up")
=============================================================================
