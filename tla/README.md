# Verification of binance_monitor

TLA+ models of the two programs of this repository, the TLC runs that check
them on small instances, and TLAPS proofs of what they show for every
instance. `src/...` paths below are relative to the repository.

* `binance_orders` watches the user-data streams of several Binance accounts,
  sends a Telegram notification for every order or balance event and saves it
  to MySQL. The accounts are rows of the table `hosts`.
* `binance_prices` watches the public ticker stream and keeps the last price of
  every instrument in memory.

## 1. Inventory

| Component | State | Operations | Talks to |
|---|---|---|---|
| Host synchronisation (`background_threads.cpp`, `main.cpp`, `session.cpp` upload) | table `hosts`, `host_container_`, vector of streams, the monitor's `previous_hosts` | start-up launch, 10 s poll and comparison, launcher, upload | database, queue, user data streams |
| Waitable container (`common/containers.hpp`) | deque, mutex, condition variable | `append`, `append_list`, `get` | every pair of threads |
| User data stream (`user_data_stream.cpp`) | TLS/websocket stream, listen key, two timers, `stopped_` | asynchronous chain REST -> websocket -> reads, `stop` | launcher, event queue, keep-alive |
| Listen key keep-alive (`listen_key_keepalive.cpp`) | one HTTPS exchange, the key's age at the exchange | `run` every 30 minutes | owned and replaced by a user data stream |
| Events and their saver (`user_data_stream.cpp` 370-479, `background_threads.cpp` 72-115) | event queue, table aliases | parse and append; notify, create the tables of an account, insert | senders, look-up, database |
| Telegram senders (`telegram_process.cpp`, `tg_message_sender.cpp`) | pool, and per sender a deque, a request, `operation_completed_` | pick or create a sender, send the next payload, reconnect | saver thread and io_context |
| Chat look-up and cache (`chat_update.cpp`, `telegram_process.cpp`) | map of chat ids, table `tg_id_cache` | look up, `getUpdates` run to its end on the saver's thread, insert/update | saver, database |
| Database connector (`database_connector.cpp`) | one connection, `db_mutex_` | statements under the mutex, keep-busy thread without it | all threads |
| HTTP server and sessions (`server.cpp`, `session.cpp`) | list of sessions; per session a socket, a buffer, a parser, a response | accept, prune, read, answer, close | database, queue |
| URL and string helpers (`session.cpp` 15-23, 311-384) | none | decode, split, route, query map, table name | sessions, saver |
| Market data stream, price saver (`binance_prices`) | TLS/websocket stream, request, response, resolver, set of instruments, map of prices | REST list, websocket, reconnect, interpret, store, end of the program | its own waitable container, the supervisor |
| Static pool (`fields_alloc.hpp`) | references, live blocks, free pointer | share, destroy, alloc, dealloc | nothing: neither program includes it |
| Base64, JSON, time, random helpers (`common/`) | none | pure functions | - |

What is hard here: four threads and the handlers of an `io_context` share
vectors, deques and flags, mostly without a lock; queues and remembered rows
live in memory while the table survives a crash; connections fail at any
operation; handlers hold `self` or a raw `this`; timers fire late. What makes
each component correct:

* host synchronisation: one stream per row, no change dropped, agreement with
  the table in the end;
* container: FIFO, no wake-up lost;
* user data stream: one chain of operations, objects there when handlers use
  them, always back after a loss, quiet after `stop`;
* senders: no payload lost, doubled or left in a deque, deques within limits;
* keep-alive: the key is renewed in time, whatever was lost before;
* market stream: one connection, whole messages, no price replaced by an older
  one, back after any failure;
* saver: events in order, none skipped or doubled; a row after its
  notification, none missing unless the connection failed; the map of chats and
  its table agree;
* connector: back after any loss;
* sessions: answers in order; none freed under a handler, none leaked, none
  kept for ever; a target is decoded and routed for what it says.

`PROJECT.json` lists the hazards line by line, covered or not.

## 2. Modules

| Module | Models | Role |
|---|---|---|
| `HostSync` | host synchronisation | component, composes main, monitor, launcher, sessions, table; refines `RowMirror` |
| `RowMirror` | what the synchronisation promises: a copy of the rows that lags behind | abstract specification |
| `HostSyncProofs` | | typing, synchronisation, uploads, refinement of `RowMirror`, for every instance |
| `DatabaseConnector` | the connection, the keep-busy thread, what a statement meets | component, used by `OrdersSaver` |
| `OrdersSaver` | events, `persistent_orders_saver`, chat look-up and cache | component, extends `DatabaseConnector` with the threads that query; refines `EventLog` |
| `EventLog` | what the saver promises | abstract specification |
| `OrdersSaverProofs` | | typing, order of events, rows, cache, refinement, for every instance |
| `HttpSession` | `server_t`, `session_t` | component, refines `Dialogue` |
| `Dialogue` | what a session promises to its client | abstract specification |
| `HttpSessionProofs` | | typing, answers, freed and leaked sessions, refinement, for every instance |
| `TextHelpers` | `decode_url`, `split_string_view`, `get_alphanum_tablename` | operators |
| `RequestTarget` | routing and query of a request's target | operators, driven by a client that writes targets |
| `RequestTargetProofs` | | decoding and routing, for targets of every length |
| `FifoChannel` | what a container promises | abstract specification |
| `WaitableContainer` | `waitable_container_t` | component, refines `FifoChannel` |
| `WaitableContainerProofs` | | no lost wake-up, refinement, for every instance |
| `ListenKeepalive` | `listen_key_keepalive_t` | component |
| `UserDataStream` | `user_data_stream_t` | component, extends and owns `ListenKeepalive` |
| `UserDataStreamProofs` | | typing, one chain, objects, renewals, for every instance |
| `MarketDataStream` | `market_data_stream_t`, the price saver and the end of `binance_prices` | component |
| `MarketDataStreamProofs` | | typing, one chain, whole messages, order of prices, for every instance |
| `LossyLines` | what the pool of senders promises | abstract specification |
| `TelegramSender` | `send_telegram_message`, `tg_message_sender_t` | component, refines `LossyLines` |
| `TelegramSenderProofs` | | typing, limits, order and losses of notifications, refinement, for every instance |
| `MCHostSync`, `MCOrdersSaver`, `MCRequestTarget` | | instances for TLC (symmetry, table names made by `get_alphanum_tablename`, bytes); the other modules are run as they are |

Every module keeps its mutants (operators named after the definition they
replace, preceded by "Mutant:") beside that definition: each property is known
to be broken by one of them under the run's own configuration.

### HostSync and RowMirror

A row is `hosts[a]`, the telegram group of account `a`. An *account* is the
triple (alias, api_key, secret_key) that `operator==` (background_threads.cpp
117-120) compares, so a row whose alias changes is another account; there is
one row per account at most; the order of rows is abstracted into the free
choice of the next one. `monitorPc`, `previous_hosts`, `new_hosts` and `todo`
are the locals of `monitor_database_host_table_changes`, whose two loops are
one step per row (`MonitorVisitNew`, `MonitorVisitOld`), each with the
container's `append` it makes: no other thread sees `previous_hosts`, so that
nothing can come between the two. `Launcher` is `get` with `process_host_changes`.
`LaunchPreviousHosts` and `LaunchHost` are main's read and its launches,
`UploadItem`, `UploadQueue` and `UploadReject` the elements, the normal end and
the exception of `upload_handler`. A read of the table returns its rows or,
`MaxFaults` times, some of them, as `get_available_hosts` does when the driver
throws (database_connector.cpp 140-143). `Restart` forgets all but the table.

Assumptions: the first poll comes after main has launched its rows (it sleeps
10 s first); launching, taking and editing the vector are single steps although
main and the launcher share the vector without a lock. `CleanStart` says that
the two start-up reads succeed and that nobody edits the table between them.
Without it a row inserted between the two reads is never watched, because the
monitor remembers it from its own read and main did not launch it: with
`CleanStart = FALSE` and no session in `HostSyncUpload.cfg`, TLC finds
`EventuallyServed` violated. A half-failed read is taken for removals as well,
and `HostSyncMirror` shows that a later poll undoes them.

`RowMirror` is what a reader should expect of all this: the streams are a copy
of the rows; a change is noticed once, queued, and applied once, in order. The
refinement takes the rows the monitor remembers (the table, before its first
read) as the rows, and the vector, seen through `find_if`, as the copy. An
upload is not a step of `RowMirror`: it queues a row that the monitor has not
noticed, or will notice again (section 4). What remains true with uploads are
`RowsServed` and `ChangesFindStreams`: an account may have two streams, but a
row the monitor remembers keeps one, and no removal or change of group comes to
a vector that has none. `ServedAfter(a, n)` says of the first n queued changes
that they leave `a` a stream.

### WaitableContainer and FifoChannel

One step per effect. A producer calls `append` (one item) or `append_list` (any
number, none included), takes the mutex, inserts element by element, notifies and
releases; a consumer takes the mutex, looks at the predicate (`FoundEmpty`),
sleeps and gives up the mutex (`Wait`, one step, which is what
`std::condition_variable` promises), is woken or wakes spuriously, takes the mutex
again, pops, releases. `new_list` is what a call has still to insert. The look and
the sleep are two steps, so that `NoLostWakeup` depends on the mutex being held
between them: a notification there would be lost.

`FifoChannel` has a history, the number of items
each producer has put and the number taken. `Put` adds a whole list behind all
else, with nothing of another thread inside it; the items of a list know how
many of them are behind, so that a list in pieces would be seen. The refinement
maps `history` to what was delivered, the deque and what the holder of the mutex
has still to insert: a list is put when its thread gets the mutex, since nobody
looks at the deque before all of it is there. `HostSync` uses the container as
such a channel (`Append`, `\o`, `Head`/`Tail`).

### UserDataStream and ListenKeepalive

`pending` is the set of completion handlers that will run, which is also what
keeps the object alive. The stages of `ssl_web_stream_` say what the optional
holds ("none", a REST stream, a websocket before and during its handshake, an
open one). The REST and websocket set-up handlers are `RestStep` and `WsStep`
with the operation each starts; every error before the first read is one action
(`SetupFails`). A close frame runs `on_ws_connection_severed` in the control
callback, in the middle of the read, and the read's handler runs it again
(`PeerCloses`, `ReadAborted`); since the stream was replaced under that read, the
end of it may also end the process. `close({})` is the throwing overload; on a
websocket that is not open it leaves `io_context::run` and ends the process
(`Terminate`), and the supervisor starts it again (`Restart`). `stop()` is
three steps of the launcher's thread. Messages that arrive change none of this
state and are left out.

Time is counted in half hours of an open websocket (`HalfHourPasses`): the key
ages, an armed timer expires. Its handler (`ListenDue`) replaces the keep-alive
by a new one, which starts its exchange, and posts the re-arming (`ListenPost`),
which finds the timer disengaged if the websocket was lost in between. The
exchange goes on beside the stream (`Renewal`); an error or a refusal is logged
and leaves the object idle. Its handlers hold a raw `this`: when the object is
replaced or reset, a handler that was already queued is an `orphan`, and runs
without effect or ends the process (`OrphanRuns`).

Assumptions: the handlers of one stream do not run in parallel (main runs
several threads on the `io_context`, but a chain has one operation under way;
the exceptions are those of `Ready` and the keep-alive's, which take single
steps here); what is ready when the 10 s retry is armed has run before it fires;
every exchange is over within half an hour (its operations have timeouts of 5 to
20 s), and a half hour is counted from the opening of the websocket, which is
seconds after the key was issued.

### MarketDataStream

`binance_prices` has one stream, and its life is the program's. The set-up
handlers are an action each, named after the operation that has completed,
because each engages or resets other optionals; `engaged` holds those that
matter to a later handler. A message is a sequence of names and of malformed
elements; the n-th message has the prices n, so that a price tells which message
it came from. A name has two spellings, because the saver converts it to upper
case. `InterpretGenericMessages` appends the tickers of a message as one list,
after the last of them was read, and reads on whatever the message was. A lost
websocket is replaced at once (`Reconnect`), from the handler of the read
(`ReadFails`) or from the control callback in the middle of it (`PeerCloses`),
after which the read ends with `operation_aborted` (`ReadAborted`); what it
writes on the way through the TLS layer that is gone is undefined and may end
the process. When an operation fails before the first read nothing is pending
any more: `io_context::run` and main return (`MainReturns`) and the supervisor
(`autorestart=true` in the packed `server_files.tar.gz`) starts the program
again, with nothing remembered; or the exit hangs in the destructor of the
condition variable on which the detached saver sleeps. The queue is a channel
here (`WaitableContainer` has its steps).

### TelegramSender

Payloads are numbered as the saver hands them over. The saver's scan of the
pool is one step per sender, and `AddPayload` is separate from the look at
`available_with_less_tasks`, because another thread runs the sender in
between. `op` is the asynchronous operation a sender waits for. The request
under way counts as given up when its write or read fails: the write's handler
resets `http_request_` before it looks at the error, so `prepare_payload` never
finds one. Popping an empty deque is undefined: the process dies, or the sender
goes on with garbage ("wild"). The deque itself is not torn by the unguarded
`push_back` and `pop_front` (they work on different ends). A response's status
is ignored by the code, so a refusal costs a notification like a failure. The
pool is a set: its vector stays in the order of the senders' ids, `at` is the
one looked at last. The payloads are those `OrdersSaver` hands over, their chat
already known.

`LossyLines` is the pool without its threads: each sender is a line of `Limit + 1`
notifications, the request under way in front of the deque. A notification enters
one line at its end and leaves it from the front, delivered or given up; giving
up takes a failure, and a failure gives up one at most. What a sender does
between the stages of an exchange, the scan of the pool and the pruning are
stutters.

### DatabaseConnector and OrdersSaver

Every query takes `db_mutex_`, so a statement is one step: it executes, or
throws and is logged and given up (`Statement`). The keep-busy thread takes no
mutex: its "select 1" lasts two steps, and a statement that runs in between may
make it fail (`raced`), upon which a connection that works is logged off. The
races of the two threads inside the driver are modelled as such failures.
Between the log-off and the log-on statements fail; what the thread throws ends
the process (`Terminate`), and the supervisor starts it again (`Restart`, with
nothing remembered but the tables).

The saver is one action per step that another thread, a failure or a crash can
separate: the read of the cache, the look-up, the write of each entry, the
notification, the creation of each table, the row. `Get` and `NotifyAfterLookUp`
end in `Notify`, which is where the message is handed to `TelegramSender`, or
dropped when the chat is not known: the code sends first and saves later, and
remembers the alias of an account before it creates its tables.
`TgGetNewUpdates` is the whole `getUpdates` exchange, because it runs an
`io_context` to its end on the saver's thread; it may learn any set of chats,
whatever went wrong. Ids are numbers a chat counts up when it moves
(`ChatMoves`); what is learnt is the current id. A row of `tg_id_cache` is the
id of its chat (a unique index), its key in memory is only 0 or not. The
queue is a channel (`WaitableContainer` has its steps), and a message that lacks
a field throws before it is appended.

`EventLog` is the saver without chats, tables and connection: events wait, each is
noticed in turn and then due, and it is put down, with its row if it is of a kind
that has one, before the next is noticed. An order or a balance without a row needs
a failure of the connection; the end of the process costs the events that wait and
the row that is due. The refinement takes the item whose chat is being looked up as
the first of those that wait, and an item as due from `Notify` on.

What the model showed beside its properties: an id learnt by `getUpdates` keeps
`database_id` 0 in memory, so that later look-ups insert the row again, the index
refuses it, and the row keeps the first id; a `CREATE TABLE` that fails is not
tried again before the process restarts, because the alias is remembered, and
every row of that account is lost until then. `CacheAgrees` and
`RowsLostByFailuresOnly` state what remains true.

### HttpSession

A connection has a number, its session the operation it waits for. `Pruned` and
`OnConnectionAccepted` are the acceptor, on a strand of its own; the completions
(`OnHeaderRead`, ...) are the session's. What is on the wire is a sequence
of requests; `http_read_data` empties the buffer before every request, so what was
read ahead is lost, and the rest of a request whose beginning is lost (0) does
not parse. `TimeOut` closes the socket while the handler is still to run; the
acceptor then frees a session whose handler holds a raw `this`, and the handler
may end the process (`OrphanRuns`). The 5 minutes are not counted: they may be
over at any time, and are over in the end when nothing else happens. The server's
list is a set (its order does not matter). What a request asks for is
`RequestTarget`, what `/upload` does is `HostSync`.

`Dialogue` is a session without sockets, buffers and prunes: it is new, idle, busy
with a request or over; it reads forward, answers what it has read before it reads
again, and when it is over nothing is read or answered any more. A client asks when
it likes, or (unless it is one of the hasty) when all it asked for was answered. The
refinement takes a session as over from when its socket is closed, the answer that
closes it is under way or no handler follows.

Shown beside the properties: a client that does not wait for its answers may miss
some, and an answer that cannot be written leaves a socket that no prune finds.

### TextHelpers and RequestTarget

Texts are sequences of bytes and the operators return what the functions return,
the two bytes that `decode_url` reads behind a cut escape included (`beyond`: what
lies there in memory). Both loops are `Pieces`: at a position of the text, the
piece that is appended and the position the loop goes on at. `split_string_view`
is for one character, as the code uses it; `Find` is `str.find`, with the place
behind the text for `npos`. `Emplaced` is one turn of the loop over the parts of a
query, with `emplace`, which keeps the value a key has. `handle_requests` decodes the target before it splits it, so an encoded `?`
or `&` delimits as well; an empty target is the index, `?x` is not found.
`RequestTarget` has no behaviour of its own: a client writes a target byte by
byte, and the properties compare, for every target so far, what the operators
return with reference definitions. Its endpoints are `/` and `//`, which
stands for `/upload` (a longer name only lengthens the targets).
`MCOrdersSaver` names its tables with `get_alphanum_tablename`.

## 3. Runs

| Run | Checks | Instance | Result |
|---|---|---|---|
| `HostSyncMirror` | `TypeOK`, `OneStreamPerAccount`, `ImplementsMirror`, `EventuallyMirrored` | 2 accounts, 2 groups, any table at the start, 2 edits, 1 failed read, 1 restart | holds |
| `HostSyncUpload` | `RowsServed`, `ChangesFindStreams`, `EventuallyServed` | 2 accounts, 1 group, 1 session, 3 edits or uploads, 1 failed read, 1 restart | holds |
| `HostSyncUploadTwice` | `OneStreamPerAccount` | 1 session, 1 edit or upload | violated |
| `ContainerFifo` | `TypeOK`, `NoLostWakeup`, `ImplementsChannel`, `EventuallyTaken` | 2 producers of 3 items, lists of 0 to 2, 2 consumers | holds |
| `StreamLife` | `TypeOK`, `ChainOwnsItsObjects`, `KeyRenewedInTime`, `AlwaysBack`, `StopSettles` | 1 set-up failure, 3 losses, 1 failed renewal, a stop | holds |
| `StreamGivesUp` | `NeverGivesUp` | 1 set-up failure, 1 loss, no stop | violated |
| `PriceStream` | `TypeOK`, `ChainOwnsItsObjects`, `AllOrNothing`, `PricesMoveForward`, `AlwaysBack`, `EventuallyPriced` | 1 instrument in 2 spellings, 3 messages of 0 to 2 elements, 1 set-up failure, 2 losses | holds |
| `SenderPool` | `TypeOK`, `OnceAndInOrder`, `ImplementsLines`, `DequesDrain` | 4 payloads, limit 2, pruning above 1, 2 failures | holds |
| `SenderStrands` | `EventuallyDelivered` | 2 payloads, no failure | violated |
| `OrdersSaver` | `TypeOK`, `NothingSkipped`, `RowsLostByFailuresOnly`, `CacheAgrees`, `ImplementsLog`, `WorkedOff`, `ComesBack` | 1 account, 2 chats, 2 events, positions of 0 to 2 balances, 1 chat that moves once, 1 loss of the connection or end of the process | holds |
| `HttpSession` | `TypeOK`, `OrphansTimedOut`, `LeaksUnwritten`, `ImplementsDialogue`, `ConnectionsEnd` | a client that pipelines and one that waits, 3 requests each, pruning above 0, 2 resets | holds |
| `RequestTarget` | `DecodingInverts`, `RoutedByPath` | every target of 5 bytes and every query of `/` of 5 bytes, of delimiters, `%` and digits, before two ends of the buffer | holds |

Bounds. Two accounts are enough for the synchronisation because a change only
concerns one and the others matter as "another element of the vector or queue";
from every table, two edits let a row appear and disappear, or change and
disappear, or go and come back, while an earlier change is queued. In the container two producers and two consumers allow a list to
interleave with a single append and a wake-up to reach the wrong thread. Three
losses of a stream let a loss of each kind follow one of each kind; the key's age
needs no bound but its end, at 2 half hours. Three messages allow one in the
queue, one held by the saver and one kept, from both sides of a lost websocket;
two elements let a malformed one follow a good one. Four payloads
with a limit of 2 (20 in the code) fill a sender, start a second and a third, and
prune above 1 (3 in the code). Two events let one be in hand while another is
queued, with a failure between any two statements; two chats let a look-up learn
one and not the other, and be cut in the middle of its writes; more events or
accounts only lengthen the queue (the theorems are about any number). Two
connections let the acceptor prune one while it accepts the other (above 0: 20 in
the code), three requests let one be lost between two that are read. Five bytes
hold two escapes that overlap, a path with two keys, or a key twice.
`CHECK_DEADLOCK FALSE` is set where the modelled part really comes to rest: a
stream that was stopped or has given up, senders that have nothing left to send,
a price stream whose exchange pushes nothing more, events and connections that
are used up, a target that is complete.

Fairness. Threads that loop for ever (main's launch, monitor, launcher, saver)
are weakly fair, and so are the completions of asynchronous operations, which
all carry a timeout except the look-up of names, and the supervisor's restart.
The keep-busy thread is fair as the loop it is, and so is the time-out of a
session, without which a client that says nothing would keep it for ever.
Nothing that the environment does (edits, failures, close frames, messages, the
passing of half an hour, stops) is fair, nor are the exchanges that renew a key. The consumer of a container is strongly fair: it
competes for the mutex with producers that may append empty lists for ever, and
nothing in the code gives it its turn. That is an assumption about the mutex; what
`EventuallyTaken` shows is that no wake-up is missing.
Edits, faults and restarts are bounded, which is what "once they are over" means
in `EventuallyMirrored` and `EventuallyServed`.

## 4. Findings

Each is a run that TLC refutes, with the quotation in `PROJECT.json`:

1. an uploaded row is queued by the upload and by the monitor: two streams, every
   order notified twice, and the second survives the removal of its row
   (`HostSyncUploadTwice`);
2. an error before the first read leaves the account unwatched
   (`StreamGivesUp`);
3. a notification added to a sender that has just completed is never sent
   (`SenderStrands`).

## 5. Proofs

`WaitableContainerProofs`. `NoLostWakeup` is not inductive: it needs that a thread
inside its critical section holds the mutex (`HolderInv`) and that the deque is
empty still when a thread that found it so goes to sleep (`EmptyInv`). `ListInv`
says what a list is that waits for the mutex: the next items of its producer.
`Inv` is all of these, and `InvStep` has one lemma per action. `ContainerIsFifo` maps
`LockGuard` to `Put` (`PutWhenLocked`: the history grows by the whole list),
`PopFront` to `Take` (`TakeWhenPopped`: the head moves from the deque to what was
delivered) and all else to a stutter; for `Insert` (`UnseenInsert`) an element moves
from what is still to be inserted to the end of the deque, and `MoveHead` and
`CutBehind` show that the history stays. Both hold for any sets of threads, lists
of any length and any bounds.

`HostSyncProofs`. `Typing` proves the types and that a loop of the monitor only
has rows of its list to visit, with no assumption. `Following` assumes
`Sessions = {}` and `CleanStart` (uploads and a torn start-up refute it, see
sections 2 and 4) and proves, for any accounts, groups and bounds, `OneStreamPerAccount`,
`ChangesApply` and `LauncherFollowsMonitor` (`EveryChangeApplies` and
`LauncherIsBehindByTheQueue` name the last two). None of them is inductive: the
invariant `SyncInv` adds what holds during start-up (`StartupInv`: nothing is
queued, and main's rows are those the monitor remembers, each launched or still
to be launched) and says for every account what the launcher will listen to
once the queue is worked off (`FollowInv`). `ListeningAfter(a, n, g)` is the
common currency: it asks for the last of the first n queued changes that
concerns `a`, or the vector when there is none. Appending a change for `a`
changes the answer for `a` alone (`AppendView`); the launcher's step changes the
vector and shortens the queue but no answer (`LauncherView`); and
`ChangesApply` gives it that the entry it applies finds the vector as
expected, which also keeps accounts unique.

`RowsKeepTheirStreams` and `NoChangeIsDropped` are about any number of uploads
and assume `CleanStart` alone. Their invariant, `KeptInv`, has `RowsServed` and
`ChangesFindStreams` for what is queued, the same for start-up, where main has
yet to launch some of the rows (`ServedStartupInv`), and that what an upload has
collected are new rows (`UploadsAdd`), which is why the list it appends, wherever
the monitor is, removes nothing. The queue's end and its front have one lemma
each: what is appended for another account, or adds a stream, serves everybody it
served before; what the launcher takes off serves as a stream of the vector what
it served as an entry.

`MirrorsTheRows` proves that every step of `HostSync` is one of `RowMirror` or
changes nothing of it, under the assumptions of `Following`, whose invariant it
uses: `ChangesApply` is why `find_if` finds what `Apply` changes, and
`OneStreamPerAccount` why the first stream found is the only one. `Restart` and
the monitor's first read are where the rows are the table's.

`UserDataStreamProofs`. `OneChainAtWork` (one chain, and its objects there)
and `RenewedInTime` follow from `StreamInv`, for any number of failures, losses and renewals.
`ChainInv` is the argument why a connection that is severed twice does not run
twice: before the websocket is open one handler is pending and nothing else at
all, because the 10 s retry lets everything run that the last websocket left
behind; the websocket is read or its aborted read is pending, never both; and
while it is read a half-hourly handler is under way. `RenewalInv` adds that a
key which has aged is about to be renewed. The half-hourly handlers are treated
by one lemma (`ListenMoves`), the set-up by two (`SetupMoves` before, `SetupInv`
after a step).

`MarketDataStreamProofs`. `OneChainAtWork` is inductive with the types of
`pending` and `engaged`: each handler leaves the optionals of the next engaged.
`WholeMessages` and `PricesGetNewer` rest on `PriceInv`: the kept price, the one
the saver holds, the queue from its front on and the number of messages form an
ascending sequence (`OrderInv`), which an append keeps at its end and the saver
at its front, and no refused message is in it.

`HttpSessionProofs`. `FreedAfterTimeOut` and `LeakedByFailedWrites` follow from
`SessionInv`, in which both are conjuncts beside what a connection that is yet to
come looks like; each operation changes one session (`OneSession`), accepting
prunes (`AcceptKeepsSessions`). `AnswersFollowRequests` rests on `OrderInv`, one
predicate per client: `Wire` (requests on the wire ascend, behind the last that
was read, up to the last that was sent; rests of requests may stand between) and
`Order` (answers ascend up to the request in hand; a client that waits has at
most one request that is not answered, and it is either on the wire or in hand).
Reading, losing what was read ahead, sending and answering have one lemma each.

`SessionsAreDialogues` maps `OnConnectionAccepted` to `Comes`, `ClientSends` to `Asks`,
`OnHeaderRead` to `Reads`, `OnDataWritten` to `Answers`, and what closes a socket, fails
or times out to `Ends`, or to nothing when the dialogue is over already (`PhaseEnds`).
`OrderInv` gives it that the request on the wire is behind the last that was read and
has been asked for, and that a client that waits asks when all was answered;
`SessionInv` that an orphan's socket is closed, so that whatever its handler does no
dialogue goes on.

`OrdersSaverProofs`. `Flow` relates the items that were handled, the rows, the
items ahead of the saver and the two numbers that delimit the process: what was
handled ascends, what is ahead continues it without a gap, rows are of handled
items. `InHand` adds that the row of the item in hand has not been inserted,
which is what keeps rows in order. `HandledInTurn` and `RowsComeLater` follow.
`RowsMissingAfterFailures` adds `RowsInv`: until the connection fails a
statement, the tables of a remembered alias are there or the next statements
create them. `MapMeetsTable` adds `CacheInv`, the agreement of the map and the
table entry by entry while the entries are written. All hold for any accounts,
chats, events, failures and deaths.

`SaverKeepsALog` maps every step to one of `EventLog` or a stutter: what the streams
append to `Arrive` (events of one kind, numbered on), `Notify` to `Notice`, wherever
it was called from, the last step of an item to `PutDown`, a statement that fails
before that to `Fail` and the end of the process to `Ends`. `FlowInv` gives it that
there is an item in hand wherever one is due; `RowsInv` that a table is only missing
when a statement has failed, without which a row that is not written would not be a
step of `EventLog`. `ShortsBehind`, `ShortsFirst` and `RowsAppended` carry the
appends, heads and tails of the sequences through the mapping.

`TelegramSenderProofs`. `DequesWithinLimit` follows from `PoolInv`: only the
saver lengthens a deque, so what it found to be below the limit still is when it
adds; senders are born in the order of their ids, so a new one is empty.
`DeliveredOnceInOrder` and `OneLossPerFault` follow from `PlacesInv`: what each
sender holds is ascending with the request under way first (`Line`), the senders
hold disjoint sets of notifications, of which none is delivered and each is
behind those its sender has delivered; and what is neither held nor delivered are
at most as many as there were failures (`Places`). The rigid lemmas `PlacesAdd`,
`PlacesDeliver`, `PlacesLose` and `PlacesLater` are the four things that can
happen to this account, `LineAppend`, `LineShift` and `LineDrop` those that can
happen to one sender; every action is one of them. `EventuallyDelivered` is
refuted all the same: a notification can wait for ever in the deque of a sender
that has completed.

`SendersAreLossyLines` maps every step to one of `LossyLines` or a stutter: the
saver's `AddPayload` and `StartSender` to `Enter`, `PopEmpty` and taking a request
to nothing (the request is still in front of its line), the answer to `Deliver`,
a failed exchange to `Deliver` when the message had been taken and to `GiveUp`
otherwise, and every other failure to `Trouble`. `PoolInv` is all it needs: a line
has room for what its deque had room for, a new sender's line is empty, and a
request is under way just in the stages of an exchange.

`RequestTargetProofs` is about targets of every length over every alphabet, with
any endpoints and anything behind the target in memory. The loops of the code
are recursive functions on positions. That such a function has the value its
definition says is `LoopEnds`, and what a loop does is shown from the end of the
text backwards. Induction theorems that take a predicate cannot be instantiated
by the provers, but those that take a set can: `Induction` and `Backwards` follow
from the least element of a set of numbers (`MinOfNaturals`), which the library's
`WFMin` gives. `DecodingInvertsEncoding` rests on `DecodesEncoding` (one encoded
byte is one turn of the loop), and on `EndUnread`: the bytes behind the text
do not show in the result when no escape is cut off; `EscapesFound` shows that the set
of escapes that the reference chooses exists. `RequestsGoByPath` goes through
`split_string_view`: `QueryParts` finds the parts of a query at the starts of the
reference, `KeyAndValue` splits one part, `QueryMap` follows the map through the
loop and finds the first value of each key, `PathAndQuery` cuts the target.

`ChangesApply`, `LauncherFollowsMonitor`, `WithinLimit`, `LossPerFault`,
`RowsFollowNotices` and `AnswersInOrder` are proved and have no run of their own: what
`ImplementsMirror` (beside `OneStreamPerAccount`), `ImplementsLines`, `ImplementsLog` and
`ImplementsDialogue` check says as much of queues, vectors, losses, rows and answers, and
follows each change, notification, event and request besides. Only the limit
is looser there: a line may be full without a request under way.

Assumptions on constants. All that the theorems assume of the constants are the
named `ASSUME`s of the modules (numbers and sets, and that the bounds are numbers),
which TLC evaluates, and in `HostSyncProofs` `CleanStart = TRUE` and, where
stated, `Sessions = {}`. Both are values that the runs give them.

Only model-checked: every liveness property (fairness and `ENABLED` are beyond
the prover). Every invariant, action property and refinement of the passing runs
is proved; those of `HostSync` that uploads refute (`HostSyncUploadTwice`) for no
uploads, and all but its types for a clean start, the case of a torn start-up
being refuted as well (section 2). No module uses a `RECURSIVE` operator.

## 6. Plan

Done: the modules of section 2, in the order container, host synchronisation,
user data stream, market stream, senders, saver with cache and connector,
sessions, text helpers, a proof module for each, and an abstract specification
refined by each of the container, the synchronisation, the senders, the saver and the
sessions. What is left, in the order of its worth:

1. a composition of `OrdersSaver` with `TelegramSender` as one behaviour (now: the
   payloads of the second are the hand-overs of the first), and of `HttpSession`
   with the uploads of `HostSync`;
2. several `io_context` threads on one stream, below the granularity of a handler.

Not modelled and not planned: JSON parsing, TLS, DNS and HTTP framing (Boost and
OpenSSL), log and message texts, the bodies of answers, HMAC and base64 and the
static pool allocator (neither program uses them), reading the configuration and
the command line, build files and vendored libraries. Of the database, the SQL
itself: a statement is what it changes.
