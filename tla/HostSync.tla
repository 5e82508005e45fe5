------------------------------ MODULE HostSync ------------------------------
(***************************************************************************)
(* How binance_orders keeps one user-data stream per row of the `hosts'    *)
(* table.  Four actors touch the same list of accounts:                    *)
(*                                                                         *)
(*   main      launches a stream for every row found at start-up;          *)
(*   monitor   polls the table every 10 s, compares it with the rows it    *)
(*             saw last, and queues the differences;                       *)
(*   sessions  (HTTP) insert uploaded rows and queue them themselves;      *)
(*   launcher  takes the queued changes and edits the `websocks' vector.   *)
(*                                                                         *)
(* The table is also edited by hand, reads of it may fail half way, and    *)
(* the process may die and be restarted by its supervisor.                 *)
(*                                                                         *)
(* An account stands for the triple (alias, api_key, secret_key) on which  *)
(* host_info_t's operator== compares; the telegram group is the only       *)
(* other field.  A row set is a function that maps the accounts without a  *)
(* row to NoRow.                                                           *)
(***************************************************************************)
EXTENDS Naturals, Sequences, SequencesExt

CONSTANTS Accounts, Groups, NoRow,
          Sessions,      \* HTTP sessions that may serve POST /upload
          CleanStart,    \* TRUE: both start-up reads succeed and see one table
          MaxEdits,      \* bound: row changes made by hand or by upload
          MaxFaults,     \* bound: reads of the table that fail
          MaxRestarts    \* bound: restarts of the process

ASSUME HostSyncAssumption ==
    /\ NoRow \notin Groups
    /\ CleanStart \in BOOLEAN
    /\ MaxEdits \in Nat /\ MaxFaults \in Nat /\ MaxRestarts \in Nat

VARIABLES
    hosts,            \* the table
    host_container,   \* request_handler_t::host_container_
    websocks,         \* the launcher's vector of streams
    mainPc, toLaunch, \* main: where it is, the rows it has yet to launch
    monitorPc, previous_hosts, new_hosts, todo,  \* the monitor's locals
    uploaded,         \* per session: rows inserted and not yet queued
    edits, faults, restarts

mainVars    == <<mainPc, toLaunch>>
monitorVars == <<monitorPc, previous_hosts, new_hosts, todo>>
bounds      == <<edits, faults, restarts>>
vars == <<hosts, host_container, websocks, mainVars, monitorVars, uploaded,
          bounds>>

-----------------------------------------------------------------------------
RowSet == [Accounts -> Groups \cup {NoRow}]
NoRows == [a \in Accounts |-> NoRow]
Rows(table) == {a \in Accounts : table[a] # NoRow}

Stream == [acct : Accounts, group : Groups]
Change == [acct : Accounts, group : Groups,
           changes : {"no_changes", "host_removed", "tg_group_changed"}]

HostInfo(a, g, c) == [acct |-> a, group |-> g, changes |-> c]

\* SELECT ... FROM hosts when only the rows of `fetched' arrive: an exception
\* of the driver ends the loop and the rows read so far are returned.
Fetched(fetched) == [a \in Accounts |-> IF a \in fetched THEN hosts[a] ELSE NoRow]

\* `result' is what get_available_hosts returns now.
GetAvailableHosts(result) ==
    \/ /\ result = hosts
       /\ UNCHANGED faults
    \/ /\ faults < MaxFaults
       /\ faults' = faults + 1
       /\ \E fetched \in SUBSET Rows(hosts) : result = Fetched(fetched)

BothRead == mainPc # "start" /\ monitorPc # "start"

\* A start-up read: a clean start excludes the failing ones.
StartupRead(result) ==
    /\ GetAvailableHosts(result)
    /\ CleanStart => result = hosts /\ faults' = faults

\* Whoever changes the table waits for both start-up reads of a clean start.
TableOpen == CleanStart => BothRead

-----------------------------------------------------------------------------
\* main: read the rows once, then one stream per row.
LaunchPreviousHosts ==
    /\ mainPc = "start"
    /\ mainPc' = "launching"
    /\ toLaunch' \in RowSet
    /\ StartupRead(toLaunch')
    /\ UNCHANGED <<hosts, host_container, websocks, monitorVars, uploaded,
                   edits, restarts>>

LaunchHost(a) ==
    /\ mainPc = "launching"
    /\ toLaunch[a] # NoRow
    /\ websocks' = Append(websocks, [acct |-> a, group |-> toLaunch[a]])
    /\ toLaunch' = [toLaunch EXCEPT ![a] = NoRow]
    /\ UNCHANGED <<hosts, host_container, mainPc, monitorVars, uploaded, bounds>>

\* io_context.run(), at the end of launch_websocket_listeners (of main when the
\* table was empty): from here on main serves handlers.
RunIoContext ==
    /\ mainPc = "launching"
    /\ toLaunch = NoRows
    /\ mainPc' = "running"
    /\ UNCHANGED <<hosts, host_container, websocks, toLaunch, monitorVars,
                   uploaded, bounds>>

-----------------------------------------------------------------------------
\* monitor_database_host_table_changes: the read before the loop.
MonitorStart ==
    /\ monitorPc = "start"
    /\ monitorPc' = "asleep"
    /\ previous_hosts' \in RowSet
    /\ StartupRead(previous_hosts')
    /\ UNCHANGED <<hosts, host_container, websocks, mainVars, new_hosts, todo,
                   uploaded, edits, restarts>>

\* Mutant: the rows remembered are overwritten before they are compared.
MonitorPollOverwrites ==
    /\ monitorPc = "asleep"
    /\ mainPc = "running"
    /\ monitorPc' = "adding"
    /\ new_hosts' \in RowSet
    /\ GetAvailableHosts(new_hosts')
    /\ todo' = Rows(new_hosts')
    /\ previous_hosts' = new_hosts'
    /\ UNCHANGED <<hosts, host_container, websocks, mainVars, uploaded, edits,
                   restarts>>

\* One turn of the loop begins 10 s later, when main has launched its rows.
MonitorPoll ==
    /\ monitorPc = "asleep"
    /\ mainPc = "running"
    /\ monitorPc' = "adding"
    /\ new_hosts' \in RowSet
    /\ GetAvailableHosts(new_hosts')
    /\ todo' = Rows(new_hosts')
    /\ UNCHANGED <<hosts, host_container, websocks, mainVars, previous_hosts,
                   uploaded, edits, restarts>>

\* Mutant: a new row is queued but not remembered (no push_back).
MonitorVisitNewForgets(a) ==
    /\ monitorPc = "adding"
    /\ a \in todo
    /\ todo' = todo \ {a}
    /\ \/ /\ previous_hosts[a] = NoRow
          /\ host_container' = Append(host_container,
                                      HostInfo(a, new_hosts[a], "no_changes"))
       \/ /\ previous_hosts[a] # NoRow
          /\ UNCHANGED host_container
    /\ UNCHANGED <<hosts, websocks, mainVars, monitorPc, previous_hosts,
                   new_hosts, uploaded, bounds>>

\* First loop: a row not seen before is new, one seen with another group has
\* changed (the alias is part of the account, so it never differs here).
MonitorVisitNew(a) ==
    /\ monitorPc = "adding"
    /\ a \in todo
    /\ todo' = todo \ {a}
    /\ previous_hosts' = [previous_hosts EXCEPT ![a] = new_hosts[a]]
    /\ \/ /\ previous_hosts[a] = NoRow
          /\ host_container' = Append(host_container,
                                      HostInfo(a, new_hosts[a], "no_changes"))
       \/ /\ previous_hosts[a] \notin {NoRow, new_hosts[a]}
          /\ host_container' = Append(host_container,
                                      HostInfo(a, new_hosts[a], "tg_group_changed"))
       \/ /\ previous_hosts[a] = new_hosts[a]
          /\ UNCHANGED host_container
    /\ UNCHANGED <<hosts, websocks, mainVars, monitorPc, new_hosts, uploaded,
                   bounds>>

\* Mutant: the second loop also visits elements it erased earlier.
MonitorSecondLoopErased ==
    /\ monitorPc = "adding"
    /\ todo = {}
    /\ monitorPc' = "removing"
    /\ todo' = Accounts
    /\ UNCHANGED <<hosts, host_container, websocks, mainVars, previous_hosts,
                   new_hosts, uploaded, bounds>>

MonitorSecondLoop ==
    /\ monitorPc = "adding"
    /\ todo = {}
    /\ monitorPc' = "removing"
    /\ todo' = Rows(previous_hosts)
    /\ UNCHANGED <<hosts, host_container, websocks, mainVars, previous_hosts,
                   new_hosts, uploaded, bounds>>

\* Mutant: a removed row is queued but still remembered (no erase).
MonitorVisitOldKeeps(a) ==
    /\ monitorPc = "removing"
    /\ a \in todo
    /\ todo' = todo \ {a}
    /\ IF new_hosts[a] = NoRow
       THEN host_container' = Append(host_container,
                                     HostInfo(a, previous_hosts[a], "host_removed"))
       ELSE UNCHANGED host_container
    /\ UNCHANGED <<hosts, websocks, mainVars, monitorPc, previous_hosts,
                   new_hosts, uploaded, bounds>>

\* Second loop: a row seen before and missing now is taken for removed.
MonitorVisitOld(a) ==
    /\ monitorPc = "removing"
    /\ a \in todo
    /\ todo' = todo \ {a}
    /\ \/ /\ new_hosts[a] = NoRow
          /\ host_container' = Append(host_container,
                                      HostInfo(a, previous_hosts[a], "host_removed"))
          /\ previous_hosts' = [previous_hosts EXCEPT ![a] = NoRow]
       \/ /\ new_hosts[a] # NoRow
          /\ UNCHANGED <<host_container, previous_hosts>>
    /\ UNCHANGED <<hosts, websocks, mainVars, monitorPc, new_hosts, uploaded,
                   bounds>>

MonitorSleep ==
    /\ monitorPc = "removing"
    /\ todo = {}
    /\ monitorPc' = "asleep"
    /\ new_hosts' = NoRows
    /\ UNCHANGED <<hosts, host_container, websocks, mainVars, previous_hosts,
                   todo, uploaded, bounds>>

-----------------------------------------------------------------------------
\* The position of the first stream of account a, 0 when it has none.
FindStream(a) == SelectInSeq(websocks, LAMBDA w : w.acct = a)

\* Mutant: a stream keeps its telegram group when the row changes it.
ProcessHostChangesKeepsGroup(host) ==
    LET found == FindStream(host.acct) IN
    \/ /\ host.changes = "no_changes"
       /\ websocks' = Append(websocks, [acct |-> host.acct, group |-> host.group])
    \/ /\ host.changes = "host_removed"
       /\ websocks' = IF found = 0 THEN websocks ELSE RemoveAt(websocks, found)
    \/ /\ host.changes = "tg_group_changed"
       /\ UNCHANGED websocks

\* process_host_changes on the vector of streams.
ProcessHostChanges(host) ==
    LET found == FindStream(host.acct) IN
    \/ /\ host.changes = "no_changes"
       /\ websocks' = Append(websocks, [acct |-> host.acct, group |-> host.group])
    \/ /\ host.changes = "host_removed"
       /\ websocks' = IF found = 0 THEN websocks ELSE RemoveAt(websocks, found)
    \/ /\ host.changes = "tg_group_changed"
       /\ websocks' = IF found = 0 THEN websocks
                      ELSE [websocks EXCEPT ![found].group = host.group]

\* websock_launcher: host_container.get() and the change it asks for.
Launcher ==
    /\ host_container # <<>>
    /\ host_container' = Tail(host_container)
    /\ ProcessHostChanges(Head(host_container))
    /\ UNCHANGED <<hosts, mainVars, monitorVars, uploaded, bounds>>

-----------------------------------------------------------------------------
\* upload_handler, one element of the JSON array: the row is inserted and kept
\* for the queue; the insertion of an account that has a row is refused (and
\* only listed in the reply).
UploadItem(s, a, g) ==
    /\ mainPc = "running" /\ TableOpen
    /\ edits < MaxEdits
    /\ hosts[a] = NoRow
    /\ hosts' = [hosts EXCEPT ![a] = g]
    /\ uploaded' = [uploaded EXCEPT ![s] = Append(@, HostInfo(a, g, "no_changes"))]
    /\ edits' = edits + 1
    /\ UNCHANGED <<host_container, websocks, mainVars, monitorVars, faults,
                   restarts>>

\* The end of the array: the rows inserted are queued together.
UploadQueue(s) ==
    /\ uploaded[s] # <<>>
    /\ host_container' = host_container \o uploaded[s]
    /\ uploaded' = [uploaded EXCEPT ![s] = <<>>]
    /\ UNCHANGED <<hosts, websocks, mainVars, monitorVars, bounds>>

\* A later element is malformed: 400, nothing is queued, the rows stay.
UploadReject(s) ==
    /\ uploaded[s] # <<>>
    /\ uploaded' = [uploaded EXCEPT ![s] = <<>>]
    /\ UNCHANGED <<hosts, host_container, websocks, mainVars, monitorVars, bounds>>

-----------------------------------------------------------------------------
\* Somebody edits the table: a row appears, changes its group, or disappears.
EditTable(a, g) ==
    /\ TableOpen
    /\ edits < MaxEdits
    /\ hosts[a] # g
    /\ hosts' = [hosts EXCEPT ![a] = g]
    /\ edits' = edits + 1
    /\ UNCHANGED <<host_container, websocks, mainVars, monitorVars, uploaded,
                   faults, restarts>>

\* The process dies and supervisord starts it again: only the table survives.
Restart ==
    /\ restarts < MaxRestarts
    /\ restarts' = restarts + 1
    /\ host_container' = <<>> /\ websocks' = <<>>
    /\ mainPc' = "start" /\ toLaunch' = NoRows
    /\ monitorPc' = "start" /\ previous_hosts' = NoRows
    /\ new_hosts' = NoRows /\ todo' = {}
    /\ uploaded' = [s \in Sessions |-> <<>>]
    /\ UNCHANGED <<hosts, edits, faults>>

Init ==
    /\ hosts \in RowSet
    /\ host_container = <<>> /\ websocks = <<>>
    /\ mainPc = "start" /\ toLaunch = NoRows
    /\ monitorPc = "start" /\ previous_hosts = NoRows
    /\ new_hosts = NoRows /\ todo = {}
    /\ uploaded = [s \in Sessions |-> <<>>]
    /\ edits = 0 /\ faults = 0 /\ restarts = 0

Main == LaunchPreviousHosts \/ RunIoContext \/ \E a \in Accounts : LaunchHost(a)

Monitor ==
    \/ MonitorStart \/ MonitorPoll \/ MonitorSecondLoop \/ MonitorSleep
    \/ \E a \in Accounts : MonitorVisitNew(a) \/ MonitorVisitOld(a)

Upload ==
    \E s \in Sessions :
        \/ \E a \in Accounts, g \in Groups : UploadItem(s, a, g)
        \/ UploadQueue(s) \/ UploadReject(s)

Next ==
    \/ Main \/ Monitor \/ Launcher \/ Upload \/ Restart
    \/ \E a \in Accounts, g \in Groups \cup {NoRow} : EditTable(a, g)

Spec == Init /\ [][Next]_vars

\* main, the monitor and the launcher are threads that never stop; an upload
\* that was started is answered one way or the other.
Fairness ==
    /\ WF_vars(Main) /\ WF_vars(Monitor) /\ WF_vars(Launcher)
    /\ \A s \in Sessions : WF_vars(UploadQueue(s) \/ UploadReject(s))

FairSpec == Spec /\ Fairness
-----------------------------------------------------------------------------
(***************************************************************************)
(* Properties.                                                             *)
(***************************************************************************)
TypeOK ==
    /\ hosts \in RowSet
    /\ host_container \in Seq(Change)
    /\ websocks \in Seq(Stream)
    /\ mainPc \in {"start", "launching", "running"}
    /\ toLaunch \in RowSet
    /\ monitorPc \in {"start", "asleep", "adding", "removing"}
    /\ previous_hosts \in RowSet
    /\ new_hosts \in RowSet
    /\ todo \in SUBSET Accounts
    /\ uploaded \in [Sessions -> Seq(Change)]
    /\ edits \in Nat /\ faults \in Nat /\ restarts \in Nat

\* What a queued change leaves of its account.
Outcome(host) == IF host.changes = "host_removed" THEN NoRow ELSE host.group

\* The group under which the launcher's vector listens to account a.
Listening(a, g) ==
    IF g = NoRow THEN \A k \in DOMAIN websocks : websocks[k].acct # a
                 ELSE \E k \in DOMAIN websocks : websocks[k] = [acct |-> a, group |-> g]

\* The launcher will listen to account a under g (NoRow: not at all) once it
\* has worked off the first n entries of the queue.
ListeningAfter(a, n, g) ==
    \/ \E j \in 1..n : /\ host_container[j].acct = a
                        /\ Outcome(host_container[j]) = g
                        /\ \A k \in (j + 1)..n : host_container[k].acct # a
    \/ /\ Listening(a, g)
       /\ \A k \in 1..n : host_container[k].acct # a

\* No account has two streams: process_host_changes (background_threads.cpp
\* 34-58) edits only the first one it finds, so a second one would duplicate
\* every order and outlive its row.
OneStreamPerAccount ==
    \A j, k \in DOMAIN websocks : websocks[j].acct = websocks[k].acct => j = k

\* When its turn comes, every queued change finds the vector as the monitor
\* thought it would: an addition finds no stream, a removal or a change of
\* group finds one (so the find_if at :43-47 never silently drops a change).
ChangesApply ==
    \A n \in DOMAIN host_container, a \in Accounts :
        host_container[n].acct = a =>
            \E g \in Groups \cup {NoRow} :
                /\ ListeningAfter(a, n - 1, g)
                /\ (host_container[n].changes = "no_changes") <=> (g = NoRow)

\* The launcher lags behind the monitor by exactly the queue: replaying the
\* queued changes gives the rows (with their groups) the monitor remembers,
\* whatever reads failed and however the threads interleaved.
LauncherFollowsMonitor ==
    BothRead /\ mainPc = "running" =>
        \A a \in Accounts :
            ListeningAfter(a, Len(host_container), previous_hosts[a])

HasStream(a) == \E k \in DOMAIN websocks : websocks[k].acct = a

\* Account a keeps a stream once the launcher has worked off the first n entries
\* of the queue, however many streams it has before: none of them removes the
\* stream it has, or one after the last removal adds it.
ServedAfter(a, n) ==
    \/ \E j \in 1..n :
           /\ host_container[j].acct = a /\ host_container[j].changes = "no_changes"
           /\ \A k \in (j + 1)..n : host_container[k].acct = a =>
                                       host_container[k].changes # "host_removed"
    \/ /\ HasStream(a)
       /\ \A k \in 1..n : host_container[k].acct = a =>
                              host_container[k].changes # "host_removed"

\* Uploads queue rows behind the monitor's back (session.cpp 215-219), and so an
\* account may have two streams; but every row the monitor remembers keeps one,
\* whatever uploads, edits, failed reads and restarts come in between.
RowsServed ==
    BothRead /\ mainPc = "running" =>
        \A a \in Rows(previous_hosts) : ServedAfter(a, Len(host_container))

\* Nor does an upload make the launcher drop a change (the find_if of
\* background_threads.cpp 43-47): a removal or a change of group finds a stream
\* of its account when its turn comes.
ChangesFindStreams ==
    \A n \in DOMAIN host_container :
        host_container[n].changes # "no_changes" =>
            ServedAfter(host_container[n].acct, n - 1)

\* The streams are a copy of the rows that lags behind (RowMirror): the rows are
\* those the monitor remembers, or will read; a vector with find_if is the copy;
\* the changes noticed are those in the queue.
MirrorRows == IF monitorPc = "start" THEN hosts ELSE previous_hosts

GroupOf(streams, a) ==
    LET found == SelectInSeq(streams, LAMBDA w : w.acct = a)
    IN  IF found = 0 THEN NoRow ELSE streams[found].group

Copy == [a \in Accounts |-> GroupOf(websocks, a)]

Waiting == CASE mainPc = "start"     -> Rows(MirrorRows)
             [] mainPc = "launching" -> Rows(toLaunch)
             [] mainPc = "running"   -> {}

Pending == [i \in DOMAIN host_container |->
               [acct  |-> host_container[i].acct,
                group |-> Outcome(host_container[i])]]

Mirror == INSTANCE RowMirror WITH
    rows <- MirrorRows, streams <- Copy, waiting <- Waiting, pending <- Pending

ImplementsMirror == Mirror!Spec

\* Once edits, faults and restarts are over, the streams are those of the
\* table, each with the telegram group of its row, and stay so.
Mirrored == \A a \in Accounts : Listening(a, hosts[a])
EventuallyMirrored == <>[]Mirrored

\* Uploads included: every row ends up with a stream, also the rows of a batch
\* refused half way (session.cpp 193-223), which only the monitor reports.
EventuallyServed == <>[](\A a \in Rows(hosts) : FindStream(a) # 0)
=============================================================================
