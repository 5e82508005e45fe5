-------------------------- MODULE DatabaseConnector --------------------------
(***************************************************************************)
(* The one connection of binance_orders to MySQL.  Every query takes       *)
(* db_mutex_; the detached thread of keep_sql_server_busy takes nothing:   *)
(* it sends "select 1" every 15 minutes and, when that fails, logs off and *)
(* on again.  A query that fails is logged and given up: nothing but this  *)
(* thread makes the connection anew, and what it throws ends the process.  *)
(*                                                                         *)
(* A module that EXTENDS this one adds the threads that query.             *)
(***************************************************************************)
EXTENDS Naturals

CONSTANT MaxFaults   \* bound: connections dropped by the server, ends of the process

ASSUME DatabaseConnectorAssumption == MaxFaults \in Nat

VARIABLES
    process,      \* "up" or "down"
    connection,   \* "up", "broken" (dropped, and nobody knows), or "off"
    busyPc,       \* the thread: "asleep", "select", or "rlogon"
    raced,        \* a query has used the connection during the select
    faults

connectorVars == <<connection, busyPc, raced>>

-----------------------------------------------------------------------------
\* The end of the process, for whatever reason: the connection goes with it.
Dies ==
    /\ faults < MaxFaults
    /\ faults' = faults + 1
    /\ process' = "down"
    /\ connection' = "off" /\ busyPc' = "asleep" /\ raced' = FALSE

\* connect(), when the supervisor has started the process again: it logs on and
\* starts the thread.  (A log-on that fails ends main: the process stays down.)
Connect ==
    /\ process = "down"
    /\ process' = "up"
    /\ connection' = "up" /\ busyPc' = "asleep" /\ raced' = FALSE
    /\ UNCHANGED faults

ConnectionDrops ==
    /\ connection = "up" /\ faults < MaxFaults
    /\ connection' = "broken"
    /\ faults' = faults + 1
    /\ UNCHANGED <<process, busyPc, raced>>

-----------------------------------------------------------------------------
(* keep_sql_server_busy.                                                   *)

\* The sleep is over, or the thread has just begun: "select 1" is sent.
SelectBegins ==
    /\ process = "up" /\ busyPc = "asleep"
    /\ busyPc' = "select" /\ raced' = FALSE
    /\ UNCHANGED <<process, connection, faults>>

\* Mutant: an error is logged and waited out, the connection left as it is.
SelectEndsNoLogoff ==
    /\ process = "up" /\ busyPc = "select"
    /\ busyPc' = "asleep"
    /\ raced' = FALSE
    /\ UNCHANGED <<process, connection, faults>>

\* It fails when the connection is lost, and may fail when a query raced with
\* it, so that a connection that works is logged off.
SelectEnds ==
    /\ process = "up" /\ busyPc = "select"
    /\ \/ /\ connection = "up"
          /\ busyPc' = "asleep"
          /\ UNCHANGED connection
       \/ /\ connection = "broken" \/ raced
          /\ connection' = "off"
          /\ busyPc' = "rlogon"
    /\ raced' = FALSE
    /\ UNCHANGED <<process, faults>>

Rlogon ==
    /\ process = "up" /\ busyPc = "rlogon"
    /\ connection' = "up"
    /\ busyPc' = "asleep"
    /\ UNCHANGED <<process, raced, faults>>

\* logoff and rlogon are called in the catch block of a thread: what they throw
\* nobody catches.
Terminate ==
    /\ process = "up"
    /\ busyPc = "rlogon" \/ (busyPc = "select" /\ (connection = "broken" \/ raced))
    /\ Dies

KeepSqlServerBusy == SelectBegins \/ SelectEnds \/ Rlogon

-----------------------------------------------------------------------------
\* direct_exec or otl_stream under db_mutex_: the statement runs or throws an
\* otl_exception.  It throws without a connection, and may when it races.
Executes == connection = "up"
Throws   == connection # "up" \/ busyPc = "select"

\* What any statement does to the connection: the race is on.
Uses ==
    /\ raced' = (raced \/ busyPc = "select")
    /\ UNCHANGED <<process, connection, busyPc, faults>>

ConnectorInit ==
    /\ process = "up" /\ connection = "up"
    /\ busyPc = "asleep" /\ raced = FALSE
    /\ faults = 0

ConnectorTypeOK ==
    /\ process \in {"up", "down"}
    /\ connection \in {"up", "broken", "off"}
    /\ busyPc \in {"asleep", "select", "rlogon"}
    /\ raced \in BOOLEAN
    /\ faults \in 0 .. MaxFaults
=============================================================================
