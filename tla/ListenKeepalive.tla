--------------------------- MODULE ListenKeepalive ---------------------------
(***************************************************************************)
(* listen_key_keepalive_t: one HTTPS exchange that asks the exchange to    *)
(* let a listen key live for another 60 minutes.  A user_data_stream_t     *)
(* owns the object, replaces it every 30 minutes and destroys it when its  *)
(* websocket is lost (see UserDataStream, which extends this module), also *)
(* in the middle of the exchange: the handlers hold nothing but `this'.    *)
(***************************************************************************)
EXTENDS Naturals

CONSTANT MaxRenewFaults    \* bound: renewals that fail

ASSUME ListenKeepaliveAssumption == MaxRenewFaults \in Nat

VARIABLES
    listen_key_keepalive_, \* "none", the operation the object waits for, or
                           \* "idle" when it waits for none
    orphan,        \* a handler will run whose object has been destroyed
    keyAge,        \* half hours since the key was issued or renewed; 2 is the
                   \* end of its life
    renewFaults

keepaliveVars == <<listen_key_keepalive_, orphan, keyAge, renewFaults>>

RenewOps == {"resolve", "connect", "ssl", "write", "read"}

\* The operation that the handler of each starts.
AfterOp == [resolve |-> "connect", connect |-> "ssl", ssl |-> "write", write |-> "read",
            read |-> "idle"]

\* A handler without an error: the next operation, after the last the key is
\* renewed (if the exchange says so: see RenewalFails).
RenewalProceeds ==
    /\ listen_key_keepalive_ \in RenewOps
    /\ listen_key_keepalive_' = AfterOp[listen_key_keepalive_]
    /\ keyAge' = IF listen_key_keepalive_ = "read" THEN 0 ELSE keyAge
    /\ UNCHANGED <<orphan, renewFaults>>

\* An error of any of them, which is logged, or an answer that refuses, which is
\* logged as well: the status is not looked at.
RenewalFails ==
    /\ listen_key_keepalive_ \in RenewOps
    /\ renewFaults < MaxRenewFaults
    /\ renewFaults' = renewFaults + 1
    /\ listen_key_keepalive_' = "idle"
    /\ UNCHANGED <<orphan, keyAge>>

\* The owner puts `next' in the object's place.  The operation under way is
\* cancelled and its handler only logs that, unless it had completed before.
Replace(next) ==
    /\ listen_key_keepalive_' = next
    /\ \/ UNCHANGED orphan
       \/ listen_key_keepalive_ \in RenewOps /\ orphan' = TRUE

KeepaliveInit ==
    /\ listen_key_keepalive_ = "none" /\ orphan = FALSE
    /\ keyAge = 0 /\ renewFaults = 0

KeepaliveTypeOK ==
    /\ listen_key_keepalive_ \in RenewOps \cup {"none", "idle"}
    /\ orphan \in BOOLEAN
    /\ keyAge \in 0 .. 2
    /\ renewFaults \in 0 .. MaxRenewFaults
=============================================================================
