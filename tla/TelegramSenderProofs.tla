------------------------ MODULE TelegramSenderProofs ------------------------
(* What the sender pool promises for every number of notifications, limits  *)
(* and failures.                                                            *)
EXTENDS TelegramSender, SequenceTheorems, FiniteSetTheorems, TLAPS

-----------------------------------------------------------------------------
(* Types, and how much a deque holds.                                      *)

Busy == {"write", "read"}

\* The senders are born in the order of their ids, each with a payload; the saver
\* only hands to one of the pool that had room when it was looked at.
PoolInv ==
    /\ saverPc # "idle" => handed < N
    /\ saverPc = "chosen" => at \in message_senders /\ Len(payloads_[at]) < Limit
    /\ \E k \in 0 .. handed :
           /\ \A s \in Senders : op[s] # "unborn" <=> s <= k
           /\ \A s \in message_senders : s <= k
    /\ \A s \in Senders : op[s] = "unborn" => payloads_[s] = <<>>
    /\ \A s \in Senders : request[s] # 0 <=> op[s] \in Busy
    /\ WithinLimit

LEMMA Born ==
    ASSUME NEW k \in 0 .. N, \A s \in Senders : op[s] # "unborn" <=> s <= k
    PROVE  Cardinality({x \in Senders : op[x] # "unborn"}) = k
<1>1. {x \in Senders : op[x] # "unborn"} = 1 .. k
  BY TelegramSenderAssumption DEF Senders
<1>2. k \in Nat
  BY TelegramSenderAssumption
<1>3. Cardinality(1 .. k) = k
  BY <1>2, FS_Interval
<1> QED BY <1>1, <1>3

\* A new sender has the next id, and is the only one that changes.
LEMMA NewSender ==
    ASSUME TypeOK, PoolInv, StartSender
    PROVE  \E s \in Senders :
               /\ op[s] = "unborn" /\ handed + 1 \in 1 .. N
               /\ message_senders' \subseteq message_senders \cup {s} /\ s \in message_senders'
               /\ op' = [op EXCEPT ![s] = "resolve"]
               /\ payloads_' = [payloads_ EXCEPT ![s] = <<handed + 1>>]
               /\ handed' = handed + 1
               /\ \A x \in Senders : op[x] # "unborn" <=> x < s
               /\ s <= handed + 1
<1> DEFINE s == Cardinality({x \in Senders : op[x] # "unborn"}) + 1
<1>1. PICK k \in 0 .. handed :
         /\ \A x \in Senders : op[x] # "unborn" <=> x <= k
         /\ \A x \in message_senders : x <= k
  BY DEF PoolInv
<1>2. handed \in 0 .. N /\ handed < N /\ N \in Nat
  BY TelegramSenderAssumption DEF TypeOK, PoolInv, StartSender
<1>3. s = k + 1
  BY <1>1, <1>2, Born
<1>4. s \in Senders /\ op[s] = "unborn"
  BY <1>1, <1>2, <1>3 DEF Senders
<1>5. /\ message_senders' = Pruned \cup {s}
      /\ op' = [op EXCEPT ![s] = "resolve"]
      /\ payloads_' = [payloads_ EXCEPT ![s] = <<handed + 1>>]
      /\ handed' = handed + 1
  BY DEF StartSender, Current
<1>6. Pruned \subseteq message_senders
  BY DEF Pruned
<1>7. \A x \in Senders : op[x] # "unborn" <=> x < s
  BY <1>1, <1>2, <1>3 DEF Senders
<1>8. s <= handed + 1 /\ handed + 1 \in 1 .. N
  BY <1>2, <1>3
<1> HIDE DEF s
<1> QED BY <1>4, <1>5, <1>6, <1>7, <1>8

\* What a sender does, seen in it alone.
LEMMA OneSender ==
    ASSUME TypeOK, PoolInv, NEW s \in Senders, op[s] # "unborn",
           UNCHANGED saverVars, process' \in {"up", "down"},
           NEW o \in Ops \ {"unborn"}, op' = [op EXCEPT ![s] = o],
           NEW p \in Seq(1 .. N), payloads_' = [payloads_ EXCEPT ![s] = p],
           Len(p) <= Len(payloads_[s]),
           NEW r \in 0 .. N, request' = [request EXCEPT ![s] = r],
           r # 0 <=> o \in Busy,
           operation_completed_' \in [Senders -> BOOLEAN],
           delivered' \in Seq(Senders \X (1 .. N)), faults' \in 0 .. MaxFaults
    PROVE  TypeOK' /\ PoolInv'
<1>1. /\ op' \in [Senders -> Ops] /\ payloads_' \in [Senders -> Seq(1 .. N)]
      /\ request' \in [Senders -> 0 .. N]
  BY DEF TypeOK
<1>2. TypeOK'
  BY <1>1 DEF TypeOK, saverVars
<1>3. ASSUME NEW x \in Senders
      PROVE  /\ op'[x] = "unborn" <=> op[x] = "unborn"
             /\ op'[x] = "unborn" => payloads_'[x] = <<>>
             /\ request'[x] # 0 <=> op'[x] \in Busy
             /\ Len(payloads_'[x]) <= Len(payloads_[x])
  <2>1. CASE x = s
    BY <2>1 DEF TypeOK, PoolInv
  <2>2. CASE x # s
    <3>1. op'[x] = op[x] /\ payloads_'[x] = payloads_[x] /\ request'[x] = request[x]
      BY <2>2 DEF TypeOK
    <3>2. Len(payloads_[x]) \in Nat
      BY LenProperties DEF TypeOK
    <3> QED BY <3>1, <3>2 DEF PoolInv
  <2> QED BY <2>1, <2>2
<1>4. \A x \in Senders : Len(payloads_'[x]) \in Nat /\ Len(payloads_[x]) \in Nat
  BY <1>1, LenProperties DEF TypeOK
<1>5. WithinLimit'
  BY <1>3, <1>4, TelegramSenderAssumption DEF WithinLimit, PoolInv
<1>6. saverPc' = "chosen" => at' \in message_senders' /\ Len(payloads_'[at']) < Limit
  BY <1>3, <1>4, TelegramSenderAssumption DEF PoolInv, saverVars, TypeOK
<1>7. \E k \in 0 .. handed' :
         /\ \A x \in Senders : op'[x] # "unborn" <=> x <= k
         /\ \A x \in message_senders' : x <= k
  BY <1>3 DEF PoolInv, saverVars
<1> QED BY <1>2, <1>3, <1>5, <1>6, <1>7 DEF PoolInv, saverVars

\* What a sender is asked to do with the front of its deque.
LEMMA FrontTypes ==
    ASSUME TypeOK, NEW s \in Senders, payloads_[s] # <<>>
    PROVE  /\ Head(payloads_[s]) \in 1 .. N
           /\ Tail(payloads_[s]) \in Seq(1 .. N)
           /\ Len(Tail(payloads_[s])) <= Len(payloads_[s])
<1>1. payloads_[s] \in Seq(1 .. N) /\ Len(payloads_[s]) \in Nat
  BY LenProperties DEF TypeOK
<1>2. /\ Head(payloads_[s]) \in 1 .. N
      /\ Tail(payloads_[s]) \in Seq(1 .. N)
      /\ Len(Tail(payloads_[s])) = Len(payloads_[s]) - 1
  BY <1>1, HeadTailProperties
<1> QED BY <1>1, <1>2

LEMMA ServedTypes ==
    ASSUME TypeOK, NEW s \in Senders, request[s] # 0, Served(s) \/ UNCHANGED delivered
    PROVE  delivered' \in Seq(Senders \X (1 .. N))
<1>1. <<s, request[s]>> \in Senders \X (1 .. N)
  BY DEF TypeOK
<1>2. delivered \in Seq(Senders \X (1 .. N))
  BY DEF TypeOK
<1>3. CASE Served(s)
  BY <1>1, <1>2, <1>3, AppendProperties DEF Served
<1>4. CASE UNCHANGED delivered
  BY <1>2, <1>4
<1> QED BY <1>3, <1>4

LEMMA SaverTypes ==
    ASSUME TypeOK, PoolInv, Saver PROVE TypeOK' /\ PoolInv'
<1>0. handed \in 0 .. N /\ N \in Nat
  BY TelegramSenderAssumption DEF TypeOK
<1>1. CASE Take
  <2>1. TypeOK'
    BY <1>1 DEF Take, TypeOK, senderVars
  <2> QED BY <2>1, <1>1 DEF Take, PoolInv, WithinLimit, senderVars
<1>2. CASE LookAtSender
  <2>1. /\ saverPc = "scan" /\ at' \in message_senders
        /\ saverPc' = IF AvailableWithLessTasks(at') THEN "chosen" ELSE "scan"
        /\ UNCHANGED <<process, handed, message_senders, senderVars, delivered, faults>>
    BY <1>2 DEF LookAtSender, ToLookAt
  <2>2. TypeOK'
    BY <2>1 DEF TypeOK, senderVars
  <2>3. saverPc' = "chosen" => at' \in message_senders' /\ Len(payloads_'[at']) < Limit
    BY <2>1 DEF AvailableWithLessTasks, senderVars
  <2> QED BY <2>1, <2>2, <2>3 DEF PoolInv, WithinLimit, senderVars
<1>3. CASE AddPayload
  <2>1. /\ saverPc = "chosen" /\ saverPc' = "idle" /\ at' = 0 /\ handed' = handed + 1
        /\ payloads_' = [payloads_ EXCEPT ![at] = Append(payloads_[at], handed + 1)]
        /\ UNCHANGED <<process, message_senders, op, request, operation_completed_, delivered, faults>>
    BY <1>3 DEF AddPayload, Current, TypeOK
  <2>2. /\ handed < N /\ at \in message_senders /\ at \in Senders /\ Len(payloads_[at]) < Limit
        /\ payloads_[at] \in Seq(1 .. N) /\ Len(payloads_[at]) \in Nat
    BY <2>1, LenProperties DEF PoolInv, TypeOK
  <2>3. handed + 1 \in 1 .. N
    BY <1>0, <2>2
  <2>4. /\ Append(payloads_[at], handed + 1) \in Seq(1 .. N)
        /\ Len(Append(payloads_[at], handed + 1)) = Len(payloads_[at]) + 1
    BY <2>2, <2>3, AppendProperties
  <2>5. payloads_' \in [Senders -> Seq(1 .. N)]
    BY <2>1, <2>4 DEF TypeOK
  <2>6. \A x \in Senders : Len(payloads_'[x]) <= Limit
    BY <2>1, <2>2, <2>4, TelegramSenderAssumption DEF TypeOK, PoolInv, WithinLimit
  <2>7. op[at] # "unborn"
    <3>1. PICK k \in 0 .. handed : /\ \A x \in Senders : op[x] # "unborn" <=> x <= k
                                   /\ \A x \in message_senders : x <= k
      BY DEF PoolInv
    <3> QED BY <3>1, <2>2
  <2>8. TypeOK'
    BY <2>1, <2>3, <2>5 DEF TypeOK
  <2>9. \A x \in Senders : op'[x] = "unborn" => payloads_'[x] = <<>>
    BY <2>1, <2>7 DEF TypeOK, PoolInv
  <2>10. \E k \in 0 .. handed' :
            /\ \A x \in Senders : op'[x] # "unborn" <=> x <= k
            /\ \A x \in message_senders' : x <= k
    <3>1. \A k \in 0 .. handed : k \in 0 .. handed'
      BY <2>1, <1>0
    <3> QED BY <3>1, <2>1 DEF PoolInv
  <2> QED BY <2>1, <2>6, <2>8, <2>9, <2>10 DEF PoolInv, WithinLimit
<1>4. CASE StartSender
  <2>1. PICK s \in Senders :
            /\ op[s] = "unborn" /\ handed + 1 \in 1 .. N
            /\ message_senders' \subseteq message_senders \cup {s} /\ s \in message_senders'
            /\ op' = [op EXCEPT ![s] = "resolve"]
            /\ payloads_' = [payloads_ EXCEPT ![s] = <<handed + 1>>]
            /\ handed' = handed + 1
            /\ \A x \in Senders : op[x] # "unborn" <=> x < s
            /\ s <= handed + 1
    BY <1>4, NewSender
  <2>2. /\ saverPc' = "idle" /\ at' = 0
        /\ UNCHANGED <<process, request, operation_completed_, delivered, faults>>
    BY <1>4 DEF StartSender
  <2>3. <<handed + 1>> \in Seq(1 .. N) /\ Len(<<handed + 1>>) = 1
    BY <2>1
  <2>4. /\ op' \in [Senders -> Ops] /\ payloads_' \in [Senders -> Seq(1 .. N)]
    BY <2>1, <2>3 DEF TypeOK, Ops
  <2>5. message_senders' \subseteq Senders
    BY <2>1 DEF TypeOK
  <2>6. TypeOK'
    BY <2>1, <2>2, <2>4, <2>5 DEF TypeOK
  <2>7. ASSUME NEW x \in Senders
        PROVE  /\ op'[x] = "unborn" => payloads_'[x] = <<>>
               /\ request'[x] # 0 <=> op'[x] \in Busy
               /\ Len(payloads_'[x]) <= Limit
               /\ op'[x] # "unborn" <=> x <= s
    <3>1. CASE x = s
      <4>1. op'[x] = "resolve" /\ payloads_'[x] = <<handed + 1>> /\ request'[x] = request[x]
        BY <3>1, <2>1, <2>2 DEF TypeOK
      <4>2. request[x] = 0
        BY <3>1, <2>1 DEF TypeOK, PoolInv, Busy
      <4>3. x \in Nat /\ 1 <= Limit
        BY TelegramSenderAssumption DEF Senders
      <4> QED BY <3>1, <4>1, <4>2, <4>3, <2>3 DEF Busy
    <3>2. CASE x # s
      <4>1. op'[x] = op[x] /\ payloads_'[x] = payloads_[x] /\ request'[x] = request[x]
        BY <3>2, <2>1, <2>2 DEF TypeOK
      <4>2. x \in Nat /\ s \in Nat
        BY TelegramSenderAssumption DEF Senders
      <4> QED BY <3>2, <4>1, <4>2, <2>1 DEF PoolInv, WithinLimit
    <3> QED BY <3>1, <3>2
  <2>8. s \in 0 .. handed'
    BY <2>1, <1>0 DEF Senders
  <2>9. \A x \in message_senders' : x <= s
    <3>1. PICK k \in 0 .. handed : /\ \A x \in Senders : op[x] # "unborn" <=> x <= k
                                   /\ \A x \in message_senders : x <= k
      BY DEF PoolInv
    <3>2. k < s
      BY <3>1, <2>1, <1>0 DEF Senders
    <3>3. \A x \in message_senders : x \in Senders /\ x <= k
      BY <3>1 DEF TypeOK
    <3> QED BY <3>2, <3>3, <2>1, <1>0 DEF Senders
  <2> QED BY <2>2, <2>6, <2>7, <2>8, <2>9 DEF PoolInv, WithinLimit
<1> QED BY <1>1, <1>2, <1>3, <1>4 DEF Saver

LEMMA SenderTypes ==
    ASSUME TypeOK, PoolInv, NEW s \in Senders, Proceeds(s) \/ Fails(s) \/ GarbageCrashes(s)
    PROVE  TypeOK' /\ PoolInv'
<1>1. /\ payloads_[s] \in Seq(1 .. N) /\ request[s] \in 0 .. N /\ op[s] \in Ops
      /\ Len(payloads_[s]) \in Nat
      /\ payloads_ = [payloads_ EXCEPT ![s] = payloads_[s]]
      /\ request = [request EXCEPT ![s] = request[s]]
      /\ op = [op EXCEPT ![s] = op[s]]
      /\ operation_completed_ \in [Senders -> BOOLEAN]
      /\ [operation_completed_ EXCEPT ![s] = TRUE] \in [Senders -> BOOLEAN]
      /\ delivered \in Seq(Senders \X (1 .. N)) /\ faults \in 0 .. MaxFaults
      /\ process \in {"up", "down"}
      /\ request[s] # 0 <=> op[s] \in Busy
  BY LenProperties DEF TypeOK, PoolInv
<1>2. Fault => faults' \in 0 .. MaxFaults
  BY <1>1, TelegramSenderAssumption DEF Fault
<1>3. CASE Resolved(s) \/ Connected(s) \/ SetHostNameFails(s) \/ ConnectionFails(s)
  <2>1. /\ op[s] \in {"resolve", "connect", "handshake"}
        /\ UNCHANGED <<process, saverVars, payloads_, request, delivered>>
        /\ UNCHANGED faults \/ Fault
        /\ \/ UNCHANGED operation_completed_
           \/ operation_completed_' = [operation_completed_ EXCEPT ![s] = TRUE]
        /\ \E o \in {"connect", "handshake", "mute", "none"} : op' = [op EXCEPT ![s] = o]
    BY <1>3 DEF Resolved, Connected, SetHostNameFails, ConnectionFails, Goto
  <2>2. operation_completed_' \in [Senders -> BOOLEAN] /\ faults' \in 0 .. MaxFaults
        /\ request[s] = 0
    BY <2>1, <1>1, <1>2 DEF Busy
  <2>3. PICK o \in {"connect", "handshake", "mute", "none"} : op' = [op EXCEPT ![s] = o]
    BY <2>1
  <2>4. o \in Ops \ {"unborn"} /\ o \notin Busy /\ op[s] # "unborn"
    BY <2>1 DEF Ops, Busy
  <2>5. payloads_' = [payloads_ EXCEPT ![s] = payloads_[s]]
        /\ request' = [request EXCEPT ![s] = request[s]]
    BY <2>1, <1>1
  <2>6. process' \in {"up", "down"} /\ operation_completed_' \in [Senders -> BOOLEAN]
        /\ delivered' \in Seq(Senders \X (1 .. N)) /\ faults' \in 0 .. MaxFaults
        /\ UNCHANGED saverVars
    BY <2>1, <2>2, <1>1
  <2>7. request[s] # 0 <=> o \in Busy
    BY <2>2, <2>4
  <2>8. payloads_[s] \in Seq(1 .. N) /\ request[s] \in 0 .. N /\ Len(payloads_[s]) <= Len(payloads_[s])
    BY <1>1
  <2> QED BY <2>3, <2>4, <2>5, <2>6, <2>7, <2>8, OneSender
<1>4. CASE Written(s)
  <2>1. /\ op[s] = "write" /\ op' = [op EXCEPT ![s] = "read"]
        /\ UNCHANGED <<process, saverVars, payloads_, request, operation_completed_, delivered, faults>>
    BY <1>4 DEF Written, Goto
  <2>2. "read" \in Ops \ {"unborn"} /\ "read" \in Busy /\ op[s] # "unborn" /\ request[s] # 0
    BY <2>1, <1>1 DEF Ops, Busy
  <2>3. payloads_' = [payloads_ EXCEPT ![s] = payloads_[s]]
        /\ request' = [request EXCEPT ![s] = request[s]]
    BY <2>1, <1>1
  <2>4. process' \in {"up", "down"} /\ operation_completed_' \in [Senders -> BOOLEAN]
        /\ delivered' \in Seq(Senders \X (1 .. N)) /\ faults' \in 0 .. MaxFaults
        /\ UNCHANGED saverVars
    BY <2>1, <1>1
  <2>5. payloads_[s] \in Seq(1 .. N) /\ request[s] \in 0 .. N /\ Len(payloads_[s]) <= Len(payloads_[s])
    BY <1>1
  <2>6. op' = [op EXCEPT ![s] = "read"]
    BY <2>1
  <2> QED BY <2>2, <2>3, <2>4, <2>5, <2>6, OneSender
<1>5. CASE ExchangeFails(s)
  <2>1. /\ op[s] \in Busy /\ op' = [op EXCEPT ![s] = "resolve"] /\ Fault
        /\ request' = [request EXCEPT ![s] = 0]
        /\ Served(s) \/ UNCHANGED delivered
        /\ UNCHANGED <<process, saverVars, payloads_, operation_completed_>>
    BY <1>5 DEF ExchangeFails, Goto, None, Busy
  <2>2. "resolve" \in Ops \ {"unborn"} /\ "resolve" \notin Busy /\ op[s] # "unborn"
        /\ request[s] # 0 /\ 0 \in 0 .. N
    BY <2>1, <1>1, TelegramSenderAssumption DEF Ops, Busy
  <2>3. delivered' \in Seq(Senders \X (1 .. N))
    BY <2>1, <2>2, ServedTypes
  <2>4. payloads_' = [payloads_ EXCEPT ![s] = payloads_[s]]
    BY <2>1, <1>1
  <2>5. process' \in {"up", "down"} /\ operation_completed_' \in [Senders -> BOOLEAN]
        /\ delivered' \in Seq(Senders \X (1 .. N)) /\ faults' \in 0 .. MaxFaults
        /\ UNCHANGED saverVars
    BY <2>1, <2>3, <1>1, <1>2
  <2>6. payloads_[s] \in Seq(1 .. N) /\ Len(payloads_[s]) <= Len(payloads_[s])
    BY <1>1
  <2>7. op' = [op EXCEPT ![s] = "resolve"] /\ request' = [request EXCEPT ![s] = 0]
    BY <2>1
  <2> QED BY <2>2, <2>4, <2>5, <2>6, <2>7, OneSender
<1>6. ASSUME op[s] \in Ops \ {"unborn"}, UNCHANGED saverVars, SendRequest(s),
             request[s] = 0 \/ payloads_[s] # <<>>,
             operation_completed_' \in [Senders -> BOOLEAN],
             delivered' \in Seq(Senders \X (1 .. N)), faults' \in 0 .. MaxFaults
      PROVE  TypeOK' /\ PoolInv'
  <2>1. CASE payloads_[s] # <<>>
    <3>1. /\ request' = [request EXCEPT ![s] = Head(payloads_[s])]
          /\ payloads_' = [payloads_ EXCEPT ![s] = Tail(payloads_[s])]
          /\ op' = [op EXCEPT ![s] = "write"] /\ process' \in {"up", "down"}
      BY <1>1, <1>6, <2>1 DEF SendRequest, Goto, TypeOK
    <3>2. "write" \in Ops \ {"unborn"} /\ "write" \in Busy
      BY DEF Ops, Busy
    <3>3. /\ Head(payloads_[s]) \in 0 .. N /\ Head(payloads_[s]) # 0
          /\ Tail(payloads_[s]) \in Seq(1 .. N)
          /\ Len(Tail(payloads_[s])) <= Len(payloads_[s])
      BY <2>1, FrontTypes
    <3> QED BY <3>1, <3>2, <3>3, <1>6, OneSender
  <2>2. CASE payloads_[s] = <<>>
    <3>1. /\ UNCHANGED <<payloads_, request>> /\ process' \in {"up", "down"}
          /\ \E o \in {"wild", "none"} : op' = [op EXCEPT ![s] = o]
      BY <1>1, <1>6, <2>2 DEF SendRequest, PopEmpty, Goto
    <3>2. PICK o \in {"wild", "none"} : op' = [op EXCEPT ![s] = o]
      BY <3>1
    <3>3. o \in Ops \ {"unborn"} /\ o \notin Busy /\ request[s] = 0
      BY <1>6, <2>2 DEF Ops, Busy
    <3>4. payloads_' = [payloads_ EXCEPT ![s] = payloads_[s]]
          /\ request' = [request EXCEPT ![s] = request[s]]
      BY <3>1, <1>1
    <3>5. payloads_[s] \in Seq(1 .. N) /\ request[s] \in 0 .. N /\ Len(payloads_[s]) <= Len(payloads_[s])
      BY <1>1
    <3>6. request[s] # 0 <=> o \in Busy
      BY <3>3
    <3>7. process' \in {"up", "down"}
      BY <3>1
    <3> QED BY <3>2, <3>3, <3>4, <3>5, <3>6, <3>7, <1>6, OneSender
  <2> QED BY <2>1, <2>2
<1>7. CASE HandshakeDone(s)
  <2>1. /\ op[s] = "handshake" /\ SendRequest(s)
        /\ UNCHANGED <<saverVars, operation_completed_, delivered, faults>>
    BY <1>7 DEF HandshakeDone
  <2>2. op[s] \in Ops \ {"unborn"} /\ request[s] = 0
    BY <2>1, <1>1 DEF Busy
  <2> QED BY <2>1, <2>2, <1>1, <1>6
<1>8. CASE Answered(s)
  <2>1. /\ op[s] = "read" /\ SendNextRequest(s) /\ UNCHANGED saverVars
        /\ (Served(s) /\ UNCHANGED faults) \/ (Fault /\ UNCHANGED delivered)
    BY <1>8 DEF Answered
  <2>2. op[s] \in Ops \ {"unborn"} /\ request[s] # 0
    BY <2>1, <1>1 DEF Busy
  <2>3. delivered' \in Seq(Senders \X (1 .. N)) /\ faults' \in 0 .. MaxFaults
    BY <2>1, <2>2, <1>1, <1>2, ServedTypes
  <2>4. CASE payloads_[s] = <<>>
    <3>1. /\ op' = [op EXCEPT ![s] = "none"] /\ request' = [request EXCEPT ![s] = 0]
          /\ operation_completed_' = [operation_completed_ EXCEPT ![s] = TRUE]
          /\ UNCHANGED <<process, payloads_>>
      BY <2>1, <2>4 DEF SendNextRequest, Goto, None
    <3>2. "none" \in Ops \ {"unborn"} /\ "none" \notin Busy /\ 0 \in 0 .. N
      BY TelegramSenderAssumption DEF Ops, Busy
    <3>3. payloads_' = [payloads_ EXCEPT ![s] = payloads_[s]]
      BY <3>1, <1>1
    <3>4. /\ process' \in {"up", "down"} /\ operation_completed_' \in [Senders -> BOOLEAN]
          /\ UNCHANGED saverVars
      BY <3>1, <2>1, <1>1
    <3>5. payloads_[s] \in Seq(1 .. N) /\ Len(payloads_[s]) <= Len(payloads_[s])
      BY <1>1
    <3>6. op' = [op EXCEPT ![s] = "none"] /\ request' = [request EXCEPT ![s] = 0]
      BY <3>1
    <3> QED BY <3>2, <3>3, <3>4, <3>5, <3>6, <2>2, <2>3, OneSender
  <2>5. CASE payloads_[s] # <<>>
    <3>1. SendRequest(s) /\ UNCHANGED operation_completed_
      BY <2>1, <2>5 DEF SendNextRequest
    <3> QED BY <3>1, <2>1, <2>2, <2>3, <2>5, <1>1, <1>6
  <2> QED BY <2>4, <2>5
<1>9. CASE GarbageCrashes(s)
  <2>1. process' = "down" /\ UNCHANGED <<saverVars, senderVars, delivered, faults>>
    BY <1>9 DEF GarbageCrashes
  <2> QED BY <2>1 DEF TypeOK, PoolInv, WithinLimit, saverVars, senderVars
<1> QED BY <1>3, <1>4, <1>5, <1>7, <1>8, <1>9 DEF Proceeds, Fails

LEMMA PoolStep == TypeOK /\ PoolInv /\ [Next]_vars => TypeOK' /\ PoolInv'
<1> SUFFICES ASSUME TypeOK, PoolInv, [Next]_vars PROVE TypeOK' /\ PoolInv'
  OBVIOUS
<1>1. CASE UNCHANGED vars
  BY <1>1 DEF vars, saverVars, senderVars, TypeOK, PoolInv, WithinLimit
<1> QED BY <1>1, SaverTypes, SenderTypes DEF Next

LEMMA PoolInit == Init => TypeOK /\ PoolInv
<1> SUFFICES ASSUME Init PROVE TypeOK /\ PoolInv
  OBVIOUS
<1>1. <<>> \in Seq(1 .. N) /\ <<>> \in Seq(Senders \X (1 .. N)) /\ Len(<<>>) = 0
  OBVIOUS
<1>2. TypeOK
  BY <1>1, TelegramSenderAssumption DEF Init, TypeOK, Ops, None
<1>3. \E k \in 0 .. handed : /\ \A s \in Senders : op[s] # "unborn" <=> s <= k
                             /\ \A s \in message_senders : s <= k
  BY TelegramSenderAssumption DEF Init, Senders
<1> QED BY <1>1, <1>2, <1>3, TelegramSenderAssumption
        DEF Init, PoolInv, WithinLimit, Busy, None

\* Every deque, request and sender of the pool has its type, for every instance.
THEOREM Typing == Spec => []TypeOK
BY PoolInit, PoolStep, PTL DEF Spec

\* For every number of payloads and senders: no deque holds more than
\* available_with_less_tasks allows, though the saver adds to it after the check,
\* beside a sender that works on it.
THEOREM DequesWithinLimit == Spec => []WithinLimit
<1>1. PoolInv => WithinLimit
  BY DEF PoolInv
<1> QED BY <1>1, PoolInit, PoolStep, PTL DEF Spec

-----------------------------------------------------------------------------
(* Where the notifications are.                                            *)

SentOf(d) == {d[i][2] : i \in DOMAIN d}
Everywhere(H) == UNION {H[s] : s \in Senders}

\* What holds between the notifications H[s] that sender s holds, the number n of
\* those that were handed over, the deliveries d and the number f of failures.
Places(H, n, d, f) ==
    /\ n \in Nat /\ f \in Nat
    /\ H \in [Senders -> SUBSET (1 .. n)]
    /\ \A s, t \in Senders : s # t => H[s] \cap H[t] = {}
    /\ d \in Seq(Senders \X (1 .. N))
    /\ SentOf(d) \subseteq 1 .. n
    /\ \A s \in Senders : H[s] \cap SentOf(d) = {}
    /\ \A i \in DOMAIN d : \A m \in H[d[i][1]] : d[i][2] < m
    /\ \A i, j \in DOMAIN d : i < j /\ d[i][1] = d[j][1] => d[i][2] < d[j][2]
    /\ IsFiniteSet(SentOf(d)) /\ Cardinality(SentOf(d)) = Len(d)
    /\ Cardinality((1 .. n) \ (SentOf(d) \cup Everywhere(H))) <= f

LEMMA Bounded ==
    ASSUME NEW n \in Nat, NEW S, NEW T, NEW U, (1 .. n) \ T \subseteq ((1 .. n) \ S) \cup U,
           IsFiniteSet(U), NEW f \in Nat, NEW g \in Nat, Cardinality((1 .. n) \ S) <= f,
           Cardinality(U) <= g
    PROVE  Cardinality((1 .. n) \ T) <= f + g
<1> DEFINE A == (1 .. n) \ S  B == (1 .. n) \ T
<1>1. IsFiniteSet(1 .. n)
  BY FS_Interval
<1>2. IsFiniteSet(A)
  BY <1>1, FS_Difference
<1>3. IsFiniteSet(A \cup U) /\ Cardinality(A \cup U) = Cardinality(A) + Cardinality(U) - Cardinality(A \cap U)
  BY <1>2, FS_Union
<1>4. B \subseteq A \cup U
  OBVIOUS
<1>5. Cardinality(B) <= Cardinality(A \cup U) /\ IsFiniteSet(B)
  BY <1>3, <1>4, FS_Subset
<1>6. IsFiniteSet(A \cap U)
  <2>1. A \cap U \in SUBSET A
    OBVIOUS
  <2> QED BY <2>1, <1>2, FS_Subset
<1>7. /\ Cardinality(A) \in Nat /\ Cardinality(U) \in Nat /\ Cardinality(B) \in Nat
      /\ Cardinality(A \cap U) \in Nat /\ Cardinality(A \cup U) \in Nat
  BY <1>2, <1>3, <1>5, <1>6, FS_CardinalityType
<1>8. Cardinality(A) <= f
  OBVIOUS
<1> HIDE DEF A, B
<1>9. Cardinality(B) <= f + g
  BY <1>3, <1>5, <1>7, <1>8
<1> QED BY <1>9 DEF B

\* A notification is handed to a sender.
LEMMA PlacesAdd ==
    ASSUME NEW H, NEW n, NEW d, NEW f, Places(H, n, d, f), NEW s \in Senders,
           NEW G, G = [H EXCEPT ![s] = H[s] \cup {n + 1}]
    PROVE  Places(G, n + 1, d, f)
<1>1. /\ n \in Nat /\ f \in Nat /\ n + 1 \in Nat /\ n + 1 \notin 1 .. n
      /\ 1 .. n + 1 = (1 .. n) \cup {n + 1}
  BY DEF Places
<1>2. /\ H \in [Senders -> SUBSET (1 .. n)] /\ G[s] = H[s] \cup {n + 1}
      /\ \A t \in Senders : t # s => G[t] = H[t]
      /\ G \in [Senders -> SUBSET (1 .. n + 1)]
  BY <1>1 DEF Places
<1>3. SentOf(d) \subseteq 1 .. n
  BY DEF Places
<1>4. ASSUME NEW t \in Senders, NEW u \in Senders, t # u PROVE G[t] \cap G[u] = {}
  <2>1. H[t] \cap H[u] = {} /\ n + 1 \notin H[t] /\ n + 1 \notin H[u]
    BY <1>1, <1>2, <1>4 DEF Places
  <2> QED BY <2>1, <1>2, <1>4
<1>5. \A t \in Senders : G[t] \cap SentOf(d) = {}
  BY <1>1, <1>2, <1>3 DEF Places
<1>6. ASSUME NEW i \in DOMAIN d, NEW m \in G[d[i][1]] PROVE d[i][2] < m
  <2>1. d[i] \in Senders \X (1 .. N) /\ d[i][1] \in Senders
    BY ElementOfSeq, LenProperties DEF Places
  <2>2. d[i][2] \in 1 .. n
    BY <1>3 DEF SentOf
  <2>3. m \in H[d[i][1]] \/ m = n + 1
    BY <2>1, <1>2
  <2> QED BY <2>2, <2>3, <1>1 DEF Places
<1>7. Cardinality((1 .. n + 1) \ (SentOf(d) \cup Everywhere(G))) <= f
  <2>1. (1 .. n + 1) \ (SentOf(d) \cup Everywhere(G)) \subseteq (1 .. n) \ (SentOf(d) \cup Everywhere(H))
    <3>1. \A t \in Senders : H[t] \subseteq G[t]
      BY <1>2
    <3>2. Everywhere(H) \subseteq Everywhere(G)
      BY <3>1 DEF Everywhere
    <3>3. n + 1 \in Everywhere(G)
      BY <1>2 DEF Everywhere
    <3> QED BY <1>1, <3>2, <3>3, Zenon
  <2>5. IsFiniteSet(1 .. n)
    <3>1. 1 \in Int /\ n \in Int
      BY <1>1
    <3> QED BY <3>1, FS_Interval
  <2>2. IsFiniteSet((1 .. n) \ (SentOf(d) \cup Everywhere(H)))
    BY <2>5, FS_Difference
  <2>3. Cardinality((1 .. n + 1) \ (SentOf(d) \cup Everywhere(G))) <= Cardinality((1 .. n) \ (SentOf(d) \cup Everywhere(H)))
        /\ IsFiniteSet((1 .. n + 1) \ (SentOf(d) \cup Everywhere(G)))
    BY <2>1, <2>2, FS_Subset
  <2>4. Cardinality((1 .. n) \ (SentOf(d) \cup Everywhere(H))) <= f
    BY DEF Places
  <2> QED BY <2>2, <2>3, <2>4, <1>1, FS_CardinalityType
<1>8. SentOf(d) \subseteq 1 .. n + 1
  BY <1>1, <1>3
<1> QED BY <1>1, <1>2, <1>4, <1>5, <1>6, <1>7, <1>8 DEF Places

\* A notification is given up.
LEMMA PlacesLose ==
    ASSUME NEW H, NEW n, NEW d, NEW f, Places(H, n, d, f), NEW s \in Senders, NEW r,
           NEW G, G = [H EXCEPT ![s] = H[s] \ {r}]
    PROVE  Places(G, n, d, f + 1)
<1>1. /\ n \in Nat /\ f \in Nat /\ f + 1 \in Nat
      /\ H \in [Senders -> SUBSET (1 .. n)] /\ G[s] = H[s] \ {r}
      /\ \A t \in Senders : t # s => G[t] = H[t]
      /\ G \in [Senders -> SUBSET (1 .. n)]
      /\ \A t \in Senders : G[t] \subseteq H[t]
  BY DEF Places
<1>2. \A t, u \in Senders : t # u => G[t] \cap G[u] = {}
  BY <1>1 DEF Places
<1>3. \A t \in Senders : G[t] \cap SentOf(d) = {}
  BY <1>1 DEF Places
<1>4. ASSUME NEW i \in DOMAIN d, NEW m \in G[d[i][1]] PROVE d[i][2] < m
  <2>1. d[i] \in Senders \X (1 .. N) /\ d[i][1] \in Senders
    BY ElementOfSeq, LenProperties DEF Places
  <2> QED BY <2>1, <1>1 DEF Places
<1>5. Cardinality((1 .. n) \ (SentOf(d) \cup Everywhere(G))) <= f + 1
  <2>5. IsFiniteSet({r}) /\ Cardinality({r}) = 1
    BY FS_Singleton
  <2>1. IsFiniteSet({r}) /\ Cardinality({r}) <= 1
    BY <2>5
  <2>2. \A t \in Senders : H[t] \subseteq G[t] \cup {r}
    BY <1>1
  <2>3. (1 .. n) \ (SentOf(d) \cup Everywhere(G)) \subseteq ((1 .. n) \ (SentOf(d) \cup Everywhere(H))) \cup {r}
    BY <2>2 DEF Everywhere
  <2>4. Cardinality((1 .. n) \ (SentOf(d) \cup Everywhere(H))) <= f
    BY DEF Places
  <2> QED BY <2>1, <2>3, <2>4, <1>1, Bounded
<1> QED BY <1>1, <1>2, <1>3, <1>4, <1>5 DEF Places

\* The first notification of a sender is delivered.
LEMMA PlacesDeliver ==
    ASSUME NEW H, NEW n, NEW d, NEW f, Places(H, n, d, f), NEW s \in Senders,
           NEW r \in H[s], r \in 1 .. N, \A m \in H[s] : r <= m,
           NEW G, G = [H EXCEPT ![s] = H[s] \ {r}],
           NEW e, e = Append(d, <<s, r>>)
    PROVE  Places(G, n, e, f)
<1>1. /\ n \in Nat /\ f \in Nat
      /\ H \in [Senders -> SUBSET (1 .. n)] /\ G[s] = H[s] \ {r}
      /\ \A t \in Senders : t # s => G[t] = H[t]
      /\ G \in [Senders -> SUBSET (1 .. n)]
      /\ \A t \in Senders : G[t] \subseteq H[t]
      /\ d \in Seq(Senders \X (1 .. N)) /\ DOMAIN d = 1 .. Len(d) /\ Len(d) \in Nat
  BY LenProperties DEF Places
<1>2. <<s, r>> \in Senders \X (1 .. N) /\ <<s, r>>[1] = s /\ <<s, r>>[2] = r
  OBVIOUS
<1>3. /\ e \in Seq(Senders \X (1 .. N)) /\ Len(e) = Len(d) + 1
      /\ \A i \in 1 .. Len(d) : e[i] = d[i]
      /\ e[Len(d) + 1] = <<s, r>>
  BY <1>1, <1>2, AppendProperties
<1>4. DOMAIN e = (1 .. Len(d)) \cup {Len(d) + 1}
  BY <1>1, <1>3, LenProperties
<1>5. SentOf(e) = SentOf(d) \cup {r}
  BY <1>1, <1>2, <1>3, <1>4 DEF SentOf
<1>6. r \in 1 .. n /\ r \notin SentOf(d) /\ \A t \in Senders : r \notin G[t]
  <2>1. \A t \in Senders : t # s => H[s] \cap H[t] = {}
    BY DEF Places
  <2> QED BY <2>1, <1>1 DEF Places
<1>7. \A t, u \in Senders : t # u => G[t] \cap G[u] = {}
  BY <1>1 DEF Places
<1>8. \A t \in Senders : G[t] \cap SentOf(e) = {}
  <2>1. \A t \in Senders : H[t] \cap SentOf(d) = {}
    BY DEF Places
  <2>2. \A t \in Senders : G[t] \cap SentOf(d) = {} /\ r \notin G[t]
    BY <2>1, <1>1, <1>6
  <2> QED BY <2>2, <1>5
<1>9. SentOf(e) \subseteq 1 .. n
  BY <1>5, <1>6 DEF Places
<1>10. IsFiniteSet(SentOf(e)) /\ Cardinality(SentOf(e)) = Len(e)
  <2>1. IsFiniteSet(SentOf(d)) /\ Cardinality(SentOf(d)) = Len(d)
    BY DEF Places
  <2>2. IsFiniteSet(SentOf(d) \cup {r}) /\ Cardinality(SentOf(d) \cup {r}) = Cardinality(SentOf(d)) + 1
    BY <2>1, <1>6, FS_AddElement
  <2> QED BY <2>1, <2>2, <1>3, <1>5
<1>11. \A i \in 1 .. Len(d) : d[i][1] \in Senders /\ e[i] = d[i]
  BY <1>1, <1>3, ElementOfSeq
<1>12. ASSUME NEW i \in DOMAIN e, NEW m \in G[e[i][1]] PROVE e[i][2] < m
  <2>1. CASE i \in 1 .. Len(d)
    <3>1. m \in H[d[i][1]]
      BY <2>1, <1>1, <1>11, <1>12
    <3> QED BY <3>1, <2>1, <1>1, <1>11 DEF Places
  <2>2. CASE i = Len(d) + 1
    <3>1. m \in H[s] /\ m # r /\ r <= m /\ e[i][2] = r
      BY <2>2, <1>1, <1>2, <1>3, <1>12
    <3>2. m \in 1 .. n
      BY <3>1, <1>1
    <3> QED BY <3>1, <3>2, <1>6
  <2> QED BY <2>1, <2>2, <1>4
<1>13. ASSUME NEW i \in DOMAIN e, NEW j \in DOMAIN e, i < j, e[i][1] = e[j][1]
       PROVE  e[i][2] < e[j][2]
  <2>1. i \in 1 .. Len(d)
    BY <1>1, <1>4, <1>13
  <2>2. CASE j \in 1 .. Len(d)
    BY <2>1, <2>2, <1>1, <1>11, <1>13 DEF Places
  <2>3. CASE j = Len(d) + 1
    <3>1. d[i][1] = s /\ e[j][2] = r /\ e[i][2] = d[i][2]
      BY <2>1, <2>3, <1>2, <1>3, <1>11, <1>13
    <3>2. \A m \in H[d[i][1]] : d[i][2] < m
      BY <2>1, <1>1 DEF Places
    <3> QED BY <3>1, <3>2
  <2> QED BY <2>2, <2>3, <1>4
<1>14. Cardinality((1 .. n) \ (SentOf(e) \cup Everywhere(G))) <= f
  <2>1. IsFiniteSet({}) /\ Cardinality({}) <= 0
    BY FS_EmptySet
  <2>2. \A t \in Senders : H[t] \subseteq G[t] \cup {r}
    BY <1>1
  <2>3. (1 .. n) \ (SentOf(e) \cup Everywhere(G)) \subseteq ((1 .. n) \ (SentOf(d) \cup Everywhere(H))) \cup {}
    BY <2>2, <1>5 DEF Everywhere
  <2>4. Cardinality((1 .. n) \ (SentOf(d) \cup Everywhere(H))) <= f
    BY DEF Places
  <2>5. Cardinality((1 .. n) \ (SentOf(e) \cup Everywhere(G))) <= f + 0
    BY <2>1, <2>3, <2>4, <1>1, Bounded
  <2> QED BY <2>5, <1>1
<1> QED BY <1>1, <1>3, <1>7, <1>8, <1>9, <1>10, <1>12, <1>13, <1>14 DEF Places

LEMMA PlacesLater ==
    ASSUME NEW H, NEW n, NEW d, NEW f, Places(H, n, d, f), NEW g \in Nat, f <= g
    PROVE  Places(H, n, d, g)
<1>4. n \in Nat
  BY DEF Places
<1>3. IsFiniteSet(1 .. n)
  BY <1>4, FS_Interval
<1>1. IsFiniteSet((1 .. n) \ (SentOf(d) \cup Everywhere(H)))
  BY <1>3, FS_Difference
<1>2. Cardinality((1 .. n) \ (SentOf(d) \cup Everywhere(H))) <= g
  BY <1>1, FS_CardinalityType DEF Places
<1> QED BY <1>2 DEF Places

-----------------------------------------------------------------------------
(* One sender: the request under way precedes what waits in the deque.     *)

Content(r, p) == Range(p) \cup ({r} \ {0})

Ascending(r, p) ==
    /\ \A i, j \in DOMAIN p : i < j => p[i] < p[j]
    /\ r # 0 => \A i \in DOMAIN p : r < p[i]

LEMMA LineAppend ==
    ASSUME NEW p \in Seq(1 .. N), NEW r \in 0 .. N, Ascending(r, p), NEW n \in Nat,
           Content(r, p) \subseteq 1 .. n
    PROVE  /\ Ascending(r, Append(p, n + 1))
           /\ Content(r, Append(p, n + 1)) = Content(r, p) \cup {n + 1}
<1> DEFINE q == Append(p, n + 1)
<1>1. p \in Seq(Nat) /\ n + 1 \in Nat /\ DOMAIN p = 1 .. Len(p) /\ Len(p) \in Nat
  <2>1. p \in [1 .. Len(p) -> 1 .. N] /\ DOMAIN p = 1 .. Len(p) /\ Len(p) \in Nat
    BY LenProperties
  <2>2. p \in [1 .. Len(p) -> Nat]
    BY <2>1
  <2>3. p \in Seq(Nat)
    BY <2>1, <2>2, SeqDef
  <2> QED BY <2>1, <2>3
<1>2. /\ q \in Seq(Nat) /\ Len(q) = Len(p) + 1 /\ q[Len(p) + 1] = n + 1
      /\ \A i \in 1 .. Len(p) : q[i] = p[i]
  BY <1>1, AppendProperties
<1>3. DOMAIN q = (1 .. Len(p)) \cup {Len(p) + 1}
  BY <1>1, <1>2, LenProperties
<1>4. \A i \in 1 .. Len(p) : p[i] \in 1 .. n
  BY <1>1 DEF Content, Range
<1>5. r # 0 => r \in 1 .. n
  BY DEF Content
<1> HIDE DEF q
<1>6. \A i, j \in DOMAIN q : i < j => q[i] < q[j]
  <2> SUFFICES ASSUME NEW i \in DOMAIN q, NEW j \in DOMAIN q, i < j PROVE q[i] < q[j]
    OBVIOUS
  <2>1. i \in 1 .. Len(p)
    BY <1>1, <1>3
  <2>2. CASE j \in 1 .. Len(p)
    BY <2>1, <2>2, <1>1, <1>2 DEF Ascending
  <2>3. CASE j = Len(p) + 1
    BY <2>1, <2>3, <1>2, <1>4
  <2> QED BY <2>2, <2>3, <1>3
<1>7. ASSUME r # 0, NEW i \in DOMAIN q PROVE r < q[i]
  <2>1. CASE i \in 1 .. Len(p)
    BY <2>1, <1>1, <1>2, <1>7 DEF Ascending
  <2>2. CASE i = Len(p) + 1
    BY <2>2, <1>2, <1>5, <1>7
  <2> QED BY <2>1, <2>2, <1>3
<1>8. Range(q) = Range(p) \cup {n + 1}
  BY <1>1, <1>2, <1>3 DEF Range
<1>9. Ascending(r, q) /\ Content(r, q) = Content(r, p) \cup {n + 1}
  BY <1>6, <1>7, <1>8 DEF Ascending, Content
<1> QED BY <1>9 DEF q

LEMMA LineShift ==
    ASSUME NEW p \in Seq(1 .. N), p # <<>>, NEW r, Ascending(r, p)
    PROVE  /\ Ascending(Head(p), Tail(p))
           /\ Content(Head(p), Tail(p)) = Content(0, p)
<1> DEFINE q == Tail(p)  h == Head(p)
<1>1. DOMAIN p = 1 .. Len(p) /\ Len(p) \in Nat /\ Len(p) # 0
  BY LenProperties, EmptySeq
<1>2. /\ q \in Seq(1 .. N) /\ Len(q) = Len(p) - 1 /\ h = p[1] /\ h \in 1 .. N
      /\ \A i \in 1 .. Len(q) : q[i] = p[i + 1]
  <2>1. q \in Seq(1 .. N) /\ Len(q) = Len(p) - 1 /\ h \in 1 .. N
    BY HeadTailProperties
  <2>2. \A i \in 1 .. Len(q) : q[i] = p[i + 1]
    BY HeadTailProperties
  <2>3. h = p[1]
    OBVIOUS
  <2> QED BY <2>1, <2>2, <2>3
<1>3. DOMAIN q = 1 .. Len(q) /\ Len(q) \in Nat
  BY <1>2, LenProperties
<1> HIDE DEF q, h
<1>4. \A i \in DOMAIN q : i + 1 \in DOMAIN p /\ 1 \in DOMAIN p /\ 1 < i + 1
  BY <1>1, <1>2, <1>3
<1>5. \A i, j \in DOMAIN q : i < j => q[i] < q[j]
  BY <1>1, <1>2, <1>3, <1>4 DEF Ascending
<1>6. \A i \in DOMAIN q : h < q[i]
  BY <1>2, <1>3, <1>4 DEF Ascending
<1>7. \A k \in DOMAIN p : k = 1 \/ (k - 1 \in DOMAIN q /\ p[k] = q[k - 1])
  <2> SUFFICES ASSUME NEW k \in DOMAIN p, k # 1 PROVE k - 1 \in DOMAIN q /\ p[k] = q[k - 1]
    OBVIOUS
  <2>1. k - 1 \in 1 .. Len(q) /\ (k - 1) + 1 = k
    BY <1>1, <1>2
  <2> QED BY <2>1, <1>2, <1>3
<1>8. Range(p) = Range(q) \cup {h}
  <2>1. Range(p) \subseteq Range(q) \cup {h}
    BY <1>2, <1>7 DEF Range
  <2>2. Range(q) \subseteq Range(p)
    BY <1>2, <1>3, <1>4 DEF Range
  <2>3. h \in Range(p)
    BY <1>1, <1>2 DEF Range
  <2> QED BY <2>1, <2>2, <2>3
<1>9. h # 0
  BY <1>2
<1>10. Ascending(h, q) /\ Content(h, q) = Content(0, p)
  BY <1>5, <1>6, <1>8, <1>9 DEF Ascending, Content
<1> QED BY <1>10 DEF q, h

\* The request under way is the least of what its sender holds.
LEMMA LineDrop ==
    ASSUME NEW p \in Seq(1 .. N), NEW r \in 1 .. N, Ascending(r, p)
    PROVE  /\ Ascending(0, p)
           /\ Content(0, p) = Content(r, p) \ {r}
           /\ r \in Content(r, p)
           /\ \A m \in Content(r, p) : r <= m
<1>1. \A m \in Range(p) : r < m
  BY DEF Ascending, Range
<1>2. r \in Nat /\ r # 0 /\ r <= r /\ ~ (r < r)
  OBVIOUS
<1>3. Ascending(0, p)
  BY DEF Ascending
<1>4. \A m \in Range(p) : m \in Nat
  <2>1. \A i \in DOMAIN p : p[i] \in 1 .. N
    BY LenProperties, ElementOfSeq
  <2> QED BY <2>1 DEF Range
<1>5. Content(r, p) = Range(p) \cup {r} /\ Content(0, p) = Range(p)
  BY <1>2 DEF Content
<1>6. r \notin Range(p)
  BY <1>1, <1>2
<1>7. \A m \in Content(r, p) : r <= m
  <2>1. \A m \in Range(p) : r <= m
    BY <1>1, <1>2, <1>4
  <2> QED BY <2>1, <1>2, <1>5
<1> QED BY <1>3, <1>5, <1>6, <1>7

-----------------------------------------------------------------------------
(* The pool: every step keeps the account of the notifications.            *)

places == [s \in Senders |-> Content(request[s], payloads_[s])]

PlacesInv ==
    /\ \A s \in Senders : Ascending(request[s], payloads_[s])
    /\ Places(places, handed, delivered, faults)

LEMMA HandedOver ==
    ASSUME TypeOK, PlacesInv, NEW s \in Senders,
           payloads_' = [payloads_ EXCEPT ![s] = Append(payloads_[s], handed + 1)],
           handed' = handed + 1, UNCHANGED <<request, delivered, faults>>
    PROVE  PlacesInv'
<1>1. /\ payloads_[s] \in Seq(1 .. N) /\ request[s] \in 0 .. N /\ handed \in Nat
      /\ Ascending(request[s], payloads_[s])
      /\ Content(request[s], payloads_[s]) \subseteq 1 .. handed
  BY DEF TypeOK, PlacesInv, Places, places
<1>2. /\ Ascending(request[s], Append(payloads_[s], handed + 1))
      /\ Content(request[s], Append(payloads_[s], handed + 1))
            = Content(request[s], payloads_[s]) \cup {handed + 1}
  BY <1>1, LineAppend
<1>3. /\ payloads_'[s] = Append(payloads_[s], handed + 1) /\ request' = request
      /\ \A x \in Senders : x # s => payloads_'[x] = payloads_[x]
  BY DEF TypeOK
<1>4. \A x \in Senders : Ascending(request'[x], payloads_'[x])
  BY <1>2, <1>3 DEF PlacesInv
<1>5. places' = [places EXCEPT ![s] = places[s] \cup {handed + 1}]
  <2>1. \A x \in Senders :
          Content(request'[x], payloads_'[x])
             = [places EXCEPT ![s] = places[s] \cup {handed + 1}][x]
    <3>1. Content(request'[s], payloads_'[s]) = places[s] \cup {handed + 1}
      BY <1>2, <1>3 DEF places
    <3>2. \A x \in Senders : x # s => Content(request'[x], payloads_'[x]) = places[x]
      BY <1>3 DEF places
    <3>3. DOMAIN places = Senders
      BY DEF places
    <3> QED BY <3>1, <3>2, <3>3
  <2>2. places' = [x \in Senders |-> Content(request'[x], payloads_'[x])]
    BY DEF places
  <2>3. [places EXCEPT ![s] = places[s] \cup {handed + 1}]
          = [x \in Senders |-> [places EXCEPT ![s] = places[s] \cup {handed + 1}][x]]
    BY DEF places
  <2> QED BY <2>1, <2>2, <2>3
<1>6. Places(places', handed + 1, delivered, faults)
  BY <1>5, PlacesAdd DEF PlacesInv
<1> QED BY <1>4, <1>6 DEF PlacesInv

LEMMA Kept ==
    ASSUME TypeOK, PlacesInv, NEW s \in Senders, handed' = handed,
           NEW p, payloads_' = [payloads_ EXCEPT ![s] = p],
           NEW r, request' = [request EXCEPT ![s] = r],
           Ascending(r, p), Content(r, p) = Content(request[s], payloads_[s]),
           delivered' = delivered, faults' \in Nat, faults <= faults'
    PROVE  PlacesInv'
<1>1. /\ payloads_'[s] = p /\ request'[s] = r
      /\ \A x \in Senders : x # s => payloads_'[x] = payloads_[x] /\ request'[x] = request[x]
  BY DEF TypeOK
<1>2. \A x \in Senders : Ascending(request'[x], payloads_'[x])
  BY <1>1 DEF PlacesInv
<1>3. places' = places
  BY <1>1 DEF places
<1>4. Places(places', handed', delivered', faults')
  BY <1>3, PlacesLater DEF PlacesInv
<1> QED BY <1>2, <1>4 DEF PlacesInv

\* The request under way ends: delivered or not.
LEMMA Ended ==
    ASSUME TypeOK, PlacesInv, NEW s \in Senders, handed' = handed, request[s] # 0,
           NEW p, payloads_' = [payloads_ EXCEPT ![s] = p],
           NEW r, request' = [request EXCEPT ![s] = r],
           Ascending(r, p), Content(r, p) = Content(0, payloads_[s]),
           \/ Served(s) /\ faults' \in Nat /\ faults <= faults'
           \/ UNCHANGED delivered /\ faults' = faults + 1
    PROVE  PlacesInv'
<1>1. /\ payloads_'[s] = p /\ request'[s] = r
      /\ \A x \in Senders : x # s => payloads_'[x] = payloads_[x] /\ request'[x] = request[x]
  BY DEF TypeOK
<1>2. \A x \in Senders : Ascending(request'[x], payloads_'[x])
  BY <1>1 DEF PlacesInv
<1>3. payloads_[s] \in Seq(1 .. N) /\ request[s] \in 1 .. N /\ Ascending(request[s], payloads_[s])
  BY TelegramSenderAssumption DEF TypeOK, PlacesInv
<1>4. /\ Content(0, payloads_[s]) = places[s] \ {request[s]}
      /\ request[s] \in places[s] /\ \A m \in places[s] : request[s] <= m
  BY <1>3, LineDrop DEF places
<1>5. places' = [places EXCEPT ![s] = places[s] \ {request[s]}]
  <2>1. \A x \in Senders :
          Content(request'[x], payloads_'[x])
             = [places EXCEPT ![s] = places[s] \ {request[s]}][x]
    BY <1>1, <1>4 DEF places
  <2>2. places' = [x \in Senders |-> Content(request'[x], payloads_'[x])]
    BY DEF places
  <2>3. [places EXCEPT ![s] = places[s] \ {request[s]}]
          = [x \in Senders |-> [places EXCEPT ![s] = places[s] \ {request[s]}][x]]
    BY DEF places
  <2> QED BY <2>1, <2>2, <2>3
<1>6. Places(places, handed, delivered, faults)
  BY DEF PlacesInv
<1>7. CASE Served(s) /\ faults' \in Nat /\ faults <= faults'
  <2>1. delivered' = Append(delivered, <<s, request[s]>>)
    BY <1>7 DEF Served
  <2>2. Places(places', handed, delivered', faults)
    BY <2>1, <1>3, <1>4, <1>5, <1>6, PlacesDeliver
  <2>3. Places(places', handed, delivered', faults')
    BY <2>2, <1>7, PlacesLater
  <2> QED BY <2>3, <1>2 DEF PlacesInv
<1>8. CASE UNCHANGED delivered /\ faults' = faults + 1
  <2>1. Places(places', handed, delivered, faults + 1)
    BY <1>5, <1>6, PlacesLose
  <2> QED BY <2>1, <1>2, <1>8 DEF PlacesInv
<1> QED BY <1>7, <1>8

LEMMA StillThere ==
    ASSUME PlacesInv, UNCHANGED <<handed, payloads_, request, delivered>>,
           faults' \in Nat, faults <= faults'
    PROVE  PlacesInv'
<1>1. places' = places
  BY DEF places
<1>2. Places(places', handed', delivered', faults')
  BY <1>1, PlacesLater DEF PlacesInv
<1> QED BY <1>2 DEF PlacesInv

LEMMA PlacesStep ==
    ASSUME TypeOK, PoolInv, PlacesInv, [Next]_vars PROVE PlacesInv'
<1>1. faults \in Nat /\ faults <= faults /\ faults <= faults + 1 /\ faults + 1 \in Nat
  BY DEF TypeOK
<1>2. CASE UNCHANGED vars
  <2>1. UNCHANGED <<handed, payloads_, request, delivered, faults>>
    BY <1>2 DEF vars, saverVars, senderVars
  <2> QED BY <2>1, <1>1, StillThere
<1>3. CASE Take \/ LookAtSender
  <2>1. UNCHANGED <<handed, payloads_, request, delivered, faults>>
    BY <1>3 DEF Take, LookAtSender, senderVars
  <2> QED BY <2>1, <1>1, StillThere
<1>4. CASE AddPayload
  <2>1. /\ payloads_' = [payloads_ EXCEPT ![at] = Append(payloads_[at], handed + 1)]
        /\ handed' = handed + 1 /\ UNCHANGED <<request, delivered, faults>>
    BY <1>4 DEF AddPayload, Current, TypeOK
  <2>2. at \in Senders
    BY <1>4 DEF AddPayload, PoolInv, TypeOK
  <2> QED BY <2>1, <2>2, HandedOver
<1>5. CASE StartSender
  <2>1. PICK s \in Senders :
            /\ op[s] = "unborn" /\ payloads_' = [payloads_ EXCEPT ![s] = <<handed + 1>>]
            /\ handed' = handed + 1
    BY <1>5, NewSender
  <2>2. payloads_[s] = <<>>
    BY <2>1 DEF PoolInv
  <2>3. Append(<<>>, handed + 1) = <<handed + 1>>
    OBVIOUS
  <2>4. UNCHANGED <<request, delivered, faults>>
    BY <1>5 DEF StartSender
  <2>5. payloads_' = [payloads_ EXCEPT ![s] = Append(payloads_[s], handed + 1)]
    BY <2>1, <2>2, <2>3
  <2> QED BY <2>1, <2>4, <2>5, HandedOver
<1>6. ASSUME NEW s \in Senders, Proceeds(s) \/ Fails(s) \/ GarbageCrashes(s) PROVE PlacesInv'
  <2>1. /\ payloads_[s] \in Seq(1 .. N) /\ Ascending(request[s], payloads_[s])
        /\ request[s] # 0 <=> op[s] \in Busy
        /\ payloads_ = [payloads_ EXCEPT ![s] = payloads_[s]]
    BY DEF TypeOK, PoolInv, PlacesInv
  <2>2. Fault => faults' = faults + 1
    BY DEF Fault
  <2>3. CASE \/ Resolved(s) \/ Connected(s) \/ Written(s) \/ ConnectionFails(s)
             \/ SetHostNameFails(s) \/ GarbageCrashes(s)
    <3>1. /\ UNCHANGED <<handed, payloads_, request, delivered>>
          /\ faults' = faults \/ Fault
      BY <2>3 DEF Resolved, Connected, Written, ConnectionFails, SetHostNameFails,
                  GarbageCrashes, saverVars, senderVars
    <3> QED BY <3>1, <2>2, <1>1, StillThere
  <2>4. CASE HandshakeDone(s)
    <3>1. /\ op[s] = "handshake" /\ SendRequest(s) /\ UNCHANGED <<handed, delivered, faults>>
      BY <2>4 DEF HandshakeDone, saverVars
    <3>2. request[s] = 0
      BY <3>1, <2>1 DEF Busy
    <3>3. CASE payloads_[s] = <<>>
      <4>1. UNCHANGED <<payloads_, request>>
        BY <3>1, <3>3 DEF SendRequest, PopEmpty
      <4> QED BY <4>1, <3>1, <1>1, StillThere
    <3>4. CASE payloads_[s] # <<>>
      <4>1. /\ request' = [request EXCEPT ![s] = Head(payloads_[s])]
            /\ payloads_' = [payloads_ EXCEPT ![s] = Tail(payloads_[s])]
        BY <3>1, <3>4 DEF SendRequest, TypeOK
      <4>2. /\ Ascending(Head(payloads_[s]), Tail(payloads_[s]))
            /\ Content(Head(payloads_[s]), Tail(payloads_[s])) = Content(request[s], payloads_[s])
        BY <2>1, <3>2, <3>4, LineShift
      <4>3. handed' = handed /\ delivered' = delivered /\ faults' \in Nat /\ faults <= faults'
        BY <3>1, <1>1
      <4> QED BY <4>1, <4>2, <4>3, Kept
    <3> QED BY <3>3, <3>4
  <2>5. CASE ExchangeFails(s)
    <3>1. /\ op[s] \in Busy /\ Fault /\ request' = [request EXCEPT ![s] = 0]
          /\ Served(s) \/ UNCHANGED delivered
          /\ UNCHANGED <<handed, payloads_>>
      BY <2>5 DEF ExchangeFails, Busy, None, saverVars
    <3>2. request[s] # 0 /\ request[s] \in 1 .. N
      BY <3>1, <2>1, TelegramSenderAssumption DEF TypeOK
    <3>3. Ascending(0, payloads_[s])
      BY <3>2, <2>1, LineDrop
    <3>4. payloads_' = [payloads_ EXCEPT ![s] = payloads_[s]]
      BY <3>1, <2>1
    <3>5. \/ Served(s) /\ faults' \in Nat /\ faults <= faults'
          \/ UNCHANGED delivered /\ faults' = faults + 1
      BY <3>1, <2>2, <1>1
    <3> QED BY <3>1, <3>2, <3>3, <3>4, <3>5, Ended
  <2>6. CASE Answered(s)
    <3>1. /\ op[s] = "read" /\ SendNextRequest(s) /\ handed' = handed
          /\ (Served(s) /\ UNCHANGED faults) \/ (Fault /\ UNCHANGED delivered)
      BY <2>6 DEF Answered, saverVars
    <3>2. request[s] # 0 /\ request[s] \in 1 .. N
      BY <3>1, <2>1, TelegramSenderAssumption DEF TypeOK, Busy
    <3>3. \/ Served(s) /\ faults' \in Nat /\ faults <= faults'
          \/ UNCHANGED delivered /\ faults' = faults + 1
      BY <3>1, <2>2, <1>1
    <3>4. CASE payloads_[s] = <<>>
      <4>1. request' = [request EXCEPT ![s] = 0] /\ payloads_' = payloads_
        BY <3>1, <3>4 DEF SendNextRequest, None
      <4>2. Ascending(0, payloads_[s])
        BY <3>2, <2>1, LineDrop
      <4>3. payloads_' = [payloads_ EXCEPT ![s] = payloads_[s]]
        BY <4>1, <2>1
      <4> QED BY <4>1, <4>2, <4>3, <3>1, <3>2, <3>3, Ended
    <3>5. CASE payloads_[s] # <<>>
      <4>1. /\ request' = [request EXCEPT ![s] = Head(payloads_[s])]
            /\ payloads_' = [payloads_ EXCEPT ![s] = Tail(payloads_[s])]
        BY <3>1, <3>5 DEF SendNextRequest, SendRequest, TypeOK
      <4>2. /\ Ascending(Head(payloads_[s]), Tail(payloads_[s]))
            /\ Content(Head(payloads_[s]), Tail(payloads_[s])) = Content(0, payloads_[s])
        BY <2>1, <3>5, LineShift
      <4> QED BY <4>1, <4>2, <3>1, <3>2, <3>3, Ended
    <3> QED BY <3>4, <3>5
  <2> QED BY <1>6, <2>3, <2>4, <2>5, <2>6 DEF Proceeds, Fails
<1> QED BY <1>2, <1>3, <1>4, <1>5, <1>6 DEF Next, Saver

LEMMA PlacesInit == Init => PlacesInv
<1> SUFFICES ASSUME Init PROVE PlacesInv
  OBVIOUS
<1>1. \A s \in Senders : request[s] = 0 /\ payloads_[s] = <<>>
  BY DEF Init, None
<1>2. delivered = <<>> /\ handed = 0 /\ faults = 0 /\ 1 .. 0 = {}
  BY DEF Init
<1>3. Range(<<>>) = {} /\ SentOf(<<>>) = {} /\ DOMAIN <<>> = {} /\ Len(<<>>) = 0
      /\ <<>> \in Seq(Senders \X (1 .. N))
  BY DEF Range, SentOf
<1>4. places = [s \in Senders |-> {}]
  BY <1>1, <1>3 DEF places, Content
<1>5. \A s \in Senders : Ascending(request[s], payloads_[s])
  BY <1>1, <1>3 DEF Ascending
<1>6. IsFiniteSet({}) /\ Cardinality({}) = 0
  BY FS_EmptySet
<1>7. Places(places, 0, <<>>, 0)
  <2>1. SentOf(<<>>) = {} /\ (1 .. 0) \ (SentOf(<<>>) \cup Everywhere(places)) = {}
    BY <1>2, <1>3
  <2>2. IsFiniteSet(SentOf(<<>>)) /\ Cardinality(SentOf(<<>>)) = Len(<<>>)
    BY <1>3, <1>6
  <2>3. Cardinality((1 .. 0) \ (SentOf(<<>>) \cup Everywhere(places))) <= 0
    BY <2>1, <1>6
  <2>4. places \in [Senders -> SUBSET (1 .. 0)] /\ \A s \in Senders : places[s] = {}
    BY <1>4
  <2> QED BY <2>1, <2>2, <2>3, <2>4, <1>3 DEF Places
<1> QED BY <1>2, <1>5, <1>7 DEF PlacesInv

LEMMA PlacesAlways == Spec => [](TypeOK /\ PlacesInv)
<1>1. Init => TypeOK /\ PoolInv /\ PlacesInv
  BY PoolInit, PlacesInit
<1>2. TypeOK /\ PoolInv /\ PlacesInv /\ [Next]_vars => TypeOK' /\ PoolInv' /\ PlacesInv'
  BY PoolStep, PlacesStep
<1> QED BY <1>1, <1>2, PTL DEF Spec

\* However many senders there are, and however their connections are lost, no
\* notification is delivered twice, none that is queued has been delivered, and
\* each sender delivers in order: what a sender holds is ascending, behind the
\* request under way, and disjoint from what the others hold.
THEOREM DeliveredOnceInOrder == Spec => []OnceAndInOrder
<1>1. TypeOK /\ PlacesInv => OnceAndInOrder
  <2> SUFFICES ASSUME TypeOK, PlacesInv PROVE OnceAndInOrder
    OBVIOUS
  <2>1. Sent = SentOf(delivered)
    BY DEF Sent, SentOf
  <2>2. \A s \in Senders : Queued(s) \subseteq places[s]
    BY DEF Queued, places, Content
  <2>3. Places(places, handed, delivered, faults)
    BY DEF PlacesInv
  <2>4. AtMostOnce
    BY <2>1, <2>2, <2>3 DEF AtMostOnce, Places
  <2>5. InOrder
    BY <2>3 DEF InOrder, Places
  <2> QED BY <2>4, <2>5 DEF OnceAndInOrder
<1> QED BY <1>1, PlacesAlways, PTL

\* Whatever fails, wherever: there are never more notifications missing than
\* operations that failed.
THEOREM OneLossPerFault == Spec => []LossPerFault
<1>1. TypeOK /\ PlacesInv => LossPerFault
  <2> SUFFICES ASSUME TypeOK, PlacesInv PROVE LossPerFault
    OBVIOUS
  <2> DEFINE Here == Sent \cup Range(request) \cup UNION {Queued(s) : s \in Senders}
  <2>1. Places(places, handed, delivered, faults) /\ Sent = SentOf(delivered)
    BY DEF PlacesInv, Sent, SentOf
  <2>2. Everywhere(places) \subseteq Here
    <3>1. \A s \in Senders : request[s] \in Range(request)
      BY DEF TypeOK, Range
    <3>2. \A s \in Senders : places[s] \subseteq Queued(s) \cup {request[s]}
      BY DEF places, Content, Queued
    <3> QED BY <3>1, <3>2 DEF Everywhere
  <2>3. (1 .. handed) \ Here \subseteq (1 .. handed) \ (SentOf(delivered) \cup Everywhere(places))
    BY <2>1, <2>2
  <2>9. handed \in Nat
    BY DEF TypeOK
  <2>4. IsFiniteSet(1 .. handed)
    BY <2>9, FS_Interval
  <2>5. IsFiniteSet((1 .. handed) \ (SentOf(delivered) \cup Everywhere(places)))
    BY <2>4, FS_Difference
  <2>6. /\ Cardinality((1 .. handed) \ Here)
              <= Cardinality((1 .. handed) \ (SentOf(delivered) \cup Everywhere(places)))
        /\ IsFiniteSet((1 .. handed) \ Here)
    BY <2>3, <2>5, FS_Subset
  <2>7. Cardinality((1 .. handed) \ (SentOf(delivered) \cup Everywhere(places))) <= faults
    BY <2>1 DEF Places
  <2>8. Cardinality((1 .. handed) \ Here) <= faults
    BY <2>5, <2>6, <2>7, FS_CardinalityType DEF TypeOK
  <2> QED BY <2>8 DEF LossPerFault
<1> QED BY <1>1, PlacesAlways, PTL

-----------------------------------------------------------------------------
(* The refinement of LossyLines.                                           *)

\* The line of a sender, when its deque grows, when a payload becomes the request,
\* and when the request is done with.
LEMMA JoinedAppend ==
    ASSUME NEW p \in Seq(1 .. N), NEW r \in 0 .. N, NEW m \in 1 .. N
    PROVE  Joined(r, Append(p, m)) = Append(Joined(r, p), m)
<1>1. CASE r = 0
  BY <1>1 DEF Joined, None
<1>2. CASE r # 0
  <2>1. <<r>> \in Seq(1 .. N) /\ <<m>> \in Seq(1 .. N)
    BY <1>2, TelegramSenderAssumption
  <2>2. Append(p, m) = p \o <<m>> /\ Append(<<r>> \o p, m) = (<<r>> \o p) \o <<m>>
    BY <2>1, AppendIsConcat, ConcatProperties
  <2>3. <<r>> \o (p \o <<m>>) = (<<r>> \o p) \o <<m>>
    BY <2>1, ConcatAssociative
  <2> QED BY <1>2, <2>2, <2>3 DEF Joined, None
<1> QED BY <1>1, <1>2

LEMMA JoinedShift ==
    ASSUME NEW p \in Seq(1 .. N), p # <<>>
    PROVE  Joined(Head(p), Tail(p)) = p /\ Joined(0, p) = p
<1>1. Head(p) \in 1 .. N /\ Head(p) # 0
  <2>1. Head(p) \in 1 .. N
    BY HeadTailProperties
  <2> QED BY <2>1
<1>2. <<Head(p)>> \o Tail(p) = p
  <2> DEFINE q == <<Head(p)>> \o Tail(p)
  <2>1. p \in Seq(1 .. N) /\ Len(p) \in Nat /\ Len(p) > 0
    BY LenProperties, EmptySeq
  <2>2. Tail(p) \in Seq(1 .. N) /\ Len(Tail(p)) = Len(p) - 1 /\ Head(p) = p[1]
        /\ \A i \in 1 .. Len(p) - 1 : Tail(p)[i] = p[i + 1]
    BY <2>1, HeadTailProperties
  <2>3. <<Head(p)>> \in Seq(1 .. N) /\ Len(<<Head(p)>>) = 1 /\ <<Head(p)>>[1] = Head(p)
    BY <1>1
  <2>4. q \in Seq(1 .. N) /\ Len(q) = Len(p)
    BY <2>1, <2>2, <2>3, ConcatProperties
  <2>5. \A i \in 1 .. Len(p) :
            q[i] = IF i <= 1 THEN <<Head(p)>>[i] ELSE Tail(p)[i - 1]
    BY <2>1, <2>2, <2>3, ConcatProperties
  <2>6. \A i \in 1 .. Len(p) : q[i] = p[i]
    <3> SUFFICES ASSUME NEW i \in 1 .. Len(p) PROVE q[i] = p[i]
      OBVIOUS
    <3>1. CASE i = 1
      BY <2>2, <2>3, <2>5, <3>1
    <3>2. CASE i # 1
      <4>1. i - 1 \in 1 .. Len(p) - 1 /\ (i - 1) + 1 = i
        BY <2>1, <3>2
      <4> QED BY <2>2, <2>5, <3>2, <4>1
    <3> QED BY <3>1, <3>2
  <2> HIDE DEF q
  <2>7. q = p
    BY <2>1, <2>4, <2>6, SeqEqual
  <2> QED BY <2>7 DEF q
<1> QED BY <1>1, <1>2 DEF Joined, None

LEMMA JoinedDone ==
    ASSUME NEW p \in Seq(1 .. N), NEW r \in 1 .. N
    PROVE  Joined(r, p) # <<>> /\ Head(Joined(r, p)) = r /\ Tail(Joined(r, p)) = p
<1>1. r # 0 /\ Joined(r, p) = <<r>> \o p
  BY DEF Joined, None
<1>2. <<r>> \in Seq(1 .. N) /\ <<r>> # <<>> /\ Head(<<r>>) = r /\ Tail(<<r>>) = <<>>
  OBVIOUS
<1>3. /\ <<r>> \o p # <<>>
      /\ Head(<<r>> \o p) = r
      /\ Tail(<<r>> \o p) = p
  OBVIOUS
<1> QED BY <1>1, <1>3

LEMMA JoinedLen ==
    ASSUME NEW p \in Seq(1 .. N), NEW r \in 0 .. N
    PROVE  Len(Joined(r, p)) \in Nat /\ Len(Joined(r, p)) <= Len(p) + 1
<1>1. CASE r = 0
  BY <1>1 DEF Joined, None
<1>2. CASE r # 0
  BY <1>2, TelegramSenderAssumption DEF Joined, None
<1> QED BY <1>1, <1>2

\* A step of one sender changes its line alone.
LEMMA LineMoves ==
    ASSUME TypeOK, NEW s \in Senders,
           NEW p, payloads_' = [payloads_ EXCEPT ![s] = p],
           NEW r, request' = [request EXCEPT ![s] = r]
    PROVE  LineOf' = [LineOf EXCEPT ![s] = Joined(r, p)]
<1>1. \A x \in Senders :
         /\ payloads_'[x] = IF x = s THEN p ELSE payloads_[x]
         /\ request'[x] = IF x = s THEN r ELSE request[x]
  BY DEF TypeOK
<1>2. LineOf' = [x \in Senders |-> Joined(request'[x], payloads_'[x])]
  BY DEF LineOf
<1>3. \A x \in Senders :
         Joined(request'[x], payloads_'[x]) = [LineOf EXCEPT ![s] = Joined(r, p)][x]
  BY <1>1 DEF LineOf
<1>4. [LineOf EXCEPT ![s] = Joined(r, p)]
        = [x \in Senders |-> [LineOf EXCEPT ![s] = Joined(r, p)][x]]
  BY DEF LineOf
<1> QED BY <1>2, <1>3, <1>4

LEMMA SameLines == UNCHANGED <<payloads_, request>> => LineOf' = LineOf
BY DEF LineOf

\* A notification enters the line it is handed to.
LEMMA Enters ==
    ASSUME TypeOK, NEW s \in Senders, handed < N, Len(payloads_[s]) < Limit,
           payloads_' = [payloads_ EXCEPT ![s] = Append(payloads_[s], handed + 1)],
           handed' = handed + 1, UNCHANGED <<request, delivered, faults>>
    PROVE  Pool!Next
<1>1. /\ payloads_[s] \in Seq(1 .. N) /\ request[s] \in 0 .. N
      /\ handed + 1 \in 1 .. N /\ Len(payloads_[s]) \in Nat
  BY LenProperties, TelegramSenderAssumption DEF TypeOK
<1>2. request' = [request EXCEPT ![s] = request[s]]
  BY DEF TypeOK
<1>3. LineOf' = [LineOf EXCEPT ![s] = Joined(request[s], Append(payloads_[s], handed + 1))]
  BY <1>2, LineMoves
<1>4. LineOf[s] = Joined(request[s], payloads_[s])
  BY DEF LineOf
<1>5. LineOf' = [LineOf EXCEPT ![s] = Append(LineOf[s], handed + 1)]
  BY <1>1, <1>3, <1>4, JoinedAppend
<1>6. Len(LineOf[s]) < Limit + 1
  BY <1>1, <1>4, JoinedLen, TelegramSenderAssumption
<1> QED BY <1>5, <1>6 DEF Pool!Next, Pool!Enter

\* The request under way ends: delivered or not, it leaves its line.
LEMMA Leaves ==
    ASSUME TypeOK, NEW s \in Senders, handed' = handed, request[s] # 0,
           NEW p, payloads_' = [payloads_ EXCEPT ![s] = p],
           NEW r, request' = [request EXCEPT ![s] = r],
           Joined(r, p) = payloads_[s],
           \/ Served(s) /\ (UNCHANGED faults \/ Fault)
           \/ UNCHANGED delivered /\ Fault
    PROVE  Pool!Next
<1>1. payloads_[s] \in Seq(1 .. N) /\ request[s] \in 1 .. N
  BY TelegramSenderAssumption DEF TypeOK
<1>2. LineOf[s] = Joined(request[s], payloads_[s])
  BY DEF LineOf
<1>3. LineOf[s] # <<>> /\ Head(LineOf[s]) = request[s] /\ Tail(LineOf[s]) = payloads_[s]
  BY <1>1, <1>2, JoinedDone
<1>4. LineOf' = [LineOf EXCEPT ![s] = Tail(LineOf[s])]
  <2>1. LineOf' = [LineOf EXCEPT ![s] = Joined(r, p)]
    BY LineMoves
  <2> QED BY <1>3, <2>1, Zenon
<1>5. Pool!Leave(s)
  BY <1>3, <1>4 DEF Pool!Leave
<1>6. Pool!Fault <=> Fault
  BY DEF Pool!Fault, Fault
<1>7. CASE Served(s) /\ (UNCHANGED faults \/ Fault)
  BY <1>3, <1>5, <1>6, <1>7 DEF Served, Pool!Deliver, Pool!Next
<1>8. CASE UNCHANGED delivered /\ Fault
  BY <1>5, <1>6, <1>8 DEF Pool!GiveUp, Pool!Next
<1> QED BY <1>7, <1>8

LEMMA LinesStand ==
    ASSUME UNCHANGED <<handed, delivered>>, LineOf' = LineOf, UNCHANGED faults \/ Fault
    PROVE  [Pool!Next]_(Pool!vars)
<1>1. CASE UNCHANGED faults
  BY <1>1 DEF Pool!vars
<1>2. CASE Fault
  BY <1>2 DEF Fault, Pool!Next, Pool!Trouble, Pool!Fault
<1> QED BY <1>1, <1>2

LEMMA PoolRefines ==
    ASSUME TypeOK, PoolInv, [Next]_vars PROVE [Pool!Next]_(Pool!vars)
<1>1. CASE UNCHANGED vars
  <2>1. UNCHANGED <<handed, payloads_, request, delivered, faults>>
    BY <1>1 DEF vars, saverVars, senderVars
  <2> QED BY <2>1, SameLines, LinesStand
<1>2. CASE Take \/ LookAtSender
  <2>1. UNCHANGED <<handed, payloads_, request, delivered, faults>>
    BY <1>2 DEF Take, LookAtSender, senderVars
  <2> QED BY <2>1, SameLines, LinesStand
<1>3. CASE AddPayload
  <2>1. /\ payloads_' = [payloads_ EXCEPT ![at] = Append(payloads_[at], handed + 1)]
        /\ handed' = handed + 1 /\ UNCHANGED <<request, delivered, faults>>
    BY <1>3 DEF AddPayload, Current, TypeOK
  <2>2. at \in Senders /\ handed < N /\ Len(payloads_[at]) < Limit
    BY <1>3 DEF AddPayload, PoolInv, TypeOK
  <2> QED BY <2>1, <2>2, Enters
<1>4. CASE StartSender
  <2>1. PICK s \in Senders :
            /\ op[s] = "unborn" /\ payloads_' = [payloads_ EXCEPT ![s] = <<handed + 1>>]
            /\ handed' = handed + 1
    BY <1>4, NewSender
  <2>2. payloads_[s] = <<>>
    BY <2>1 DEF PoolInv
  <2>3. Append(<<>>, handed + 1) = <<handed + 1>> /\ Len(<<>>) = 0
    OBVIOUS
  <2>4. UNCHANGED <<request, delivered, faults>>
    BY <1>4 DEF StartSender
  <2>5. payloads_' = [payloads_ EXCEPT ![s] = Append(payloads_[s], handed + 1)]
    BY <2>1, <2>2, <2>3
  <2>6. handed < N /\ Len(payloads_[s]) < Limit
    BY <1>4, <2>2, <2>3, TelegramSenderAssumption DEF StartSender, PoolInv
  <2> QED BY <2>1, <2>4, <2>5, <2>6, Enters
<1>5. ASSUME NEW s \in Senders, Proceeds(s) \/ Fails(s) \/ GarbageCrashes(s)
      PROVE  [Pool!Next]_(Pool!vars)
  <2>1. /\ payloads_[s] \in Seq(1 .. N)
        /\ request[s] # 0 <=> op[s] \in Busy
        /\ payloads_ = [payloads_ EXCEPT ![s] = payloads_[s]]
    BY DEF TypeOK, PoolInv
  <2>2. CASE \/ Resolved(s) \/ Connected(s) \/ Written(s) \/ ConnectionFails(s)
             \/ SetHostNameFails(s) \/ GarbageCrashes(s)
    <3>1. /\ UNCHANGED <<handed, payloads_, request, delivered>>
          /\ faults' = faults \/ Fault
      BY <2>2 DEF Resolved, Connected, Written, ConnectionFails, SetHostNameFails,
                  GarbageCrashes, saverVars, senderVars
    <3> QED BY <3>1, SameLines, LinesStand
  <2>3. CASE HandshakeDone(s)
    <3>1. /\ op[s] = "handshake" /\ SendRequest(s) /\ UNCHANGED <<handed, delivered, faults>>
      BY <2>3 DEF HandshakeDone, saverVars
    <3>2. request[s] = 0
      BY <3>1, <2>1 DEF Busy
    <3>3. CASE payloads_[s] = <<>>
      <4>1. UNCHANGED <<payloads_, request>>
        BY <3>1, <3>3 DEF SendRequest, PopEmpty
      <4> QED BY <4>1, <3>1, SameLines, LinesStand
    <3>4. CASE payloads_[s] # <<>>
      <4>1. /\ request' = [request EXCEPT ![s] = Head(payloads_[s])]
            /\ payloads_' = [payloads_ EXCEPT ![s] = Tail(payloads_[s])]
        BY <3>1, <3>4 DEF SendRequest, TypeOK
      <4>2. /\ Joined(Head(payloads_[s]), Tail(payloads_[s])) = payloads_[s]
            /\ LineOf[s] = payloads_[s]
        BY <2>1, <3>2, <3>4, JoinedShift DEF LineOf
      <4>3. LineOf' = [LineOf EXCEPT ![s] = LineOf[s]]
        BY <4>1, <4>2, LineMoves
      <4>4. LineOf' = LineOf
        BY <4>3 DEF LineOf
      <4> QED BY <4>4, <3>1, LinesStand
    <3> QED BY <3>3, <3>4
  <2>4. CASE ExchangeFails(s)
    <3>1. /\ op[s] \in Busy /\ Fault /\ request' = [request EXCEPT ![s] = 0]
          /\ Served(s) \/ UNCHANGED delivered
          /\ UNCHANGED <<handed, payloads_>>
      BY <2>4 DEF ExchangeFails, Busy, None, saverVars
    <3>2. request[s] # 0 /\ payloads_' = [payloads_ EXCEPT ![s] = payloads_[s]]
      BY <3>1, <2>1
    <3>3. Joined(0, payloads_[s]) = payloads_[s]
      BY DEF Joined, None
    <3> QED BY <3>1, <3>2, <3>3, Leaves
  <2>5. CASE Answered(s)
    <3>1. /\ op[s] = "read" /\ SendNextRequest(s) /\ handed' = handed
          /\ (Served(s) /\ UNCHANGED faults) \/ (Fault /\ UNCHANGED delivered)
      BY <2>5 DEF Answered, saverVars
    <3>2. request[s] # 0
      BY <3>1, <2>1 DEF Busy
    <3>3. CASE payloads_[s] = <<>>
      <4>1. /\ request' = [request EXCEPT ![s] = 0]
            /\ payloads_' = [payloads_ EXCEPT ![s] = payloads_[s]]
        BY <3>1, <3>3, <2>1 DEF SendNextRequest, None
      <4>2. Joined(0, payloads_[s]) = payloads_[s]
        BY DEF Joined, None
      <4> QED BY <4>1, <4>2, <3>1, <3>2, Leaves
    <3>4. CASE payloads_[s] # <<>>
      <4>1. /\ request' = [request EXCEPT ![s] = Head(payloads_[s])]
            /\ payloads_' = [payloads_ EXCEPT ![s] = Tail(payloads_[s])]
        BY <3>1, <3>4 DEF SendNextRequest, SendRequest, TypeOK
      <4>2. Joined(Head(payloads_[s]), Tail(payloads_[s])) = payloads_[s]
        BY <2>1, <3>4, JoinedShift
      <4> QED BY <4>1, <4>2, <3>1, <3>2, Leaves
    <3> QED BY <3>3, <3>4
  <2> QED BY <1>5, <2>2, <2>3, <2>4, <2>5 DEF Proceeds, Fails
<1> QED BY <1>1, <1>2, <1>3, <1>4, <1>5 DEF Next, Saver

\* Whatever the two threads do to a deque, and however often a sender reconnects,
\* its notifications leave in the order in which they came, a failure costs the one
\* under way at most, and no sender holds more than its limit and that one.
THEOREM SendersAreLossyLines == Spec => ImplementsLines
<1>1. Init => Pool!Init
  <2> SUFFICES ASSUME Init PROVE Pool!Init
    OBVIOUS
  <2>1. \A s \in Senders : Joined(request[s], payloads_[s]) = <<>>
    BY DEF Init, Joined
  <2>2. LineOf = [s \in Senders |-> <<>>]
    BY <2>1 DEF LineOf
  <2> QED BY <2>2 DEF Init, Pool!Init
<1>2. Init => TypeOK /\ PoolInv
  BY PoolInit
<1>3. TypeOK /\ PoolInv /\ [Next]_vars => [Pool!Next]_(Pool!vars)
  BY PoolRefines
<1> QED BY <1>1, <1>2, <1>3, PoolStep, PTL DEF Spec, Pool!Spec, ImplementsLines
=============================================================================
