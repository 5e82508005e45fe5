-------------------------- MODULE HttpSessionProofs --------------------------
(* What HttpSession promises for every number of connections, requests and  *)
(* resets: types, order of the answers, who frees a session, who leaks one. *)
EXTENDS HttpSession, SequenceTheorems, TLAPS

-----------------------------------------------------------------------------
(* The state of the sessions.                                              *)

Ops == {"header", "body", "answer", "last", "none"}

\* A connection that is yet to come has no operation and no socket.
SessionInv ==
    /\ accepted \in Nat /\ accepted <= MaxConns
    /\ sessions_ \subseteq 1 .. accepted
    /\ op \in [Conns -> Ops]
    /\ is_open \in [Conns -> BOOLEAN]
    /\ \A c \in Conns : c > accepted => op[c] = "none" /\ ~ is_open[c]
    /\ OrphansTimedOut
    /\ LeaksUnwritten

\* What an action of session c does is seen in c alone.
LEMMA OneSession ==
    ASSUME SessionInv, NEW c \in sessions_,
           UNCHANGED <<accepted, sessions_>>,
           op' \in [Conns -> Ops], is_open' \in [Conns -> BOOLEAN],
           \A d \in Conns : d # c => op'[d] = op[d] /\ is_open'[d] = is_open[d],
           timedOut \subseteq timedOut', unwritten \subseteq unwritten',
           op'[c] # "none" /\ ~ is_open'[c] => c \in timedOut',
           op'[c] = "none" /\ is_open'[c] => c \in unwritten'
    PROVE  SessionInv'
<1>1. c \in Conns /\ c <= accepted
  BY HttpSessionAssumption DEF SessionInv, Conns
<1>2. ASSUME NEW d \in Conns, d > accepted PROVE op'[d] = "none" /\ ~ is_open'[d]
  <2>1. d # c
    BY <1>1, <1>2 DEF SessionInv, Conns
  <2>2. op'[d] = op[d] /\ (is_open'[d] <=> is_open[d])
    BY <2>1
  <2>3. op[d] = "none" /\ ~ is_open[d]
    BY <1>2 DEF SessionInv
  <2> QED BY <2>2, <2>3
<1>3. 1 .. accepted \subseteq Conns
  BY HttpSessionAssumption DEF SessionInv, Conns
<1>4. ASSUME NEW d \in 1 .. accepted
      PROVE  /\ op'[d] # "none" /\ (d \notin sessions_ \/ ~ is_open'[d]) => d \in timedOut'
             /\ is_open'[d] => d \in sessions_
             /\ op'[d] = "none" /\ is_open'[d] => d \in unwritten'
  <2>1. CASE d = c
    BY <2>1, <1>1
  <2>2. CASE d # c
    <3>1. d \in Conns
      BY <1>3
    <3>2. op'[d] = op[d] /\ (is_open'[d] <=> is_open[d])
      BY <2>2, <3>1
    <3>3. /\ op[d] # "none" /\ (d \notin sessions_ \/ ~ is_open[d]) => d \in timedOut
          /\ is_open[d] => d \in sessions_
          /\ op[d] = "none" /\ is_open[d] => d \in unwritten
      BY DEF SessionInv, OrphansTimedOut, LeaksUnwritten
    <3> QED BY <3>2, <3>3
  <2> QED BY <2>1, <2>2
<1>5. OrphansTimedOut' /\ LeaksUnwritten'
  BY <1>4 DEF OrphansTimedOut, LeaksUnwritten
<1> QED BY <1>2, <1>5 DEF SessionInv

LEMMA AcceptKeepsSessions == SessionInv /\ OnConnectionAccepted => SessionInv'
<1> SUFFICES ASSUME SessionInv, OnConnectionAccepted PROVE SessionInv'
  OBVIOUS
<1> DEFINE new == accepted + 1
<1>1. /\ new \in Conns /\ accepted' = new /\ new <= MaxConns
      /\ sessions_' = Pruned \cup {new}
      /\ op' = [op EXCEPT ![new] = "header"]
      /\ is_open' = [is_open EXCEPT ![new] = TRUE]
      /\ UNCHANGED <<timedOut, unwritten>>
  BY HttpSessionAssumption DEF OnConnectionAccepted, Conns
<1>2. Pruned \subseteq sessions_ /\ \A c \in sessions_ : is_open[c] => c \in Pruned
  BY DEF Pruned
<1>3. accepted \in Nat /\ sessions_ \subseteq 1 .. accepted
  BY DEF SessionInv
<1>4. sessions_' \subseteq 1 .. accepted'
  BY <1>1, <1>2, <1>3
<1>5. op' \in [Conns -> Ops] /\ is_open' \in [Conns -> BOOLEAN]
  BY <1>1 DEF SessionInv, Ops
<1>6. /\ op'[new] = "header" /\ is_open'[new]
      /\ \A c \in Conns : c # new => op'[c] = op[c] /\ is_open'[c] = is_open[c]
  BY <1>1 DEF SessionInv
<1>7. \A c \in 1 .. accepted' : c = new \/ c \in 1 .. accepted
  BY <1>1, <1>3
<1>8. 1 .. accepted' \subseteq Conns /\ new \notin 1 .. accepted
  BY <1>1, <1>3, HttpSessionAssumption DEF Conns
<1>9. \A c \in Conns : c > accepted' => op'[c] = "none" /\ ~ is_open'[c]
  BY <1>1, <1>3, <1>6 DEF SessionInv, Conns
<1>10. OrphansTimedOut'
  <2> SUFFICES ASSUME NEW c \in 1 .. accepted'
               PROVE  /\ op'[c] # "none" /\ (c \notin sessions_' \/ ~ is_open'[c])
                             => c \in timedOut'
                      /\ is_open'[c] => c \in sessions_'
    BY DEF OrphansTimedOut
  <2>1. CASE c = new
    BY <2>1, <1>1, <1>6
  <2>2. CASE c # new
    BY <2>2, <1>1, <1>2, <1>6, <1>7, <1>8 DEF SessionInv, OrphansTimedOut
  <2> QED BY <2>1, <2>2
<1>11. LeaksUnwritten'
  BY <1>1, <1>6, <1>7, <1>8 DEF SessionInv, LeaksUnwritten
<1> QED BY <1>1, <1>3, <1>4, <1>5, <1>9, <1>10, <1>11 DEF SessionInv

LEMMA SessionStep == SessionInv /\ [Next]_vars => SessionInv'
<1> SUFFICES ASSUME SessionInv, [Next]_vars PROVE SessionInv'
  OBVIOUS
<1> USE DEF SessionInv, Ops
<1>0. ASSUME UNCHANGED <<accepted, sessions_, op, is_open, timedOut, unwritten>>
      PROVE  SessionInv'
  BY <1>0 DEF OrphansTimedOut, LeaksUnwritten
<1>1. CASE OnConnectionAccepted
  BY <1>1, AcceptKeepsSessions
<1>2. ASSUME NEW c \in Conns, ClientSends(c) \/ ClientCloses(c) PROVE SessionInv'
  BY <1>0, <1>2 DEF ClientSends, ClientCloses, sessionVars
<1>3. ASSUME NEW c \in Conns, OnHeaderRead(c) \/ OnDataRead(c) \/ ReadFails(c)
      PROVE  SessionInv'
  <2>1. /\ c \in sessions_ /\ op[c] # "none"
        /\ UNCHANGED <<accepted, sessions_, is_open, timedOut, unwritten>>
        /\ \E o \in {"body", "answer", "last"} : op' = [op EXCEPT ![c] = o]
    BY <1>3 DEF OnHeaderRead, OnDataRead, ReadFails, Runs
  <2>2. ~ is_open[c] => c \in timedOut
    BY <2>1 DEF OrphansTimedOut
  <2> QED BY <2>1, <2>2, OneSession
<1>4. ASSUME NEW c \in Conns, EndOfStream(c) \/ LastWritten(c) PROVE SessionInv'
  <2>1. /\ c \in sessions_
        /\ UNCHANGED <<accepted, sessions_, timedOut, unwritten>>
        /\ op' = [op EXCEPT ![c] = "none"] /\ is_open' = [is_open EXCEPT ![c] = FALSE]
    BY <1>4 DEF EndOfStream, LastWritten, ShutdownSocket, Runs
  <2> QED BY <2>1, OneSession
<1>5. ASSUME NEW c \in Conns, OnDataWritten(c) PROVE SessionInv'
  <2>1. /\ c \in sessions_ /\ is_open[c]
        /\ UNCHANGED <<accepted, sessions_, is_open, timedOut, unwritten>>
        /\ op' = [op EXCEPT ![c] = "header"]
    BY <1>5 DEF OnDataWritten, HttpReadData, Runs
  <2> QED BY <2>1, OneSession
<1>6. ASSUME NEW c \in Conns, WriteFails(c) PROVE SessionInv'
  <2>1. /\ c \in sessions_
        /\ UNCHANGED <<accepted, sessions_, is_open, timedOut>>
        /\ op' = [op EXCEPT ![c] = "none"] /\ unwritten' = unwritten \cup {c}
    BY <1>6 DEF WriteFails, Runs
  <2> QED BY <2>1, OneSession
<1>7. ASSUME NEW c \in Conns, TimeOut(c) PROVE SessionInv'
  <2>1. /\ c \in sessions_ /\ op[c] # "none"
        /\ UNCHANGED <<accepted, sessions_, op, unwritten>>
        /\ is_open' = [is_open EXCEPT ![c] = FALSE] /\ timedOut' = timedOut \cup {c}
    BY <1>7 DEF TimeOut, Runs
  <2> QED BY <2>1, OneSession
<1>8. ASSUME NEW c \in Conns, OrphanRuns(c) PROVE SessionInv'
  <2>1. /\ c \notin sessions_ /\ UNCHANGED <<accepted, sessions_, is_open, timedOut, unwritten>>
        /\ op' = op \/ op' = [op EXCEPT ![c] = "none"]
    BY <1>8 DEF OrphanRuns
  <2>2. ~ is_open[c]
    BY <2>1 DEF OrphansTimedOut, Conns
  <2>3. \A d \in Conns : op'[d] = op[d] \/ (op'[d] = "none" /\ ~ is_open[d])
    BY <2>1, <2>2
  <2>4. 1 .. accepted \subseteq Conns
    BY HttpSessionAssumption DEF Conns
  <2>5. OrphansTimedOut' /\ LeaksUnwritten'
    BY <2>1, <2>3, <2>4 DEF OrphansTimedOut, LeaksUnwritten
  <2>6. op' \in [Conns -> Ops]
    BY <2>1
  <2> QED BY <2>1, <2>3, <2>5, <2>6
<1>9. CASE UNCHANGED vars
  BY <1>0, <1>9 DEF vars, sessionVars
<1> QED BY <1>1, <1>2, <1>3, <1>4, <1>5, <1>6, <1>7, <1>8, <1>9 DEF Next, Completes

LEMMA SessionInit == Init => SessionInv
BY HttpSessionAssumption DEF Init, SessionInv, Ops, OrphansTimedOut, LeaksUnwritten

\* However many connections there are and however they interleave, server_t frees
\* a session under a handler that is still to run only when the time-out has
\* closed its socket.
THEOREM FreedAfterTimeOut == Spec => []OrphansTimedOut
<1>1. SessionInv => OrphansTimedOut
  BY DEF SessionInv
<1> QED BY <1>1, SessionInit, SessionStep, PTL DEF Spec

\* However many connections there are, a session of server_t that no handler runs
\* for keeps its socket open only after a write that failed.
THEOREM LeakedByFailedWrites == Spec => []LeaksUnwritten
<1>1. SessionInv => LeaksUnwritten
  BY DEF SessionInv
<1> QED BY <1>1, SessionInit, SessionStep, PTL DEF Spec
-----------------------------------------------------------------------------
(* The order of the answers.                                               *)

\* What may be on the wire of a client: requests up to the last one it sent, in
\* their order, behind the last that was read, and rests of requests.
Wire(w, read, last) ==
    /\ w \in Seq(Nat)
    /\ \A i \in 1 .. Len(w) : w[i] # 0 => read < w[i] /\ w[i] <= last
    /\ \A i, j \in 1 .. Len(w) : i < j /\ w[i] # 0 /\ w[j] # 0 => w[i] < w[j]

LEMMA WireShorter ==
    ASSUME NEW w, NEW read \in Nat, NEW last \in Nat, Wire(w, read, last),
           NEW n \in 0 .. Len(w)
    PROVE  /\ Wire(SubSeq(w, n + 1, Len(w)), read, last)
           /\ n < Len(w) => Wire(<<0>> \o SubSeq(w, n + 2, Len(w)), read, last)
<1>1. w \in Seq(Nat) /\ Len(w) \in Nat
  BY DEF Wire
<1>2. ASSUME NEW m \in 0 .. Len(w)
      PROVE  /\ SubSeq(w, m + 1, Len(w)) \in Seq(Nat)
             /\ Len(SubSeq(w, m + 1, Len(w))) = Len(w) - m
             /\ \A i \in 1 .. Len(w) - m : SubSeq(w, m + 1, Len(w))[i] = w[m + i]
  <2>1. \A i \in m + 1 .. Len(w) : w[i] \in Nat
    BY <1>1, ElementOfSeq
  <2>2. m + 1 \in Int /\ Len(w) \in Int
    BY <1>1
  <2>3. /\ SubSeq(w, m + 1, Len(w)) \in Seq(Nat)
        /\ Len(SubSeq(w, m + 1, Len(w))) = IF m + 1 <= Len(w) THEN Len(w) - (m + 1) + 1 ELSE 0
        /\ \A i \in 1 .. Len(w) - (m + 1) + 1 : SubSeq(w, m + 1, Len(w))[i] = w[m + 1 + i - 1]
    BY <2>1, <2>2, SubSeqProperties
  <2> QED BY <2>3, <1>1
<1>3. Wire(SubSeq(w, n + 1, Len(w)), read, last)
  <2> DEFINE s == SubSeq(w, n + 1, Len(w))
  <2>1. s \in Seq(Nat) /\ Len(s) = Len(w) - n /\ \A i \in 1 .. Len(s) : s[i] = w[n + i]
    BY <1>2
  <2>2. \A i \in 1 .. Len(s) : n + i \in 1 .. Len(w)
    BY <2>1, <1>1
  <2> HIDE DEF s
  <2>3. \A i \in 1 .. Len(s) : s[i] # 0 => read < s[i] /\ s[i] <= last
    BY <2>1, <2>2 DEF Wire
  <2>4. ASSUME NEW i \in 1 .. Len(s), NEW j \in 1 .. Len(s), i < j, s[i] # 0, s[j] # 0
        PROVE  s[i] < s[j]
    <3>1. n + i \in 1 .. Len(w) /\ n + j \in 1 .. Len(w) /\ n + i < n + j
      BY <2>2, <2>4, <1>1
    <3>2. s[i] = w[n + i] /\ s[j] = w[n + j]
      BY <2>1
    <3> QED BY <3>1, <3>2, <2>4 DEF Wire
  <2>5. Wire(s, read, last)
    BY <2>1, <2>3, <2>4 DEF Wire
  <2> QED BY <2>5 DEF s
<1>4. ASSUME n < Len(w) PROVE Wire(<<0>> \o SubSeq(w, n + 2, Len(w)), read, last)
  <2> DEFINE s == SubSeq(w, n + 2, Len(w))
             t == <<0>> \o s
  <2>1. n + 1 \in 0 .. Len(w) /\ (n + 1) + 1 = n + 2
    BY <1>4, <1>1
  <2>2. s \in Seq(Nat) /\ Len(s) = Len(w) - (n + 1) /\ \A i \in 1 .. Len(s) : s[i] = w[n + 1 + i]
    BY <1>2, <2>1
  <2> HIDE DEF s
  <2>3. <<0>> \in Seq(Nat) /\ Len(<<0>>) = 1 /\ <<0>>[1] = 0
    OBVIOUS
  <2>4. /\ t \in Seq(Nat) /\ Len(t) = 1 + Len(s)
        /\ \A i \in 1 .. 1 + Len(s) : t[i] = IF i <= 1 THEN <<0>>[i] ELSE s[i - 1]
    BY <2>2, <2>3, ConcatProperties
  <2>5. Len(s) \in Nat
    BY <2>2
  <2> HIDE DEF t
  <2>6. \A i \in 1 .. Len(t) : t[i] # 0 =>
            /\ i > 1 /\ n + i \in 1 .. Len(w) /\ t[i] = w[n + i]
    <3> SUFFICES ASSUME NEW i \in 1 .. Len(t), t[i] # 0
                 PROVE  i > 1 /\ n + i \in 1 .. Len(w) /\ t[i] = w[n + i]
      OBVIOUS
    <3>1. i > 1
      BY <2>3, <2>4, <2>5
    <3>2. i - 1 \in 1 .. Len(s) /\ t[i] = s[i - 1]
      BY <3>1, <2>4, <2>5
    <3>3. t[i] = w[n + 1 + (i - 1)]
      BY <3>2, <2>2
    <3> QED BY <3>1, <3>2, <3>3, <2>2, <1>1
  <2>7. \A i \in 1 .. Len(t) : t[i] # 0 => read < t[i] /\ t[i] <= last
    BY <2>6 DEF Wire
  <2>8. ASSUME NEW i \in 1 .. Len(t), NEW j \in 1 .. Len(t), i < j, t[i] # 0, t[j] # 0
        PROVE  t[i] < t[j]
    <3>1. /\ n + i \in 1 .. Len(w) /\ n + j \in 1 .. Len(w)
          /\ t[i] = w[n + i] /\ t[j] = w[n + j]
      BY <2>6, <2>8
    <3>2. n + i < n + j
      BY <2>8, <1>1
    <3> QED BY <3>1, <3>2, <2>8 DEF Wire
  <2>9. Wire(t, read, last)
    BY <2>4, <2>7, <2>8 DEF Wire
  <2> QED BY <2>9 DEF t, s
<1> QED BY <1>3, <1>4

\* The next request, and what is left behind it.
LEMMA WireHead ==
    ASSUME NEW w, NEW read \in Nat, NEW last \in Nat, Wire(w, read, last),
           w # <<>>, Head(w) # 0
    PROVE  /\ Head(w) \in Nat /\ read < Head(w) /\ Head(w) <= last
           /\ Wire(Tail(w), Head(w), last)
<1>1. w \in Seq(Nat) /\ Len(w) \in Nat \ {0} /\ Head(w) = w[1]
  BY EmptySeq DEF Wire
<1>2. /\ Head(w) \in Nat /\ Tail(w) \in Seq(Nat) /\ Len(Tail(w)) = Len(w) - 1
      /\ \A i \in 1 .. Len(Tail(w)) : Tail(w)[i] = w[i + 1]
  BY <1>1, HeadTailProperties
<1>3. read < Head(w) /\ Head(w) <= last
  BY <1>1 DEF Wire
<1>4. \A i \in 1 .. Len(Tail(w)) : i + 1 \in 1 .. Len(w)
  BY <1>1, <1>2
<1>5. Wire(Tail(w), Head(w), last)
  <2> DEFINE h == Head(w)  t == Tail(w)
  <2>1. h = w[1] /\ 1 \in 1 .. Len(w) /\ h # 0
    BY <1>1
  <2>2. t \in Seq(Nat) /\ \A i \in 1 .. Len(t) : t[i] = w[i + 1] /\ i + 1 \in 1 .. Len(w)
    BY <1>2, <1>4
  <2>3. Len(t) \in Nat
    BY <1>1, <1>2
  <2> HIDE DEF h, t
  <2>4. \A i \in 1 .. Len(t) : 1 < i + 1
    BY <2>3
  <2>5. \A i \in 1 .. Len(t) : t[i] # 0 => h < t[i] /\ t[i] <= last
    BY <2>1, <2>2, <2>4 DEF Wire
  <2>6. ASSUME NEW i \in 1 .. Len(t), NEW j \in 1 .. Len(t), i < j, t[i] # 0, t[j] # 0
        PROVE  t[i] < t[j]
    <3>1. i + 1 < j + 1
      BY <2>3, <2>6
    <3> QED BY <3>1, <2>2, <2>6 DEF Wire
  <2>7. Wire(t, h, last)
    BY <2>2, <2>5, <2>6 DEF Wire
  <2> QED BY <2>7 DEF h, t
<1> QED BY <1>2, <1>3, <1>5

\* A request that is sent.
LEMMA WireLonger ==
    ASSUME NEW w, NEW read \in Nat, NEW last \in Nat, read <= last, Wire(w, read, last)
    PROVE  Wire(Append(w, last + 1), read, last + 1)
<1> DEFINE a == Append(w, last + 1)
<1>1. w \in Seq(Nat) /\ Len(w) \in Nat /\ last + 1 \in Nat
  BY DEF Wire
<1>2. /\ a \in Seq(Nat) /\ Len(a) = Len(w) + 1
      /\ \A i \in 1 .. Len(w) : a[i] = w[i]
      /\ a[Len(w) + 1] = last + 1
  BY <1>1, AppendProperties
<1> HIDE DEF a
<1>3. \A i \in 1 .. Len(a) : i \in 1 .. Len(w) \/ i = Len(w) + 1
  BY <1>1, <1>2
<1>4. \A i \in 1 .. Len(a) : a[i] # 0 => read < a[i] /\ a[i] <= last + 1
  <2> SUFFICES ASSUME NEW i \in 1 .. Len(a), a[i] # 0
               PROVE  read < a[i] /\ a[i] <= last + 1
    OBVIOUS
  <2>1. CASE i \in 1 .. Len(w)
    <3>1. a[i] \in Nat /\ a[i] = w[i]
      BY <2>1, <1>1, <1>2, ElementOfSeq
    <3>2. read < w[i] /\ w[i] <= last
      BY <2>1, <3>1 DEF Wire
    <3> QED BY <3>1, <3>2
  <2>2. CASE i = Len(w) + 1
    BY <2>2, <1>2
  <2> QED BY <2>1, <2>2, <1>3
<1>5. ASSUME NEW i \in 1 .. Len(a), NEW j \in 1 .. Len(a), i < j, a[i] # 0, a[j] # 0
      PROVE  a[i] < a[j]
  <2>1. i \in 1 .. Len(w)
    BY <1>1, <1>2, <1>5
  <2>2. a[i] = w[i] /\ a[i] \in Nat /\ w[i] <= last
    BY <2>1, <1>1, <1>2, <1>5, ElementOfSeq DEF Wire
  <2>3. CASE j \in 1 .. Len(w)
    BY <2>1, <2>2, <2>3, <1>2, <1>5 DEF Wire
  <2>4. CASE j = Len(w) + 1
    BY <2>2, <2>4, <1>2
  <2> QED BY <2>3, <2>4, <1>3
<1>6. Wire(a, read, last + 1)
  BY <1>2, <1>4, <1>5 DEF Wire
<1> QED BY <1>6 DEF a

\* What holds between the answers a, the operation o, the last request read r, the
\* wire w and the number n of requests of client c.
Order(c, a, o, r, w, n) ==
    /\ r \in Nat /\ n \in Nat /\ r <= n
    /\ Wire(w, r, n)
    /\ o \in {"body", "answer"} => 1 <= r
    /\ a \in Seq(Nat)
    /\ \A i \in 1 .. Len(a) : 1 <= a[i] /\ a[i] <= r
                              /\ (o \in {"body", "answer"} => a[i] < r)
    /\ \A i, j \in 1 .. Len(a) : i < j => a[i] < a[j]
    /\ c \notin Pipelining => n <= Len(a) + 1 /\ \A i \in 1 .. Len(a) : a[i] = i

LEMMA OrderReads ==
    ASSUME NEW c, NEW a, NEW o, NEW r, NEW w, NEW n, NEW v, Order(c, a, o, r, w, n),
           w # <<>>, Head(w) # 0, Wire(v, Head(w), n)
    PROVE  Order(c, a, "body", Head(w), v, n)
<1>1. r \in Nat /\ n \in Nat /\ Wire(w, r, n)
  BY DEF Order
<1>2. Head(w) \in Nat /\ r < Head(w) /\ Head(w) <= n
  BY <1>1, WireHead
<1>3. \A i \in 1 .. Len(a) : a[i] \in Nat /\ 1 <= a[i] /\ a[i] <= r
  BY ElementOfSeq DEF Order
<1>4. \A i \in 1 .. Len(a) : a[i] < Head(w) /\ a[i] <= Head(w)
  BY <1>1, <1>2, <1>3
<1> QED BY <1>1, <1>2, <1>3, <1>4 DEF Order

LEMMA OrderMoves ==
    ASSUME NEW c, NEW a, NEW o, NEW r, NEW w, NEW n, NEW p, NEW v,
           Order(c, a, o, r, w, n), Wire(v, r, n),
           p \in {"body", "answer"} => o \in {"body", "answer"}
    PROVE  Order(c, a, p, r, v, n)
BY DEF Order

LEMMA OrderSends ==
    ASSUME NEW c, NEW a, NEW o, NEW r, NEW w, NEW n, Order(c, a, o, r, w, n),
           c \in Pipelining \/ Len(a) = n
    PROVE  Order(c, a, o, r, Append(w, n + 1), n + 1)
<1>1. r \in Nat /\ n \in Nat /\ r <= n /\ Wire(w, r, n)
  BY DEF Order
<1>2. Wire(Append(w, n + 1), r, n + 1)
  BY <1>1, WireLonger
<1>3. n + 1 \in Nat /\ r <= n + 1 /\ (c \notin Pipelining => n + 1 <= Len(a) + 1)
  BY <1>1
<1> QED BY <1>2, <1>3 DEF Order

LEMMA OrderAnswers ==
    ASSUME NEW c, NEW a, NEW r, NEW w, NEW n, Order(c, a, "answer", r, w, n)
    PROVE  Order(c, Append(a, r), "header", r, w, n)
<1> DEFINE b == Append(a, r)
<1>1. r \in Nat /\ n \in Nat /\ 1 <= r /\ r <= n /\ a \in Seq(Nat) /\ Len(a) \in Nat
  BY DEF Order
<1>2. b \in Seq(Nat) /\ Len(b) = Len(a) + 1
  BY <1>1, AppendProperties
<1>3. (\A i \in 1 .. Len(a) : b[i] = a[i]) /\ b[Len(a) + 1] = r
  BY <1>1, AppendProperties
<1> HIDE DEF b
<1>4. \A i \in 1 .. Len(b) : i \in 1 .. Len(a) \/ i = Len(a) + 1
  BY <1>1, <1>2
<1>5. \A i \in 1 .. Len(a) : 1 <= a[i] /\ a[i] < r /\ a[i] <= r
  BY DEF Order
<1>6. \A i \in 1 .. Len(b) : 1 <= b[i] /\ b[i] <= r
  BY <1>1, <1>3, <1>4, <1>5
<1>7. ASSUME NEW i \in 1 .. Len(b), NEW j \in 1 .. Len(b), i < j PROVE b[i] < b[j]
  <2>1. i \in 1 .. Len(a)
    BY <1>1, <1>2, <1>7
  <2>2. CASE j \in 1 .. Len(a)
    BY <2>1, <2>2, <1>3, <1>7 DEF Order
  <2>3. CASE j = Len(a) + 1
    BY <2>1, <2>3, <1>3, <1>5
  <2> QED BY <2>2, <2>3, <1>4
<1>8. ASSUME c \notin Pipelining
      PROVE  n <= Len(b) + 1 /\ \A i \in 1 .. Len(b) : b[i] = i
  <2>1. n <= Len(a) + 1 /\ \A i \in 1 .. Len(a) : a[i] = i
    BY <1>8 DEF Order
  <2>2. r = Len(a) + 1
    <3>1. CASE Len(a) = 0
      BY <3>1, <2>1, <1>1
    <3>2. CASE Len(a) # 0
      <4>1. Len(a) \in 1 .. Len(a)
        BY <3>2, <1>1
      <4>2. Len(a) < r
        BY <4>1, <2>1, <1>5
      <4> QED BY <4>2, <2>1, <1>1
    <3> QED BY <3>1, <3>2
  <2>3. n <= Len(b) + 1
    BY <2>1, <1>1, <1>2
  <2>4. \A i \in 1 .. Len(b) : b[i] = i
    BY <2>1, <2>2, <1>3, <1>4
  <2> QED BY <2>3, <2>4
<1>9. Wire(w, r, n)
  BY DEF Order
<1>10. Order(c, b, "header", r, w, n)
  BY <1>1, <1>2, <1>6, <1>7, <1>8, <1>9 DEF Order
<1> QED BY <1>10 DEF b

OrderInv ==
    /\ op \in [Conns -> Ops]
    /\ request \in [Conns -> Nat] /\ sent \in [Conns -> Nat]
    /\ wire \in [Conns -> Seq(Nat)] /\ answered \in [Conns -> Seq(Nat)]
    /\ \A c \in Conns : Order(c, answered[c], op[c], request[c], wire[c], sent[c])

\* What is read of the wire, or read ahead of it, leaves a wire.
LEMMA AheadLeavesWire ==
    ASSUME wire \in [Conns -> Seq(Nat)], NEW c \in Conns, NEW w, NEW read \in Nat,
           NEW last \in Nat, Wire(w, read, last), ReadsAhead(c, w)
    PROVE  \E v \in Seq(Nat) : wire' = [wire EXCEPT ![c] = v] /\ Wire(v, read, last)
<1>1. PICK n \in 0 .. Len(w) :
         \/ wire' = [wire EXCEPT ![c] = SubSeq(w, n + 1, Len(w))]
         \/ /\ n < Len(w)
            /\ wire' = [wire EXCEPT ![c] = <<0>> \o SubSeq(w, n + 2, Len(w))]
  BY DEF ReadsAhead
<1>2. /\ Wire(SubSeq(w, n + 1, Len(w)), read, last)
      /\ n < Len(w) => Wire(<<0>> \o SubSeq(w, n + 2, Len(w)), read, last)
  BY WireShorter
<1>3. \A v : Wire(v, read, last) => v \in Seq(Nat)
  BY DEF Wire
<1> QED BY <1>1, <1>2, <1>3

LEMMA OneClient ==
    ASSUME OrderInv, NEW c \in Conns,
           NEW a \in Seq(Nat), NEW o \in Ops, NEW r \in Nat, NEW w \in Seq(Nat), NEW n \in Nat,
           answered' = [answered EXCEPT ![c] = a], op' = [op EXCEPT ![c] = o],
           request' = [request EXCEPT ![c] = r], wire' = [wire EXCEPT ![c] = w],
           sent' = [sent EXCEPT ![c] = n], Order(c, a, o, r, w, n)
    PROVE  OrderInv'
<1>1. /\ op' \in [Conns -> Ops]
      /\ request' \in [Conns -> Nat] /\ sent' \in [Conns -> Nat]
      /\ wire' \in [Conns -> Seq(Nat)] /\ answered' \in [Conns -> Seq(Nat)]
  BY DEF OrderInv
<1>2. ASSUME NEW d \in Conns
      PROVE  Order(d, answered'[d], op'[d], request'[d], wire'[d], sent'[d])
  <2>1. CASE d = c
    BY <2>1 DEF OrderInv
  <2>2. CASE d # c
    <3>1. /\ answered'[d] = answered[d] /\ op'[d] = op[d] /\ request'[d] = request[d]
          /\ wire'[d] = wire[d] /\ sent'[d] = sent[d]
      BY <2>2 DEF OrderInv
    <3> QED BY <3>1 DEF OrderInv
  <2> QED BY <2>1, <2>2
<1> QED BY <1>1, <1>2 DEF OrderInv

LEMMA OrderStep == OrderInv /\ [Next]_vars => OrderInv'
<1> SUFFICES ASSUME OrderInv, [Next]_vars PROVE OrderInv'
  OBVIOUS
<1>1. ASSUME NEW c \in Conns
      PROVE  /\ answered[c] \in Seq(Nat) /\ op[c] \in Ops /\ request[c] \in Nat
             /\ wire[c] \in Seq(Nat) /\ sent[c] \in Nat
             /\ Order(c, answered[c], op[c], request[c], wire[c], sent[c])
             /\ Wire(wire[c], request[c], sent[c])
  BY DEF OrderInv, Order
<1>2. ASSUME NEW c \in Conns, UNCHANGED <<answered, request, wire, sent>>, NEW o \in Ops,
             op' = [op EXCEPT ![c] = o],
             o \in {"body", "answer"} => op[c] \in {"body", "answer"}
      PROVE  OrderInv'
  <2>1. /\ answered' = [answered EXCEPT ![c] = answered[c]]
        /\ request' = [request EXCEPT ![c] = request[c]]
        /\ wire' = [wire EXCEPT ![c] = wire[c]]
        /\ sent' = [sent EXCEPT ![c] = sent[c]]
    BY <1>2 DEF OrderInv
  <2>2. Order(c, answered[c], o, request[c], wire[c], sent[c])
    BY <1>1, <1>2, OrderMoves
  <2>3. /\ answered[c] \in Seq(Nat) /\ request[c] \in Nat
        /\ wire[c] \in Seq(Nat) /\ sent[c] \in Nat
    BY <1>1
  <2>4. op' = [op EXCEPT ![c] = o]
    BY <1>2
  <2> QED BY <2>1, <2>2, <2>3, <2>4, OneClient
<1>3. ASSUME UNCHANGED <<op, answered, request, wire, sent>> PROVE OrderInv'
  BY <1>3 DEF OrderInv
<1>4. CASE OnConnectionAccepted
  <2>1. accepted + 1 \in Conns /\ "header" \in Ops /\ op' = [op EXCEPT ![accepted + 1] = "header"]
    BY <1>4 DEF OnConnectionAccepted, Ops
  <2> QED BY <2>1, <1>2, <1>4 DEF OnConnectionAccepted, clientVars
<1>5. ASSUME NEW c \in Conns, ClientSends(c) PROVE OrderInv'
  <2>1. c \in Pipelining \/ Len(answered[c]) = sent[c]
    BY <1>5 DEF ClientSends
  <2>2. /\ sent' = [sent EXCEPT ![c] = sent[c] + 1]
        /\ wire' = [wire EXCEPT ![c] = Append(wire[c], sent[c] + 1)]
    BY <1>5 DEF ClientSends, OrderInv
  <2>3. /\ answered' = [answered EXCEPT ![c] = answered[c]]
        /\ request' = [request EXCEPT ![c] = request[c]]
        /\ op' = [op EXCEPT ![c] = op[c]]
    BY <1>5 DEF ClientSends, sessionVars, OrderInv
  <2>4. Order(c, answered[c], op[c], request[c], Append(wire[c], sent[c] + 1), sent[c] + 1)
    BY <1>1, <2>1, OrderSends
  <2>5. sent[c] + 1 \in Nat /\ Append(wire[c], sent[c] + 1) \in Seq(Nat)
    BY <1>1, AppendProperties
  <2> QED BY <2>2, <2>3, <2>4, <2>5, <1>1, OneClient
<1>6. ASSUME NEW c \in Conns, ClientCloses(c) PROVE OrderInv'
  BY <1>3, <1>6 DEF ClientCloses, sessionVars
<1>7. ASSUME NEW c \in Conns, OnHeaderRead(c) PROVE OrderInv'
  <2>1. /\ wire[c] # <<>> /\ Head(wire[c]) # 0
        /\ op' = [op EXCEPT ![c] = "body"] /\ request' = [request EXCEPT ![c] = Head(wire[c])]
        /\ ReadsAhead(c, Tail(wire[c])) /\ UNCHANGED <<sent, answered>>
    BY <1>7 DEF OnHeaderRead
  <2>2. /\ Head(wire[c]) \in Nat
        /\ Wire(Tail(wire[c]), Head(wire[c]), sent[c])
    BY <1>1, <2>1, WireHead
  <2>3. wire \in [Conns -> Seq(Nat)]
    BY DEF OrderInv
  <2>4. PICK v \in Seq(Nat) : wire' = [wire EXCEPT ![c] = v]
                              /\ Wire(v, Head(wire[c]), sent[c])
    BY <1>1, <2>1, <2>2, <2>3, AheadLeavesWire
  <2>5. Order(c, answered[c], "body", Head(wire[c]), v, sent[c])
    BY <1>1, <2>1, <2>4, OrderReads
  <2>6. /\ answered' = [answered EXCEPT ![c] = answered[c]]
        /\ sent' = [sent EXCEPT ![c] = sent[c]] /\ "body" \in Ops
    BY <2>1 DEF OrderInv, Ops
  <2> QED BY <2>1, <2>2, <2>4, <2>5, <2>6, <1>1, OneClient
<1>8. ASSUME NEW c \in Conns, OnDataRead(c) PROVE OrderInv'
  <2>1. /\ op[c] = "body" /\ op' = [op EXCEPT ![c] = "answer"]
        /\ ReadsAhead(c, wire[c]) /\ UNCHANGED <<request, sent, answered>>
    BY <1>8 DEF OnDataRead
  <2>2. wire \in [Conns -> Seq(Nat)]
    BY DEF OrderInv
  <2>3. PICK v \in Seq(Nat) : wire' = [wire EXCEPT ![c] = v]
                              /\ Wire(v, request[c], sent[c])
    BY <1>1, <2>1, <2>2, AheadLeavesWire
  <2>4. Order(c, answered[c], "answer", request[c], v, sent[c])
    BY <1>1, <2>1, <2>3, OrderMoves
  <2>5. /\ answered' = [answered EXCEPT ![c] = answered[c]]
        /\ request' = [request EXCEPT ![c] = request[c]]
        /\ sent' = [sent EXCEPT ![c] = sent[c]] /\ "answer" \in Ops
    BY <2>1 DEF OrderInv, Ops
  <2>6. answered[c] \in Seq(Nat) /\ request[c] \in Nat /\ sent[c] \in Nat
    BY <1>1
  <2>7. op' = [op EXCEPT ![c] = "answer"]
    BY <2>1
  <2> QED BY <2>3, <2>4, <2>5, <2>6, <2>7, OneClient
<1>9. ASSUME NEW c \in Conns, OnDataWritten(c) PROVE OrderInv'
  <2>1. /\ op[c] = "answer" /\ op' = [op EXCEPT ![c] = "header"]
        /\ answered' = [answered EXCEPT ![c] = Append(answered[c], request[c])]
        /\ UNCHANGED <<request, sent, wire>>
    BY <1>9 DEF OnDataWritten, HttpReadData, clientVars, OrderInv
  <2>2. Order(c, Append(answered[c], request[c]), "header", request[c], wire[c], sent[c])
    BY <1>1, <2>1, OrderAnswers
  <2>3. Append(answered[c], request[c]) \in Seq(Nat)
    BY <1>1, AppendProperties
  <2>4. /\ wire' = [wire EXCEPT ![c] = wire[c]]
        /\ request' = [request EXCEPT ![c] = request[c]]
        /\ sent' = [sent EXCEPT ![c] = sent[c]] /\ "header" \in Ops
    BY <2>1 DEF OrderInv, Ops
  <2>5. answered[c] \in Seq(Nat) /\ request[c] \in Nat /\ wire[c] \in Seq(Nat) /\ sent[c] \in Nat
    BY <1>1
  <2>6. op' = [op EXCEPT ![c] = "header"] /\ answered' = [answered EXCEPT ![c] = Append(answered[c], request[c])]
    BY <2>1
  <2> QED BY <2>2, <2>3, <2>4, <2>5, <2>6, OneClient
<1>10. ASSUME NEW c \in Conns,
              ReadFails(c) \/ EndOfStream(c) \/ WriteFails(c) \/ LastWritten(c)
       PROVE  OrderInv'
  <2>1. /\ UNCHANGED <<answered, request, wire, sent>>
        /\ \E o \in {"last", "none"} : op' = [op EXCEPT ![c] = o]
    BY <1>10 DEF ReadFails, EndOfStream, WriteFails, LastWritten, ShutdownSocket, clientVars
  <2> QED BY <2>1, <1>2 DEF Ops
<1>11. ASSUME NEW c \in Conns, TimeOut(c) PROVE OrderInv'
  BY <1>3, <1>11 DEF TimeOut, clientVars
<1>12. ASSUME NEW c \in Conns, OrphanRuns(c) PROVE OrderInv'
  <2>1. /\ UNCHANGED <<answered, request, wire, sent>>
        /\ op' = [op EXCEPT ![c] = "none"] \/ op' = op
    BY <1>12 DEF OrphanRuns, clientVars
  <2> QED BY <2>1, <1>2, <1>3 DEF Ops
<1>13. CASE UNCHANGED vars
  BY <1>3, <1>13 DEF vars, sessionVars, clientVars
<1> QED BY <1>4, <1>5, <1>6, <1>7, <1>8, <1>9, <1>10, <1>11, <1>12, <1>13
        DEF Next, Completes

LEMMA OrderInit == Init => OrderInv
<1> SUFFICES ASSUME Init PROVE OrderInv
  OBVIOUS
<1>1. <<>> \in Seq(Nat) /\ Len(<<>>) = 0
  OBVIOUS
<1>2. /\ op \in [Conns -> Ops]
      /\ request \in [Conns -> Nat] /\ sent \in [Conns -> Nat]
  BY DEF Init, Ops
<1>3. wire \in [Conns -> Seq(Nat)] /\ answered \in [Conns -> Seq(Nat)]
  BY <1>1 DEF Init
<1>4. ASSUME NEW c \in Conns
      PROVE  Order(c, answered[c], op[c], request[c], wire[c], sent[c])
  BY <1>1 DEF Init, Order, Wire
<1> QED BY <1>2, <1>3, <1>4 DEF OrderInv

LEMMA OrderGivesAnswers == OrderInv => AnswersInOrder
<1> SUFFICES ASSUME OrderInv, NEW c \in Conns
             PROVE  /\ Ascending(answered[c]) /\ Range(answered[c]) \subseteq 1 .. sent[c]
                    /\ c \notin Pipelining =>
                           /\ Range(answered[c]) = 1 .. Len(answered[c])
                           /\ sent[c] <= Len(answered[c]) + 1
  BY DEF AnswersInOrder
<1> DEFINE a == answered[c]
<1>1. Order(c, a, op[c], request[c], wire[c], sent[c])
  BY DEF OrderInv
<1>2. a \in Seq(Nat) /\ DOMAIN a = 1 .. Len(a) /\ request[c] \in Nat /\ sent[c] \in Nat
      /\ request[c] <= sent[c]
  BY <1>1, LenProperties DEF Order
<1>3. \A i \in 1 .. Len(a) : a[i] \in Nat /\ 1 <= a[i] /\ a[i] <= request[c]
  BY <1>1, <1>2, ElementOfSeq DEF Order
<1>4. Range(a) = {a[i] : i \in 1 .. Len(a)}
  BY <1>2 DEF Range
<1> HIDE DEF a
<1>5. Ascending(a)
  BY <1>1, <1>2 DEF Order, Ascending
<1>6. Range(a) \subseteq 1 .. sent[c]
  BY <1>2, <1>3, <1>4
<1>7. ASSUME c \notin Pipelining
      PROVE  Range(a) = 1 .. Len(a) /\ sent[c] <= Len(a) + 1
  <2>1. sent[c] <= Len(a) + 1 /\ \A i \in 1 .. Len(a) : a[i] = i
    BY <1>1, <1>7 DEF Order
  <2> QED BY <2>1, <1>4
<1> QED BY <1>5, <1>6, <1>7 DEF a

\* For every number of clients and of their requests, whatever is read ahead and
\* lost by http_read_data: on_data_written answers in order, no request twice, and
\* all requests of a client that waits for its answers.
THEOREM AnswersFollowRequests == Spec => []AnswersInOrder
BY OrderGivesAnswers, OrderInit, OrderStep, PTL DEF Spec

-----------------------------------------------------------------------------
\* What the types need beside the invariants above.
Rest ==
    /\ process \in {"up", "down"}
    /\ \A c \in Conns : sent[c] <= MaxRequests
    /\ gone \in [Conns -> {"no", "closed", "reset"}]
    /\ timedOut \subseteq Conns /\ unwritten \subseteq Conns
    /\ faults \in 0 .. MaxFaults

LEMMA RestStep == OrderInv /\ Rest /\ [Next]_vars => Rest'
<1> SUFFICES ASSUME OrderInv, Rest, [Next]_vars PROVE Rest'
  OBVIOUS
<1> USE DEF Rest
<1>1. CASE OnConnectionAccepted
  BY <1>1 DEF OnConnectionAccepted, clientVars
<1>2. ASSUME NEW c \in Conns, ClientSends(c) PROVE Rest'
  <2>1. \A d \in Conns : sent'[d] <= MaxRequests
    BY <1>2, HttpSessionAssumption DEF ClientSends, OrderInv
  <2> QED BY <2>1, <1>2 DEF ClientSends
<1>3. ASSUME NEW c \in Conns, ClientCloses(c) PROVE Rest'
  <2>1. gone' \in [Conns -> {"no", "closed", "reset"}] /\ UNCHANGED <<process, sent, timedOut, unwritten>>
    BY <1>3 DEF ClientCloses
  <2>2. faults' \in 0 .. MaxFaults
    BY <1>3, HttpSessionAssumption DEF ClientCloses, Fault
  <2> QED BY <2>1, <2>2
<1>4. ASSUME NEW c \in Conns, Completes(c) \/ TimeOut(c) PROVE Rest'
  BY <1>4 DEF Completes, TimeOut, OnHeaderRead, OnDataRead, OnDataWritten, ReadFails,
              EndOfStream, WriteFails, LastWritten, OrphanRuns, clientVars
<1>5. CASE UNCHANGED vars
  BY <1>5 DEF vars, clientVars
<1> QED BY <1>1, <1>2, <1>3, <1>4, <1>5 DEF Next

\* Everything in the sessions and on the wire has its type, for every instance.
THEOREM Typing == Spec => []TypeOK
<1>1. Init => Rest
  BY HttpSessionAssumption DEF Init, Rest
<1>2. ASSUME SessionInv, OrderInv, Rest PROVE TypeOK
  <2>1. \A c \in Conns : request[c] \in 0 .. sent[c] /\ sent[c] \in 0 .. MaxRequests
    BY <1>2, HttpSessionAssumption DEF OrderInv, Order, Rest
  <2>2. ASSUME NEW c \in Conns PROVE Range(wire[c]) \subseteq 0 .. sent[c]
    <3>1. wire[c] \in Seq(Nat) /\ DOMAIN wire[c] = 1 .. Len(wire[c])
      BY <1>2, LenProperties DEF OrderInv
    <3>2. \A i \in 1 .. Len(wire[c]) : wire[c][i] \in Nat
      BY <3>1, ElementOfSeq
    <3>3. \A i \in 1 .. Len(wire[c]) : wire[c][i] # 0 => wire[c][i] <= sent[c]
      BY <1>2 DEF OrderInv, Order, Wire
    <3>4. sent[c] \in Nat
      BY <1>2 DEF OrderInv
    <3> QED BY <3>1, <3>2, <3>3, <3>4 DEF Range
  <2>3. accepted \in 0 .. MaxConns
    BY <1>2, HttpSessionAssumption DEF SessionInv
  <2> QED BY <1>2, <2>1, <2>2, <2>3 DEF TypeOK, SessionInv, Rest, Ops
<1> QED BY <1>1, <1>2, SessionInit, SessionStep, OrderInit, OrderStep, RestStep, PTL DEF Spec

-----------------------------------------------------------------------------
(* Each connection is a dialogue.                                          *)

\* The phase of a connection that has come.
PhaseOf(o, open) ==
    IF ~ open \/ o \in {"last", "none"} THEN "over" ELSE IF o = "header" THEN "idle" ELSE "busy"

LEMMA PhaseCome ==
    ASSUME SessionInv, NEW c \in Conns, c <= accepted PROVE Phase[c] = PhaseOf(op[c], is_open[c])
<1>1. ~ (c > accepted)
  BY HttpSessionAssumption DEF SessionInv, Conns
<1> QED BY <1>1 DEF Phase, PhaseOf

\* What a step of one session does to the phases.
LEMMA PhaseMoves ==
    ASSUME SessionInv, NEW c \in Conns, c <= accepted, UNCHANGED accepted,
           \A d \in Conns : d # c => op'[d] = op[d] /\ is_open'[d] = is_open[d]
    PROVE  Phase' = [Phase EXCEPT ![c] = PhaseOf(op'[c], is_open'[c])]
<1> DEFINE after == [Phase EXCEPT ![c] = PhaseOf(op'[c], is_open'[c])]
<1>1. ~ (c > accepted')
  BY HttpSessionAssumption DEF SessionInv, Conns
<1>2. Phase'[c] = after[c]
  BY <1>1 DEF Phase, PhaseOf
<1>3. ASSUME NEW d \in Conns, d # c PROVE Phase'[d] = after[d]
  <2>1. op'[d] = op[d] /\ is_open'[d] = is_open[d]
    BY <1>3
  <2> QED BY <2>1, <1>3 DEF Phase
<1>4. \A d \in Conns : Phase'[d] = after[d]
  BY <1>2, <1>3
<1>5. /\ after = [d \in Conns |-> after[d]]
      /\ Phase' = [d \in Conns |-> Phase'[d]]
  BY DEF Phase
<1> QED BY <1>4, <1>5

\* A step that leaves every phase.
LEMMA PhaseStays ==
    ASSUME SessionInv, NEW c \in Conns, c <= accepted, UNCHANGED <<accepted, sent, request, answered>>,
           \A d \in Conns : d # c => op'[d] = op[d] /\ is_open'[d] = is_open[d],
           PhaseOf(op'[c], is_open'[c]) = PhaseOf(op[c], is_open[c])
    PROVE  UNCHANGED Talk!vars
<1>1. Phase' = [Phase EXCEPT ![c] = Phase[c]]
  BY PhaseMoves, PhaseCome
<1>2. [Phase EXCEPT ![c] = Phase[c]] = Phase
  BY DEF Phase
<1> QED BY <1>1, <1>2 DEF Talk!vars

\* A step after which a session neither reads nor answers.
LEMMA PhaseEnds ==
    ASSUME SessionInv, NEW c \in Conns, c <= accepted, UNCHANGED <<accepted, sent, request, answered>>,
           \A d \in Conns : d # c => op'[d] = op[d] /\ is_open'[d] = is_open[d],
           ~ is_open'[c] \/ op'[c] \in {"last", "none"}
    PROVE  [Talk!Next]_(Talk!vars)
<1>1. PhaseOf(op'[c], is_open'[c]) = "over"
  BY DEF PhaseOf
<1>2. CASE Phase[c] = "over"
  <2>1. PhaseOf(op'[c], is_open'[c]) = PhaseOf(op[c], is_open[c])
    BY <1>1, <1>2, PhaseCome
  <2> QED BY <2>1, PhaseStays
<1>3. CASE Phase[c] # "over"
  <2>1. Phase[c] \in {"idle", "busy"}
    BY <1>3, PhaseCome DEF PhaseOf
  <2>2. Phase' = [Phase EXCEPT ![c] = "over"]
    BY <1>1, PhaseMoves
  <2>3. Talk!Ends(c)
    BY <2>1, <2>2 DEF Talk!Ends, Talk!Moves
  <2> QED BY <2>3 DEF Talk!Next
<1> QED BY <1>2, <1>3

LEMMA TalkAccepts == SessionInv /\ OnConnectionAccepted => [Talk!Next]_(Talk!vars)
<1> SUFFICES ASSUME SessionInv, OnConnectionAccepted PROVE [Talk!Next]_(Talk!vars)
  OBVIOUS
<1> DEFINE new == accepted + 1
           after == [Phase EXCEPT ![new] = "idle"]
<1>1. /\ new \in Conns /\ accepted' = new
      /\ op' = [op EXCEPT ![new] = "header"]
      /\ is_open' = [is_open EXCEPT ![new] = TRUE]
      /\ UNCHANGED <<sent, request, answered>>
  BY DEF OnConnectionAccepted, clientVars
<1>2. accepted \in Nat /\ new > accepted /\ ~ (new > accepted')
  BY <1>1 DEF SessionInv
<1>3. op'[new] = "header" /\ is_open'[new]
  BY <1>1 DEF SessionInv
<1>4. Phase[new] = "new" /\ Phase'[new] = "idle"
  BY <1>1, <1>2, <1>3 DEF Phase
<1>5. ASSUME NEW d \in Conns, d # new PROVE Phase'[d] = Phase[d]
  <2>1. op'[d] = op[d] /\ is_open'[d] = is_open[d]
    BY <1>1, <1>5 DEF SessionInv
  <2>2. d > accepted' <=> d > accepted
    BY <1>1, <1>2, <1>5, HttpSessionAssumption DEF Conns
  <2> QED BY <2>1, <2>2 DEF Phase
<1>6. \A d \in Conns : Phase'[d] = after[d]
  BY <1>4, <1>5 DEF Phase
<1>7. /\ after = [d \in Conns |-> after[d]]
      /\ Phase' = [d \in Conns |-> Phase'[d]]
  BY DEF Phase
<1>8. Phase' = after
  BY <1>6, <1>7
<1>9. Talk!Comes(new)
  BY <1>1, <1>4, <1>8 DEF Talk!Comes, Talk!Moves
<1> QED BY <1>1, <1>9 DEF Talk!Next

LEMMA TalkStep == SessionInv /\ OrderInv /\ [Next]_vars => [Talk!Next]_(Talk!vars)
<1> SUFFICES ASSUME SessionInv, OrderInv, [Next]_vars PROVE [Talk!Next]_(Talk!vars)
  OBVIOUS
<1>1. /\ op \in [Conns -> Ops] /\ is_open \in [Conns -> BOOLEAN]
      /\ \A c \in sessions_ : c <= accepted
  BY DEF SessionInv
<1>2. ASSUME UNCHANGED <<accepted, op, is_open, sent, request, answered>>
      PROVE  UNCHANGED Talk!vars
  BY <1>2 DEF Talk!vars, Phase
<1>3. ASSUME NEW c \in Conns, ClientSends(c) PROVE [Talk!Next]_(Talk!vars)
  <2>1. /\ c <= accepted /\ (c \in Pipelining \/ Len(answered[c]) = sent[c])
        /\ sent' = [sent EXCEPT ![c] = @ + 1]
        /\ UNCHANGED <<accepted, op, is_open, request, answered>>
    BY <1>3 DEF ClientSends, sessionVars
  <2>2. Phase[c] # "new" /\ Phase' = Phase
    BY <2>1, PhaseCome DEF PhaseOf, Phase
  <2>3. Talk!Asks(c)
    BY <2>1, <2>2 DEF Talk!Asks
  <2> QED BY <2>3 DEF Talk!Next
<1>4. ASSUME NEW c \in Conns, ClientCloses(c) PROVE [Talk!Next]_(Talk!vars)
  BY <1>2, <1>4 DEF ClientCloses, sessionVars
<1>5. ASSUME NEW c \in Conns, OnHeaderRead(c) PROVE [Talk!Next]_(Talk!vars)
  <2>1. /\ c \in sessions_ /\ op[c] = "header" /\ is_open[c]
        /\ wire[c] # <<>> /\ Head(wire[c]) # 0
        /\ op' = [op EXCEPT ![c] = "body"] /\ request' = [request EXCEPT ![c] = Head(wire[c])]
        /\ UNCHANGED <<accepted, is_open, sent, answered>>
    BY <1>5 DEF OnHeaderRead, Runs
  <2>2. Phase[c] = "idle"
    BY <2>1, <1>1, PhaseCome DEF PhaseOf
  <2>3. PhaseOf(op'[c], is_open'[c]) = "busy"
    BY <2>1, <1>1 DEF PhaseOf
  <2>4. \A d \in Conns : d # c => op'[d] = op[d] /\ is_open'[d] = is_open[d]
    BY <2>1, <1>1
  <2>5. Phase' = [Phase EXCEPT ![c] = "busy"]
    BY <2>1, <2>3, <2>4, <1>1, PhaseMoves
  <2>6. Head(wire[c]) \in request[c] + 1 .. sent[c]
    <3>1. request[c] \in Nat /\ sent[c] \in Nat /\ Wire(wire[c], request[c], sent[c])
      BY DEF OrderInv, Order
    <3>2. Head(wire[c]) \in Nat /\ request[c] < Head(wire[c]) /\ Head(wire[c]) <= sent[c]
      BY <2>1, <3>1, WireHead
    <3> QED BY <3>1, <3>2
  <2>7. Talk!Reads(c)
    BY <2>1, <2>2, <2>5, <2>6 DEF Talk!Reads, Talk!Moves
  <2> QED BY <2>7 DEF Talk!Next
<1>6. ASSUME NEW c \in Conns, OnDataRead(c) PROVE [Talk!Next]_(Talk!vars)
  <2>1. /\ c \in sessions_ /\ op[c] = "body" /\ op' = [op EXCEPT ![c] = "answer"]
        /\ UNCHANGED <<accepted, is_open, sent, request, answered>>
    BY <1>6 DEF OnDataRead, Runs
  <2>2. /\ PhaseOf(op'[c], is_open'[c]) = PhaseOf(op[c], is_open[c])
        /\ \A d \in Conns : d # c => op'[d] = op[d] /\ is_open'[d] = is_open[d]
    BY <2>1, <1>1 DEF PhaseOf
  <2> QED BY <2>1, <2>2, <1>1, PhaseStays
<1>7. ASSUME NEW c \in Conns, OnDataWritten(c) PROVE [Talk!Next]_(Talk!vars)
  <2>1. /\ c \in sessions_ /\ op[c] = "answer" /\ is_open[c]
        /\ op' = [op EXCEPT ![c] = "header"]
        /\ answered' = [answered EXCEPT ![c] = Append(@, request[c])]
        /\ UNCHANGED <<accepted, is_open, sent, request>>
    BY <1>7 DEF OnDataWritten, HttpReadData, Runs, clientVars
  <2>2. Phase[c] = "busy"
    BY <2>1, <1>1, PhaseCome DEF PhaseOf
  <2>3. PhaseOf(op'[c], is_open'[c]) = "idle"
    BY <2>1, <1>1 DEF PhaseOf
  <2>4. \A d \in Conns : d # c => op'[d] = op[d] /\ is_open'[d] = is_open[d]
    BY <2>1, <1>1
  <2>5. Phase' = [Phase EXCEPT ![c] = "idle"]
    BY <2>1, <2>3, <2>4, <1>1, PhaseMoves
  <2>6. Talk!Answers(c)
    BY <2>1, <2>2, <2>5 DEF Talk!Answers, Talk!Moves
  <2> QED BY <2>6 DEF Talk!Next
<1>8. ASSUME NEW c \in Conns,
             ReadFails(c) \/ EndOfStream(c) \/ WriteFails(c) \/ LastWritten(c) \/ TimeOut(c)
      PROVE  [Talk!Next]_(Talk!vars)
  <2>1. /\ c \in sessions_ /\ UNCHANGED <<accepted, sent, request, answered>>
        /\ op' = op \/ \E o \in {"last", "none"} : op' = [op EXCEPT ![c] = o]
        /\ is_open' = is_open \/ is_open' = [is_open EXCEPT ![c] = FALSE]
        /\ (\E o \in {"last", "none"} : op' = [op EXCEPT ![c] = o])
           \/ is_open' = [is_open EXCEPT ![c] = FALSE]
    BY <1>8 DEF ReadFails, EndOfStream, WriteFails, LastWritten, TimeOut, ShutdownSocket, Runs,
                clientVars
  <2>2. /\ ~ is_open'[c] \/ op'[c] \in {"last", "none"}
        /\ \A d \in Conns : d # c => op'[d] = op[d] /\ is_open'[d] = is_open[d]
    BY <2>1, <1>1
  <2> QED BY <2>1, <2>2, <1>1, PhaseEnds
<1>9. ASSUME NEW c \in Conns, OrphanRuns(c) PROVE [Talk!Next]_(Talk!vars)
  <2>1. /\ c \notin sessions_ /\ op[c] # "none"
        /\ op' = [op EXCEPT ![c] = "none"] \/ op' = op
        /\ UNCHANGED <<accepted, is_open, sent, request, answered>>
    BY <1>9 DEF OrphanRuns, clientVars
  <2>2. c <= accepted /\ c \in 1 .. accepted
    BY <2>1, HttpSessionAssumption DEF SessionInv, Conns
  <2>3. ~ is_open[c]
    BY <2>1, <2>2 DEF SessionInv, OrphansTimedOut
  <2>4. /\ ~ is_open'[c]
        /\ \A d \in Conns : d # c => op'[d] = op[d] /\ is_open'[d] = is_open[d]
    BY <2>1, <2>3, <1>1
  <2> QED BY <2>1, <2>2, <2>4, PhaseEnds
<1>10. CASE UNCHANGED vars
  BY <1>2, <1>10 DEF vars, sessionVars, clientVars
<1> QED BY <1>3, <1>4, <1>5, <1>6, <1>7, <1>8, <1>9, <1>10, TalkAccepts DEF Next, Completes

\* For every number of connections, requests and resets: each session_t is a dialogue
\* with its client.  It reads forward, answers what it has read before it reads again,
\* and when its socket is closed, or its last answer under way, it is over for good.
THEOREM SessionsAreDialogues == Spec => ImplementsDialogue
<1>1. Init => Talk!Init
  <2> SUFFICES ASSUME Init PROVE Talk!Init
    OBVIOUS
  <2>1. \A c \in Conns : c > accepted
    BY HttpSessionAssumption DEF Init, Conns
  <2>2. Phase = [c \in Conns |-> "new"]
    BY <2>1 DEF Phase
  <2> QED BY <2>2 DEF Init, Talk!Init
<1> QED BY <1>1, SessionInit, SessionStep, OrderInit, OrderStep, TalkStep, PTL
        DEF Spec, ImplementsDialogue, Talk!Spec

=============================================================================
