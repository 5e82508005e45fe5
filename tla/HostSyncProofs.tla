--------------------------- MODULE HostSyncProofs ---------------------------
(***************************************************************************)
(* Proofs about HostSync, for any number of accounts, groups, edits,       *)
(* failed reads and restarts: type correctness in full generality; when    *)
(* both start-up reads see one table, that every row the monitor remembers *)
(* has a stream, with uploads; and, when no upload interferes, that the    *)
(* vector follows the monitor and implements RowMirror.                    *)
(***************************************************************************)
EXTENDS HostSync, SequenceTheorems, WellFoundedInduction, TLAPS

\* What the monitor's loops have left to visit.
LoopInv ==
    /\ monitorPc = "adding" => todo \subseteq Rows(new_hosts)
    /\ monitorPc = "removing" => todo \subseteq Rows(previous_hosts)

\* The rows the streams must follow: those the monitor remembers, or will
\* remember once it has read the table.
Expected(a) == IF monitorPc = "start" THEN hosts[a] ELSE previous_hosts[a]

\* Before io_context.run() nothing is queued; main's rows are those the
\* monitor read, each launched or still to be launched.
StartupInv ==
    /\ mainPc # "running" \/ monitorPc = "start" => host_container = <<>>
    /\ mainPc # "running" => monitorPc \in {"start", "asleep"}
    /\ mainPc = "start" => websocks = <<>>
    /\ mainPc = "start" /\ monitorPc # "start" => previous_hosts = hosts
    /\ mainPc = "launching" =>
        \A a \in Accounts :
            IF toLaunch[a] = NoRow THEN Listening(a, Expected(a))
            ELSE toLaunch[a] = Expected(a) /\ Listening(a, NoRow)

\* LauncherFollowsMonitor, with the table in place of the rows the monitor has
\* not read yet.
FollowInv ==
    mainPc = "running" =>
        \A a \in Accounts : ListeningAfter(a, Len(host_container), Expected(a))

SyncInv == StartupInv /\ OneStreamPerAccount /\ ChangesApply /\ FollowInv

-----------------------------------------------------------------------------
(***************************************************************************)
(* Helpers on sequences.                                                   *)
(***************************************************************************)

\* RemoveAt leaves the elements before the position alone and moves those
\* behind it up by one (the effect of std::vector::erase).
LEMMA RemoveAtFacts ==
    ASSUME NEW S, NEW s \in Seq(S), NEW i \in 1..Len(s)
    PROVE  /\ RemoveAt(s, i) \in Seq(S)
           /\ Len(RemoveAt(s, i)) = Len(s) - 1
           /\ \A k \in 1..(Len(s) - 1) :
                  RemoveAt(s, i)[k] = IF k < i THEN s[k] ELSE s[k + 1]
<1> DEFINE front == SubSeq(s, 1, i - 1)
           back  == SubSeq(s, i + 1, Len(s))
<1>1. /\ front \in Seq(S) /\ Len(front) = i - 1
      /\ \A k \in 1..(i - 1) : front[k] = s[k]
  OBVIOUS
<1>2. /\ back \in Seq(S) /\ Len(back) = Len(s) - i
      /\ \A k \in 1..(Len(s) - i) : back[k] = s[i + k]
  OBVIOUS
<1>3. RemoveAt(s, i) = front \o back
  BY DEF RemoveAt
<1> HIDE DEF front, back
<1>4. RemoveAt(s, i) \in Seq(S) /\ Len(RemoveAt(s, i)) = Len(s) - 1
  BY <1>1, <1>2, <1>3
<1>5. ASSUME NEW k \in 1..(Len(s) - 1)
      PROVE  RemoveAt(s, i)[k] = IF k < i THEN s[k] ELSE s[k + 1]
  <2>1. CASE k < i
    BY <1>1, <1>2, <1>3, <2>1, ConcatProperties
  <2>2. CASE i <= k
    <3>1. RemoveAt(s, i)[k] = back[k - (i - 1)]
      BY <1>1, <1>2, <1>3, <2>2, ConcatProperties
    <3>2. k - (i - 1) \in 1..(Len(s) - i) /\ i + (k - (i - 1)) = k + 1
      BY <2>2
    <3>3. QED
      BY <1>2, <2>2, <3>1, <3>2
  <2>3. QED
    BY <2>1, <2>2
<1>6. QED
  BY <1>4, <1>5

\* A non-empty set of natural numbers has a least element, and Min chooses it.
LEMMA MinOfNaturals ==
    ASSUME NEW I \in SUBSET Nat, I # {}
    PROVE  Min(I) \in I /\ \A y \in I : Min(I) <= y
<1> DEFINE R == {ss \in Nat \X Nat : ss[1] < ss[2]}
<1>1. IsWellFoundedOn(R, Nat)
  BY NatLessThanWellFounded DEF OpToRel
<1> HIDE DEF R
<1>2. PICK x \in I : \A y \in I : ~ (<<y, x>> \in R)
  BY <1>1, WFMin
<1>3. ASSUME NEW y \in I PROVE x <= y
  <2>1. y \in Nat /\ x \in Nat
    OBVIOUS
  <2>2. <<y, x>> \in R <=> y < x
    BY <2>1, Zenon DEF R
  <2>3. QED
    BY <1>2, <2>1, <2>2
<1>4. QED
  BY <1>3 DEF Min

\* find_if returns a stream of the account, or there is none.
LEMMA FindStreamFacts ==
    ASSUME TypeOK, NEW a \in Accounts
    PROVE  \/ /\ FindStream(a) = 0
              /\ \A k \in 1..Len(websocks) : websocks[k].acct # a
           \/ /\ FindStream(a) \in 1..Len(websocks)
              /\ websocks[FindStream(a)].acct = a
<1> DEFINE I == {i \in 1..Len(websocks) : websocks[i].acct = a}
<1>1. FindStream(a) = IF I # {} THEN Min(I) ELSE 0
  BY DEF FindStream, SelectInSeq
<1>2. Len(websocks) \in Nat
  BY DEF TypeOK
<1>3. CASE I = {}
  BY <1>1, <1>3
<1>4. CASE I # {}
  <2>1. I \in SUBSET Nat
    OBVIOUS
  <2> HIDE DEF I
  <2>2. Min(I) \in I
    BY <1>4, <2>1, MinOfNaturals
  <2>3. QED
    BY <1>1, <1>4, <2>2 DEF I
<1>5. QED
  BY <1>3, <1>4

-----------------------------------------------------------------------------
(***************************************************************************)
(* Type correctness.                                                       *)
(***************************************************************************)

LEMMA FetchedIsRowSet ==
    ASSUME TypeOK, NEW result, GetAvailableHosts(result)
    PROVE  result \in RowSet /\ faults' \in Nat
BY DEF TypeOK, GetAvailableHosts, Fetched, RowSet, Rows

\* What a queued change does to the vector, case by case.
LEMMA LauncherFacts ==
    ASSUME TypeOK, Launcher
    PROVE  LET host  == Head(host_container)
               found == FindStream(host.acct) IN
           /\ host \in Change
           /\ host_container \in Seq(Change) /\ host_container # <<>>
           /\ host_container' = Tail(host_container)
           /\ \/ /\ host.changes = "no_changes"
                 /\ websocks' = Append(websocks, [acct |-> host.acct, group |-> host.group])
              \/ /\ host.changes # "no_changes" /\ found = 0
                 /\ websocks' = websocks
              \/ /\ host.changes = "host_removed" /\ found \in 1..Len(websocks)
                 /\ websocks' = RemoveAt(websocks, found)
              \/ /\ host.changes = "tg_group_changed" /\ found \in 1..Len(websocks)
                 /\ websocks' = [websocks EXCEPT ![found] =
                                    [acct |-> host.acct, group |-> host.group]]
<1> DEFINE host  == Head(host_container)
           found == FindStream(host.acct)
<1>1. host \in Change /\ host_container \in Seq(Change) /\ host_container # <<>>
  BY DEF TypeOK, Launcher
<1>2. host.acct \in Accounts
  BY <1>1 DEF Change
<1>3. \/ found = 0
      \/ found \in 1..Len(websocks) /\ websocks[found].acct = host.acct
  BY <1>2, FindStreamFacts
<1>4. ASSUME found # 0
      PROVE  [websocks EXCEPT ![found].group = host.group]
             = [websocks EXCEPT ![found] = [acct |-> host.acct, group |-> host.group]]
  <2>1. websocks[found] \in Stream
    BY <1>3, <1>4 DEF TypeOK
  <2>2. [websocks[found] EXCEPT !.group = host.group]
        = [acct |-> host.acct, group |-> host.group]
    BY <1>3, <1>4, <2>1 DEF Stream
  <2>3. QED
    BY <2>2
<1> HIDE DEF found
<1>5. QED
  BY <1>1, <1>3, <1>4 DEF Launcher, ProcessHostChanges, found

\* The launcher keeps a vector of streams.
LEMMA LauncherTyping ==
    ASSUME TypeOK, Launcher
    PROVE  websocks' \in Seq(Stream) /\ host_container' \in Seq(Change)
<1> DEFINE host  == Head(host_container)
           found == FindStream(host.acct)
           entry == [acct |-> host.acct, group |-> host.group]
<1>1. websocks \in Seq(Stream)
  BY DEF TypeOK
<1>2. entry \in Stream
  BY LauncherFacts DEF Change, Stream
<1>3. found \in 1..Len(websocks) => RemoveAt(websocks, found) \in Seq(Stream)
  BY <1>1, RemoveAtFacts
<1>4. host_container' \in Seq(Change)
  BY LauncherFacts, SMTT(40)
<1>5. \/ websocks' = Append(websocks, entry)
      \/ websocks' = websocks
      \/ found \in 1..Len(websocks) /\ websocks' = RemoveAt(websocks, found)
      \/ found \in 1..Len(websocks) /\ websocks' = [websocks EXCEPT ![found] = entry]
  BY LauncherFacts, Zenon
<1> HIDE DEF host, found, entry
<1>6. Append(websocks, entry) \in Seq(Stream)
  BY <1>1, <1>2, AppendProperties
<1>7. found \in 1..Len(websocks) => [websocks EXCEPT ![found] = entry] \in Seq(Stream)
  BY <1>1, <1>2, ExceptSeq
<1>8. websocks' \in Seq(Stream)
  BY <1>1, <1>3, <1>5, <1>6, <1>7
<1>9. QED
  BY <1>4, <1>8

TypeInv == TypeOK /\ LoopInv

\* Every variable keeps its type, whatever the constants, and the monitor's
\* loops visit rows of the lists they run over.
LEMMA TypeInvariant == Spec => []TypeInv
<1>1. Init => TypeInv
  <2> SUFFICES ASSUME Init PROVE TypeInv
    OBVIOUS
  <2>1. NoRows \in RowSet
    BY DEF NoRows, RowSet
  <2>2. QED
    BY <2>1 DEF Init, TypeInv, TypeOK, LoopInv
<1>2. TypeInv /\ [Next]_vars => TypeInv'
  <2> SUFFICES ASSUME TypeInv, [Next]_vars PROVE TypeInv'
    OBVIOUS
  <2> USE DEF TypeInv
  <2>a. NoRows \in RowSet
    BY DEF NoRows, RowSet
  <2>b. TypeOK
    OBVIOUS
  <2>1. CASE LaunchPreviousHosts
    <3>1. faults' \in Nat
      BY <2>1, FetchedIsRowSet DEF LaunchPreviousHosts, StartupRead
    <3>2. QED
      BY <2>1, <3>1 DEF LaunchPreviousHosts, TypeOK, LoopInv, monitorVars
  <2>2. ASSUME NEW a \in Accounts, LaunchHost(a) PROVE TypeInv'
    BY <2>2 DEF LaunchHost, TypeOK, LoopInv, monitorVars, bounds, RowSet, Stream
  <2>3. CASE RunIoContext
    BY <2>3 DEF RunIoContext, TypeOK, LoopInv, monitorVars, bounds
  <2>4. CASE MonitorStart
    <3>1. faults' \in Nat
      BY <2>4, FetchedIsRowSet DEF MonitorStart, StartupRead
    <3>2. QED
      BY <2>4, <3>1 DEF MonitorStart, TypeOK, LoopInv, mainVars
  <2>5. CASE MonitorPoll
    <3>1. faults' \in Nat
      BY <2>5, FetchedIsRowSet DEF MonitorPoll
    <3>2. QED
      BY <2>5, <3>1 DEF MonitorPoll, TypeOK, LoopInv, mainVars, Rows
  <2>6. ASSUME NEW a \in Accounts, MonitorVisitNew(a) PROVE TypeInv'
    <3>1. new_hosts[a] \in Groups
      BY <2>6 DEF MonitorVisitNew, TypeOK, LoopInv, Rows, RowSet
    <3>2. /\ HostInfo(a, new_hosts[a], "no_changes") \in Change
          /\ HostInfo(a, new_hosts[a], "tg_group_changed") \in Change
      BY <3>1 DEF HostInfo, Change
    <3>3. host_container' \in Seq(Change)
      <4>1. host_container \in Seq(Change)
        BY DEF TypeOK
      <4>2. /\ Append(host_container, HostInfo(a, new_hosts[a], "no_changes")) \in Seq(Change)
            /\ Append(host_container, HostInfo(a, new_hosts[a], "tg_group_changed")) \in Seq(Change)
        BY <3>2, <4>1, AppendProperties
      <4>3. QED
        BY <2>6, <4>1, <4>2, Zenon DEF MonitorVisitNew
    <3>4. previous_hosts' \in RowSet
      BY <2>6, <3>1 DEF MonitorVisitNew, TypeOK, RowSet
    <3>5. QED
      BY <2>6, <3>3, <3>4 DEF MonitorVisitNew, TypeOK, LoopInv, mainVars, bounds
  <2>7. CASE MonitorSecondLoop
    BY <2>7 DEF MonitorSecondLoop, TypeOK, LoopInv, mainVars, bounds, Rows
  <2>8. ASSUME NEW a \in Accounts, MonitorVisitOld(a) PROVE TypeInv'
    <3>1. previous_hosts[a] \in Groups
      BY <2>8 DEF MonitorVisitOld, TypeOK, LoopInv, Rows, RowSet
    <3>2. HostInfo(a, previous_hosts[a], "host_removed") \in Change
      BY <3>1 DEF HostInfo, Change
    <3>3. host_container' \in Seq(Change)
      <4>1. host_container \in Seq(Change)
        BY DEF TypeOK
      <4>2. Append(host_container, HostInfo(a, previous_hosts[a], "host_removed")) \in Seq(Change)
        BY <3>2, <4>1, AppendProperties
      <4>3. QED
        BY <2>8, <4>1, <4>2, Zenon DEF MonitorVisitOld
    <3>4. previous_hosts' \in RowSet /\ todo' \subseteq Rows(previous_hosts')
      BY <2>8 DEF MonitorVisitOld, TypeOK, LoopInv, RowSet, Rows
    <3>5. QED
      BY <2>8, <3>3, <3>4 DEF MonitorVisitOld, TypeOK, LoopInv, mainVars, bounds, Rows
  <2>9. CASE MonitorSleep
    BY <2>9, <2>a DEF MonitorSleep, TypeOK, LoopInv, mainVars, bounds
  <2>10. CASE Launcher
    BY <2>10, <2>b, LauncherTyping DEF Launcher, TypeOK, LoopInv, mainVars, monitorVars, bounds
  <2>11. ASSUME NEW s \in Sessions, NEW a \in Accounts, NEW g \in Groups,
                UploadItem(s, a, g)
         PROVE  TypeInv'
    <3>1. HostInfo(a, g, "no_changes") \in Change
      BY DEF HostInfo, Change
    <3>2. uploaded' \in [Sessions -> Seq(Change)]
      BY <2>11, <3>1 DEF UploadItem, TypeOK
    <3>3. hosts' \in RowSet
      BY <2>11 DEF UploadItem, TypeOK, RowSet
    <3>4. QED
      BY <2>11, <3>2, <3>3 DEF UploadItem, TypeOK, LoopInv, mainVars, monitorVars
  <2>12. ASSUME NEW s \in Sessions, UploadQueue(s) \/ UploadReject(s) PROVE TypeInv'
    <3>1. uploaded' \in [Sessions -> Seq(Change)]
      <4>1. uploaded' = [uploaded EXCEPT ![s] = <<>>]
        BY <2>12, Zenon DEF UploadQueue, UploadReject
      <4>2. <<>> \in Seq(Change)
        OBVIOUS
      <4>3. uploaded \in [Sessions -> Seq(Change)]
        BY DEF TypeOK
      <4> QED
        BY <4>1, <4>2, <4>3
    <3>2. host_container' \in Seq(Change)
      <4>1. host_container \in Seq(Change) /\ uploaded[s] \in Seq(Change)
        BY DEF TypeOK
      <4>2. host_container \o uploaded[s] \in Seq(Change)
        BY <4>1, ConcatProperties
      <4> QED
        BY <2>12, <4>1, <4>2, Zenon DEF UploadQueue, UploadReject
    <3>3. QED
      BY <2>12, <3>1, <3>2
      DEF UploadQueue, UploadReject, TypeOK, LoopInv, mainVars, monitorVars, bounds
  <2>13. CASE Restart
    BY <2>13, <2>a DEF Restart, TypeOK, LoopInv
  <2>14. ASSUME NEW a \in Accounts, NEW g \in Groups \cup {NoRow}, EditTable(a, g)
         PROVE  TypeInv'
    BY <2>14 DEF EditTable, TypeOK, LoopInv, mainVars, monitorVars, RowSet
  <2>15. CASE UNCHANGED vars
    BY <2>15 DEF vars, TypeOK, LoopInv, mainVars, monitorVars, bounds, Rows
  <2>16. QED
    BY <2>1, <2>2, <2>3, <2>4, <2>5, <2>6, <2>7, <2>8, <2>9, <2>10, <2>11, <2>12,
       <2>13, <2>14, <2>15 DEF Next, Main, Monitor, Upload
<1>3. QED
  BY <1>1, <1>2, PTL DEF Spec

-----------------------------------------------------------------------------
(***************************************************************************)
(* The queue as the launcher will see it.                                  *)
(***************************************************************************)

\* Queuing a change disturbs what is known of the positions before it, and
\* decides what becomes of its own account.
LEMMA AppendView ==
    ASSUME TypeOK, NEW host \in Change,
           host_container' = Append(host_container, host), websocks' = websocks
    PROVE  /\ \A a \in Accounts, g \in Groups \cup {NoRow}, n \in 0..Len(host_container) :
                  ListeningAfter(a, n, g) => ListeningAfter(a, n, g)'
           /\ Len(host_container') = Len(host_container) + 1
           /\ \A a \in Accounts, g \in Groups \cup {NoRow}, last \in Nat :
                  last = Len(host_container) + 1 =>
                  /\ a = host.acct /\ g = Outcome(host) => ListeningAfter(a, last, g)'
                  /\ a # host.acct /\ ListeningAfter(a, Len(host_container), g)
                        => ListeningAfter(a, last, g)'
<1>1. /\ Len(host_container) \in Nat
      /\ Len(host_container') = Len(host_container) + 1
      /\ \A i \in 1..Len(host_container) : host_container'[i] = host_container[i]
      /\ host_container'[Len(host_container) + 1] = host
  BY AppendProperties DEF TypeOK
<1>2. \A a, g : Listening(a, g)' <=> Listening(a, g)
  BY DEF Listening
<1>3. ASSUME NEW a \in Accounts, NEW g \in Groups \cup {NoRow},
             NEW n \in 0..Len(host_container), ListeningAfter(a, n, g)
      PROVE  ListeningAfter(a, n, g)'
  BY <1>1, <1>2, <1>3 DEF ListeningAfter, Outcome
<1> SUFFICES ASSUME NEW last \in Nat, last = Len(host_container) + 1
    PROVE  \A a \in Accounts, g \in Groups \cup {NoRow} :
               /\ a = host.acct /\ g = Outcome(host) => ListeningAfter(a, last, g)'
               /\ a # host.acct /\ ListeningAfter(a, Len(host_container), g)
                     => ListeningAfter(a, last, g)'
  BY <1>1, <1>3
<1>4. ASSUME NEW a \in Accounts, NEW g \in Groups \cup {NoRow},
             a = host.acct, g = Outcome(host)
      PROVE  ListeningAfter(a, last, g)'
  <2>1. last \in 1..last /\ \A k \in (last + 1)..last : FALSE
    BY <1>1
  <2>2. QED
    BY <1>1, <1>4, <2>1 DEF ListeningAfter, Outcome
<1>5. ASSUME NEW a \in Accounts \ {host.acct}, NEW g \in Groups \cup {NoRow},
             ListeningAfter(a, Len(host_container), g)
      PROVE  ListeningAfter(a, last, g)'
  <2>1. CASE \E j \in 1..Len(host_container) :
                /\ host_container[j].acct = a
                /\ Outcome(host_container[j]) = g
                /\ \A k \in (j + 1)..Len(host_container) : host_container[k].acct # a
    <3>1. PICK j \in 1..Len(host_container) :
                /\ host_container[j].acct = a
                /\ Outcome(host_container[j]) = g
                /\ \A k \in (j + 1)..Len(host_container) : host_container[k].acct # a
      BY <2>1
    <3>2. /\ j \in 1..last /\ host_container'[j] = host_container[j]
          /\ \A k \in (j + 1)..last : k = last \/ k \in (j + 1)..Len(host_container)
      BY <1>1
    <3>3. \A k \in (j + 1)..last : host_container'[k].acct # a
      BY <1>1, <3>1, <3>2
    <3>4. QED
      BY <3>1, <3>2, <3>3, <1>1 DEF ListeningAfter, Outcome
  <2>2. CASE /\ Listening(a, g)
             /\ \A k \in 1..Len(host_container) : host_container[k].acct # a
    <3>1. \A k \in 1..last : host_container'[k].acct # a
      BY <1>1, <2>2
    <3>2. QED
      BY <1>1, <1>2, <2>2, <3>1 DEF ListeningAfter
  <2>3. QED
    BY <1>5, <2>1, <2>2 DEF ListeningAfter
<1>6. QED
  BY <1>4, <1>5

\* The launcher takes a change that applies: its account ends up as the change
\* says, the other accounts keep their streams, nobody gets a second one.
LEMMA LauncherApplies ==
    ASSUME TypeOK, OneStreamPerAccount, ChangesApply, Launcher
    PROVE  LET host == Head(host_container) IN
           /\ \A a \in Accounts, g \in Groups \cup {NoRow} :
                  /\ a = host.acct /\ g = Outcome(host) => Listening(a, g)'
                  /\ a # host.acct /\ Listening(a, g) => Listening(a, g)'
           /\ OneStreamPerAccount'
<1> DEFINE host  == Head(host_container)
           found == FindStream(host.acct)
           entry == [acct |-> host.acct, group |-> host.group]
<1>1. /\ host \in Change /\ host.acct \in Accounts /\ host.group \in Groups
      /\ host = host_container[1] /\ 1 \in DOMAIN host_container
  BY LauncherFacts DEF Change
<1>2. /\ Len(websocks) \in Nat /\ DOMAIN websocks = 1..Len(websocks)
      /\ websocks \in Seq(Stream)
  BY DEF TypeOK
<1>3. PICK g0 \in Groups \cup {NoRow} :
          /\ Listening(host.acct, g0)
          /\ (host.changes = "no_changes") <=> (g0 = NoRow)
  BY <1>1 DEF ChangesApply, ListeningAfter
<1>4. host.group # NoRow /\ entry \in Stream
  BY <1>1, HostSyncAssumption DEF Stream
<1>5. CASE /\ host.changes = "no_changes"
           /\ websocks' = Append(websocks, entry)
  <2>1. /\ DOMAIN websocks' = 1..(Len(websocks) + 1)
        /\ \A i \in 1..Len(websocks) : websocks'[i] = websocks[i]
        /\ websocks'[Len(websocks) + 1] = entry
    BY <1>2, <1>4, <1>5
  <2>2. \A k \in 1..Len(websocks) : websocks[k].acct # host.acct
    BY <1>2, <1>3, <1>5 DEF Listening
  <2>3. Outcome(host) = host.group
    BY <1>5 DEF Outcome
  <2> HIDE DEF host
  <2>4. OneStreamPerAccount'
    BY <1>2, <2>1, <2>2 DEF OneStreamPerAccount
  <2>5. ASSUME NEW a \in Accounts, NEW g \in Groups \cup {NoRow},
               a = host.acct, g = Outcome(host)
        PROVE  Listening(a, g)'
    BY <2>5, <1>2, <1>4, <2>1, <2>3 DEF Listening, Outcome
  <2>6. ASSUME NEW a \in Accounts \ {host.acct}, NEW g \in Groups \cup {NoRow},
               Listening(a, g)
        PROVE  Listening(a, g)'
    BY <1>2, <2>1, <2>6 DEF Listening
  <2>7. QED
    BY <2>4, <2>5, <2>6 DEF host
<1>6. CASE host.changes # "no_changes" /\ found = 0
  <2>1. \A k \in 1..Len(websocks) : websocks[k].acct # host.acct
    BY <1>1, <1>6, FindStreamFacts
  <2>2. QED
    BY <1>2, <1>3, <1>6, <2>1 DEF Listening
<1>7. CASE /\ host.changes = "host_removed" /\ found \in 1..Len(websocks)
           /\ websocks' = RemoveAt(websocks, found)
  <2>1. websocks[found].acct = host.acct
    BY <1>1, <1>7, FindStreamFacts
  <2> HIDE DEF found, host
  <2>2. /\ DOMAIN websocks' = 1..(Len(websocks) - 1)
        /\ \A k \in 1..(Len(websocks) - 1) :
               websocks'[k] = IF k < found THEN websocks[k] ELSE websocks[k + 1]
    BY <1>2, <1>7, RemoveAtFacts, LenProperties, SMTT(40)
  <2>3. \A k \in 1..Len(websocks) : websocks[k].acct = host.acct => k = found
    BY <1>2, <1>7, <2>1 DEF OneStreamPerAccount
  <2>4. OneStreamPerAccount'
    <3> DEFINE place(k) == IF k < found THEN k ELSE k + 1
    <3>1. \A k \in 1..(Len(websocks) - 1) :
              place(k) \in 1..Len(websocks) /\ websocks'[k] = websocks[place(k)]
      BY <1>2, <1>7, <2>2
    <3>2. \A j, k \in 1..(Len(websocks) - 1) : place(j) = place(k) => j = k
      BY <1>2, <1>7
    <3> HIDE DEF place
    <3>3. \A j, k \in 1..Len(websocks) : websocks[j].acct = websocks[k].acct => j = k
      BY <1>2 DEF OneStreamPerAccount
    <3>4. QED
      BY <2>2, <3>1, <3>2, <3>3 DEF OneStreamPerAccount
  <2>5. ASSUME NEW a \in Accounts, NEW g \in Groups \cup {NoRow},
               a = host.acct, g = Outcome(host)
        PROVE  Listening(a, g)'
    BY <2>5, <1>2, <1>7, <2>2, <2>3 DEF Listening, Outcome
  <2>6. ASSUME NEW a \in Accounts \ {host.acct}, NEW g \in Groups \cup {NoRow},
               Listening(a, g)
        PROVE  Listening(a, g)'
    <3>1. CASE g = NoRow
      <4>1. \A k \in 1..Len(websocks) : websocks[k].acct # a
        BY <1>2, <2>6, <3>1 DEF Listening
      <4>2. ASSUME NEW k \in 1..(Len(websocks) - 1) PROVE websocks'[k].acct # a
        <5>1. k \in 1..Len(websocks) /\ k + 1 \in 1..Len(websocks)
          BY <1>2
        <5>2. websocks'[k] = websocks[k] \/ websocks'[k] = websocks[k + 1]
          BY <2>2
        <5>3. QED
          BY <4>1, <5>1, <5>2
      <4>3. QED
        BY <2>2, <3>1, <4>2 DEF Listening
    <3>2. CASE g # NoRow
      <4>1. PICK k \in 1..Len(websocks) : websocks[k] = [acct |-> a, group |-> g]
        BY <1>2, <2>6, <3>2 DEF Listening
      <4>2. k # found
        BY <2>1, <4>1
      <4>3. CASE k < found
        BY <1>2, <1>7, <2>2, <3>2, <4>1, <4>3 DEF Listening
      <4>4. CASE k > found
        <5>1. /\ k - 1 \in 1..(Len(websocks) - 1) /\ ~ (k - 1 < found)
              /\ (k - 1) + 1 = k
          BY <1>2, <1>7, <4>1, <4>4
        <5>2. websocks'[k - 1] = websocks[k]
          BY <2>2, <5>1
        <5>3. QED
          BY <2>2, <3>2, <4>1, <5>1, <5>2 DEF Listening
      <4>5. QED
        BY <1>7, <4>2, <4>3, <4>4
    <3>3. QED
      BY <3>1, <3>2
  <2>7. QED
    BY <2>4, <2>5, <2>6 DEF host
<1>8. CASE /\ host.changes = "tg_group_changed" /\ found \in 1..Len(websocks)
           /\ websocks' = [websocks EXCEPT ![found] = entry]
  <2>1. websocks[found].acct = host.acct
    BY <1>1, <1>8, FindStreamFacts
  <2>2. entry.acct = host.acct
    OBVIOUS
  <2> HIDE DEF found, host
  <2>3. /\ DOMAIN websocks' = 1..Len(websocks)
        /\ \A k \in 1..Len(websocks) :
               websocks'[k] = IF k = found THEN entry ELSE websocks[k]
    BY <1>2, <1>4, <1>8
  <2>4. OneStreamPerAccount'
    BY <1>2, <1>8, <2>1, <2>2, <2>3 DEF OneStreamPerAccount
  <2>5. ASSUME NEW a \in Accounts, NEW g \in Groups \cup {NoRow},
               a = host.acct, g = Outcome(host)
        PROVE  Listening(a, g)'
    BY <2>5, <1>2, <1>4, <1>8, <2>3 DEF Listening, Outcome
  <2>6. ASSUME NEW a \in Accounts \ {host.acct}, NEW g \in Groups \cup {NoRow},
               Listening(a, g)
        PROVE  Listening(a, g)'
    BY <1>2, <1>8, <2>1, <2>2, <2>3, <2>6 DEF Listening
  <2>7. QED
    BY <2>4, <2>5, <2>6 DEF host
<1>9. QED
  BY <1>5, <1>6, <1>7, <1>8, LauncherFacts, Zenon

\* Taking the first change moves the launcher's view of the queue up by one.
LEMMA LauncherView ==
    ASSUME TypeOK, OneStreamPerAccount, ChangesApply, Launcher,
           NEW a \in Accounts, NEW g \in Groups \cup {NoRow},
           NEW n \in 1..Len(host_container), ListeningAfter(a, n, g)
    PROVE  ListeningAfter(a, n - 1, g)'
<1> DEFINE host == Head(host_container)
<1>1. /\ host = host_container[1]
      /\ Len(host_container) \in Nat
      /\ Len(host_container') = Len(host_container) - 1
      /\ \A i \in 1..(Len(host_container) - 1) : host_container'[i] = host_container[i + 1]
  <2>1. /\ host_container \in Seq(Change) /\ host_container # <<>>
        /\ host_container' = Tail(host_container)
    BY LauncherFacts, Zenon
  <2>2. QED
    BY <2>1, HeadTailProperties, LenProperties
<1>2. CASE \E j \in 2..n : /\ host_container[j].acct = a
                           /\ Outcome(host_container[j]) = g
                           /\ \A k \in (j + 1)..n : host_container[k].acct # a
  <2>1. PICK j \in 2..n : /\ host_container[j].acct = a
                          /\ Outcome(host_container[j]) = g
                          /\ \A k \in (j + 1)..n : host_container[k].acct # a
    BY <1>2
  <2>2. /\ j - 1 \in 1..(n - 1)
        /\ host_container'[j - 1] = host_container[j]
    <3>1. j - 1 \in 1..(Len(host_container) - 1) /\ (j - 1) + 1 = j
      BY <1>1
    <3>2. QED
      BY <1>1, <3>1
  <2>3. ASSUME NEW k \in ((j - 1) + 1)..(n - 1) PROVE host_container'[k].acct # a
    BY <1>1, <2>1
  <2>4. QED
    BY <2>1, <2>2, <2>3 DEF ListeningAfter, Outcome
<1>3. CASE \A k \in 2..n : host_container[k].acct # a
  <2>1. \A k \in 1..(n - 1) : host_container'[k].acct # a
    BY <1>1, <1>3
  <2>2. CASE host.acct = a
    <3>1. g = Outcome(host)
      <4>1. \A j \in 1..n : host_container[j].acct = a => j = 1
        BY <1>3
      <4>2. 1 \in 1..n
        OBVIOUS
      <4>3. QED
        BY <1>1, <2>2, <4>1, <4>2 DEF ListeningAfter
    <3>2. Listening(a, g)'
      BY <2>2, <3>1, LauncherApplies DEF Outcome
    <3>3. QED
      BY <2>1, <3>2 DEF ListeningAfter
  <2>3. CASE host.acct # a
    <3>1. Listening(a, g)
      BY <1>1, <1>3, <2>3 DEF ListeningAfter
    <3>2. Listening(a, g)'
      BY <2>3, <3>1, LauncherApplies
    <3>3. QED
      BY <2>1, <3>2 DEF ListeningAfter
  <2>4. QED
    BY <2>2, <2>3
<1>4. QED
  BY <1>2, <1>3 DEF ListeningAfter

\* Steps that leave the queue and the vector alone leave the view alone.
LEMMA SameView ==
    ASSUME UNCHANGED <<host_container, websocks>>
    PROVE  /\ \A a, g : Listening(a, g)' <=> Listening(a, g)
           /\ \A a, g, n : ListeningAfter(a, n, g)' <=> ListeningAfter(a, n, g)
           /\ OneStreamPerAccount => OneStreamPerAccount'
           /\ ChangesApply => ChangesApply'
<1>1. \A a, g : Listening(a, g)' <=> Listening(a, g)
  BY DEF Listening
<1>2. \A a, g, n : ListeningAfter(a, n, g)' <=> ListeningAfter(a, n, g)
  BY <1>1 DEF ListeningAfter
<1>3. OneStreamPerAccount => OneStreamPerAccount'
  BY DEF OneStreamPerAccount
<1>4. ChangesApply => ChangesApply'
  BY <1>2 DEF ChangesApply
<1>5. QED
  BY <1>1, <1>2, <1>3, <1>4

\* What each queued change still finds when another one is appended, provided
\* the new one is right about the rows the monitor remembers.
LEMMA AppendApplies ==
    ASSUME TypeInv, SyncInv, mainPc = "running", monitorPc # "start",
           NEW host \in Change,
           (host.changes = "no_changes") <=> (previous_hosts[host.acct] = NoRow),
           host_container' = Append(host_container, host), websocks' = websocks
    PROVE  OneStreamPerAccount' /\ ChangesApply'
<1>1. OneStreamPerAccount'
  BY DEF SyncInv, OneStreamPerAccount
<1>2. TypeOK /\ ChangesApply
  BY DEF TypeInv, SyncInv
<1>3. /\ Len(host_container) \in Nat
      /\ host_container' \in Seq(Change)
      /\ DOMAIN host_container = 1..Len(host_container)
      /\ DOMAIN host_container' = 1..(Len(host_container) + 1)
      /\ \A i \in 1..Len(host_container) : host_container'[i] = host_container[i]
      /\ host_container'[Len(host_container) + 1] = host
  BY <1>2, AppendProperties, LenProperties DEF TypeOK
<1>4. /\ host.acct \in Accounts
      /\ previous_hosts[host.acct] \in Groups \cup {NoRow}
  BY <1>2 DEF Change, TypeOK, RowSet
<1>5. ListeningAfter(host.acct, Len(host_container), previous_hosts[host.acct])
  BY <1>4 DEF SyncInv, FollowInv, Expected
<1>6. ASSUME NEW n \in 1..(Len(host_container) + 1),
             NEW a \in Accounts, a = host_container'[n].acct
      PROVE  \E g \in Groups \cup {NoRow} :
                 /\ ListeningAfter(a, n - 1, g)'
                 /\ (host_container'[n].changes = "no_changes") <=> (g = NoRow)
  <2>1. n - 1 \in 0..Len(host_container)
    BY <1>3
  <2>2. PICK g \in Groups \cup {NoRow} :
                 /\ ListeningAfter(a, n - 1, g)
                 /\ (host_container'[n].changes = "no_changes") <=> (g = NoRow)
    <3>1. CASE n <= Len(host_container)
      BY <1>2, <1>3, <1>6, <3>1 DEF ChangesApply
    <3>2. CASE n = Len(host_container) + 1
      <4>1. n - 1 = Len(host_container) /\ host_container'[n] = host /\ a = host.acct
        BY <1>3, <1>6, <3>2
      <4>2. QED
        BY <1>4, <1>5, <4>1
    <3>3. QED
      BY <1>3, <3>1, <3>2
  <2>3. ListeningAfter(a, n - 1, g)'
    BY <1>2, <2>1, <2>2, AppendView
  <2>4. QED
    BY <2>2, <2>3
<1>7. QED
  BY <1>1, <1>3, <1>6 DEF ChangesApply

-----------------------------------------------------------------------------
(***************************************************************************)
(* The inductive step, one lemma per group of actions.                     *)
(***************************************************************************)

LEMMA MainStep ==
    ASSUME TypeInv, SyncInv, CleanStart = TRUE, Main
    PROVE  SyncInv'
<1> USE DEF TypeInv, SyncInv
<1>1. CASE LaunchPreviousHosts
  <2>1. /\ mainPc = "start" /\ mainPc' = "launching"
        /\ websocks = <<>> /\ host_container = <<>>
        /\ toLaunch' = hosts
        /\ UNCHANGED <<hosts, host_container, websocks, monitorPc, previous_hosts>>
    BY <1>1 DEF LaunchPreviousHosts, StartupRead, StartupInv, monitorVars
  <2>2. OneStreamPerAccount' /\ ChangesApply'
    BY <2>1, SameView
  <2>3. \A a : Listening(a, NoRow)'
    BY <2>1 DEF Listening
  <2>4. ASSUME NEW a \in Accounts PROVE toLaunch'[a] = Expected(a)'
    BY <2>1 DEF Expected, StartupInv
  <2>5. StartupInv'
    BY <2>1, <2>3, <2>4 DEF StartupInv, Expected
  <2>6. QED
    BY <2>1, <2>2, <2>5 DEF FollowInv
<1>2. ASSUME NEW a \in Accounts, LaunchHost(a) PROVE SyncInv'
  <2> DEFINE entry == [acct |-> a, group |-> toLaunch[a]]
  <2>1. /\ mainPc = "launching" /\ mainPc' = "launching"
        /\ host_container = <<>> /\ host_container' = <<>>
        /\ websocks' = Append(websocks, entry)
        /\ toLaunch' = [toLaunch EXCEPT ![a] = NoRow]
        /\ toLaunch[a] # NoRow
        /\ UNCHANGED <<hosts, monitorPc, previous_hosts>>
    BY <1>2 DEF LaunchHost, StartupInv, monitorVars
  <2>2. /\ \A b \in Accounts : Expected(b)' = Expected(b)
        /\ toLaunch[a] = Expected(a) /\ Listening(a, NoRow)
        /\ toLaunch \in RowSet /\ toLaunch[a] \in Groups
    BY <2>1 DEF StartupInv, Expected, TypeOK, RowSet
  <2>3. entry \in Stream /\ websocks \in Seq(Stream)
    BY <2>2 DEF Stream, TypeOK
  <2>4. /\ Len(websocks) \in Nat
        /\ DOMAIN websocks = 1..Len(websocks)
        /\ DOMAIN websocks' = 1..(Len(websocks) + 1)
        /\ \A i \in 1..Len(websocks) : websocks'[i] = websocks[i]
        /\ websocks'[Len(websocks) + 1] = entry
    BY <2>1, <2>3, AppendProperties, LenProperties
  <2>5. \A k \in 1..Len(websocks) : websocks[k].acct # a
    BY <2>2, <2>4 DEF Listening
  <2>6. OneStreamPerAccount'
    BY <2>4, <2>5 DEF OneStreamPerAccount
  <2>7. ChangesApply'
    BY <2>1 DEF ChangesApply
  <2>8. ASSUME NEW b \in Accounts
        PROVE  IF toLaunch'[b] = NoRow THEN Listening(b, Expected(b))'
               ELSE toLaunch'[b] = Expected(b) /\ Listening(b, NoRow)'
    <3>1. CASE b = a
      <4>1. toLaunch'[b] = NoRow
        BY <2>1, <2>2, <3>1 DEF RowSet
      <4>2. ASSUME NEW g, g = toLaunch[a] PROVE Listening(b, g)'
        BY <2>1, <2>4, <3>1, <4>2 DEF Listening
      <4>3. QED
        BY <2>2, <3>1, <4>1, <4>2 DEF Listening
    <3>2. CASE b # a
      <4>1. toLaunch'[b] = toLaunch[b]
        BY <2>1, <2>2, <3>2 DEF RowSet
      <4>2. ASSUME NEW g, Listening(b, g) PROVE Listening(b, g)'
        BY <2>4, <3>2, <4>2 DEF Listening
      <4>3. IF toLaunch[b] = NoRow THEN Listening(b, Expected(b))
            ELSE toLaunch[b] = Expected(b) /\ Listening(b, NoRow)
        BY <2>1 DEF StartupInv
      <4>4. QED
        BY <2>2, <4>1, <4>2, <4>3 DEF Listening
    <3>3. QED
      BY <3>1, <3>2
  <2>9. StartupInv'
    BY <2>1, <2>2, <2>8 DEF StartupInv
  <2>10. QED
    BY <2>1, <2>6, <2>7, <2>9 DEF FollowInv
<1>3. CASE RunIoContext
  <2>1. /\ mainPc = "launching" /\ mainPc' = "running"
        /\ host_container = <<>> /\ toLaunch = NoRows
        /\ UNCHANGED <<hosts, host_container, websocks, monitorPc, previous_hosts>>
    BY <1>3 DEF RunIoContext, StartupInv, monitorVars
  <2>2. OneStreamPerAccount' /\ ChangesApply'
    BY <2>1, SameView
  <2>3. ASSUME NEW a \in Accounts
        PROVE  Expected(a)' = Expected(a) /\ Listening(a, Expected(a))
    BY <2>1 DEF StartupInv, NoRows, Expected
  <2>4. ASSUME NEW a \in Accounts PROVE Listening(a, Expected(a))'
    BY <2>1, <2>3 DEF Listening
  <2>5. FollowInv'
    BY <2>1, <2>4 DEF FollowInv, ListeningAfter
  <2>6. StartupInv'
    BY <2>1 DEF StartupInv
  <2>7. QED
    BY <2>2, <2>5, <2>6
<1>4. QED
  BY <1>1, <1>2, <1>3 DEF Main

\* Steps that change neither the queue, nor the vector, nor the rows expected.
LEMMA QuietStep ==
    ASSUME TypeInv, SyncInv,
           UNCHANGED <<host_container, websocks, mainPc, toLaunch>>,
           \A a \in Accounts : Expected(a)' = Expected(a),
           mainPc # "running" \/ monitorPc' = "start" => host_container = <<>>,
           mainPc # "running" => monitorPc' \in {"start", "asleep"},
           mainPc = "start" /\ monitorPc' # "start" => previous_hosts' = hosts'
    PROVE  SyncInv'
<1> USE DEF TypeInv, SyncInv
<1>1. OneStreamPerAccount' /\ ChangesApply'
  BY SameView
<1>2. ASSUME NEW a \in Accounts, NEW g PROVE Listening(a, g)' <=> Listening(a, g)
  BY SameView
<1>3. ASSUME mainPc = "launching", NEW a \in Accounts
      PROVE  IF toLaunch[a] = NoRow THEN Listening(a, Expected(a))'
             ELSE toLaunch[a] = Expected(a)' /\ Listening(a, NoRow)'
  BY <1>2, <1>3 DEF StartupInv, Listening
<1>4. StartupInv'
  BY <1>3 DEF StartupInv
<1>5. ASSUME mainPc = "running", NEW a \in Accounts
      PROVE  ListeningAfter(a, Len(host_container), Expected(a))'
  <2>1. ListeningAfter(a, Len(host_container), Expected(a))
    BY <1>5 DEF FollowInv
  <2>2. QED
    BY <2>1 DEF ListeningAfter, Listening, Outcome
<1>6. FollowInv'
  BY <1>5 DEF FollowInv
<1>7. QED
  BY <1>1, <1>4, <1>6

\* The monitor queues a change and notes it among the rows it remembers.
LEMMA MonitorQueues ==
    ASSUME TypeInv, SyncInv, mainPc = "running", monitorPc # "start",
           NEW a \in Accounts, NEW host \in Change, host.acct = a,
           (host.changes = "no_changes") <=> (previous_hosts[a] = NoRow),
           host_container' = Append(host_container, host),
           previous_hosts' = [previous_hosts EXCEPT ![a] = Outcome(host)],
           UNCHANGED <<hosts, websocks, mainPc, toLaunch, monitorPc>>
    PROVE  SyncInv'
<1> USE DEF TypeInv, SyncInv
<1>1. OneStreamPerAccount' /\ ChangesApply'
  BY AppendApplies
<1>2. StartupInv'
  BY DEF StartupInv
<1>3. ASSUME NEW b \in Accounts,
             NEW last \in Nat, last = Len(host_container) + 1,
             NEW g \in Groups \cup {NoRow}, g = previous_hosts'[b]
      PROVE  ListeningAfter(b, last, g)'
  <2>1. CASE b = a
    <3>1. g = Outcome(host)
      BY <1>3, <2>1 DEF TypeOK, RowSet
    <3>2. QED
      BY <1>3, <2>1, <3>1, AppendView
  <2>2. CASE b # a
    <3>1. g = previous_hosts[b]
      BY <1>3, <2>2 DEF TypeOK, RowSet
    <3>2. ListeningAfter(b, Len(host_container), g)
      BY <3>1 DEF FollowInv, Expected
    <3>3. QED
      BY <1>3, <2>2, <3>2, AppendView
  <2>3. QED
    BY <2>1, <2>2
<1>4. /\ Len(host_container') = Len(host_container) + 1
      /\ Len(host_container) + 1 \in Nat
  BY AppendProperties, LenProperties DEF TypeOK
<1>5. \A b \in Accounts : previous_hosts'[b] \in Groups \cup {NoRow}
  BY DEF TypeOK, RowSet, Outcome, Change
<1>6. \A b \in Accounts : ListeningAfter(b, Len(host_container), Expected(b))'
  <2>1. SUFFICES ASSUME NEW b \in Accounts
                 PROVE  ListeningAfter(b, Len(host_container), Expected(b))'
    OBVIOUS
  <2>2. PICK last, g : /\ last \in Nat /\ last = Len(host_container')
                       /\ g \in Groups \cup {NoRow} /\ g = previous_hosts'[b]
    BY <1>4, <1>5
  <2>3. ListeningAfter(b, last, g)'
    BY <1>3, <1>4, <2>2
  <2>4. Expected(b)' = g
    BY <2>2 DEF Expected
  <2>5. QED
    BY <2>2, <2>3, <2>4 DEF ListeningAfter, Listening, Outcome
<1>7. QED
  BY <1>1, <1>2, <1>6 DEF FollowInv

LEMMA MonitorStep ==
    ASSUME TypeInv, SyncInv, CleanStart = TRUE, Monitor
    PROVE  SyncInv'
<1> USE DEF TypeInv, SyncInv
<1>1. CASE MonitorStart
  <2>1. /\ previous_hosts' = hosts /\ monitorPc = "start" /\ monitorPc' = "asleep"
        /\ UNCHANGED <<hosts, host_container, websocks, mainPc, toLaunch>>
    BY <1>1 DEF MonitorStart, StartupRead, mainVars
  <2>2. \A a \in Accounts : Expected(a)' = Expected(a)
    BY <2>1 DEF Expected
  <2>3. QED
    BY <2>1, <2>2, QuietStep DEF StartupInv
<1>2. CASE MonitorPoll \/ MonitorSecondLoop \/ MonitorSleep
  <2>1. /\ mainPc = "running" /\ monitorPc # "start" /\ monitorPc' # "start"
        /\ UNCHANGED <<hosts, host_container, websocks, mainPc, toLaunch, previous_hosts>>
    BY <1>2 DEF MonitorPoll, MonitorSecondLoop, MonitorSleep, mainVars, StartupInv
  <2>2. \A a \in Accounts : Expected(a)' = Expected(a)
    BY <2>1 DEF Expected
  <2>3. QED
    BY <2>1, <2>2, QuietStep
<1>3. ASSUME NEW a \in Accounts, MonitorVisitNew(a) PROVE SyncInv'
  <2>1. /\ mainPc = "running" /\ monitorPc = "adding"
        /\ previous_hosts' = [previous_hosts EXCEPT ![a] = new_hosts[a]]
        /\ UNCHANGED <<hosts, websocks, mainPc, toLaunch, monitorPc>>
    BY <1>3 DEF MonitorVisitNew, StartupInv, mainVars
  <2>2. new_hosts[a] \in Groups
    BY <1>3 DEF MonitorVisitNew, LoopInv, Rows, TypeOK, RowSet
  <2>3. ASSUME NEW c \in {"no_changes", "tg_group_changed"},
               host_container' = Append(host_container, HostInfo(a, new_hosts[a], c)),
               (c = "no_changes") <=> (previous_hosts[a] = NoRow)
        PROVE  SyncInv'
    <3> DEFINE host == HostInfo(a, new_hosts[a], c)
    <3>1. /\ host \in Change /\ host.acct = a /\ host.changes = c
          /\ Outcome(host) = new_hosts[a]
      BY <2>2 DEF HostInfo, Change, Outcome
    <3> HIDE DEF host
    <3>2. host_container' = Append(host_container, host)
      BY <2>3 DEF host
    <3>3. QED
      BY <2>1, <2>3, <3>1, <3>2, MonitorQueues
  <2>4. CASE previous_hosts[a] = new_hosts[a] /\ UNCHANGED host_container
    <3>1. previous_hosts' = previous_hosts
      BY <2>1, <2>4 DEF TypeOK, RowSet
    <3>2. \A b \in Accounts : Expected(b)' = Expected(b)
      BY <2>1, <3>1 DEF Expected
    <3>3. QED
      BY <2>1, <2>4, <3>1, <3>2, QuietStep
  <2>5. \/ /\ previous_hosts[a] = NoRow
           /\ host_container' = Append(host_container, HostInfo(a, new_hosts[a], "no_changes"))
        \/ /\ previous_hosts[a] # NoRow
           /\ host_container' = Append(host_container, HostInfo(a, new_hosts[a], "tg_group_changed"))
        \/ previous_hosts[a] = new_hosts[a] /\ UNCHANGED host_container
    BY <1>3, Zenon DEF MonitorVisitNew
  <2>6. QED
    BY <2>3, <2>4, <2>5
<1>4. ASSUME NEW a \in Accounts, MonitorVisitOld(a) PROVE SyncInv'
  <2>1. /\ mainPc = "running" /\ monitorPc = "removing" /\ a \in todo
        /\ UNCHANGED <<hosts, websocks, mainPc, toLaunch, monitorPc>>
    BY <1>4 DEF MonitorVisitOld, StartupInv, mainVars
  <2>2. previous_hosts[a] \in Groups /\ previous_hosts[a] # NoRow
    BY <2>1, HostSyncAssumption DEF LoopInv, Rows, TypeOK, RowSet
  <2>3. CASE /\ host_container' = Append(host_container,
                                         HostInfo(a, previous_hosts[a], "host_removed"))
             /\ previous_hosts' = [previous_hosts EXCEPT ![a] = NoRow]
    <3> DEFINE host == HostInfo(a, previous_hosts[a], "host_removed")
    <3>1. /\ host \in Change /\ host.acct = a /\ host.changes = "host_removed"
          /\ Outcome(host) = NoRow
      BY <2>2 DEF HostInfo, Change, Outcome
    <3> HIDE DEF host
    <3>2. host_container' = Append(host_container, host)
      BY <2>3 DEF host
    <3>3. QED
      BY <2>1, <2>2, <2>3, <3>1, <3>2, MonitorQueues
  <2>4. CASE UNCHANGED <<host_container, previous_hosts>>
    <3>1. \A b \in Accounts : Expected(b)' = Expected(b)
      BY <2>1, <2>4 DEF Expected
    <3>2. QED
      BY <2>1, <2>4, <3>1, QuietStep
  <2>5. QED
    BY <1>4, <2>3, <2>4, Zenon DEF MonitorVisitOld
<1>5. QED
  BY <1>1, <1>2, <1>3, <1>4 DEF Monitor

LEMMA LauncherStep ==
    ASSUME TypeInv, SyncInv, Launcher
    PROVE  SyncInv'
<1> USE DEF TypeInv, SyncInv
<1>1. /\ host_container \in Seq(Change) /\ host_container # <<>>
      /\ host_container' = Tail(host_container)
      /\ UNCHANGED <<hosts, mainPc, toLaunch, monitorPc, previous_hosts>>
  BY DEF Launcher, TypeOK, mainVars, monitorVars
<1>2. /\ Len(host_container) \in Nat \ {0}
      /\ Len(host_container') = Len(host_container) - 1
      /\ DOMAIN host_container = 1..Len(host_container)
      /\ DOMAIN host_container' = 1..(Len(host_container) - 1)
      /\ \A i \in 1..(Len(host_container) - 1) : host_container'[i] = host_container[i + 1]
  BY <1>1, HeadTailProperties, LenProperties, EmptySeq
<1>3. mainPc = "running" /\ monitorPc # "start"
  BY <1>1 DEF StartupInv
<1>4. OneStreamPerAccount'
  BY LauncherApplies
<1>5. ChangesApply'
  <2>1. SUFFICES ASSUME NEW n \in 1..(Len(host_container) - 1), NEW a \in Accounts,
                        host_container'[n].acct = a
                 PROVE  \E g \in Groups \cup {NoRow} :
                            /\ ListeningAfter(a, n - 1, g)'
                            /\ (host_container'[n].changes = "no_changes") <=> (g = NoRow)
    BY <1>2 DEF ChangesApply
  <2>2. n + 1 \in 1..Len(host_container) /\ (n + 1) - 1 = n /\ n \in 1..Len(host_container)
    BY <1>2
  <2>3. PICK g \in Groups \cup {NoRow} :
                 /\ ListeningAfter(a, n, g)
                 /\ (host_container[n + 1].changes = "no_changes") <=> (g = NoRow)
    BY <1>2, <2>1, <2>2 DEF ChangesApply
  <2>4. ListeningAfter(a, n - 1, g)'
    BY <2>2, <2>3, LauncherView
  <2>5. QED
    BY <1>2, <2>3, <2>4
<1>6. FollowInv'
  <2>1. SUFFICES ASSUME NEW a \in Accounts
                 PROVE  ListeningAfter(a, Len(host_container), Expected(a))'
    BY DEF FollowInv
  <2>2. PICK n, g : /\ n = Len(host_container) /\ g = previous_hosts[a]
    OBVIOUS
  <2>3. n \in 1..Len(host_container) /\ n - 1 = Len(host_container')
    BY <1>2, <2>2
  <2>4. g \in Groups \cup {NoRow}
    BY <2>2 DEF TypeOK, RowSet
  <2>5. ListeningAfter(a, n, g)
    BY <1>3, <2>2 DEF FollowInv, Expected
  <2>6. ListeningAfter(a, n - 1, g)'
    BY <2>3, <2>4, <2>5, LauncherView
  <2>7. Expected(a)' = g
    BY <1>1, <1>3, <2>2 DEF Expected
  <2>8. QED
    BY <2>3, <2>6, <2>7 DEF ListeningAfter, Listening, Outcome
<1>7. StartupInv'
  BY <1>1, <1>3 DEF StartupInv
<1>8. QED
  BY <1>4, <1>5, <1>6, <1>7

\* Somebody edits the table, or the process starts afresh.
LEMMA OutsideStep ==
    ASSUME TypeInv, SyncInv, CleanStart = TRUE,
           Restart \/ \E a \in Accounts, g \in Groups \cup {NoRow} : EditTable(a, g)
    PROVE  SyncInv'
<1> USE DEF TypeInv, SyncInv
<1>1. CASE Restart
  BY <1>1 DEF Restart, StartupInv, OneStreamPerAccount, ChangesApply, FollowInv
<1>2. ASSUME NEW a \in Accounts, NEW g \in Groups \cup {NoRow}, EditTable(a, g)
      PROVE  SyncInv'
  <2>1. /\ mainPc # "start" /\ monitorPc # "start"
        /\ UNCHANGED <<host_container, websocks, mainPc, toLaunch, monitorPc, previous_hosts>>
    BY <1>2 DEF EditTable, TableOpen, BothRead, mainVars, monitorVars
  <2>2. \A b \in Accounts : Expected(b)' = Expected(b)
    BY <2>1 DEF Expected
  <2>3. QED
    BY <2>1, <2>2, QuietStep DEF StartupInv
<1>3. QED
  BY <1>1, <1>2

-----------------------------------------------------------------------------
\* SyncInv holds throughout, without uploads and with a clean start.
LEMMA FollowingInv ==
    ASSUME Sessions = {}, CleanStart = TRUE
    PROVE  Spec => []SyncInv
<1>1. Init => SyncInv
  BY DEF Init, SyncInv, StartupInv, OneStreamPerAccount, ChangesApply, FollowInv
<1>2. TypeInv /\ SyncInv /\ [Next]_vars => SyncInv'
  <2> SUFFICES ASSUME TypeInv, SyncInv, [Next]_vars PROVE SyncInv'
    OBVIOUS
  <2>1. CASE Next
    <3>1. ~ Upload
      BY DEF Upload
    <3>2. QED
      BY <2>1, <3>1, MainStep, MonitorStep, LauncherStep, OutsideStep DEF Next
  <2>2. CASE UNCHANGED vars
    <3>1. UNCHANGED <<hosts, host_container, websocks, mainPc, toLaunch, monitorPc,
                      previous_hosts>>
      BY <2>2 DEF vars, mainVars, monitorVars
    <3>2. \A b \in Accounts : Expected(b)' = Expected(b)
      BY <3>1 DEF Expected
    <3>3. QED
      BY <3>1, <3>2, QuietStep DEF SyncInv, StartupInv
  <2>3. QED
    BY <2>1, <2>2
<1>3. QED
  BY <1>1, <1>2, TypeInvariant, PTL DEF Spec

\* Without uploads and with start-up reads that see one table, the vector of
\* streams follows the monitor: no account is listened to twice, no queued
\* change is dropped by the find_if, and replaying the queue always gives the
\* rows the monitor remembers.
THEOREM Following ==
    ASSUME Sessions = {}, CleanStart = TRUE
    PROVE  Spec => [](OneStreamPerAccount /\ ChangesApply /\ LauncherFollowsMonitor)
<1>1. SyncInv => OneStreamPerAccount /\ ChangesApply /\ LauncherFollowsMonitor
  BY DEF SyncInv, FollowInv, LauncherFollowsMonitor, Expected, BothRead
<1>2. QED
  BY <1>1, FollowingInv, PTL

-----------------------------------------------------------------------------
(***************************************************************************)
(* Uploads: an account may have two streams, but each row the monitor      *)
(* remembers keeps one.                                                    *)
(***************************************************************************)

\* As StartupInv, with uploads: nobody uploads before both reads are over, and
\* a row has its stream or is still to be launched.
ServedStartupInv ==
    /\ mainPc # "running" \/ monitorPc = "start" =>
           host_container = <<>> /\ \A s \in Sessions : uploaded[s] = <<>>
    /\ mainPc # "running" => monitorPc \in {"start", "asleep"}
    /\ mainPc = "start" /\ monitorPc # "start" => previous_hosts = hosts
    /\ mainPc = "launching" =>
        \A a \in Accounts : Expected(a) # NoRow => toLaunch[a] # NoRow \/ HasStream(a)

\* What an upload will queue are additions.
UploadsAdd ==
    \A s \in Sessions : \A i \in DOMAIN uploaded[s] : uploaded[s][i].changes = "no_changes"

ServedInv ==
    mainPc = "running" =>
        \A a \in Accounts : Expected(a) # NoRow => ServedAfter(a, Len(host_container))

KeptInv == ServedStartupInv /\ UploadsAdd /\ ServedInv /\ ChangesFindStreams

\* A queue that grows at its end keeps what was known of it, and an account that
\* no added entry removes is served as before.
LEMMA LongerQueue ==
    ASSUME TypeOK, host_container' \in Seq(Change), websocks' = websocks,
           Len(host_container) <= Len(host_container'),
           \A i \in 1..Len(host_container) : host_container'[i] = host_container[i],
           NEW a, NEW n \in 0..Len(host_container), ServedAfter(a, n),
           NEW m \in n..Len(host_container'),
           \A k \in (n + 1)..m : host_container'[k].acct = a =>
                                   host_container'[k].changes # "host_removed"
    PROVE  ServedAfter(a, m)'
<1>1. Len(host_container) \in Nat /\ Len(host_container') \in Nat
  BY LenProperties DEF TypeOK
<1>2. CASE \E j \in 1..n :
              /\ host_container[j].acct = a /\ host_container[j].changes = "no_changes"
              /\ \A k \in (j + 1)..n : host_container[k].acct = a =>
                                          host_container[k].changes # "host_removed"
  <2>1. PICK j \in 1..n :
              /\ host_container[j].acct = a /\ host_container[j].changes = "no_changes"
              /\ \A k \in (j + 1)..n : host_container[k].acct = a =>
                                          host_container[k].changes # "host_removed"
    BY <1>2
  <2>2. j \in 1..m /\ host_container'[j] = host_container[j]
    BY <1>1
  <2>3. \A k \in (j + 1)..m : host_container'[k].acct = a =>
                                host_container'[k].changes # "host_removed"
    <3>1. \A k \in (j + 1)..m : \/ k \in (j + 1)..n /\ host_container'[k] = host_container[k]
                                \/ k \in (n + 1)..m
      BY <1>1
    <3>2. QED
      BY <2>1, <3>1
  <2>4. QED
    BY <2>1, <2>2, <2>3 DEF ServedAfter
<1>3. CASE /\ HasStream(a)
           /\ \A k \in 1..n : host_container[k].acct = a =>
                                 host_container[k].changes # "host_removed"
  <2>1. HasStream(a)'
    BY <1>3 DEF HasStream
  <2>2. \A k \in 1..m : \/ k \in 1..n /\ host_container'[k] = host_container[k]
                        \/ k \in (n + 1)..m
    BY <1>1
  <2>3. \A k \in 1..m : host_container'[k].acct = a =>
                           host_container'[k].changes # "host_removed"
    BY <1>3, <2>2
  <2>4. QED
    BY <2>1, <2>3 DEF ServedAfter
<1>4. QED
  BY <1>2, <1>3 DEF ServedAfter

\* A queue that grows by changes of accounts that are served, or by additions,
\* has only changes that find a stream.
LEMMA GrowingFinds ==
    ASSUME TypeOK, KeptInv, mainPc = "running", host_container' \in Seq(Change),
           websocks' = websocks, Len(host_container) <= Len(host_container'),
           \A i \in 1..Len(host_container) : host_container'[i] = host_container[i],
           \A k \in (Len(host_container) + 1)..Len(host_container') :
               \/ host_container'[k].changes = "no_changes"
               \/ /\ k = Len(host_container) + 1
                  /\ Expected(host_container'[k].acct) # NoRow
    PROVE  ChangesFindStreams'
<1>1. /\ Len(host_container) \in Nat /\ Len(host_container') \in Nat
      /\ DOMAIN host_container = 1..Len(host_container)
      /\ DOMAIN host_container' = 1..Len(host_container')
  BY LenProperties DEF TypeOK
<1>2. ASSUME NEW n \in 1..Len(host_container'), host_container'[n].changes # "no_changes",
             NEW a \in Accounts, a = host_container'[n].acct
      PROVE  ServedAfter(a, n - 1)'
  <2>1. n - 1 \in 0..Len(host_container) /\ ServedAfter(a, n - 1)
    <3>1. CASE n <= Len(host_container)
      BY <1>1, <1>2, <3>1 DEF KeptInv, ChangesFindStreams
    <3>2. CASE n > Len(host_container)
      <4>1. n = Len(host_container) + 1 /\ Expected(a) # NoRow
        BY <1>1, <1>2, <3>2
      <4>2. ServedAfter(a, Len(host_container))
        BY <4>1 DEF KeptInv, ServedInv
      <4>3. QED
        BY <1>1, <4>1, <4>2
    <3>3. QED
      BY <1>1, <3>1, <3>2
  <2>2. n - 1 \in (n - 1)..Len(host_container') /\ \A k \in ((n - 1) + 1)..(n - 1) : FALSE
    BY <1>1
  <2>3. QED
    BY <2>1, <2>2, LongerQueue
<1>3. \A n \in 1..Len(host_container') : host_container'[n].acct \in Accounts
  <2>1. \A n \in 1..Len(host_container') : host_container'[n] \in Change
    BY <1>1
  <2>2. QED
    BY <2>1 DEF Change
<1>4. QED
  BY <1>1, <1>2, <1>3 DEF ChangesFindStreams

\* The launcher's step serves as many as before: an addition adds a stream, and
\* a removal takes one from its own account.
LEMMA LauncherServes ==
    ASSUME TypeOK, Launcher, NEW a \in Accounts, NEW n \in 1..Len(host_container),
           ServedAfter(a, n)
    PROVE  ServedAfter(a, n - 1)'
<1> DEFINE host == Head(host_container)
           found == FindStream(host.acct)
           entry == [acct |-> host.acct, group |-> host.group]
<1>1. /\ host = host_container[1] /\ host \in Change
      /\ Len(host_container) \in Nat
      /\ Len(host_container') = Len(host_container) - 1
      /\ \A i \in 1..(Len(host_container) - 1) : host_container'[i] = host_container[i + 1]
  <2>1. /\ host_container \in Seq(Change) /\ host_container # <<>>
        /\ host_container' = Tail(host_container) /\ host \in Change
    BY LauncherFacts, Zenon
  <2>2. QED
    BY <2>1, HeadTailProperties, LenProperties
<1>2. /\ Len(websocks) \in Nat /\ DOMAIN websocks = 1..Len(websocks)
      /\ websocks \in Seq(Stream) /\ entry \in Stream /\ host.acct \in Accounts
  BY <1>1 DEF TypeOK, Stream, Change
<1>3. \A j \in 2..n : j - 1 \in 1..(n - 1) /\ host_container'[j - 1] = host_container[j]
  <2>1. \A j \in 2..n : j - 1 \in 1..(Len(host_container) - 1) /\ (j - 1) + 1 = j
    BY <1>1
  <2>2. QED
    BY <1>1, <2>1
<1>4. \A k \in 1..(n - 1) : k + 1 \in 2..n /\ host_container'[k] = host_container[k + 1]
  BY <1>1
<1>5. \/ websocks' = Append(websocks, entry) /\ host.changes = "no_changes"
      \/ websocks' = websocks /\ host.changes # "no_changes"
      \/ /\ host.changes = "host_removed" /\ found \in 1..Len(websocks)
         /\ websocks' = RemoveAt(websocks, found)
      \/ /\ host.changes # "no_changes" /\ found \in 1..Len(websocks)
         /\ websocks' = [websocks EXCEPT ![found] = entry]
  BY LauncherFacts, Zenon
<1>6. CASE \E j \in 2..n :
              /\ host_container[j].acct = a /\ host_container[j].changes = "no_changes"
              /\ \A k \in (j + 1)..n : host_container[k].acct = a =>
                                          host_container[k].changes # "host_removed"
  <2>1. PICK j \in 2..n :
              /\ host_container[j].acct = a /\ host_container[j].changes = "no_changes"
              /\ \A k \in (j + 1)..n : host_container[k].acct = a =>
                                          host_container[k].changes # "host_removed"
    BY <1>6
  <2>2. \A k \in ((j - 1) + 1)..(n - 1) : k + 1 \in (j + 1)..n /\ k \in 1..(n - 1)
    OBVIOUS
  <2>3. \A k \in ((j - 1) + 1)..(n - 1) :
            host_container'[k].acct = a => host_container'[k].changes # "host_removed"
    BY <1>4, <2>1, <2>2
  <2>4. QED
    BY <1>3, <2>1, <2>3 DEF ServedAfter
<1>7. CASE /\ \A k \in 2..n : host_container[k].acct = a =>
                                 host_container[k].changes # "host_removed"
           /\ \/ host.acct = a /\ host.changes = "no_changes"
              \/ HasStream(a) /\ (host.acct = a => host.changes # "host_removed")
  <2>1. \A k \in 1..(n - 1) : host_container'[k].acct = a =>
                                 host_container'[k].changes # "host_removed"
    BY <1>4, <1>7
  <2> HIDE DEF host, found, entry
  <2>2. CASE websocks' = Append(websocks, entry) /\ host.changes = "no_changes"
    <3>1. /\ DOMAIN websocks' = 1..(Len(websocks) + 1)
          /\ \A i \in 1..Len(websocks) : websocks'[i] = websocks[i]
          /\ websocks'[Len(websocks) + 1] = entry
      BY <1>2, <2>2
    <3>2. HasStream(a)'
      BY <1>2, <1>7, <2>2, <3>1 DEF HasStream, entry
    <3>3. QED
      BY <2>1, <3>2 DEF ServedAfter
  <2>3. CASE websocks' = websocks /\ host.changes # "no_changes"
    BY <1>7, <2>1, <2>3 DEF ServedAfter, HasStream
  <2>4. CASE /\ host.changes = "host_removed" /\ found \in 1..Len(websocks)
             /\ websocks' = RemoveAt(websocks, found)
    <3>1. websocks[found].acct = host.acct /\ host.acct # a /\ HasStream(a)
      <4>1. host.acct # a /\ HasStream(a)
        BY <1>7, <2>4
      <4>2. websocks[found].acct = host.acct
        BY <1>2, <2>4, FindStreamFacts DEF found
      <4>3. QED
        BY <4>1, <4>2
    <3>2. /\ DOMAIN websocks' = 1..(Len(websocks) - 1)
          /\ \A k \in 1..(Len(websocks) - 1) :
                 websocks'[k] = IF k < found THEN websocks[k] ELSE websocks[k + 1]
      <4>1. RemoveAt(websocks, found) \in Seq(Stream)
            /\ Len(RemoveAt(websocks, found)) = Len(websocks) - 1
            /\ \A k \in 1..(Len(websocks) - 1) :
                   RemoveAt(websocks, found)[k] =
                       IF k < found THEN websocks[k] ELSE websocks[k + 1]
        BY <1>2, <2>4, RemoveAtFacts
      <4>2. DOMAIN websocks' = 1..(Len(websocks) - 1)
        BY <2>4, <4>1, LenProperties
      <4>3. QED
        BY <2>4, <4>1, <4>2, Zenon
    <3>3. PICK k \in 1..Len(websocks) : websocks[k].acct = a
      BY <1>2, <3>1 DEF HasStream
    <3>4. CASE k < found
      <4>1. k \in 1..(Len(websocks) - 1) /\ websocks'[k].acct = a
        BY <1>2, <2>4, <3>2, <3>3, <3>4
      <4>2. QED
        BY <2>1, <3>2, <4>1 DEF ServedAfter, HasStream
    <3>5. CASE k > found
      <4>1. /\ k - 1 \in 1..(Len(websocks) - 1) /\ ~ (k - 1 < found) /\ (k - 1) + 1 = k
        BY <1>2, <2>4, <3>5
      <4>2. websocks'[k - 1].acct = a
        BY <3>2, <3>3, <4>1
      <4>3. QED
        BY <2>1, <3>2, <4>1, <4>2 DEF ServedAfter, HasStream
    <3>6. QED
      BY <2>4, <3>1, <3>3, <3>4, <3>5
  <2>5. CASE /\ host.changes # "no_changes" /\ found \in 1..Len(websocks)
             /\ websocks' = [websocks EXCEPT ![found] = entry]
    <3>1. websocks[found].acct = host.acct /\ entry.acct = host.acct
      BY <1>2, <2>5, FindStreamFacts DEF found, entry
    <3>2. /\ DOMAIN websocks' = 1..Len(websocks)
          /\ \A k \in 1..Len(websocks) : websocks'[k].acct = websocks[k].acct
      BY <1>2, <2>5, <3>1
    <3>3. QED
      BY <1>2, <1>7, <2>1, <2>5, <3>2 DEF ServedAfter, HasStream
  <2>6. QED
    BY <1>5, <2>2, <2>3, <2>4, <2>5 DEF host, found, entry
<1>8. QED
  <2>1. CASE \E j \in 1..n :
              /\ host_container[j].acct = a /\ host_container[j].changes = "no_changes"
              /\ \A k \in (j + 1)..n : host_container[k].acct = a =>
                                          host_container[k].changes # "host_removed"
    <3>1. PICK j \in 1..n :
              /\ host_container[j].acct = a /\ host_container[j].changes = "no_changes"
              /\ \A k \in (j + 1)..n : host_container[k].acct = a =>
                                          host_container[k].changes # "host_removed"
      BY <2>1
    <3>2. CASE j = 1
      BY <1>1, <1>7, <3>1, <3>2
    <3>3. CASE j \in 2..n
      BY <1>6, <3>1, <3>3
    <3>4. QED
      BY <3>2, <3>3
  <2>2. CASE /\ HasStream(a)
             /\ \A k \in 1..n : host_container[k].acct = a =>
                                   host_container[k].changes # "host_removed"
    <3>1. 1 \in 1..n /\ \A k \in 2..n : k \in 1..n
      OBVIOUS
    <3>2. QED
      BY <1>1, <1>7, <2>2, <3>1
  <2>3. QED
    BY <2>1, <2>2 DEF ServedAfter

\* A step that leaves the queue, the vector and the rows to follow alone.
LEMMA QuietServes ==
    ASSUME TypeOK, KeptInv,
           UNCHANGED <<host_container, websocks, mainPc, toLaunch>>,
           \A a \in Accounts : Expected(a)' = Expected(a),
           UploadsAdd',
           mainPc # "running" \/ monitorPc' = "start" =>
               host_container = <<>> /\ \A s \in Sessions : uploaded'[s] = <<>>,
           mainPc # "running" => monitorPc' \in {"start", "asleep"},
           mainPc = "start" /\ monitorPc' # "start" => previous_hosts' = hosts'
    PROVE  KeptInv'
<1> USE DEF KeptInv
<1>1. ASSUME NEW a \in Accounts, NEW n, ServedAfter(a, n) PROVE ServedAfter(a, n)'
  BY <1>1 DEF ServedAfter, HasStream
<1>2. ChangesFindStreams'
  <2>1. ASSUME NEW n \in DOMAIN host_container, host_container[n].changes # "no_changes"
        PROVE  ServedAfter(host_container[n].acct, n - 1)'
    BY <2>1 DEF ChangesFindStreams, ServedAfter, HasStream
  <2>2. QED
    BY <2>1 DEF ChangesFindStreams
<1>3. ServedInv'
  <2>1. ASSUME mainPc = "running", NEW a \in Accounts, Expected(a) # NoRow,
               NEW n, n = Len(host_container)
        PROVE  ServedAfter(a, n)'
    BY <1>1, <2>1 DEF ServedInv
  <2>2. QED
    BY <2>1 DEF ServedInv
<1>4. ServedStartupInv'
  <2>1. \A a : HasStream(a)' <=> HasStream(a)
    BY DEF HasStream
  <2>2. QED
    BY <2>1 DEF ServedStartupInv
<1>5. QED
  BY <1>2, <1>3, <1>4

\* The monitor queues one change of an account and remembers it.
LEMMA MonitorServes ==
    ASSUME TypeInv, KeptInv, mainPc = "running", monitorPc # "start",
           NEW a \in Accounts, NEW host \in Change, host.acct = a,
           host.changes # "no_changes" => previous_hosts[a] # NoRow,
           host_container' = Append(host_container, host),
           previous_hosts' = [previous_hosts EXCEPT ![a] = Outcome(host)],
           UNCHANGED <<hosts, websocks, mainPc, toLaunch, monitorPc, uploaded>>
    PROVE  KeptInv'
<1> USE DEF TypeInv, KeptInv
<1>1. /\ Len(host_container) \in Nat
      /\ host_container' \in Seq(Change)
      /\ Len(host_container') = Len(host_container) + 1
      /\ \A i \in 1..Len(host_container) : host_container'[i] = host_container[i]
      /\ host_container'[Len(host_container) + 1] = host
  BY AppendProperties, LenProperties DEF TypeOK
<1>2. \A b \in Accounts : Expected(b) = previous_hosts[b] /\ Expected(b)' = previous_hosts'[b]
  BY DEF Expected
<1>3. ChangesFindStreams'
  <2>1. \A k \in (Len(host_container) + 1)..Len(host_container') :
            k = Len(host_container) + 1 /\ host_container'[k] = host
    BY <1>1
  <2>2. QED
    BY <1>1, <1>2, <2>1, GrowingFinds
<1>4. ASSUME NEW b \in Accounts, previous_hosts'[b] # NoRow,
             NEW last \in Nat, last = Len(host_container')
      PROVE  ServedAfter(b, last)'
  <2>1. CASE b = a /\ host.changes = "no_changes"
    <3>1. last \in 1..last /\ \A k \in (last + 1)..last : FALSE
      BY <1>1, <1>4
    <3>2. QED
      BY <1>1, <1>4, <2>1, <3>1 DEF ServedAfter
  <2>2. CASE b = a /\ host.changes = "host_removed"
    BY <1>4, <2>2 DEF Outcome, TypeOK, RowSet
  <2>3. CASE b # a \/ host.changes = "tg_group_changed"
    <3>1. previous_hosts[b] # NoRow
      BY <1>4, <2>3 DEF TypeOK, RowSet
    <3>2. ServedAfter(b, Len(host_container))
      BY <1>2, <3>1 DEF ServedInv
    <3>3. \A k \in (Len(host_container) + 1)..last :
              host_container'[k].acct = b => host_container'[k].changes # "host_removed"
      BY <1>1, <1>4, <2>3
    <3>4. last \in Len(host_container)..Len(host_container')
          /\ Len(host_container) \in 0..Len(host_container)
      BY <1>1, <1>4
    <3>5. QED
      BY <1>1, <3>2, <3>3, <3>4, LongerQueue
  <2>4. QED
    BY <2>1, <2>2, <2>3 DEF Change
<1>5. ServedInv'
  <2>1. SUFFICES ASSUME NEW b \in Accounts, previous_hosts'[b] # NoRow
                 PROVE  ServedAfter(b, Len(host_container))'
    BY <1>2 DEF ServedInv
  <2>2. PICK last \in Nat : last = Len(host_container')
    BY <1>1
  <2>3. ServedAfter(b, last)'
    BY <1>4, <2>1, <2>2
  <2>4. QED
    BY <2>2, <2>3 DEF ServedAfter
<1>6. ServedStartupInv' /\ UploadsAdd'
  BY DEF ServedStartupInv, UploadsAdd
<1>7. QED
  BY <1>3, <1>5, <1>6

\* The end of an upload queues additions.
LEMMA UploadServes ==
    ASSUME TypeInv, KeptInv, NEW s \in Sessions, UploadQueue(s)
    PROVE  KeptInv'
<1> USE DEF TypeInv, KeptInv
<1>1. /\ uploaded[s] # <<>> /\ uploaded[s] \in Seq(Change) /\ host_container \in Seq(Change)
      /\ host_container' = host_container \o uploaded[s]
      /\ uploaded' = [uploaded EXCEPT ![s] = <<>>]
      /\ UNCHANGED <<hosts, websocks, mainPc, toLaunch, monitorPc, previous_hosts>>
  BY DEF UploadQueue, TypeOK, mainVars, monitorVars
<1>2. mainPc = "running" /\ monitorPc # "start"
  BY <1>1 DEF ServedStartupInv
<1>3. /\ Len(host_container) \in Nat /\ Len(uploaded[s]) \in Nat
      /\ host_container' \in Seq(Change)
      /\ Len(host_container') = Len(host_container) + Len(uploaded[s])
      /\ \A i \in 1..Len(host_container) : host_container'[i] = host_container[i]
      /\ \A i \in (Len(host_container) + 1)..Len(host_container') :
             host_container'[i] = uploaded[s][i - Len(host_container)]
  <2>1. ASSUME NEW p \in Seq(Change), NEW q \in Seq(Change)
        PROVE  /\ Len(p) \in Nat /\ Len(q) \in Nat
               /\ p \o q \in Seq(Change) /\ Len(p \o q) = Len(p) + Len(q)
               /\ \A i \in 1..Len(p) : (p \o q)[i] = p[i]
               /\ \A i \in (Len(p) + 1)..Len(p \o q) : (p \o q)[i] = q[i - Len(p)]
    OBVIOUS
  <2>2. QED
    BY <1>1, <2>1
<1>4. \A k \in (Len(host_container) + 1)..Len(host_container') :
          host_container'[k].changes = "no_changes"
  <2>1. \A k \in (Len(host_container) + 1)..Len(host_container') :
            k - Len(host_container) \in DOMAIN uploaded[s]
    BY <1>1, <1>3
  <2>2. QED
    BY <1>3, <2>1 DEF UploadsAdd
<1>5. \A b \in Accounts : Expected(b)' = Expected(b)
  BY <1>1 DEF Expected
<1>6. ChangesFindStreams'
  BY <1>1, <1>2, <1>3, <1>4, GrowingFinds
<1>7. ServedInv'
  <2>1. SUFFICES ASSUME NEW b \in Accounts, Expected(b) # NoRow
                 PROVE  ServedAfter(b, Len(host_container))'
    BY <1>5 DEF ServedInv
  <2>2. PICK last \in Nat : last = Len(host_container')
    BY <1>3
  <2>3. /\ ServedAfter(b, Len(host_container))
        /\ Len(host_container) \in 0..Len(host_container)
        /\ last \in Len(host_container)..Len(host_container')
    BY <1>2, <1>3, <2>1, <2>2 DEF ServedInv
  <2>4. \A k \in (Len(host_container) + 1)..last :
            host_container'[k].acct = b => host_container'[k].changes # "host_removed"
    BY <1>3, <1>4, <2>2
  <2>5. Len(host_container) <= Len(host_container') /\ websocks' = websocks
    BY <1>1, <1>3
  <2>6. ServedAfter(b, last)'
    BY <1>3, <2>3, <2>4, <2>5, LongerQueue
  <2>7. QED
    BY <2>2, <2>6 DEF ServedAfter
<1>8. ServedStartupInv'
  BY <1>1, <1>2 DEF ServedStartupInv
<1>9. UploadsAdd'
  BY <1>1 DEF UploadsAdd, TypeOK
<1>10. QED
  BY <1>6, <1>7, <1>8, <1>9

LEMMA LauncherKeeps ==
    ASSUME TypeInv, KeptInv, Launcher
    PROVE  KeptInv'
<1> USE DEF TypeInv, KeptInv
<1>1. /\ host_container \in Seq(Change) /\ host_container # <<>>
      /\ host_container' = Tail(host_container)
      /\ UNCHANGED <<hosts, mainPc, toLaunch, monitorPc, previous_hosts, uploaded>>
  BY DEF Launcher, TypeOK, mainVars, monitorVars
<1>2. /\ Len(host_container) \in Nat \ {0}
      /\ Len(host_container') = Len(host_container) - 1
      /\ DOMAIN host_container = 1..Len(host_container)
      /\ DOMAIN host_container' = 1..(Len(host_container) - 1)
      /\ \A i \in 1..(Len(host_container) - 1) : host_container'[i] = host_container[i + 1]
  BY <1>1, HeadTailProperties, LenProperties, EmptySeq
<1>3. mainPc = "running" /\ monitorPc # "start"
  BY <1>1 DEF ServedStartupInv
<1>4. ChangesFindStreams'
  <2>1. ASSUME NEW n \in 1..(Len(host_container) - 1), NEW a \in Accounts,
               a = host_container'[n].acct, host_container'[n].changes # "no_changes"
        PROVE  ServedAfter(a, n - 1)'
    <3>1. n + 1 \in 1..Len(host_container) /\ (n + 1) - 1 = n /\ n \in 1..Len(host_container)
      BY <1>2
    <3>2. ServedAfter(a, n)
      BY <1>2, <2>1, <3>1 DEF ChangesFindStreams
    <3>3. QED
      BY <3>1, <3>2, LauncherServes
  <2>2. \A n \in 1..(Len(host_container) - 1) : host_container'[n].acct \in Accounts
    <3>1. \A n \in 1..(Len(host_container) - 1) :
              n + 1 \in 1..Len(host_container) /\ host_container[n + 1] \in Change
      BY <1>1, <1>2
    <3>2. QED
      BY <1>2, <3>1 DEF Change
  <2>3. QED
    BY <1>2, <2>1, <2>2 DEF ChangesFindStreams
<1>5. ServedInv'
  <2>1. SUFFICES ASSUME NEW a \in Accounts, Expected(a)' # NoRow
                 PROVE  ServedAfter(a, Len(host_container))'
    BY DEF ServedInv
  <2>2. PICK n \in 1..Len(host_container) : n = Len(host_container)
    BY <1>2
  <2>3. Expected(a) # NoRow
    BY <1>1, <2>1 DEF Expected
  <2>4. ServedAfter(a, n)
    BY <1>3, <2>2, <2>3 DEF ServedInv
  <2>5. ServedAfter(a, n - 1)' /\ n - 1 = Len(host_container')
    BY <1>2, <2>2, <2>4, LauncherServes
  <2>6. QED
    BY <2>5 DEF ServedAfter
<1>6. ServedStartupInv' /\ UploadsAdd'
  BY <1>1, <1>3 DEF ServedStartupInv, UploadsAdd
<1>7. QED
  BY <1>4, <1>5, <1>6

\* Uploads or not: every row the monitor remembers keeps a stream, and no change
\* of the queue is dropped for want of one, when both start-up reads see one
\* table.
THEOREM RowsKeepTheirStreams ==
    ASSUME CleanStart = TRUE
    PROVE  Spec => [](RowsServed /\ ChangesFindStreams)
<1>1. Init => KeptInv
  <2>1. SUFFICES ASSUME Init PROVE KeptInv
    OBVIOUS
  <2>2. host_container = <<>> /\ mainPc = "start" /\ monitorPc = "start"
        /\ \A s \in Sessions : uploaded[s] = <<>>
    BY <2>1 DEF Init
  <2>3. QED
    BY <2>2 DEF KeptInv, ServedStartupInv, UploadsAdd, ServedInv, ChangesFindStreams
<1>2. TypeInv /\ KeptInv /\ [Next]_vars => KeptInv'
  <2> SUFFICES ASSUME TypeInv, KeptInv, [Next]_vars PROVE KeptInv'
    OBVIOUS
  <2>a. TypeOK /\ ServedStartupInv /\ UploadsAdd
    BY DEF TypeInv, KeptInv
  <2>1. CASE LaunchPreviousHosts
    <3>1. /\ mainPc = "start" /\ mainPc' = "launching"
          /\ host_container = <<>> /\ toLaunch' = hosts
          /\ \A a \in Accounts : Expected(a)' = hosts[a]
          /\ UNCHANGED <<hosts, host_container, websocks, monitorPc, previous_hosts, uploaded>>
      BY <2>1, <2>a DEF LaunchPreviousHosts, StartupRead, ServedStartupInv, monitorVars, Expected
    <3>2. ServedStartupInv'
      BY <2>a, <3>1 DEF ServedStartupInv
    <3>3. QED
      BY <2>a, <3>1, <3>2 DEF KeptInv, UploadsAdd, ServedInv, ChangesFindStreams
  <2>2. ASSUME NEW a \in Accounts, LaunchHost(a) PROVE KeptInv'
    <3>1. /\ mainPc = "launching" /\ mainPc' = "launching" /\ host_container = <<>>
          /\ websocks' = Append(websocks, [acct |-> a, group |-> toLaunch[a]])
          /\ toLaunch[a] # NoRow /\ toLaunch' = [toLaunch EXCEPT ![a] = NoRow]
          /\ UNCHANGED <<hosts, host_container, monitorPc, previous_hosts, uploaded>>
      BY <2>2, <2>a DEF LaunchHost, ServedStartupInv, monitorVars
    <3>2. \A b \in Accounts : Expected(b)' = Expected(b)
      BY <3>1 DEF Expected
    <3>3. websocks \in Seq(Stream) /\ [acct |-> a, group |-> toLaunch[a]] \in Stream
      BY <2>a, <3>1 DEF TypeOK, Stream, RowSet
    <3>4. HasStream(a)' /\ \A b \in Accounts : HasStream(b) => HasStream(b)'
      <4>1. /\ DOMAIN websocks = 1..Len(websocks) /\ Len(websocks) \in Nat
            /\ DOMAIN websocks' = 1..(Len(websocks) + 1)
            /\ \A i \in 1..Len(websocks) : websocks'[i] = websocks[i]
            /\ websocks'[Len(websocks) + 1] = [acct |-> a, group |-> toLaunch[a]]
        BY <3>1, <3>3, AppendProperties, LenProperties
      <4>2. QED
        BY <4>1 DEF HasStream
    <3>5. \A b \in Accounts : b # a => toLaunch'[b] = toLaunch[b]
      BY <2>a, <3>1 DEF TypeOK, RowSet
    <3>6. ServedStartupInv'
      BY <2>a, <3>1, <3>2, <3>4, <3>5 DEF ServedStartupInv
    <3>7. QED
      BY <2>a, <3>1, <3>6 DEF KeptInv, UploadsAdd, ServedInv, ChangesFindStreams
  <2>3. CASE RunIoContext
    <3>1. /\ mainPc = "launching" /\ mainPc' = "running" /\ host_container = <<>>
          /\ toLaunch = NoRows
          /\ UNCHANGED <<hosts, host_container, websocks, monitorPc, previous_hosts, uploaded>>
      BY <2>3, <2>a DEF RunIoContext, ServedStartupInv, monitorVars
    <3>2. \A a \in Accounts : Expected(a)' = Expected(a) /\ (HasStream(a)' <=> HasStream(a))
      BY <3>1 DEF Expected, HasStream
    <3>3. ASSUME NEW a \in Accounts, Expected(a) # NoRow PROVE HasStream(a)
      BY <2>a, <3>1, <3>3 DEF ServedStartupInv, NoRows
    <3>4. ServedInv'
      BY <3>1, <3>2, <3>3 DEF ServedInv, ServedAfter
    <3>5. ServedStartupInv'
      BY <2>a, <3>1 DEF ServedStartupInv
    <3>6. QED
      BY <2>a, <3>1, <3>4, <3>5 DEF KeptInv, UploadsAdd, ChangesFindStreams
  <2>4. CASE MonitorStart
    <3>1. /\ previous_hosts' = hosts /\ monitorPc = "start" /\ monitorPc' = "asleep"
          /\ UNCHANGED <<hosts, host_container, websocks, mainPc, toLaunch, uploaded>>
      BY <2>4 DEF MonitorStart, StartupRead, mainVars
    <3>2. \A a \in Accounts : Expected(a)' = Expected(a)
      BY <3>1 DEF Expected
    <3>3. QED
      BY <2>a, <3>1, <3>2, QuietServes DEF ServedStartupInv, UploadsAdd
  <2>5. CASE MonitorPoll \/ MonitorSecondLoop \/ MonitorSleep
    <3>1. /\ mainPc = "running" /\ monitorPc # "start" /\ monitorPc' # "start"
          /\ UNCHANGED <<hosts, host_container, websocks, mainPc, toLaunch, previous_hosts, uploaded>>
      BY <2>5, <2>a DEF MonitorPoll, MonitorSecondLoop, MonitorSleep, mainVars, ServedStartupInv
    <3>2. \A a \in Accounts : Expected(a)' = Expected(a)
      BY <3>1 DEF Expected
    <3>3. QED
      BY <2>a, <3>1, <3>2, QuietServes DEF UploadsAdd
  <2>6. ASSUME NEW a \in Accounts, MonitorVisitNew(a) PROVE KeptInv'
    <3>1. /\ mainPc = "running" /\ monitorPc = "adding"
          /\ previous_hosts' = [previous_hosts EXCEPT ![a] = new_hosts[a]]
          /\ UNCHANGED <<hosts, websocks, mainPc, toLaunch, monitorPc, uploaded>>
      BY <2>6, <2>a DEF MonitorVisitNew, ServedStartupInv, mainVars
    <3>2. new_hosts[a] \in Groups
      BY <2>6 DEF MonitorVisitNew, LoopInv, Rows, TypeOK, RowSet, TypeInv
    <3>3. ASSUME NEW c \in {"no_changes", "tg_group_changed"},
                 host_container' = Append(host_container, HostInfo(a, new_hosts[a], c)),
                 c # "no_changes" => previous_hosts[a] # NoRow
          PROVE  KeptInv'
      <4> DEFINE host == HostInfo(a, new_hosts[a], c)
      <4>1. /\ host \in Change /\ host.acct = a /\ host.changes = c
            /\ Outcome(host) = new_hosts[a]
        BY <3>2 DEF HostInfo, Change, Outcome
      <4> HIDE DEF host
      <4>2. host_container' = Append(host_container, host)
        BY <3>3 DEF host
      <4>3. QED
        BY <3>1, <3>3, <4>1, <4>2, MonitorServes
    <3>4. CASE previous_hosts[a] = new_hosts[a] /\ UNCHANGED host_container
      <4>1. previous_hosts' = previous_hosts
        BY <2>a, <3>1, <3>4 DEF TypeOK, RowSet
      <4>2. \A b \in Accounts : Expected(b)' = Expected(b)
        BY <3>1, <4>1 DEF Expected
      <4>3. QED
        BY <2>a, <3>1, <3>4, <4>1, <4>2, QuietServes DEF UploadsAdd
    <3>5. \/ host_container' = Append(host_container, HostInfo(a, new_hosts[a], "no_changes"))
          \/ /\ previous_hosts[a] # NoRow
             /\ host_container' = Append(host_container, HostInfo(a, new_hosts[a], "tg_group_changed"))
          \/ previous_hosts[a] = new_hosts[a] /\ UNCHANGED host_container
      BY <2>6, Zenon DEF MonitorVisitNew
    <3>6. QED
      BY <3>3, <3>4, <3>5
  <2>7. ASSUME NEW a \in Accounts, MonitorVisitOld(a) PROVE KeptInv'
    <3>1. /\ mainPc = "running" /\ monitorPc = "removing"
          /\ UNCHANGED <<hosts, websocks, mainPc, toLaunch, monitorPc, uploaded>>
      BY <2>7, <2>a DEF MonitorVisitOld, ServedStartupInv, mainVars
    <3>2. previous_hosts[a] \in Groups /\ previous_hosts[a] # NoRow
      BY <2>7, HostSyncAssumption DEF MonitorVisitOld, LoopInv, Rows, TypeOK, RowSet, TypeInv
    <3>3. CASE /\ host_container' = Append(host_container,
                                           HostInfo(a, previous_hosts[a], "host_removed"))
               /\ previous_hosts' = [previous_hosts EXCEPT ![a] = NoRow]
      <4> DEFINE host == HostInfo(a, previous_hosts[a], "host_removed")
      <4>1. /\ host \in Change /\ host.acct = a /\ host.changes = "host_removed"
            /\ Outcome(host) = NoRow
        BY <3>2 DEF HostInfo, Change, Outcome
      <4> HIDE DEF host
      <4>2. host_container' = Append(host_container, host)
        BY <3>3 DEF host
      <4>3. QED
        BY <3>1, <3>2, <3>3, <4>1, <4>2, MonitorServes
    <3>4. CASE UNCHANGED <<host_container, previous_hosts>>
      <4>1. \A b \in Accounts : Expected(b)' = Expected(b)
        BY <3>1, <3>4 DEF Expected
      <4>2. QED
        BY <2>a, <3>1, <3>4, <4>1, QuietServes DEF UploadsAdd
    <3>5. QED
      BY <2>7, <3>3, <3>4, Zenon DEF MonitorVisitOld
  <2>8. CASE Launcher
    BY <2>8, LauncherKeeps
  <2>9. ASSUME NEW s \in Sessions, NEW a \in Accounts, NEW g \in Groups, UploadItem(s, a, g)
        PROVE  KeptInv'
    <3>1. /\ mainPc = "running" /\ monitorPc # "start"
          /\ uploaded' = [uploaded EXCEPT ![s] = Append(@, HostInfo(a, g, "no_changes"))]
          /\ UNCHANGED <<host_container, websocks, mainPc, toLaunch, monitorPc, previous_hosts>>
      BY <2>9 DEF UploadItem, TableOpen, BothRead, mainVars, monitorVars
    <3>2. \A b \in Accounts : Expected(b)' = Expected(b)
      BY <3>1 DEF Expected
    <3>3. UploadsAdd'
      <4>1. uploaded \in [Sessions -> Seq(Change)] /\ HostInfo(a, g, "no_changes") \in Change
        BY <2>a DEF TypeOK, HostInfo, Change
      <4>2. ASSUME NEW t \in Sessions, NEW i \in DOMAIN uploaded'[t]
            PROVE  uploaded'[t][i].changes = "no_changes"
        <5>1. CASE t # s
          BY <2>a, <3>1, <4>1, <4>2, <5>1 DEF UploadsAdd
        <5>2. CASE t = s
          <6>1. /\ uploaded[s] \in Seq(Change)
                /\ uploaded'[t] = Append(uploaded[s], HostInfo(a, g, "no_changes"))
            BY <3>1, <4>1, <5>2
          <6>2. \/ i \in DOMAIN uploaded[s] /\ uploaded'[t][i] = uploaded[s][i]
                \/ uploaded'[t][i] = HostInfo(a, g, "no_changes")
            BY <4>1, <4>2, <6>1
          <6>3. QED
            BY <2>a, <6>2 DEF UploadsAdd, HostInfo
        <5>3. QED
          BY <5>1, <5>2
      <4>3. QED
        BY <4>2 DEF UploadsAdd
    <3>4. QED
      BY <2>a, <3>1, <3>2, <3>3, QuietServes
  <2>10. ASSUME NEW s \in Sessions, UploadQueue(s) PROVE KeptInv'
    BY <2>10, UploadServes
  <2>11. ASSUME NEW s \in Sessions, UploadReject(s) PROVE KeptInv'
    <3>1. /\ mainPc = "running" /\ monitorPc # "start"
          /\ uploaded' = [uploaded EXCEPT ![s] = <<>>]
          /\ UNCHANGED <<host_container, websocks, mainPc, toLaunch, monitorPc, previous_hosts>>
      BY <2>11, <2>a DEF UploadReject, ServedStartupInv, mainVars, monitorVars
    <3>2. \A b \in Accounts : Expected(b)' = Expected(b)
      BY <2>11 DEF UploadReject, Expected, monitorVars
    <3>3. UploadsAdd'
      BY <2>a, <3>1 DEF UploadsAdd, TypeOK
    <3>4. QED
      BY <2>a, <3>1, <3>2, <3>3, QuietServes
  <2>12. CASE Restart
    BY <2>12 DEF Restart, KeptInv, ServedStartupInv, UploadsAdd, ServedInv, ChangesFindStreams
  <2>13. ASSUME NEW a \in Accounts, NEW g \in Groups \cup {NoRow}, EditTable(a, g)
         PROVE  KeptInv'
    <3>1. /\ mainPc # "start" /\ monitorPc # "start"
          /\ UNCHANGED <<host_container, websocks, mainPc, toLaunch, monitorPc, previous_hosts, uploaded>>
      BY <2>13 DEF EditTable, TableOpen, BothRead, mainVars, monitorVars
    <3>2. \A b \in Accounts : Expected(b)' = Expected(b)
      BY <3>1 DEF Expected
    <3>3. QED
      BY <2>a, <3>1, <3>2, QuietServes DEF UploadsAdd, ServedStartupInv
  <2>14. CASE UNCHANGED vars
    <3>1. UNCHANGED <<hosts, host_container, websocks, mainPc, toLaunch, monitorPc,
                      previous_hosts, uploaded>>
      BY <2>14 DEF vars, mainVars, monitorVars
    <3>2. \A b \in Accounts : Expected(b)' = Expected(b)
      BY <3>1 DEF Expected
    <3>3. QED
      BY <2>a, <3>1, <3>2, QuietServes DEF UploadsAdd, ServedStartupInv
  <2>15. QED
    BY <2>1, <2>2, <2>3, <2>4, <2>5, <2>6, <2>7, <2>8, <2>9, <2>10, <2>11, <2>12,
       <2>13, <2>14 DEF Next, Main, Monitor, Upload
<1>3. KeptInv => RowsServed /\ ChangesFindStreams
  BY DEF KeptInv, ServedInv, RowsServed, Expected, BothRead, Rows
<1>4. QED
  BY <1>1, <1>2, <1>3, TypeInvariant, PTL DEF Spec

-----------------------------------------------------------------------------
(***************************************************************************)
(* The refinement of RowMirror.                                            *)
(***************************************************************************)

\* The group find_if leads to, when no account has two streams.
LEMMA GroupOfFacts ==
    ASSUME NEW w \in Seq(Stream), NEW a \in Accounts
    PROVE  /\ (\A k \in DOMAIN w : w[k].acct # a) => GroupOf(w, a) = NoRow
           /\ \A k \in DOMAIN w :
                  w[k].acct = a /\ (\A j \in DOMAIN w : w[j].acct = a => j = k)
                      => GroupOf(w, a) = w[k].group
<1> DEFINE I == {i \in 1..Len(w) : w[i].acct = a}
           found == IF I # {} THEN Min(I) ELSE 0
<1>1. GroupOf(w, a) = IF found = 0 THEN NoRow ELSE w[found].group
  BY DEF GroupOf, SelectInSeq
<1>2. DOMAIN w = 1..Len(w) /\ Len(w) \in Nat
  OBVIOUS
<1>3. ASSUME \A k \in DOMAIN w : w[k].acct # a PROVE found = 0
  BY <1>2, <1>3
<1>4. ASSUME NEW k \in DOMAIN w, w[k].acct = a,
             \A j \in DOMAIN w : w[j].acct = a => j = k
      PROVE  found = k /\ k # 0
  <2>1. I \in SUBSET Nat /\ I # {}
    BY <1>2, <1>4
  <2>2. Min(I) \in I
    BY <2>1, MinOfNaturals
  <2>3. QED
    BY <1>2, <1>4, <2>1, <2>2
<1> HIDE DEF found
<1>5. QED
  BY <1>1, <1>3, <1>4

\* The group under which a vector listens to an account is the one of the copy.
LEMMA ListeningGroup ==
    ASSUME NEW w \in Seq(Stream), NEW a \in Accounts, NEW g \in Groups \cup {NoRow},
           \A j, k \in DOMAIN w : w[j].acct = w[k].acct => j = k,
           IF g = NoRow THEN \A k \in DOMAIN w : w[k].acct # a
                        ELSE \E k \in DOMAIN w : w[k] = [acct |-> a, group |-> g]
    PROVE  GroupOf(w, a) = g
<1>1. CASE g = NoRow
  BY <1>1, GroupOfFacts
<1>2. CASE g # NoRow
  <2>1. PICK k \in DOMAIN w : w[k] = [acct |-> a, group |-> g]
    BY <1>2
  <2>2. w[k].acct = a /\ w[k].group = g
    BY <2>1
  <2>3. QED
    BY <2>2, GroupOfFacts
<1>3. QED
  BY <1>1, <1>2

\* Of a vector without a second stream of an account, the copy says what the
\* launcher listens to.
LEMMA CopyFacts ==
    ASSUME TypeOK, OneStreamPerAccount, NEW a \in Accounts
    PROVE  /\ \A g \in Groups \cup {NoRow} : Listening(a, g) => GroupOf(websocks, a) = g
           /\ Listening(a, GroupOf(websocks, a))
           /\ GroupOf(websocks, a) \in Groups \cup {NoRow}
<1>1. websocks \in Seq(Stream) /\ \A k \in DOMAIN websocks : websocks[k] \in Stream
  BY DEF TypeOK
<1>2. ASSUME NEW g \in Groups \cup {NoRow}, Listening(a, g) PROVE GroupOf(websocks, a) = g
  BY <1>1, <1>2, ListeningGroup DEF Listening, OneStreamPerAccount
<1>3. \E g \in Groups \cup {NoRow} : Listening(a, g)
  <2>1. CASE \A k \in DOMAIN websocks : websocks[k].acct # a
    BY <2>1 DEF Listening
  <2>2. ASSUME NEW k \in DOMAIN websocks, websocks[k].acct = a
        PROVE  \E g \in Groups \cup {NoRow} : Listening(a, g)
    <3>1. websocks[k] = [acct |-> a, group |-> websocks[k].group]
          /\ websocks[k].group \in Groups
      BY <1>1, <2>2 DEF Stream
    <3>2. Listening(a, websocks[k].group)
      BY <3>1, HostSyncAssumption DEF Listening
    <3>3. QED
      BY <3>1, <3>2
  <2>3. QED
    BY <2>1, <2>2
<1>4. QED
  BY <1>2, <1>3

\* The copy is decided by what the new vector listens to.
LEMMA NewCopy ==
    ASSUME TypeOK', OneStreamPerAccount', NEW a \in Accounts, NEW g \in Groups \cup {NoRow},
           Listening(a, g)'
    PROVE  GroupOf(websocks', a) = g
<1>1. websocks' \in Seq(Stream)
  BY DEF TypeOK
<1>2. QED
  BY <1>1, ListeningGroup DEF Listening, OneStreamPerAccount

\* The queue as the abstract specification sees it: queuing a change adds it at
\* the end, and taking the first one takes it from the front.
LEMMA PendingAppended ==
    ASSUME TypeOK, NEW host \in Change, host_container' = Append(host_container, host)
    PROVE  Pending' = Append(Pending, [acct |-> host.acct, group |-> Outcome(host)])
<1> DEFINE Entry == [acct : Accounts, group : Groups \cup {NoRow}]
<1>1. /\ host_container \in Seq(Change) /\ Len(host_container) \in Nat
      /\ DOMAIN host_container = 1..Len(host_container)
      /\ \A i \in 1..Len(host_container) : host_container[i] \in Change
  BY DEF TypeOK
<1>2. \A c \in Change : [acct |-> c.acct, group |-> Outcome(c)] \in Entry
  BY DEF Change, Outcome
<1>3. /\ Pending \in Seq(Entry) /\ Len(Pending) = Len(host_container)
      /\ \A i \in 1..Len(host_container) :
             Pending[i] = [acct |-> host_container[i].acct, group |-> Outcome(host_container[i])]
  BY <1>1, <1>2 DEF Pending
<1> DEFINE entry == [acct |-> host.acct, group |-> Outcome(host)]
<1>4. /\ DOMAIN host_container' = 1..(Len(host_container) + 1)
      /\ \A i \in 1..Len(host_container) : host_container'[i] = host_container[i]
      /\ host_container'[Len(host_container) + 1] = host
  BY <1>1, AppendProperties
<1>5. Pending' = [i \in 1..(Len(host_container) + 1) |->
                     [acct  |-> host_container'[i].acct,
                      group |-> Outcome(host_container'[i])]]
  BY <1>4 DEF Pending, Outcome
<1>6. entry \in Entry
  BY <1>2
<1> HIDE DEF entry
<1>7. /\ DOMAIN Append(Pending, entry) = 1..(Len(host_container) + 1)
      /\ \A i \in 1..Len(host_container) : Append(Pending, entry)[i] = Pending[i]
      /\ Append(Pending, entry)[Len(host_container) + 1] = entry
      /\ Append(Pending, entry) \in Seq(Entry)
  BY <1>1, <1>3, <1>6, AppendProperties
<1>8. \A i \in 1..(Len(host_container) + 1) : Pending'[i] = Append(Pending, entry)[i]
  <2>1. \A i \in 1..Len(host_container) : Pending'[i] = Append(Pending, entry)[i]
    BY <1>1, <1>3, <1>4, <1>5, <1>7
  <2>2. Pending'[Len(host_container) + 1] = entry
    BY <1>1, <1>4, <1>5 DEF entry
  <2>3. QED
    BY <1>1, <1>7, <2>1, <2>2
<1>9. Append(Pending, entry) = [i \in 1..(Len(host_container) + 1) |-> Append(Pending, entry)[i]]
  <2>1. Append(Pending, entry) \in [1..(Len(host_container) + 1) -> Entry]
    BY <1>7, LenProperties
  <2>2. QED
    BY <2>1
<1>10. Pending' = Append(Pending, entry)
  BY <1>5, <1>8, <1>9
<1>11. QED
  BY <1>10 DEF entry

\* The tail of a sequence, as a function.
LEMMA TailIsShift ==
    ASSUME NEW S, NEW s \in Seq(S), s # <<>>
    PROVE  Tail(s) = [i \in 1..(Len(s) - 1) |-> s[i + 1]]
<1>1. Tail(s) \in Seq(S) /\ Len(Tail(s)) = Len(s) - 1
      /\ \A i \in 1..(Len(s) - 1) : Tail(s)[i] = s[i + 1]
  BY HeadTailProperties
<1>2. PICK t : t = Tail(s)
  OBVIOUS
<1>3. t \in [1..(Len(s) - 1) -> S]
  BY <1>1, <1>2, LenProperties
<1>4. t = [i \in 1..(Len(s) - 1) |-> t[i]]
  BY <1>3, Zenon
<1>5. \A i \in 1..(Len(s) - 1) : t[i] = s[i + 1]
  BY <1>1, <1>2
<1>6. t = [i \in 1..(Len(s) - 1) |-> s[i + 1]]
  BY <1>4, <1>5, Zenon
<1>7. QED
  BY <1>2, <1>6

\* A change taken from the queue is taken from the changes noticed.
LEMMA PendingTaken ==
    ASSUME TypeOK, host_container # <<>>, host_container' = Tail(host_container)
    PROVE  /\ Pending # <<>> /\ Pending' = Tail(Pending)
           /\ Head(Pending) = [acct  |-> Head(host_container).acct,
                               group |-> Outcome(Head(host_container))]
<1> DEFINE Entry == [acct : Accounts, group : Groups \cup {NoRow}]
<1>1. /\ host_container \in Seq(Change) /\ Len(host_container) \in Nat
      /\ DOMAIN host_container = 1..Len(host_container)
      /\ \A i \in 1..Len(host_container) : host_container[i] \in Change
  BY DEF TypeOK
<1>2. \A c \in Change : [acct |-> c.acct, group |-> Outcome(c)] \in Entry
  BY DEF Change, Outcome
<1>3. /\ Pending \in Seq(Entry) /\ Len(Pending) = Len(host_container)
      /\ \A i \in 1..Len(host_container) :
             Pending[i] = [acct |-> host_container[i].acct, group |-> Outcome(host_container[i])]
  BY <1>1, <1>2 DEF Pending
<1>4. /\ Len(host_container) > 0 /\ Head(host_container) = host_container[1]
      /\ DOMAIN host_container' = 1..(Len(host_container) - 1)
      /\ \A i \in 1..(Len(host_container) - 1) : host_container'[i] = host_container[i + 1]
  BY <1>1, HeadTailProperties, LenProperties, EmptySeq
<1>5. Pending' = [i \in 1..(Len(host_container) - 1) |->
                     [acct  |-> host_container'[i].acct,
                      group |-> Outcome(host_container'[i])]]
  BY <1>4 DEF Pending, Outcome
<1>6. Pending # <<>> /\ Head(Pending) = Pending[1]
  BY <1>3, <1>4
<1>7. Tail(Pending) = [i \in 1..(Len(host_container) - 1) |-> Pending[i + 1]]
  <2>1. Pending \in Seq(Entry) /\ Pending # <<>> /\ Len(Pending) = Len(host_container)
    BY <1>3, <1>6
  <2> HIDE DEF Entry
  <2>2. Tail(Pending) = [i \in 1..(Len(Pending) - 1) |-> Pending[i + 1]]
    BY <2>1, TailIsShift
  <2>3. QED
    BY <2>1, <2>2, Zenon
<1>8. \A i \in 1..(Len(host_container) - 1) :
          i + 1 \in 1..Len(host_container) /\ Pending'[i] = Pending[i + 1]
  BY <1>1, <1>3, <1>4, <1>5
<1>9. Pending' = Tail(Pending)
  BY <1>5, <1>7, <1>8
<1>10. Head(Pending) = [acct  |-> Head(host_container).acct,
                        group |-> Outcome(Head(host_container))]
  <2>1. Head(Pending) = Pending[1] /\ Head(host_container) = host_container[1]
    BY <1>4, <1>6
  <2>2. 1 \in 1..Len(host_container)
    BY <1>1, <1>4
  <2>3. QED
    BY <1>3, <2>1, <2>2, Zenon
<1>11. QED
  BY <1>6, <1>9, <1>10

\* The copy after a step is what the new vector listens to.
LEMMA CopyBecomes ==
    ASSUME TypeOK', OneStreamPerAccount', NEW f \in RowSet,
           \A a \in Accounts : Listening(a, f[a])'
    PROVE  Copy' = f
<1>1. \A a \in Accounts : GroupOf(websocks', a) = f[a]
  BY NewCopy DEF RowSet
<1>2. f = [a \in Accounts |-> f[a]]
  BY DEF RowSet
<1>3. QED
  BY <1>1, <1>2 DEF Copy

-----------------------------------------------------------------------------
\* The steps of the abstract specification, in terms of the mapping.
LEMMA MirrorTakeOver ==
    ASSUME NEW a \in Accounts, a \in Waiting, Waiting' = Waiting \ {a},
           Copy' = [Copy EXCEPT ![a] = MirrorRows[a]],
           MirrorRows' = MirrorRows, Pending' = Pending
    PROVE  Mirror!Next
BY DEF Mirror!Next, Mirror!TakeOver, Copy, Waiting, Pending

LEMMA MirrorNotice ==
    ASSUME NEW a \in Accounts, NEW g \in Groups \cup {NoRow},
           Waiting = {}, Waiting' = {}, MirrorRows[a] # g,
           MirrorRows' = [MirrorRows EXCEPT ![a] = g], Copy' = Copy,
           Pending' = Append(Pending, [acct |-> a, group |-> g])
    PROVE  Mirror!Next
BY DEF Mirror!Next, Mirror!Notice, Copy, Waiting, Pending

LEMMA MirrorApply ==
    ASSUME Pending # <<>>, Pending' = Tail(Pending),
           Copy' = [Copy EXCEPT ![Head(Pending).acct] = Head(Pending).group],
           MirrorRows' = MirrorRows, Waiting' = Waiting
    PROVE  Mirror!Next
BY DEF Mirror!Next, Mirror!Apply, Copy, Waiting, Pending

LEMMA MirrorStutters ==
    ASSUME MirrorRows' = MirrorRows, Copy' = Copy, Waiting' = Waiting, Pending' = Pending
    PROVE  UNCHANGED Mirror!vars
BY DEF Mirror!vars, Copy, Waiting, Pending

\* A vector and a queue that a step leaves alone mean the same copy and changes.
LEMMA SameCopy ==
    /\ websocks' = websocks => Copy' = Copy
    /\ host_container' = host_container => Pending' = Pending
<1>1. websocks' = websocks => Copy' = Copy
  BY DEF Copy
<1>2. host_container' = host_container => Pending' = Pending
  BY DEF Pending, Outcome
<1>3. QED
  BY <1>1, <1>2

LEMMA MainMirrors ==
    ASSUME TypeInv, SyncInv, TypeOK', SyncInv', CleanStart = TRUE, Main
    PROVE  [Mirror!Next]_(Mirror!vars)
<1> USE DEF TypeInv, SyncInv
<1>1. CASE LaunchPreviousHosts
  <2>1. /\ mainPc = "start" /\ mainPc' = "launching" /\ toLaunch' = hosts
        /\ UNCHANGED <<hosts, host_container, websocks, monitorPc, previous_hosts>>
    BY <1>1 DEF LaunchPreviousHosts, StartupRead, monitorVars
  <2>2. MirrorRows' = MirrorRows /\ MirrorRows = hosts
    BY <2>1 DEF MirrorRows, StartupInv
  <2>3. Waiting' = Waiting
    BY <2>1, <2>2 DEF Waiting, Rows
  <2>4. QED
    BY <2>1, <2>2, <2>3, SameCopy, MirrorStutters
<1>2. ASSUME NEW a \in Accounts, LaunchHost(a) PROVE Mirror!Next
  <2>1. /\ mainPc = "launching" /\ mainPc' = "launching"
        /\ toLaunch' = [toLaunch EXCEPT ![a] = NoRow]
        /\ toLaunch[a] # NoRow
        /\ UNCHANGED <<hosts, host_container, monitorPc, previous_hosts>>
    BY <1>2 DEF LaunchHost, monitorVars
  <2>2. /\ MirrorRows' = MirrorRows
        /\ \A b \in Accounts : /\ Expected(b) = MirrorRows[b]
                               /\ Expected(b)' = MirrorRows[b]
    BY <2>1 DEF MirrorRows, Expected
  <2>3. toLaunch \in RowSet /\ MirrorRows \in RowSet
    BY DEF TypeOK, MirrorRows
  <2>4. a \in Waiting /\ Waiting' = Waiting \ {a}
    BY <2>1, <2>3 DEF Waiting, Rows, RowSet
  <2>5. \A b \in Accounts :
            GroupOf(websocks, b) = IF toLaunch[b] = NoRow THEN MirrorRows[b] ELSE NoRow
    <3>1. SUFFICES ASSUME NEW b \in Accounts
                   PROVE  GroupOf(websocks, b) =
                              IF toLaunch[b] = NoRow THEN MirrorRows[b] ELSE NoRow
      OBVIOUS
    <3>2. IF toLaunch[b] = NoRow THEN Listening(b, MirrorRows[b]) ELSE Listening(b, NoRow)
      BY <2>1, <2>2 DEF StartupInv
    <3>3. QED
      BY <2>3, <3>2, CopyFacts DEF RowSet
  <2> DEFINE after == [b \in Accounts |-> IF toLaunch'[b] = NoRow THEN MirrorRows[b] ELSE NoRow]
  <2>6. after \in RowSet
    BY <2>3 DEF RowSet
  <2>7. PICK f : f = after
    OBVIOUS
  <2>8. ASSUME NEW b \in Accounts PROVE Listening(b, f[b])'
    <3>1. IF toLaunch'[b] = NoRow THEN Listening(b, Expected(b))' ELSE Listening(b, NoRow)'
      BY <2>1 DEF StartupInv
    <3>2. f[b] = IF toLaunch'[b] = NoRow THEN Expected(b)' ELSE NoRow
      BY <2>2, <2>7
    <3>3. QED
      BY <3>1, <3>2 DEF Listening
  <2>9. Copy' = f
    BY <2>6, <2>7, <2>8, CopyBecomes
  <2>10. f = [Copy EXCEPT ![a] = MirrorRows[a]]
    BY <2>1, <2>3, <2>5, <2>7 DEF Copy, RowSet
  <2>11. Pending' = Pending
    BY <2>1, SameCopy
  <2>12. QED
    BY <2>2, <2>4, <2>9, <2>10, <2>11, MirrorTakeOver
<1>3. CASE RunIoContext
  <2>1. /\ mainPc = "launching" /\ mainPc' = "running" /\ toLaunch = NoRows
        /\ UNCHANGED <<hosts, host_container, websocks, monitorPc, previous_hosts>>
    BY <1>3 DEF RunIoContext, monitorVars
  <2>2. Waiting' = Waiting /\ MirrorRows' = MirrorRows
    BY <2>1 DEF Waiting, MirrorRows, Rows, NoRows
  <2>3. QED
    BY <2>1, <2>2, SameCopy, MirrorStutters
<1>4. QED
  BY <1>1, <1>2, <1>3 DEF Main

\* The monitor notices a change, or only goes on.
LEMMA MonitorMirrors ==
    ASSUME TypeInv, SyncInv, TypeOK', SyncInv', CleanStart = TRUE, Monitor
    PROVE  [Mirror!Next]_(Mirror!vars)
<1> USE DEF TypeInv, SyncInv
<1>1. CASE MonitorStart
  <2>1. /\ previous_hosts' = hosts /\ monitorPc = "start" /\ monitorPc' = "asleep"
        /\ UNCHANGED <<hosts, host_container, websocks, mainPc, toLaunch>>
    BY <1>1 DEF MonitorStart, StartupRead, mainVars
  <2>2. MirrorRows' = MirrorRows
    BY <2>1 DEF MirrorRows
  <2>3. Waiting' = Waiting
    BY <2>1, <2>2 DEF Waiting, Rows
  <2>4. QED
    BY <2>1, <2>2, <2>3, SameCopy, MirrorStutters
<1>2. ASSUME mainPc = "running", monitorPc # "start", monitorPc' # "start",
             UNCHANGED <<hosts, websocks, mainPc, toLaunch>>
      PROVE  /\ Waiting = {} /\ Waiting' = {} /\ Copy' = Copy
             /\ MirrorRows = previous_hosts /\ MirrorRows' = previous_hosts'
  BY <1>2, SameCopy DEF Waiting, MirrorRows
<1>3. ASSUME mainPc = "running", monitorPc # "start", monitorPc' # "start",
             UNCHANGED <<hosts, host_container, websocks, mainPc, toLaunch, previous_hosts>>
      PROVE  UNCHANGED Mirror!vars
  BY <1>2, <1>3, SameCopy, MirrorStutters
<1>4. ASSUME mainPc = "running", monitorPc # "start", monitorPc' # "start",
             UNCHANGED <<hosts, websocks, mainPc, toLaunch>>,
             NEW host \in Change, previous_hosts[host.acct] # Outcome(host),
             host_container' = Append(host_container, host),
             previous_hosts' = [previous_hosts EXCEPT ![host.acct] = Outcome(host)]
      PROVE  Mirror!Next
  <2>1. host.acct \in Accounts /\ Outcome(host) \in Groups \cup {NoRow}
    BY DEF Change, Outcome
  <2>2. Pending' = Append(Pending, [acct |-> host.acct, group |-> Outcome(host)])
    BY <1>4, PendingAppended
  <2>3. /\ Waiting = {} /\ Waiting' = {} /\ Copy' = Copy
        /\ MirrorRows = previous_hosts /\ MirrorRows' = previous_hosts'
    BY <1>2, <1>4
  <2>4. QED
    BY <1>4, <2>1, <2>2, <2>3, MirrorNotice
<1>5. CASE MonitorPoll \/ MonitorSecondLoop \/ MonitorSleep
  <2>1. /\ mainPc = "running" /\ monitorPc # "start" /\ monitorPc' # "start"
        /\ UNCHANGED <<hosts, host_container, websocks, mainPc, toLaunch, previous_hosts>>
    BY <1>5 DEF MonitorPoll, MonitorSecondLoop, MonitorSleep, mainVars, StartupInv
  <2>2. QED
    BY <1>3, <2>1
<1>6. ASSUME NEW a \in Accounts, MonitorVisitNew(a) PROVE [Mirror!Next]_(Mirror!vars)
  <2>1. /\ mainPc = "running" /\ monitorPc = "adding" /\ monitorPc' = "adding"
        /\ previous_hosts' = [previous_hosts EXCEPT ![a] = new_hosts[a]]
        /\ UNCHANGED <<hosts, websocks, mainPc, toLaunch>>
    BY <1>6 DEF MonitorVisitNew, StartupInv, mainVars
  <2>2. new_hosts[a] \in Groups /\ new_hosts[a] # NoRow
    BY <1>6, HostSyncAssumption DEF MonitorVisitNew, LoopInv, Rows, TypeOK, RowSet
  <2>3. ASSUME NEW c \in {"no_changes", "tg_group_changed"},
               host_container' = Append(host_container, HostInfo(a, new_hosts[a], c)),
               previous_hosts[a] # new_hosts[a]
        PROVE  Mirror!Next
    <3> DEFINE host == HostInfo(a, new_hosts[a], c)
    <3>1. host \in Change /\ host.acct = a /\ Outcome(host) = new_hosts[a]
      BY <2>2 DEF HostInfo, Change, Outcome
    <3> HIDE DEF host
    <3>2. host_container' = Append(host_container, host)
      BY <2>3 DEF host
    <3>3. QED
      BY <1>4, <2>1, <2>3, <3>1, <3>2
  <2>4. CASE previous_hosts[a] = new_hosts[a] /\ UNCHANGED host_container
    <3>1. previous_hosts' = previous_hosts
      BY <2>1, <2>4 DEF TypeOK, RowSet
    <3>2. QED
      BY <1>3, <2>1, <2>4, <3>1
  <2>5. \/ /\ previous_hosts[a] # new_hosts[a]
           /\ host_container' = Append(host_container, HostInfo(a, new_hosts[a], "no_changes"))
        \/ /\ previous_hosts[a] # new_hosts[a]
           /\ host_container' = Append(host_container, HostInfo(a, new_hosts[a], "tg_group_changed"))
        \/ previous_hosts[a] = new_hosts[a] /\ UNCHANGED host_container
    BY <1>6, <2>2, Zenon DEF MonitorVisitNew
  <2>6. QED
    BY <2>3, <2>4, <2>5
<1>7. ASSUME NEW a \in Accounts, MonitorVisitOld(a) PROVE [Mirror!Next]_(Mirror!vars)
  <2>1. /\ mainPc = "running" /\ monitorPc = "removing" /\ monitorPc' = "removing"
        /\ a \in todo /\ UNCHANGED <<hosts, websocks, mainPc, toLaunch>>
    BY <1>7 DEF MonitorVisitOld, StartupInv, mainVars
  <2>2. previous_hosts[a] \in Groups /\ previous_hosts[a] # NoRow
    BY <2>1, HostSyncAssumption DEF LoopInv, Rows, TypeOK, RowSet
  <2>3. CASE /\ host_container' = Append(host_container,
                                         HostInfo(a, previous_hosts[a], "host_removed"))
             /\ previous_hosts' = [previous_hosts EXCEPT ![a] = NoRow]
    <3> DEFINE host == HostInfo(a, previous_hosts[a], "host_removed")
    <3>1. host \in Change /\ host.acct = a /\ Outcome(host) = NoRow
      BY <2>2 DEF HostInfo, Change, Outcome
    <3> HIDE DEF host
    <3>2. host_container' = Append(host_container, host)
      BY <2>3 DEF host
    <3>3. QED
      BY <1>4, <2>1, <2>2, <2>3, <3>1, <3>2
  <2>4. CASE UNCHANGED <<host_container, previous_hosts>>
    BY <1>3, <2>1, <2>4
  <2>5. QED
    BY <1>7, <2>3, <2>4, Zenon DEF MonitorVisitOld
<1>8. QED
  BY <1>1, <1>5, <1>6, <1>7 DEF Monitor

\* process_host_changes applies the first change to the copy.
LEMMA LauncherMirrors ==
    ASSUME TypeInv, SyncInv, TypeOK', SyncInv', Launcher
    PROVE  Mirror!Next
<1> USE DEF TypeInv, SyncInv
<1> DEFINE host == Head(host_container)
<1>1. /\ host_container # <<>> /\ host_container' = Tail(host_container)
      /\ UNCHANGED <<hosts, mainPc, toLaunch, monitorPc, previous_hosts>>
  BY DEF Launcher, mainVars, monitorVars
<1>2. host \in Change /\ host.acct \in Accounts /\ Outcome(host) \in Groups \cup {NoRow}
  BY LauncherFacts DEF Change, Outcome
<1>3. /\ Pending # <<>> /\ Pending' = Tail(Pending)
      /\ Head(Pending) = [acct |-> host.acct, group |-> Outcome(host)]
  BY <1>1, PendingTaken
<1>4. \A a \in Accounts, g \in Groups \cup {NoRow} :
          /\ a = host.acct /\ g = Outcome(host) => Listening(a, g)'
          /\ a # host.acct /\ Listening(a, g) => Listening(a, g)'
  BY LauncherApplies
<1> HIDE DEF host
<1>5. Copy \in RowSet
  BY CopyFacts DEF Copy, RowSet
<1>6. PICK f : f = [Copy EXCEPT ![host.acct] = Outcome(host)]
  OBVIOUS
<1>7. f \in RowSet
  BY <1>2, <1>5, <1>6 DEF RowSet
<1>8. ASSUME NEW a \in Accounts PROVE Listening(a, f[a])'
  <2>1. CASE a = host.acct
    BY <1>2, <1>4, <1>5, <1>6, <2>1 DEF RowSet
  <2>2. CASE a # host.acct
    <3>1. f[a] = GroupOf(websocks, a)
      BY <1>5, <1>6, <2>2 DEF Copy, RowSet
    <3>2. Listening(a, f[a]) /\ f[a] \in Groups \cup {NoRow}
      BY <3>1, CopyFacts
    <3>3. QED
      BY <1>4, <2>2, <3>2
  <2>3. QED
    BY <2>1, <2>2
<1>9. Copy' = f
  BY <1>7, <1>8, CopyBecomes
<1>10. MirrorRows' = MirrorRows /\ Waiting' = Waiting
  BY <1>1 DEF MirrorRows, Waiting, Rows
<1>11. Head(Pending).acct = host.acct /\ Head(Pending).group = Outcome(host)
  BY <1>3
<1>12. Copy' = [Copy EXCEPT ![Head(Pending).acct] = Head(Pending).group]
  BY <1>6, <1>9, <1>11, Zenon
<1>13. QED
  BY <1>3, <1>10, <1>12, MirrorApply, Zenon

\* Steps from outside: the table is edited unseen, or everything starts afresh.
LEMMA OutsideMirrors ==
    ASSUME TypeInv, SyncInv, TypeOK', SyncInv', CleanStart = TRUE,
           Restart \/ \E a \in Accounts, g \in Groups \cup {NoRow} : EditTable(a, g)
    PROVE  [Mirror!Next]_(Mirror!vars)
<1> USE DEF TypeInv, SyncInv
<1>1. CASE Restart
  <2>1. /\ hosts' = hosts /\ hosts' \in RowSet /\ websocks' = <<>> /\ host_container' = <<>>
        /\ mainPc' = "start" /\ monitorPc' = "start"
    BY <1>1 DEF Restart, TypeOK
  <2>2. MirrorRows' = hosts' /\ Waiting' = {a \in Accounts : hosts'[a] # NoRow}
    BY <2>1 DEF MirrorRows, Waiting, Rows
  <2>3. Copy' = [a \in Accounts |-> NoRow]
    <3>1. NoRows \in RowSet
      BY DEF NoRows, RowSet
    <3>2. \A a \in Accounts : Listening(a, NoRows[a])'
      BY <2>1 DEF Listening, NoRows
    <3>3. QED
      BY <3>1, <3>2, CopyBecomes DEF NoRows
  <2>4. Pending' = <<>>
    BY <2>1 DEF Pending, Outcome
  <2>5. Mirror!Restart
    BY <2>1, <2>2, <2>3, <2>4
    DEF Mirror!Restart, Mirror!Fresh, Mirror!RowSet, RowSet, Copy, Waiting, Pending
  <2>6. QED
    BY <2>5 DEF Mirror!Next
<1>2. ASSUME NEW a \in Accounts, NEW g \in Groups \cup {NoRow}, EditTable(a, g)
      PROVE  UNCHANGED Mirror!vars
  <2>1. /\ mainPc # "start" /\ monitorPc # "start"
        /\ UNCHANGED <<host_container, websocks, mainPc, toLaunch, monitorPc, previous_hosts>>
    BY <1>2 DEF EditTable, TableOpen, BothRead, mainVars, monitorVars
  <2>2. MirrorRows' = MirrorRows
    BY <2>1 DEF MirrorRows
  <2>3. Waiting' = Waiting
    BY <2>1 DEF Waiting, Rows, TypeOK
  <2>4. QED
    BY <2>1, <2>2, <2>3, SameCopy, MirrorStutters
<1>3. QED
  BY <1>1, <1>2

\* Without uploads and with start-up reads that see one table, the streams are a
\* copy of the rows that lags behind: main takes the rows over, and every change
\* the monitor notices is applied once, in the order it was noticed.
THEOREM MirrorsTheRows ==
    ASSUME Sessions = {}, CleanStart = TRUE
    PROVE  Spec => ImplementsMirror
<1>1. Init => Mirror!Init
  <2> SUFFICES ASSUME Init PROVE Mirror!Init
    OBVIOUS
  <2>1. /\ hosts \in RowSet /\ websocks = <<>> /\ host_container = <<>>
        /\ mainPc = "start" /\ monitorPc = "start"
    BY DEF Init
  <2>2. MirrorRows = hosts /\ Waiting = {a \in Accounts : hosts[a] # NoRow}
    BY <2>1 DEF MirrorRows, Waiting, Rows
  <2>3. Copy = [a \in Accounts |-> NoRow]
    <3>1. websocks \in Seq(Stream) /\ DOMAIN websocks = {}
      BY <2>1
    <3>2. \A a \in Accounts : GroupOf(websocks, a) = NoRow
      BY <3>1, GroupOfFacts
    <3>3. QED
      BY <3>2 DEF Copy
  <2>4. Pending = <<>>
    BY <2>1 DEF Pending
  <2>5. QED
    BY <2>1, <2>2, <2>3, <2>4
    DEF Mirror!Init, Mirror!Fresh, Mirror!RowSet, RowSet, Copy, Waiting, Pending
<1>2. TypeInv /\ SyncInv /\ TypeInv' /\ SyncInv' /\ [Next]_vars => [Mirror!Next]_(Mirror!vars)
  <2> SUFFICES ASSUME TypeInv, SyncInv, TypeInv', SyncInv', [Next]_vars
               PROVE  [Mirror!Next]_(Mirror!vars)
    OBVIOUS
  <2>1. TypeOK'
    BY DEF TypeInv
  <2>2. CASE Next
    <3>1. ~ Upload
      BY DEF Upload
    <3>2. QED
      BY <2>1, <2>2, <3>1, MainMirrors, MonitorMirrors, LauncherMirrors, OutsideMirrors
      DEF Next
  <2>3. CASE UNCHANGED vars
    <3>1. UNCHANGED <<hosts, host_container, websocks, mainPc, toLaunch, monitorPc,
                      previous_hosts>>
      BY <2>3 DEF vars, mainVars, monitorVars
    <3>2. MirrorRows' = MirrorRows
      BY <3>1 DEF MirrorRows
    <3>3. Waiting' = Waiting
      BY <3>1, <3>2 DEF Waiting, Rows
    <3>4. QED
      BY <3>1, <3>2, <3>3, SameCopy, MirrorStutters
  <2>4. QED
    BY <2>2, <2>3
<1>3. Spec => []SyncInv
  BY FollowingInv
<1>4. QED
  BY <1>1, <1>2, <1>3, TypeInvariant, PTL DEF Spec, Mirror!Spec, ImplementsMirror

-----------------------------------------------------------------------------
\* Every variable of HostSync keeps its type, whatever the constants.
THEOREM Typing == Spec => []TypeOK
<1>1. TypeInv => TypeOK
  BY DEF TypeInv
<1> QED BY <1>1, TypeInvariant, PTL

\* Every change process_host_changes takes from the queue finds the vector of
\* streams as the monitor thought it would, so that its find_if drops none.
THEOREM EveryChangeApplies ==
    ASSUME Sessions = {}, CleanStart = TRUE
    PROVE  Spec => []ChangesApply
BY Following, PTL

\* Whatever reads fail, the vector of streams is behind the rows the monitor
\* remembers by exactly the changes in the queue.
THEOREM LauncherIsBehindByTheQueue ==
    ASSUME Sessions = {}, CleanStart = TRUE
    PROVE  Spec => []LauncherFollowsMonitor
BY Following, PTL

\* Uploads or not: a removal or a change of group that the launcher takes from the
\* queue finds a stream of its account (background_threads.cpp 43-47).
THEOREM NoChangeIsDropped ==
    ASSUME CleanStart = TRUE
    PROVE  Spec => []ChangesFindStreams
BY RowsKeepTheirStreams, PTL
=============================================================================
