----------------------------- MODULE QipcProofs -----------------------------
(***************************************************************************)
(* Theorems about the server of Qipc, for every value of its constants.    *)
(***************************************************************************)
EXTENDS Qipc, QipcLemmas

-----------------------------------------------------------------------------
(* The loops.  Whatever set of states a turn of a loop stays in, the loop  *)
(* stays in.                                                               *)

\* The loop of do_send_mg_q over the receivers of the new message.
LEMMA WakeReceiversStays ==
    ASSUME NEW S, NEW list, NEW seq, NEW n \in Nat, Len(seq) = n,
           [list |-> list, woken |-> {}] \in S,
           \A acc \in S, i \in 1 .. n : WakeReceiver(acc, seq[i]) \in S
    PROVE  WakeReceivers(list, seq) \in S
<1> DEFINE base    == [list |-> list, woken |-> {}]
           step(f) == [i \in 0 .. n |->
                          IF i = 0 THEN base ELSE WakeReceiver(f[i - 1], seq[i])]
           g       == [i \in 1 .. n |-> [acc \in S |-> WakeReceiver(acc, seq[i])]]
           acc     == CHOOSE f : f = step(f)
<1>1. base \in S
  OBVIOUS
<1>2. g \in [1 .. n -> [S -> S]]
  OBVIOUS
<1>3. \A i \in 1 .. n, x \in S : g[i][x] = WakeReceiver(x, seq[i])
  OBVIOUS
<1> HIDE DEF base, g
<1>4. PICK f : IsRun(f, S, n, base, g)
  BY <1>1, <1>2, RunExists
<1>5. f = step(f)
  <2>1. f \in [0 .. n -> S] /\ f[0] = base
    BY <1>4 DEF IsRun
  <2>2. ASSUME NEW i \in 0 .. n, i # 0
        PROVE  f[i] = WakeReceiver(f[i - 1], seq[i])
    <3>1. i \in 1 .. n /\ i - 1 \in 0 .. n
      BY <2>2, SMT
    <3>2. f[i - 1] \in S
      BY <2>1, <3>1
    <3> QED
      BY <1>3, <1>4, <3>1, <3>2 DEF IsRun
  <2> QED
    BY <2>1, <2>2
<1>6. acc = step(acc)
  <2> HIDE DEF step
  <2> QED
    BY <1>5
<1>7. WakeReceivers(list, seq) = acc[n]
  BY DEF WakeReceivers, ForEach, base
<1> HIDE DEF acc
<1>8. acc[0] = base
  BY <1>6
<1>9. ASSUME NEW i \in 1 .. n, acc[i - 1] \in S
      PROVE  acc[i] = g[i][acc[i - 1]]
  <2>1. i \in 0 .. n /\ i # 0
    OBVIOUS
  <2>2. acc[i] = WakeReceiver(acc[i - 1], seq[i])
    BY <1>6, <2>1
  <2> QED
    BY <1>3, <1>9, <2>2
<1> HIDE DEF step
<1>10. acc[n] \in S
  BY <1>1, <1>2, <1>8, <1>9, LoopStays
<1> QED
  BY <1>7, <1>10

-----------------------------------------------------------------------------
(* The table of blocked senders.                                           *)

SendersInv ==
    /\ blocking_sender \in Seq(Sender)
    /\ alive \subseteq Pids
    /\ SendWaitsForward

\* What one handler may do to the table.
TableStep ==
    \/ UNCHANGED blocking_sender
    \/ \E p \in Pids, sNo \in Ids, rs \in RecvLists :
          /\ ~BlockingSendRefused(sNo, rs)
          /\ blocking_sender' = blocking_adder_add(p, sNo, rs)
    \/ \E sNo : blocking_sender' = remove_send_blocking_rid(sNo).table

\* A new row at the end of the table waits for no row before it, and not for
\* itself: that is what blocking_adder_add has just looked for.
LEMMA AddedRow ==
    ASSUME SendersInv, NEW p \in Pids, NEW sNo \in Ids, NEW rs \in RecvLists,
           ~BlockingSendRefused(sNo, rs)
    PROVE  /\ blocking_adder_add(p, sNo, rs) \in Seq(Sender)
           /\ WaitsForward(blocking_adder_add(p, sNo, rs))
<1> DEFINE t   == blocking_sender
           row == [pid |-> p, cnt |-> Len(rs), no |-> sNo, to |-> rs]
           new == Append(t, row)
<1>1. t \in Seq(Sender) /\ WaitsForward(t)
  BY DEF SendersInv, SendWaitsForward
<1>2. rs \in Seq(Ids) /\ Len(rs) \in Nat /\ DOMAIN rs = 1 .. Len(rs)
  BY ConstantsAssumption, LenProperties DEF ConstantsAssumption
<1>3. row \in Sender
  BY <1>2 DEF Sender
<1>4. row.no = sNo /\ row.to = rs
  OBVIOUS
<1>5. /\ Len(t) \in Nat /\ DOMAIN t = 1 .. Len(t)
  BY <1>1, LenProperties
<1> HIDE DEF t, row
<1>6. /\ new \in Seq(Sender) /\ Len(new) = Len(t) + 1
      /\ \A i \in 1 .. Len(t) : new[i] = t[i]
      /\ new[Len(t) + 1] = row
  BY <1>1, <1>3, AppendProperties
<1>7. DOMAIN new = 1 .. Len(t) + 1
  BY <1>6, LenProperties
<1>8. sNo \notin ToSet(rs)
  BY <1>2 DEF BlockingSendRefused, ToSet
<1>9. \A i \in 1 .. Len(t) : t[i].no \notin ToSet(rs)
  BY <1>2, <1>5 DEF BlockingSendRefused, ToSet, t
<1>10. ASSUME NEW i \in DOMAIN new, NEW j \in DOMAIN new, i <= j
       PROVE  new[i].no \notin ToSet(new[j].to)
  <2>1. i \in 1 .. Len(t) + 1 /\ j \in 1 .. Len(t) + 1
    BY <1>7
  <2>2. CASE j \in 1 .. Len(t)
    <3>1. i \in 1 .. Len(t)
      BY <1>5, <1>10, <2>1, <2>2, SMT
    <3>2. new[i] = t[i] /\ new[j] = t[j]
      BY <1>6, <2>2, <3>1
    <3>3. t[i].no \notin ToSet(t[j].to)
      BY <1>1, <1>5, <1>10, <2>2, <3>1 DEF WaitsForward
    <3> QED
      BY <3>2, <3>3
  <2>3. CASE j = Len(t) + 1
    <3>1. new[j].to = rs
      BY <1>4, <1>6, <2>3
    <3>2. CASE i \in 1 .. Len(t)
      BY <1>6, <1>9, <3>1, <3>2
    <3>3. CASE i = Len(t) + 1
      BY <1>4, <1>6, <1>8, <3>1, <3>3
    <3> QED
      BY <1>5, <2>1, <3>2, <3>3, SMT
  <2> QED
    BY <1>5, <2>1, <2>2, <2>3, SMT
<1>11. blocking_adder_add(p, sNo, rs) = new
  BY DEF blocking_adder_add, row, t
<1> HIDE DEF new
<1> QED
  BY <1>6, <1>10, <1>11 DEF WaitsForward

LEMMA CountedDown ==
    ASSUME NEW r \in Sender
    PROVE  LET d == [r EXCEPT !.cnt = @ - 1]
           IN  d \in Sender /\ d.no = r.no /\ d.to = r.to
BY DEF Sender

\* Counting a reader down, or taking a row out, leaves the order of the others.
LEMMA FreedTable ==
    ASSUME SendersInv, NEW sNo
    PROVE  /\ remove_send_blocking_rid(sNo).table \in Seq(Sender)
           /\ WaitsForward(remove_send_blocking_rid(sNo).table)
<1> DEFINE t   == blocking_sender
           hit == {k \in 1 .. Len(t) : t[k].no = sNo}
           i   == SelectInSeq(t, LAMBDA e : e.no = sNo)
           new == remove_send_blocking_rid(sNo).table
<1>1. t \in Seq(Sender) /\ WaitsForward(t)
  BY DEF SendersInv, SendWaitsForward
<1>2. /\ Len(t) \in Nat /\ DOMAIN t = 1 .. Len(t)
      /\ \A k \in 1 .. Len(t) : t[k] \in Sender
  BY <1>1, LenProperties, ElementOfSeq
<1>3. i = IF hit # {} THEN Min(hit) ELSE 0
  BY DEF SelectInSeq
<1>4. i = 0 \/ i \in 1 .. Len(t)
  <2>1. hit \in SUBSET Nat
    BY <1>2
  <2> QED
    BY <1>3, <2>1, MinProperty
<1>5. CASE i = 0
  <2>1. new = t
    BY <1>5 DEF remove_send_blocking_rid
  <2> QED
    BY <1>1, <2>1
<1>6. CASE i # 0 /\ t[i].cnt = 1
  <2>1. new = RemoveAt(t, i)
    BY <1>6 DEF remove_send_blocking_rid
  <2>2. i \in 1 .. Len(t)
    BY <1>4, <1>6
  <2> HIDE DEF t, new, i
  <2>3. /\ new \in Seq(Sender) /\ Len(new) = Len(t) - 1
        /\ \A k \in 1 .. Len(t) - 1 :
              new[k] = IF k < i THEN t[k] ELSE t[k + 1]
    BY <1>1, <2>1, <2>2, RemoveAtProperties
  <2>4. DOMAIN new = 1 .. Len(t) - 1
    BY <2>3, LenProperties
  <2>5. ASSUME NEW a \in DOMAIN new, NEW b \in DOMAIN new, a <= b
        PROVE  new[a].no \notin ToSet(new[b].to)
    <3> DEFINE old(k) == IF k < i THEN k ELSE k + 1
    <3>1. /\ old(a) \in 1 .. Len(t) /\ old(b) \in 1 .. Len(t)
          /\ old(a) <= old(b)
      BY <1>2, <2>2, <2>4, <2>5, SMT
    <3>2. new[a] = t[old(a)] /\ new[b] = t[old(b)]
      BY <2>3, <2>4
    <3> QED
      BY <1>1, <1>2, <3>1, <3>2 DEF WaitsForward
  <2> QED
    BY <2>3, <2>5 DEF WaitsForward, new
<1>7. CASE i # 0 /\ t[i].cnt # 1
  <2>1. new = [t EXCEPT ![i].cnt = @ - 1]
    BY <1>7 DEF remove_send_blocking_rid
  <2>2. i \in 1 .. Len(t)
    BY <1>4, <1>7
  <2> DEFINE row == [t[i] EXCEPT !.cnt = @ - 1]
  <2>3. t[i] \in Sender
    BY <1>2, <2>2
  <2>4. row \in Sender /\ row.no = t[i].no /\ row.to = t[i].to
    BY <2>3, CountedDown
  <2>5. new = [t EXCEPT ![i] = row]
    BY <2>1
  <2> HIDE DEF t, new, i, row
  <2>6. /\ new \in Seq(Sender) /\ Len(new) = Len(t)
        /\ \A k \in 1 .. Len(t) : new[k] = IF k = i THEN row ELSE t[k]
    BY <1>1, <2>2, <2>4, <2>5, ExceptSeq
  <2>7. DOMAIN new = 1 .. Len(t)
    BY <2>6, LenProperties
  <2>8. \A k \in 1 .. Len(t) : new[k].no = t[k].no /\ new[k].to = t[k].to
    BY <2>4, <2>6
  <2> QED
    BY <1>1, <1>2, <2>6, <2>7, <2>8 DEF WaitsForward, new
<1> QED
  BY <1>5, <1>6, <1>7


LEMMA TableStepSafe ==
    ASSUME SendersInv, TableStep, alive' \subseteq Pids
    PROVE  SendersInv'
<1>1. CASE UNCHANGED blocking_sender
  BY <1>1 DEF SendersInv, SendWaitsForward, WaitsForward
<1>2. ASSUME NEW p \in Pids, NEW sNo \in Ids, NEW rs \in RecvLists,
             ~BlockingSendRefused(sNo, rs),
             blocking_sender' = blocking_adder_add(p, sNo, rs)
      PROVE  SendersInv'
  BY <1>2, AddedRow DEF SendersInv, SendWaitsForward
<1>3. ASSUME NEW sNo, blocking_sender' = remove_send_blocking_rid(sNo).table
      PROVE  SendersInv'
  BY <1>3, FreedTable DEF SendersInv, SendWaitsForward
<1> QED
  BY <1>1, <1>2, <1>3 DEF TableStep

\* What any call does to the table.
LEMMA CallTable ==
    ASSUME SendersInv, NEW p \in alive, Call(p)
    PROVE  TableStep /\ UNCHANGED alive
<1>1. ASSUME NEW name, NEW cap, NEW type, do_open_q(p, name, cap, type)
      PROVE  TableStep /\ UNCHANGED alive
  BY <1>1 DEF do_open_q, TableStep
<1>2. ASSUME NEW name, do_close_q(p, name)
      PROVE  TableStep /\ UNCHANGED alive
  BY <1>2 DEF do_close_q, TableStep
<1>3. ASSUME NEW name, NEW cap, NEW type, do_set_attr_q(p, name, cap, type)
      PROVE  TableStep /\ UNCHANGED alive
  BY <1>3 DEF do_set_attr_q, TableStep
<1>4. ASSUME NEW name, do_get_attr_q(p, name)
      PROVE  TableStep /\ UNCHANGED alive
  BY <1>4 DEF do_get_attr_q, TableStep
<1>5. ASSUME NEW id, do_mqreqnotify(p, id)
      PROVE  TableStep /\ UNCHANGED alive
  BY <1>5 DEF do_mqreqnotify, TableStep
<1>6. ASSUME NEW name, NEW sNo \in Ids, NEW rs \in RecvLists, NEW prio, NEW exp,
             do_send_mg_q(p, name, get_qipc_msg(sNo, rs, prio, exp))
      PROVE  TableStep /\ UNCHANGED alive
  <2> DEFINE m == get_qipc_msg(sNo, rs, prio, exp)
  <2>1. m.senderId = sNo /\ m.recieverIds = rs
    BY DEF get_qipc_msg
  <2> HIDE DEF m
  <2>2. p \in Pids
    BY DEF SendersInv
  <2>3. \/ UNCHANGED blocking_sender
        \/ /\ ~BlockingSendRefused(m.senderId, m.recieverIds)
           /\ blocking_sender' = blocking_adder_add(p, m.senderId, m.recieverIds)
    BY <1>6 DEF do_send_mg_q, m
  <2>4. UNCHANGED alive
    BY <1>6 DEF do_send_mg_q
  <2> QED
    BY <2>1, <2>2, <2>3, <2>4 DEF TableStep
<1>7. ASSUME NEW name, NEW recid, NEW expected, do_res_mg_q(p, name, recid, expected)
      PROVE  TableStep /\ UNCHANGED alive
  BY <1>7 DEF do_res_mg_q, Receive, ReceiveFrom, TableStep
<1>8. ASSUME NEW name, NEW recid, NEW expected,
             do_blocking_receive(p, name, recid, expected)
      PROVE  TableStep /\ UNCHANGED alive
  BY <1>8 DEF do_blocking_receive, Receive, ReceiveFrom, TableStep
<1>9. Uses[p] \subseteq Ids
  BY ConstantsAssumption DEF ConstantsAssumption, SendersInv
<1> QED
  BY <1>1, <1>2, <1>3, <1>4, <1>5, <1>6, <1>7, <1>8, <1>9 DEF Call, SendCall

LEMMA SendersInvInit == Init => SendersInv
<1> SUFFICES ASSUME Init PROVE SendersInv
  OBVIOUS
<1>1. blocking_sender = <<>> /\ alive = Pids
  BY DEF Init
<1>2. <<>> \in Seq(Sender) /\ DOMAIN <<>> = {}
  OBVIOUS
<1> QED
  BY <1>1, <1>2 DEF SendersInv, SendWaitsForward, WaitsForward

LEMMA SendersInvStep == SendersInv /\ [Next]_vars => SendersInv'
<1> SUFFICES ASSUME SendersInv, [Next]_vars PROVE SendersInv'
  OBVIOUS
<1>1. CASE UNCHANGED vars
  BY <1>1 DEF vars, SendersInv, SendWaitsForward, WaitsForward
<1>2. ASSUME NEW p \in alive, Call(p)
      PROVE  SendersInv'
  <2>1. TableStep /\ UNCHANGED alive
    BY <1>2, CallTable
  <2> QED
    BY <2>1, TableStepSafe DEF SendersInv
<1>3. ASSUME NEW p \in alive, Exit(p)
      PROVE  SendersInv'
  <2>1. UNCHANGED blocking_sender /\ alive' \subseteq Pids
    BY <1>3 DEF Exit, SendersInv
  <2> QED
    BY <2>1, TableStepSafe DEF TableStep
<1>4. CASE Tick
  BY <1>4 DEF Tick, SendersInv, SendWaitsForward, WaitsForward
<1> QED
  BY <1>1, <1>2, <1>3, <1>4 DEF Next

\* Blocked senders never wait backwards in their table.
THEOREM SendersWaitForward == Spec => []SendWaitsForward
<1>1. SendersInv => SendWaitsForward
  BY DEF SendersInv
<1> QED
  BY <1>1, SendersInvInit, SendersInvStep, PTL DEF Spec

\* A table without backward waits has no deadlock: of any rows, the last one
\* in the table waits for none of them.
LEMMA ForwardIsDeadlockFree == SendersInv => NoSenderDeadlock
<1> SUFFICES ASSUME SendersInv, NEW S \in SUBSET DOMAIN blocking_sender, S # {}
             PROVE  \E i \in S : \A j \in S :
                        blocking_sender[j].no \notin ToSet(blocking_sender[i].to)
  BY DEF NoSenderDeadlock
<1>1. /\ Len(blocking_sender) \in Nat
      /\ DOMAIN blocking_sender = 1 .. Len(blocking_sender)
  BY LenProperties DEF SendersInv
<1>2. PICK i \in S : \A j \in S : j <= i
  BY <1>1, GreatestExists
<1> QED
  BY <1>2 DEF SendersInv, SendWaitsForward, WaitsForward

\* The refusals of blocking_adder_add keep blocked senders out of deadlock,
\* however many participants, rows and receivers there are.
THEOREM SendersDeadlockFree == Spec => []NoSenderDeadlock
BY SendersInvInit, SendersInvStep, ForwardIsDeadlockFree, PTL DEF Spec

-----------------------------------------------------------------------------
(* The rows wait for somebody.                                             *)

AwaitsReaders(row) == row.cnt \in 1 .. Len(row.to)

\* A row that is added waits for each of its receivers, and there is one.
LEMMA AddedAwaits ==
    ASSUME <<>> \notin RecvLists, SendersInv, RowsAwaitReaders,
           NEW p \in Pids, NEW sNo \in Ids, NEW rs \in RecvLists,
           blocking_sender' = blocking_adder_add(p, sNo, rs)
    PROVE  RowsAwaitReaders'
<1> DEFINE t   == blocking_sender
           row == [pid |-> p, cnt |-> Len(rs), no |-> sNo, to |-> rs]
<1>1. rs \in Seq(Ids) /\ rs # <<>>
  BY ConstantsAssumption DEF ConstantsAssumption
<1>2. Len(rs) \in Nat \ {0}
  BY <1>1, EmptySeq
<1>3. row \in Sender /\ AwaitsReaders(row)
  BY <1>2 DEF Sender, AwaitsReaders
<1>4. t \in Seq(Sender) /\ Len(t) \in Nat /\ DOMAIN t = 1 .. Len(t)
  BY LenProperties DEF SendersInv
<1>5. t' = Append(t, row)
  BY DEF blocking_adder_add
<1> HIDE DEF t, row
<1>6. /\ t' \in Seq(Sender) /\ Len(t') = Len(t) + 1
      /\ \A i \in 1 .. Len(t) : t'[i] = t[i]
      /\ t'[Len(t) + 1] = row
  BY <1>3, <1>4, <1>5, AppendProperties
<1>7. DOMAIN t' = 1 .. Len(t) + 1
  BY <1>6, LenProperties
<1>8. ASSUME NEW i \in DOMAIN t' PROVE AwaitsReaders(t'[i])
  <2>1. i \in 1 .. Len(t) \/ i = Len(t) + 1
    BY <1>4, <1>7
  <2>2. \A j \in 1 .. Len(t) : AwaitsReaders(t[j])
    BY <1>4 DEF RowsAwaitReaders, AwaitsReaders, t
  <2> QED
    BY <1>3, <1>6, <2>1, <2>2
<1> QED
  BY <1>8 DEF RowsAwaitReaders, AwaitsReaders, t

\* A row is counted down while that leaves somebody to wait for, and taken out
\* when it does not.
LEMMA FreedAwaits ==
    ASSUME SendersInv, RowsAwaitReaders,
           NEW sNo, blocking_sender' = remove_send_blocking_rid(sNo).table
    PROVE  RowsAwaitReaders'
<1> DEFINE t   == blocking_sender
           hit == {k \in 1 .. Len(t) : t[k].no = sNo}
           i   == SelectInSeq(t, LAMBDA e : e.no = sNo)
<1>1. /\ t \in Seq(Sender) /\ Len(t) \in Nat /\ DOMAIN t = 1 .. Len(t)
      /\ \A k \in 1 .. Len(t) : t[k] \in Sender /\ AwaitsReaders(t[k])
  <2>1. t \in Seq(Sender) /\ Len(t) \in Nat /\ DOMAIN t = 1 .. Len(t)
    BY LenProperties DEF SendersInv
  <2> QED
    BY <2>1, ElementOfSeq DEF RowsAwaitReaders, AwaitsReaders
<1>2. i = 0 \/ i \in 1 .. Len(t)
  <2>1. i = IF hit # {} THEN Min(hit) ELSE 0
    BY DEF SelectInSeq
  <2>2. hit \in SUBSET Nat
    BY <1>1
  <2> QED
    BY <2>1, <2>2, MinProperty
<1>3. CASE i = 0
  <2>1. t' = t
    BY <1>3 DEF remove_send_blocking_rid
  <2> QED
    BY <2>1 DEF RowsAwaitReaders
<1>4. CASE i # 0 /\ t[i].cnt = 1
  <2>1. t' = RemoveAt(t, i) /\ i \in 1 .. Len(t)
    BY <1>2, <1>4 DEF remove_send_blocking_rid
  <2> HIDE DEF t, i
  <2>2. /\ t' \in Seq(Sender) /\ Len(t') = Len(t) - 1
        /\ \A k \in 1 .. Len(t) - 1 : t'[k] = IF k < i THEN t[k] ELSE t[k + 1]
    BY <1>1, <2>1, RemoveAtProperties
  <2>3. DOMAIN t' = 1 .. Len(t) - 1
    BY <2>2, LenProperties
  <2>4. ASSUME NEW k \in DOMAIN t' PROVE AwaitsReaders(t'[k])
    <3>1. k \in 1 .. Len(t) /\ k + 1 \in 1 .. Len(t)
      BY <1>1, <2>3, SMT
    <3> QED
      BY <1>1, <2>2, <2>3, <3>1
  <2> QED
    BY <2>4 DEF RowsAwaitReaders, AwaitsReaders, t
<1>5. CASE i # 0 /\ t[i].cnt # 1
  <2> DEFINE row == [t[i] EXCEPT !.cnt = @ - 1]
  <2>1. t' = [t EXCEPT ![i] = row] /\ i \in 1 .. Len(t)
    BY <1>2, <1>5 DEF remove_send_blocking_rid
  <2>2. t[i] \in Sender /\ AwaitsReaders(t[i])
    BY <1>1, <2>1
  <2>3. row \in Sender /\ AwaitsReaders(row)
    <3> HIDE DEF t, i
    <3>1. row \in Sender /\ row.to = t[i].to /\ row.cnt = t[i].cnt - 1
      BY <2>2 DEF Sender
    <3>2. Len(t[i].to) \in Nat
      BY <2>2, ConstantsAssumption, LenProperties DEF Sender, ConstantsAssumption
    <3> QED
      BY <1>5, <2>2, <3>1, <3>2 DEF AwaitsReaders
  <2> HIDE DEF t, i, row
  <2>4. /\ t' \in Seq(Sender) /\ Len(t') = Len(t)
        /\ \A k \in 1 .. Len(t) : t'[k] = IF k = i THEN row ELSE t[k]
    BY <1>1, <2>1, <2>3, ExceptSeq
  <2>5. DOMAIN t' = 1 .. Len(t)
    BY <2>4, LenProperties
  <2>6. \A k \in DOMAIN t' : AwaitsReaders(t'[k])
    BY <1>1, <2>3, <2>4, <2>5
  <2> QED
    BY <2>6 DEF RowsAwaitReaders, AwaitsReaders, t
<1> QED
  BY <1>3, <1>4, <1>5

LEMMA RowsStep ==
    ASSUME <<>> \notin RecvLists, SendersInv, RowsAwaitReaders, [Next]_vars
    PROVE  RowsAwaitReaders'
<1>1. ASSUME TableStep PROVE RowsAwaitReaders'
  BY <1>1, AddedAwaits, FreedAwaits DEF TableStep, RowsAwaitReaders
<1>2. CASE \E p \in alive : Call(p)
  BY <1>1, <1>2, CallTable
<1>3. CASE UNCHANGED blocking_sender
  BY <1>1, <1>3 DEF TableStep
<1> QED
  BY <1>2, <1>3 DEF Next, vars, Exit, Tick

\* A send that names at least one receiver leaves a row that is released in the
\* step that counts its last reader: no row is ever left with nobody to wait for.
THEOREM RowsAlwaysAwait ==
    ASSUME <<>> \notin RecvLists
    PROVE  Spec => []RowsAwaitReaders
<1>1. Init => RowsAwaitReaders
  BY DEF Init, RowsAwaitReaders
<1>2. SendersInv /\ RowsAwaitReaders /\ [Next]_vars => RowsAwaitReaders'
  BY RowsStep
<1> QED
  BY <1>1, <1>2, SendersInvInit, SendersInvStep, PTL DEF Spec

=============================================================================
