----------------------------- MODULE QipcWaiters -----------------------------
(***************************************************************************)
(* The receivers that wait on the queues of Qipc, for every value of its   *)
(* constants: who leaves a waiting list and why, who is told of a message, *)
(* and what check_for_deadlock keeps out of a list.                        *)
(***************************************************************************)
EXTENDS QipcTypes

-----------------------------------------------------------------------------
(* Taking entries out of a waiting list.                                   *)

\* f tells where the entries of l stood in list: in the same order.
From(l, list, f) ==
    /\ f \in [1 .. Len(l) -> 1 .. Len(list)]
    /\ \A a, b \in 1 .. Len(l) : a < b => f[a] < f[b]
    /\ \A a \in 1 .. Len(l) : l[a] = list[f[a]]

\* l is list without some entries, all of them of processes in gone.
Thinned(l, list, gone) ==
    \E f : /\ From(l, list, f)
           /\ \A j \in 1 .. Len(list) :
                 (\E a \in 1 .. Len(l) : f[a] = j) \/ list[j].pid \in gone

\* delete_from_blocked_receiver_list takes out the first entry of a process, if
\* there is one.
LEMMA Deleted ==
    ASSUME NEW l \in Seq(ProcNode), NEW pid
    PROVE  \/ /\ delete_from_blocked_receiver_list(l, pid) = l
              /\ \A k \in 1 .. Len(l) : l[k].pid # pid
           \/ \E i \in 1 .. Len(l) :
                 /\ l[i].pid = pid
                 /\ delete_from_blocked_receiver_list(l, pid) = RemoveAt(l, i)
<1> DEFINE hit == {k \in 1 .. Len(l) : l[k].pid = pid}
           new == delete_from_blocked_receiver_list(l, pid)
<1>1. Len(l) \in Nat
  BY LenProperties
<1>2. CASE hit = {}
  BY <1>2 DEF delete_from_blocked_receiver_list, RemoveFirstMatch
<1>3. CASE hit # {}
  <2>1. new = RemoveAt(l, Min(hit))
    BY <1>3 DEF delete_from_blocked_receiver_list, RemoveFirstMatch, SelectInSeq
  <2>2. Min(hit) \in hit
    <3>1. hit \in SUBSET Nat
      BY <1>1
    <3> QED
      BY <1>3, <3>1, MinProperty
  <2> QED
    BY <2>1, <2>2
<1> QED
  BY <1>2, <1>3

\* if_present_blocked_receiver_list finds the first process that waits under a
\* number.
LEMMA Present ==
    ASSUME NEW l \in Seq(ProcNode), NEW recid
    PROVE  \/ /\ if_present_blocked_receiver_list(l, recid) = NULL
              /\ \A k \in 1 .. Len(l) : l[k].recid # recid
           \/ \E i \in 1 .. Len(l) :
                 /\ l[i].recid = recid
                 /\ \A k \in 1 .. Len(l) : l[k].recid = recid => i <= k
                 /\ if_present_blocked_receiver_list(l, recid) = l[i].pid
<1> DEFINE hit == {k \in 1 .. Len(l) : l[k].recid = recid}
           i   == SelectInSeq(l, LAMBDA e : e.recid = recid)
<1>1. Len(l) \in Nat
  BY LenProperties
<1>2. i = IF hit # {} THEN Min(hit) ELSE 0
  BY DEF SelectInSeq
<1>3. if_present_blocked_receiver_list(l, recid) = IF i = 0 THEN NULL ELSE l[i].pid
  BY DEF if_present_blocked_receiver_list
<1> HIDE DEF i
<1>4. CASE hit = {}
  BY <1>2, <1>3, <1>4
<1>5. CASE hit # {}
  <2>1. hit \in SUBSET Nat
    BY <1>1
  <2>2. Min(hit) \in hit /\ \A k \in hit : Min(hit) <= k
    BY <1>5, <2>1, MinProperty
  <2>3. i \in hit /\ i # 0 /\ \A k \in hit : i <= k
    BY <1>1, <1>2, <1>5, <2>2
  <2> QED
    BY <1>3, <2>3
<1> QED
  BY <1>4, <1>5

\* A list is itself without any entry taken out.
LEMMA ThinnedFromItself ==
    ASSUME NEW list \in Seq(ProcNode), NEW gone
    PROVE  Thinned(list, list, gone)
<1>1. Len(list) \in Nat
  BY LenProperties
<1>2. From(list, list, [a \in 1 .. Len(list) |-> a])
  BY <1>1 DEF From
<1> QED
  BY <1>2 DEF Thinned

\* Taking out one entry more.
LEMMA ThinnedByOne ==
    ASSUME NEW list \in Seq(ProcNode), NEW l \in Seq(ProcNode), NEW gone,
           Thinned(l, list, gone), NEW pid
    PROVE  Thinned(delete_from_blocked_receiver_list(l, pid), list, gone \cup {pid})
<1> DEFINE new == delete_from_blocked_receiver_list(l, pid)
<1>1. PICK f : /\ From(l, list, f)
               /\ \A j \in 1 .. Len(list) :
                     (\E a \in 1 .. Len(l) : f[a] = j) \/ list[j].pid \in gone
  BY DEF Thinned
<1>2. Len(l) \in Nat /\ Len(list) \in Nat
  BY LenProperties
<1>3. CASE new = l
  BY <1>1, <1>3 DEF Thinned
<1>4. ASSUME NEW i \in 1 .. Len(l), l[i].pid = pid, new = RemoveAt(l, i)
      PROVE  Thinned(new, list, gone \cup {pid})
  <2> HIDE DEF new
  <2>1. /\ Len(new) = Len(l) - 1
        /\ \A k \in 1 .. Len(l) - 1 : new[k] = IF k < i THEN l[k] ELSE l[k + 1]
    BY <1>4, RemoveAtProperties
  <2> DEFINE old(k) == IF k < i THEN k ELSE k + 1
             g == [k \in 1 .. Len(new) |-> f[old(k)]]
  <2>2. /\ \A k \in 1 .. Len(new) : old(k) \in 1 .. Len(l) /\ new[k] = l[old(k)]
        /\ \A a, b \in 1 .. Len(new) : a < b => old(a) < old(b)
    BY <1>2, <2>1, SMT
  <2>3. \A a \in 1 .. Len(l) : a # i => \E k \in 1 .. Len(new) : old(k) = a
    <3>1. ASSUME NEW a \in 1 .. Len(l), a # i
          PROVE  \E k \in 1 .. Len(new) : old(k) = a
      <4>1. CASE a < i
        <5>1. a \in 1 .. Len(new) /\ old(a) = a
          BY <1>2, <2>1, <4>1
        <5> QED
          BY <5>1
      <4>2. CASE ~(a < i)
        <5>1. a - 1 \in 1 .. Len(new) /\ old(a - 1) = a
          BY <1>2, <2>1, <3>1, <4>2
        <5> QED
          BY <5>1
      <4> QED
        BY <4>1, <4>2
    <3> QED
      BY <3>1
  <2> HIDE DEF old
  <2>4. From(new, list, g)
    BY <1>1, <2>2 DEF From
  <2>5. ASSUME NEW j \in 1 .. Len(list)
        PROVE  (\E k \in 1 .. Len(new) : g[k] = j) \/ list[j].pid \in gone \cup {pid}
    <3>1. CASE list[j].pid \in gone
      BY <3>1
    <3>2. ASSUME NEW a \in 1 .. Len(l), f[a] = j
          PROVE  (\E k \in 1 .. Len(new) : g[k] = j) \/ list[j].pid = pid
      <4>1. CASE a = i
        BY <1>1, <1>4, <3>2, <4>1 DEF From
      <4>2. CASE a # i
        BY <2>3, <3>2, <4>2
      <4> QED
        BY <4>1, <4>2
    <3> QED
      BY <1>1, <3>1, <3>2
  <2> HIDE DEF g
  <2> QED
    BY <2>4, <2>5 DEF Thinned
<1> QED
  BY <1>3, <1>4, Deleted

\* Who is in a thinned list was there before, and who is not has gone.
LEMMA ThinnedMembers ==
    ASSUME NEW list \in Seq(ProcNode), NEW l \in Seq(ProcNode), NEW gone,
           Thinned(l, list, gone)
    PROVE  /\ \A e \in ToSet(l) : e \in ToSet(list)
           /\ \A e \in ToSet(list) \ ToSet(l) : e.pid \in gone
<1>1. PICK f : /\ From(l, list, f)
               /\ \A j \in 1 .. Len(list) :
                     (\E a \in 1 .. Len(l) : f[a] = j) \/ list[j].pid \in gone
  BY DEF Thinned
<1>2. DOMAIN l = 1 .. Len(l) /\ DOMAIN list = 1 .. Len(list)
  BY LenProperties
<1> QED
  BY <1>1, <1>2 DEF From, ToSet

\* Taking entries out for fewer processes is taking them out for more.
LEMMA ThinnedForMore ==
    ASSUME NEW list, NEW l, NEW gone, Thinned(l, list, gone), NEW more, gone \subseteq more
    PROVE  Thinned(l, list, more)
BY DEF Thinned

-----------------------------------------------------------------------------
(* The loops over the receivers of a message.                              *)

\* The turns of do_send_mg_q's loop, one by one.
LEMMA WakeReceiversRun ==
    ASSUME NEW list \in Seq(ProcNode), NEW rs \in Seq(Ids), NEW n \in Nat, Len(rs) = n
    PROVE  \E run : /\ run[0] = [list |-> list, woken |-> {}]
                    /\ \A i \in 0 .. n : run[i].list \in Seq(ProcNode)
                    /\ \A i \in 1 .. n : run[i] = WakeReceiver(run[i - 1], rs[i])
                    /\ WakeReceivers(list, rs) = run[n]
<1> DEFINE S       == [list : Seq(ProcNode), woken : SUBSET alive]
           base    == [list |-> list, woken |-> {}]
           step(f) == [i \in 0 .. n |->
                          IF i = 0 THEN base ELSE WakeReceiver(f[i - 1], rs[i])]
           g       == [i \in 1 .. n |-> [acc \in S |-> WakeReceiver(acc, rs[i])]]
           run     == CHOOSE f : f = step(f)
<1>1. base \in S
  OBVIOUS
<1>2. ASSUME NEW acc \in S, NEW r PROVE WakeReceiver(acc, r) \in S
  <2> DEFINE pid == if_present_blocked_receiver_list(acc.list, r)
  <2>1. acc.list \in Seq(ProcNode) /\ acc.woken \in SUBSET alive
    OBVIOUS
  <2>2. delete_from_blocked_receiver_list(acc.list, pid) \in Seq(ProcNode)
    BY <2>1, DeleteTyped
  <2>3. WakeReceiver(acc, r) =
            IF pid \in alive
            THEN [list  |-> delete_from_blocked_receiver_list(acc.list, pid),
                  woken |-> acc.woken \cup {pid}]
            ELSE acc
    BY DEF WakeReceiver
  <2> HIDE DEF pid
  <2> QED
    BY <2>1, <2>2, <2>3
<1>3. \A l \in S : l.list \in Seq(ProcNode)
  OBVIOUS
<1> HIDE DEF S, base
<1>4. g \in [1 .. n -> [S -> S]]
  BY <1>2
<1>5. \A i \in 1 .. n, x \in S : g[i][x] = WakeReceiver(x, rs[i])
  OBVIOUS
<1> HIDE DEF g
<1>6. PICK f : IsRun(f, S, n, base, g)
  BY <1>1, <1>4, RunExists
<1>7. \A i \in 1 .. n : i - 1 \in 0 .. n /\ i \in 0 .. n /\ i # 0
  BY SMT
<1>8. f = step(f)
  <2>1. f \in [0 .. n -> S] /\ f[0] = base
    BY <1>6 DEF IsRun
  <2>2. ASSUME NEW i \in 0 .. n, i # 0
        PROVE  f[i] = WakeReceiver(f[i - 1], rs[i])
    <3>1. i \in 1 .. n
      BY <2>2
    <3>2. f[i - 1] \in S
      BY <1>7, <2>1, <3>1
    <3> QED
      BY <1>5, <1>6, <3>1, <3>2 DEF IsRun
  <2> QED
    BY <2>1, <2>2
<1>9. run = step(run)
  <2> HIDE DEF step
  <2> QED
    BY <1>8
<1>10. WakeReceivers(list, rs) = run[n]
  BY DEF WakeReceivers, ForEach, base
<1> HIDE DEF run
<1>11. run[0] = base /\ \A i \in 1 .. n : run[i] = WakeReceiver(run[i - 1], rs[i])
  BY <1>7, <1>9
<1> DEFINE P == {i \in 0 .. n : \A j \in 0 .. n : j <= i => run[j] \in S}
<1>12. 0 \in P
  BY <1>1, <1>11
<1>13. ASSUME NEW i \in 1 .. n, i - 1 \in P PROVE i \in P
  <2>1. run[i] \in S
    BY <1>2, <1>7, <1>11, <1>13
  <2>2. \A j \in 0 .. n : j <= i => j <= i - 1 \/ j = i
    OBVIOUS
  <2> QED
    BY <1>7, <1>13, <2>1, <2>2
<1> HIDE DEF P
<1>14. n \in P
  BY <1>12, <1>13, TurnInduction
<1>15. \A i \in 0 .. n : run[i] \in S
  BY <1>14 DEF P
<1> QED
  BY <1>3, <1>10, <1>11, <1>15 DEF base

\* The first process waiting under each receiver's number is told, if it lives;
\* the entries that leave are of processes that are told.
LEMMA WakeReceiversTells ==
    ASSUME NEW list \in Seq(ProcNode), NEW rs \in Seq(Ids)
    PROVE  LET wake == WakeReceivers(list, rs)
           IN  /\ wake.list \in Seq(ProcNode)
               /\ Thinned(wake.list, list, wake.woken)
               /\ wake.woken \subseteq alive
               /\ \A k \in 1 .. Len(rs), j \in 1 .. Len(list) :
                     /\ list[j].recid = rs[k] /\ list[j].pid \in alive
                     /\ \A i \in 1 .. Len(list) : list[i].recid = rs[k] => j <= i
                     => list[j].pid \in wake.woken
<1> DEFINE n == Len(rs)
           First(j, r) == /\ list[j].recid = r
                          /\ \A i \in 1 .. Len(list) : list[i].recid = r => j <= i
           Told(acc, r) == \A j \in 1 .. Len(list) :
                               First(j, r) /\ list[j].pid \in alive
                                   => list[j].pid \in acc.woken
<1>1. n \in Nat
  BY LenProperties
<1>2. PICK run : /\ run[0] = [list |-> list, woken |-> {}]
                 /\ \A i \in 0 .. n : run[i].list \in Seq(ProcNode)
                 /\ \A i \in 1 .. n : run[i] = WakeReceiver(run[i - 1], rs[i])
                 /\ WakeReceivers(list, rs) = run[n]
  BY <1>1, WakeReceiversRun
<1> HIDE DEF n
<1> DEFINE P == {i \in 0 .. n : /\ Thinned(run[i].list, list, run[i].woken)
                                /\ run[i].woken \subseteq alive
                                /\ \A k \in 1 .. i : Told(run[i], rs[k])}
<1>3. 0 \in P
  <2>1. run[0].list = list /\ run[0].woken = {}
    BY <1>2
  <2> QED
    BY <1>1, <2>1, ThinnedFromItself
<1>4. ASSUME NEW i \in 1 .. n, i - 1 \in P PROVE i \in P
  <2> DEFINE acc == run[i - 1]
             pid == if_present_blocked_receiver_list(acc.list, rs[i])
  <2>1. i - 1 \in 0 .. n /\ i \in 0 .. n
    BY <1>1, SMT
  <2>2. /\ acc.list \in Seq(ProcNode) /\ Thinned(acc.list, list, acc.woken)
        /\ acc.woken \subseteq alive
        /\ \A k \in 1 .. i - 1 : Told(acc, rs[k])
    BY <1>2, <1>4, <2>1
  <2>3. run[i] = IF pid \in alive
                 THEN [list  |-> delete_from_blocked_receiver_list(acc.list, pid),
                       woken |-> acc.woken \cup {pid}]
                 ELSE acc
    BY <1>2 DEF WakeReceiver
  <2> HIDE DEF acc, pid
  <2>4. /\ Thinned(run[i].list, list, run[i].woken)
        /\ run[i].woken \subseteq alive /\ acc.woken \subseteq run[i].woken
    BY <2>2, <2>3, ThinnedByOne
  <2>5. \A k \in 1 .. i - 1 : Told(run[i], rs[k])
    BY <2>2, <2>4
  <2>6. ASSUME NEW j \in 1 .. Len(list), First(j, rs[i]), list[j].pid \in alive
        PROVE  list[j].pid \in run[i].woken
    <3>1. PICK f : /\ From(acc.list, list, f)
                   /\ (\E a \in 1 .. Len(acc.list) : f[a] = j) \/ list[j].pid \in acc.woken
      BY <2>2 DEF Thinned
    <3>2. CASE list[j].pid \in acc.woken
      BY <2>4, <3>2
    <3>3. ASSUME NEW a \in 1 .. Len(acc.list), f[a] = j
          PROVE  list[j].pid \in run[i].woken
      <4>1. acc.list[a] = list[j] /\ acc.list[a].recid = rs[i]
        BY <2>6, <3>1, <3>3 DEF From
      <4>2. PICK b \in 1 .. Len(acc.list) :
                /\ acc.list[b].recid = rs[i] /\ b <= a
                /\ pid = acc.list[b].pid
        <5>1. \/ \A k \in 1 .. Len(acc.list) : acc.list[k].recid # rs[i]
              \/ \E b \in 1 .. Len(acc.list) :
                    /\ acc.list[b].recid = rs[i]
                    /\ \A k \in 1 .. Len(acc.list) : acc.list[k].recid = rs[i] => b <= k
                    /\ pid = acc.list[b].pid
          BY <2>2, Present DEF pid
        <5> QED
          BY <4>1, <5>1
      <4>3. b = a
        <5>1. list[f[b]] = acc.list[b] /\ f[b] \in 1 .. Len(list)
          BY <3>1 DEF From
        <5>2. j <= f[b]
          BY <2>6, <4>2, <5>1
        <5>3. b < a => f[b] < j
          BY <3>1, <3>3 DEF From
        <5>4. Len(list) \in Nat /\ Len(acc.list) \in Nat
          BY <2>2, LenProperties
        <5> QED
          BY <4>2, <5>1, <5>2, <5>3, <5>4
      <4>4. pid = list[j].pid
        BY <4>1, <4>2, <4>3
      <4> QED
        BY <2>3, <2>6, <4>4
    <3> QED
      BY <3>1, <3>2, <3>3
  <2>7. \A k \in 1 .. i : k \in 1 .. i - 1 \/ k = i
    BY <1>1
  <2>8. \A k \in 1 .. i : Told(run[i], rs[k])
    BY <2>5, <2>6, <2>7
  <2> QED
    BY <2>1, <2>4, <2>8
<1> HIDE DEF P
<1>5. n \in P
  BY <1>1, <1>3, <1>4, TurnInduction
<1>6. /\ Thinned(run[n].list, list, run[n].woken)
      /\ run[n].woken \subseteq alive
      /\ \A k \in 1 .. n : Told(run[n], rs[k])
  BY <1>5 DEF P
<1> QED
  BY <1>1, <1>2, <1>6 DEF n

\* Only a process that waits is woken.
LEMMA WokenWaited ==
    ASSUME NEW list \in Seq(ProcNode), NEW rs \in Seq(Ids), alive \subseteq Pids
    PROVE  WakeReceivers(list, rs).woken \subseteq {e.pid : e \in ToSet(list)}
<1> DEFINE n   == Len(rs)
           all == {e.pid : e \in ToSet(list)}
<1>1. n \in Nat
  BY LenProperties
<1>2. PICK run : /\ run[0] = [list |-> list, woken |-> {}]
                 /\ \A i \in 0 .. n : run[i].list \in Seq(ProcNode)
                 /\ \A i \in 1 .. n : run[i] = WakeReceiver(run[i - 1], rs[i])
                 /\ WakeReceivers(list, rs) = run[n]
  BY <1>1, WakeReceiversRun
<1> HIDE DEF n, all
<1> DEFINE P == {i \in 0 .. n : /\ Thinned(run[i].list, list, run[i].woken)
                                /\ run[i].woken \subseteq all}
<1>3. 0 \in P
  <2>1. run[0].list = list /\ run[0].woken = {}
    BY <1>2
  <2> QED
    BY <1>1, <2>1, ThinnedFromItself
<1>4. ASSUME NEW i \in 1 .. n, i - 1 \in P PROVE i \in P
  <2> DEFINE acc == run[i - 1]
             pid == if_present_blocked_receiver_list(acc.list, rs[i])
  <2>1. i - 1 \in 0 .. n /\ i \in 0 .. n
    BY <1>1, SMT
  <2>2. /\ acc.list \in Seq(ProcNode) /\ Thinned(acc.list, list, acc.woken)
        /\ acc.woken \subseteq all
    BY <1>2, <1>4, <2>1
  <2>3. run[i] = IF pid \in alive
                 THEN [list  |-> delete_from_blocked_receiver_list(acc.list, pid),
                       woken |-> acc.woken \cup {pid}]
                 ELSE acc
    BY <1>2 DEF WakeReceiver
  <2>4. pid = NULL \/ \E b \in 1 .. Len(acc.list) : pid = acc.list[b].pid
    <3> HIDE DEF acc
    <3> QED
      BY <2>2, Present
  <2> HIDE DEF acc, pid
  <2>5. Thinned(run[i].list, list, run[i].woken)
    BY <2>2, <2>3, ThinnedByOne
  <2>6. pid \in alive => pid \in all
    <3> SUFFICES ASSUME pid \in alive PROVE pid \in all
      OBVIOUS
    <3>1. pid # NULL
      BY ConstantsAssumption DEF ConstantsAssumption
    <3>2. PICK b \in 1 .. Len(acc.list) : pid = acc.list[b].pid
      BY <2>4, <3>1
    <3>3. acc.list[b] \in ToSet(acc.list)
      BY <2>2, LenProperties DEF ToSet
    <3>4. acc.list[b] \in ToSet(list)
      BY <2>2, <3>3, ThinnedMembers
    <3> QED
      BY <3>2, <3>4 DEF all
  <2>7. run[i].woken \subseteq all
    BY <2>2, <2>3, <2>6
  <2> QED
    BY <2>1, <2>5, <2>7
<1> HIDE DEF P
<1>5. n \in P
  BY <1>1, <1>3, <1>4, TurnInduction
<1> QED
  BY <1>2, <1>5 DEF P, all

-----------------------------------------------------------------------------
(* The loops over expired messages.                                        *)

\* The processes whose entries of list an expired message of msgs takes along.
Purged(list, msgs) ==
    {p \in Pids : \E i \in 1 .. Len(msgs) :
        /\ Expired(msgs[i])
        /\ \E j \in 1 .. Len(list) :
              list[j].pid = p /\ list[j].recid \in ToSet(msgs[i].recieverIds)}

\* One receiver of an expired message.
LEMMA ForgetReceiverThins ==
    ASSUME NEW list \in Seq(ProcNode), NEW l \in Seq(ProcNode), NEW gone,
           Thinned(l, list, gone), NEW recid,
           \A j \in 1 .. Len(list) : list[j].recid = recid => list[j].pid \in gone
    PROVE  ForgetReceiver(l, recid) \in Seq(ProcNode) /\ Thinned(ForgetReceiver(l, recid), list, gone)
<1> DEFINE pid == if_present_blocked_receiver_list(l, recid)
           new == ForgetReceiver(l, recid)
<1>1. new = delete_from_blocked_receiver_list(l, pid)
  BY DEF ForgetReceiver
<1>2. \A k \in 1 .. Len(l) : l[k] \in ProcNode /\ l[k].pid # NULL
  <2>1. \A k \in 1 .. Len(l) : l[k] \in ProcNode
    BY ElementOfSeq
  <2> QED
    BY <2>1, ConstantsAssumption DEF ProcNode, ConstantsAssumption
<1>3. pid = NULL \/ \E k \in 1 .. Len(l) : l[k].recid = recid /\ pid = l[k].pid
  BY Present
<1> HIDE DEF pid, new
<1>4. new \in Seq(ProcNode)
  BY <1>1, DeleteTyped
<1>5. CASE pid = NULL
  BY <1>1, <1>2, <1>4, <1>5, Deleted DEF new
<1>6. CASE \E k \in 1 .. Len(l) : l[k].recid = recid /\ pid = l[k].pid
  <2>1. PICK k \in 1 .. Len(l) : l[k].recid = recid /\ pid = l[k].pid
    BY <1>6
  <2>2. PICK f : From(l, list, f)
    BY DEF Thinned
  <2>3. f[k] \in 1 .. Len(list) /\ l[k] = list[f[k]]
    BY <2>2 DEF From
  <2>4. gone \cup {pid} = gone
    BY <2>1, <2>3
  <2> QED
    BY <1>1, <1>4, <2>4, ThinnedByOne DEF new
<1> QED
  BY <1>3, <1>5, <1>6

\* All of them, for every expired message of the queue.
LEMMA StillWaitingThins ==
    ASSUME NEW list \in Seq(ProcNode), NEW msgs \in Seq(Message)
    PROVE  Thinned(StillWaiting(list, msgs), list, Purged(list, msgs))
<1> DEFINE gone == Purged(list, msgs)
           S    == {l \in Seq(ProcNode) : Thinned(l, list, gone)}
<1>1. Len(msgs) \in Nat
  BY LenProperties
<1>2. list \in S
  BY ThinnedFromItself
<1>3. ASSUME NEW l \in S, NEW i \in 1 .. Len(msgs)
      PROVE  ForgetReceiversOf(l, msgs[i]) \in S
  <2> DEFINE rs == msgs[i].recieverIds
  <2>1. rs \in Seq(Ids)
    <3>1. msgs[i] \in Message
      BY ElementOfSeq
    <3> QED
      BY <3>1, ConstantsAssumption DEF Message, ConstantsAssumption
  <2>2. Len(rs) \in Nat /\ DOMAIN rs = 1 .. Len(rs)
    BY <2>1, LenProperties
  <2>3. CASE Expired(msgs[i])
    <3>1. ASSUME NEW acc \in S, NEW k \in 1 .. Len(rs)
          PROVE  ForgetReceiver(acc, rs[k]) \in S
      <4>1. ASSUME NEW j \in 1 .. Len(list), list[j].recid = rs[k]
            PROVE  list[j].pid \in gone
        <5>1. list[j].pid \in Pids
          <6>1. list[j] \in ProcNode
            BY ElementOfSeq
          <6> QED
            BY <6>1 DEF ProcNode
        <5>2. list[j].recid \in ToSet(rs)
          BY <2>2, <4>1 DEF ToSet
        <5> QED
          BY <2>3, <5>1, <5>2 DEF Purged
      <4> HIDE DEF gone, rs
      <4> QED
        BY <4>1, ForgetReceiverThins
    <3> HIDE DEF S, rs
    <3>2. ForgetReceivers(l, rs) \in S
      BY <2>2, <3>1, ForgetReceiversStays
    <3> QED
      BY <2>3, <3>2 DEF ForgetReceiversOf, rs
  <2>4. CASE ~Expired(msgs[i])
    BY <2>4 DEF ForgetReceiversOf
  <2> QED
    BY <2>3, <2>4
<1> HIDE DEF S
<1>4. StillWaiting(list, msgs) \in S
  BY <1>1, <1>2, <1>3, StillWaitingStays
<1> QED
  BY <1>4 DEF S

-----------------------------------------------------------------------------
(* Waiting for each other.                                                 *)

NoTwoCycle(list) ==
    \A i, j \in DOMAIN list :
        list[i].recid = list[j].sendid /\ list[j].recid = list[i].sendid => i = j

LEMMA ThinnedHasNoTwoCycle ==
    ASSUME NEW list \in Seq(ProcNode), NEW l \in Seq(ProcNode), NEW gone,
           Thinned(l, list, gone), NoTwoCycle(list)
    PROVE  NoTwoCycle(l)
<1>1. PICK f : From(l, list, f)
  BY DEF Thinned
<1>2. /\ DOMAIN l = 1 .. Len(l) /\ Len(l) \in Nat
      /\ DOMAIN list = 1 .. Len(list) /\ Len(list) \in Nat
  BY LenProperties
<1>3. ASSUME NEW i \in 1 .. Len(l), NEW j \in 1 .. Len(l),
             l[i].recid = l[j].sendid, l[j].recid = l[i].sendid
      PROVE  i = j
  <2>1. /\ f[i] \in 1 .. Len(list) /\ l[i] = list[f[i]]
        /\ f[j] \in 1 .. Len(list) /\ l[j] = list[f[j]]
        /\ i < j => f[i] < f[j]
        /\ j < i => f[j] < f[i]
    BY <1>1 DEF From
  <2>2. f[i] = f[j]
    BY <1>2, <1>3, <2>1 DEF NoTwoCycle
  <2> QED
    BY <1>2, <2>1, <2>2
<1> QED
  BY <1>2, <1>3 DEF NoTwoCycle

\* check_for_deadlock has looked for exactly the entry that would close a circle
\* with the new one.
LEMMA AddedHasNoTwoCycle ==
    ASSUME NEW list \in Seq(ProcNode), NoTwoCycle(list),
           NEW p \in Pids, NEW recid \in Ids, NEW expected \in Ids \cup {AnySender},
           ~check_for_deadlock(list, recid, expected)
    PROVE  NoTwoCycle(add_to_blocked_receiver_list(list, p, expected, recid))
<1> DEFINE row == [pid |-> p, recid |-> recid, sendid |-> expected]
           new == add_to_blocked_receiver_list(list, p, expected, recid)
<1>1. new = Append(list, row)
  BY DEF add_to_blocked_receiver_list
<1>2. row \in ProcNode /\ row.recid = recid /\ row.sendid = expected
  BY DEF ProcNode
<1> HIDE DEF row, new
<1>3. /\ new \in Seq(ProcNode) /\ Len(new) = Len(list) + 1
      /\ \A k \in 1 .. Len(list) : new[k] = list[k]
      /\ new[Len(list) + 1] = row
  BY <1>1, <1>2, AppendProperties
<1>4. /\ DOMAIN new = 1 .. Len(list) + 1
      /\ DOMAIN list = 1 .. Len(list) /\ Len(list) \in Nat
  BY <1>3, LenProperties
<1>5. \A k \in 1 .. Len(list) : ~(list[k].recid = expected /\ list[k].sendid = recid)
  BY <1>4 DEF check_for_deadlock
<1>6. ASSUME NEW i \in DOMAIN new, NEW j \in DOMAIN new,
             new[i].recid = new[j].sendid, new[j].recid = new[i].sendid
      PROVE  i = j
  <2>1. /\ i \in 1 .. Len(list) \/ i = Len(list) + 1
        /\ j \in 1 .. Len(list) \/ j = Len(list) + 1
    BY <1>4
  <2>2. CASE i \in 1 .. Len(list) /\ j \in 1 .. Len(list)
    BY <1>3, <1>4, <1>6, <2>2 DEF NoTwoCycle
  <2>3. CASE i \in 1 .. Len(list) /\ j = Len(list) + 1
    BY <1>2, <1>3, <1>5, <1>6, <2>3
  <2>4. CASE i = Len(list) + 1 /\ j \in 1 .. Len(list)
    BY <1>2, <1>3, <1>5, <1>6, <2>4
  <2> QED
    BY <2>1, <2>2, <2>3, <2>4
<1> QED
  BY <1>6 DEF NoTwoCycle, new

-----------------------------------------------------------------------------
(* What a call does to the waiting lists.                                  *)

\* Who may leave the list of slot s in this step.
Leavers(s) ==
    {pid \in Pids : \/ Signalled(pid)
                    \/ pid \in Purged(blockedQ_array[s], queue_arr[s].msgs)}

\* Entries leave the list of slot s, and then one may be added.
Relists(s, new) ==
    \E l \in Seq(ProcNode) :
        /\ Thinned(l, blockedQ_array[s], Leavers(s))
        /\ \/ new = l
           \/ \E p \in Pids, recid \in Ids, expected \in Ids \cup {AnySender} :
                 /\ ~check_for_deadlock(l, recid, expected)
                 /\ new = add_to_blocked_receiver_list(l, p, expected, recid)

ListsStep ==
    \/ UNCHANGED blockedQ_array
    \/ \E s \in Slots : /\ queue_arr[s] = NULL
                        /\ blockedQ_array' = [blockedQ_array EXCEPT ![s] = <<>>]
    \/ \E s \in Open : /\ queue_arr'[s] = NULL
                       /\ blockedQ_array' = [blockedQ_array EXCEPT ![s] = NULL]
    \/ \E s \in Open : \E new :
          Relists(s, new) /\ blockedQ_array' = [blockedQ_array EXCEPT ![s] = new]

\* What SendCall sends.
LEMMA SentMessage ==
    ASSUME NEW p \in Pids, SendCall(p)
    PROVE  \E name \in Names, m \in Message :
              /\ do_send_mg_q(p, name, m)
              /\ m.pendingreceiverCount = Len(m.recieverIds)
<1>1. PICK name \in Names, sNo \in Uses[p], rs \in RecvLists,
           prio \in Prios, exp \in Expiries :
              do_send_mg_q(p, name, get_qipc_msg(sNo, rs, prio, exp))
  BY DEF SendCall
<1> DEFINE m == get_qipc_msg(sNo, rs, prio, exp)
<1>2. rs \in Seq(Ids) /\ Len(rs) \in Int /\ sNo \in Ids
  BY ConstantsAssumption, LenProperties DEF ConstantsAssumption
<1>3. m \in Message /\ m.pendingreceiverCount = Len(m.recieverIds)
  BY <1>2 DEF get_qipc_msg, Message
<1> HIDE DEF m
<1> QED
  BY <1>1, <1>3 DEF m

LEMMA SendLists ==
    ASSUME TypesInv, NEW p \in Pids, NEW name \in Names, NEW m \in Message,
           do_send_mg_q(p, name, m)
    PROVE  ListsStep
<1> DEFINE idx  == check_queue_exist(name)
           wake == WakeReceivers(blockedQ_array[idx], m.recieverIds)
<1>1. CASE UNCHANGED blockedQ_array
  BY <1>1 DEF ListsStep
<1>2. CASE /\ idx # NULL
           /\ blockedQ_array' = [blockedQ_array EXCEPT ![idx] = wake.list]
           /\ signals' = check_sig(f_intNotifyChk(m.recieverIds) \cup wake.woken, "SIGUSR1")
  <2>1. idx \in Open /\ blockedQ_array[idx] \in Seq(ProcNode)
    BY <1>2, QueueFound DEF TypesInv
  <2>2. m.recieverIds \in Seq(Ids)
    BY ConstantsAssumption DEF Message, ConstantsAssumption
  <2>3. /\ wake.list \in Seq(ProcNode)
        /\ Thinned(wake.list, blockedQ_array[idx], wake.woken)
        /\ wake.woken \subseteq alive
    BY <2>1, <2>2, WakeReceiversTells
  <2>4. wake.woken \subseteq Leavers(idx)
    <3>1. alive \subseteq Pids
      BY DEF TypesInv, SendersInv
    <3> HIDE DEF wake
    <3>2. \A pid \in wake.woken : <<pid, "SIGUSR1">> \in signals'
      BY <1>2, <2>3 DEF check_sig
    <3> QED
      BY <2>3, <3>1, <3>2 DEF Leavers, Signalled
  <2> HIDE DEF idx, wake
  <2>5. Relists(idx, wake.list)
    BY <2>3, <2>4, ThinnedForMore DEF Relists
  <2> QED
    BY <1>2, <2>1, <2>5 DEF ListsStep
<1> QED
  BY <1>1, <1>2 DEF do_send_mg_q

\* A receive that finds no message.
LEMMA NoMessageLists ==
    ASSUME NEW p \in Pids, NEW idx \in Open, NEW list \in Seq(ProcNode),
           NEW recid \in Ids, NEW expected \in Ids \cup {AnySender}, NEW mayWait,
           Thinned(list, blockedQ_array[idx], Leavers(idx)),
           NoMessage(p, idx, list, recid, expected, mayWait)
    PROVE  ListsStep
<1> DEFINE longer == add_to_blocked_receiver_list(list, p, expected, recid)
<1>1. CASE blockedQ_array' = [blockedQ_array EXCEPT ![idx] = list]
  <2>1. Relists(idx, list)
    BY DEF Relists
  <2> QED
    BY <1>1, <2>1 DEF ListsStep
<1>2. CASE /\ ~check_for_deadlock(list, recid, expected)
           /\ blockedQ_array' = [blockedQ_array EXCEPT ![idx] = longer]
  <2>1. Relists(idx, longer)
    BY <1>2 DEF Relists
  <2> HIDE DEF longer
  <2> QED
    BY <1>2, <2>1 DEF ListsStep
<1> QED
  BY <1>1, <1>2 DEF NoMessage

LEMMA ReceiveLists ==
    ASSUME TypesInv, NEW p \in Pids, NEW name \in Names, NEW recid \in Ids,
           NEW expected \in Ids \cup {AnySender}, NEW mayWait,
           Receive(p, name, recid, expected, mayWait)
    PROVE  ListsStep
<1> DEFINE idx  == check_queue_exist(name)
           msgs == queue_arr[idx].msgs
           wait == blockedQ_array[idx]
           list == StillWaiting(wait, msgs)
<1>1. CASE UNCHANGED blockedQ_array
  BY <1>1 DEF ListsStep
<1>2. CASE idx # NULL
  <2>1. idx \in Open /\ wait \in Seq(ProcNode) /\ msgs \in Seq(Message)
    BY <1>2, QueueFound DEF TypesInv, GoodQueue, Queue
  <2>2. CASE NoMessage(p, idx, wait, recid, expected, mayWait)
    <3>1. Thinned(wait, wait, Leavers(idx))
      BY <2>1, ThinnedFromItself
    <3> HIDE DEF idx
    <3> QED
      BY <2>1, <2>2, <3>1, NoMessageLists
  <2>3. list \in Seq(ProcNode) /\ Thinned(list, wait, Leavers(idx))
    <3> HIDE DEF idx
    <3>1. Purged(wait, msgs) \subseteq Leavers(idx)
      BY DEF Purged, Leavers
    <3>2. list \in Seq(ProcNode) /\ Thinned(list, wait, Purged(wait, msgs))
      BY <2>1, StillWaitingTyped, StillWaitingThins
    <3> HIDE DEF list, wait, msgs
    <3> QED
      BY <3>1, <3>2, ThinnedForMore
  <2>4. CASE NoMessage(p, idx, list, recid, expected, mayWait)
    <3> HIDE DEF idx, list
    <3> QED
      BY <2>1, <2>3, <2>4, NoMessageLists
  <2>5. CASE blockedQ_array' = [blockedQ_array EXCEPT ![idx] = list]
    <3> HIDE DEF idx, list
    <3>1. Relists(idx, list)
      BY <2>3 DEF Relists
    <3> QED
      BY <2>1, <2>5, <3>1 DEF ListsStep
  <2>6. \/ NoMessage(p, idx, wait, recid, expected, mayWait)
        \/ ReceiveFrom(p, idx, recid, expected, mayWait)
    BY <1>2 DEF Receive
  <2> QED
    BY <2>2, <2>4, <2>5, <2>6 DEF ReceiveFrom
<1> QED
  BY <1>1, <1>2 DEF Receive

LEMMA CallLists ==
    ASSUME TypesInv, NEW p \in alive, Call(p)
    PROVE  ListsStep
<1>0. p \in Pids /\ Uses[p] \subseteq Ids
  BY ConstantsAssumption DEF TypesInv, SendersInv, ConstantsAssumption
<1>1. ASSUME NEW name, NEW cap, NEW type, do_open_q(p, name, cap, type)
      PROVE  ListsStep
  <2> DEFINE idx == get_empty_q_slot
  <2>1. idx # NULL => idx \in Slots /\ queue_arr[idx] = NULL
    BY SlotFound
  <2>2. \/ UNCHANGED blockedQ_array
        \/ idx # NULL /\ blockedQ_array' = [blockedQ_array EXCEPT ![idx] = <<>>]
    BY <1>1 DEF do_open_q
  <2> HIDE DEF idx
  <2> QED
    BY <2>1, <2>2 DEF ListsStep
<1>2. ASSUME NEW name, do_close_q(p, name)
      PROVE  ListsStep
  <2> DEFINE idx == check_queue_exist(name)
  <2>1. idx # NULL => idx \in Open
    BY QueueFound DEF TypesInv
  <2>2. \/ UNCHANGED blockedQ_array
        \/ /\ idx # NULL
           /\ queue_arr' = [queue_arr EXCEPT ![idx] = NULL]
           /\ blockedQ_array' = [blockedQ_array EXCEPT ![idx] = NULL]
    BY <1>2 DEF do_close_q
  <2>3. idx \in Open /\ queue_arr' = [queue_arr EXCEPT ![idx] = NULL]
            => queue_arr'[idx] = NULL
    BY DEF TypesInv, TablesInv, Open
  <2> HIDE DEF idx
  <2> QED
    BY <2>1, <2>2, <2>3 DEF ListsStep
<1>3. ASSUME NEW name, NEW cap, NEW type, do_set_attr_q(p, name, cap, type)
      PROVE  ListsStep
  BY <1>3 DEF do_set_attr_q, ListsStep
<1>4. ASSUME NEW name, do_get_attr_q(p, name)
      PROVE  ListsStep
  BY <1>4 DEF do_get_attr_q, ListsStep
<1>5. ASSUME NEW id, do_mqreqnotify(p, id)
      PROVE  ListsStep
  BY <1>5 DEF do_mqreqnotify, ListsStep
<1>6. ASSUME SendCall(p)
      PROVE  ListsStep
  BY <1>0, <1>6, SentMessage, SendLists
<1>7. ASSUME NEW name \in Names, NEW recid \in Uses[p],
             NEW expected \in Ids \cup {AnySender},
             \/ do_res_mg_q(p, name, recid, expected)
             \/ do_blocking_receive(p, name, recid, expected)
      PROVE  ListsStep
  BY <1>0, <1>7, ReceiveLists DEF do_res_mg_q, do_blocking_receive
<1> QED
  BY <1>1, <1>2, <1>3, <1>4, <1>5, <1>6, <1>7 DEF Call

-----------------------------------------------------------------------------
(* Theorems about the waiting lists.                                       *)

LEMMA TwoCycleStep ==
    ASSUME TypesInv, NoReceiverTwoCycle, [Next]_vars
    PROVE  NoReceiverTwoCycle'
<1>0. /\ blockedQ_array \in [Slots -> Seq(ProcNode) \cup {NULL}]
      /\ Open \subseteq Slots /\ \A s \in Open : blockedQ_array[s] \in Seq(ProcNode)
      /\ \A s \in Slots : blockedQ_array[s] # NULL => NoTwoCycle(blockedQ_array[s])
  BY DEF TypesInv, TablesInv, Open, NoReceiverTwoCycle, NoTwoCycle
<1>1. CASE UNCHANGED blockedQ_array
  BY <1>1 DEF NoReceiverTwoCycle
<1>2. ASSUME NEW s \in Slots, NEW new, new = NULL \/ NoTwoCycle(new),
             blockedQ_array' = [blockedQ_array EXCEPT ![s] = new]
      PROVE  NoReceiverTwoCycle'
  BY <1>0, <1>2 DEF NoReceiverTwoCycle, NoTwoCycle
<1>3. ASSUME NEW s \in Open, NEW new, Relists(s, new)
      PROVE  NoTwoCycle(new)
  <2>1. PICK l \in Seq(ProcNode) :
           /\ Thinned(l, blockedQ_array[s], Leavers(s))
           /\ \/ new = l
              \/ \E p \in Pids, recid \in Ids, expected \in Ids \cup {AnySender} :
                    /\ ~check_for_deadlock(l, recid, expected)
                    /\ new = add_to_blocked_receiver_list(l, p, expected, recid)
    BY <1>3 DEF Relists
  <2>2. blockedQ_array[s] \in Seq(ProcNode) /\ NoTwoCycle(blockedQ_array[s])
    BY <1>0, NotNull
  <2>3. NoTwoCycle(l)
    BY <2>1, <2>2, ThinnedHasNoTwoCycle
  <2> QED
    BY <2>1, <2>3, AddedHasNoTwoCycle
<1>4. NoTwoCycle(<<>>)
  BY DEF NoTwoCycle
<1>5. CASE ListsStep
  BY <1>0, <1>1, <1>2, <1>3, <1>4, <1>5 DEF ListsStep
<1> QED
  BY <1>1, <1>5, CallLists DEF Next, vars, Exit, Tick

\* No two entries of one waiting list wait for each other, however many receivers
\* there are and whatever expires or is closed meanwhile.
THEOREM ReceiversHaveNoTwoCycle == Spec => []NoReceiverTwoCycle
<1>1. Init => NoReceiverTwoCycle
  BY DEF Init, NoReceiverTwoCycle
<1>2. TypesInv /\ NoReceiverTwoCycle /\ [Next]_vars => NoReceiverTwoCycle'
  BY TwoCycleStep
<1> QED
  BY <1>1, <1>2, TypesInvInit, TypesInvStep, PTL DEF Spec

\* Why e may leave the list of slot s, in the words of WaiterLeavesForAReason.
HasReason(s, e) ==
    \/ Signalled(e.pid)
    \/ \E i \in DOMAIN queue_arr[s].msgs :
          /\ Expired(queue_arr[s].msgs[i])
          /\ \E f \in ToSet(blockedQ_array[s]) :
                /\ f.pid = e.pid
                /\ f.recid \in ToSet(queue_arr[s].msgs[i].recieverIds)

LEMMA LeaversHaveReasons ==
    ASSUME TypesInv, [Next]_vars, NEW s \in Open, queue_arr'[s] # NULL,
           NEW e \in Leaving(s)
    PROVE  HasReason(s, e)
<1> DEFINE list == blockedQ_array[s]
           msgs == queue_arr[s].msgs
<1>0. /\ s \in Slots /\ list \in Seq(ProcNode) /\ msgs \in Seq(Message)
      /\ blockedQ_array \in [Slots -> Seq(ProcNode) \cup {NULL}]
      /\ queue_arr[s] # NULL
  BY DEF TypesInv, TablesInv, Open, GoodQueue, Queue
<1>1. e \in ToSet(list) /\ (blockedQ_array'[s] # NULL => e \notin ToSet(blockedQ_array'[s]))
  BY DEF Leaving
<1>2. CASE blockedQ_array'[s] = list
  BY <1>0, <1>1, <1>2, NotNull
<1>3. ASSUME NEW new, Relists(s, new),
             blockedQ_array' = [blockedQ_array EXCEPT ![s] = new]
      PROVE  HasReason(s, e)
  <2>1. PICK l \in Seq(ProcNode) :
           /\ Thinned(l, list, Leavers(s))
           /\ \/ new = l
              \/ \E p \in Pids, recid \in Ids, expected \in Ids \cup {AnySender} :
                    new = add_to_blocked_receiver_list(l, p, expected, recid)
    BY <1>3 DEF Relists
  <2>2. new # NULL /\ ToSet(l) \subseteq ToSet(new)
    <3>1. ASSUME NEW p \in Pids, NEW recid \in Ids, NEW expected \in Ids \cup {AnySender},
                 new = add_to_blocked_receiver_list(l, p, expected, recid)
          PROVE  new # NULL /\ ToSet(l) \subseteq ToSet(new)
      <4> DEFINE row == [pid |-> p, recid |-> recid, sendid |-> expected]
      <4>1. row \in ProcNode /\ new = Append(l, row)
        BY <3>1 DEF ProcNode, add_to_blocked_receiver_list
      <4> HIDE DEF row
      <4>2. /\ new \in Seq(ProcNode) /\ Len(new) = Len(l) + 1
            /\ \A k \in 1 .. Len(l) : new[k] = l[k]
        BY <4>1, AppendProperties
      <4>3. DOMAIN new = 1 .. Len(l) + 1 /\ DOMAIN l = 1 .. Len(l) /\ Len(l) \in Nat
        BY <4>2, LenProperties
      <4>4. \A k \in DOMAIN l : k \in DOMAIN new /\ new[k] = l[k]
        BY <4>2, <4>3
      <4> QED
        BY <4>2, <4>4, NotNull DEF ToSet
    <3> QED
      BY <2>1, <3>1, NotNull
  <2>3. e \in ToSet(list) \ ToSet(l)
    BY <1>0, <1>1, <1>3, <2>2
  <2>4. e.pid \in Leavers(s)
    <3> HIDE DEF list
    <3> QED
      BY <1>0, <2>1, <2>3, ThinnedMembers
  <2>5. CASE Signalled(e.pid)
    BY <2>5 DEF HasReason
  <2>6. CASE e.pid \in Purged(list, msgs)
    <3>1. DOMAIN list = 1 .. Len(list) /\ DOMAIN msgs = 1 .. Len(msgs)
      BY <1>0, LenProperties
    <3>2. PICK i \in 1 .. Len(msgs), j \in 1 .. Len(list) :
             /\ Expired(msgs[i]) /\ list[j].pid = e.pid
             /\ list[j].recid \in ToSet(msgs[i].recieverIds)
      BY <2>6 DEF Purged
    <3>3. list[j] \in ToSet(list)
      BY <3>1 DEF ToSet
    <3> QED
      BY <3>1, <3>2, <3>3 DEF HasReason
  <2> QED
    BY <2>4, <2>5, <2>6 DEF Leavers
<1>4. CASE ListsStep
  <2>1. CASE \E t \in Slots : /\ queue_arr[t] = NULL
                              /\ blockedQ_array' = [blockedQ_array EXCEPT ![t] = <<>>]
    BY <1>0, <1>2, <2>1
  <2>2. CASE \E t \in Open : /\ queue_arr'[t] = NULL
                             /\ blockedQ_array' = [blockedQ_array EXCEPT ![t] = NULL]
    BY <1>0, <1>2, <2>2
  <2>3. ASSUME NEW t \in Open, NEW new, Relists(t, new),
               blockedQ_array' = [blockedQ_array EXCEPT ![t] = new]
        PROVE  HasReason(s, e)
    BY <1>0, <1>2, <1>3, <2>3
  <2> QED
    BY <1>2, <1>4, <2>1, <2>2, <2>3 DEF ListsStep
<1> QED
  BY <1>2, <1>4, CallLists DEF Next, vars, Exit, Tick

\* A receiver leaves the waiting list of an open queue only with a signal, or
\* because a message one of its entries waits for has expired.
THEOREM WaitersLeaveForAReason == Spec => WaiterLeavesForAReason
<1>1. TypesInv /\ [Next]_vars =>
         [ \A s \in Open : queue_arr'[s] # NULL =>
              \A e \in Leaving(s) : HasReason(s, e) ]_vars
  BY LeaversHaveReasons
<1> QED
  BY <1>1, TypesInvInit, TypesInvStep, PTL DEF Spec, WaiterLeavesForAReason, HasReason

-----------------------------------------------------------------------------
(* Who is told of a message.                                               *)

\* Only a send is answered with MSG_ADD_SUCCESS.
LEMMA AddedBySend ==
    ASSUME NEW p, Call(p), reply'.code = MSG_ADD_SUCCESS
    PROVE  SendCall(p)
<1> USE DEF Answer, Reply, MSG_ADD_SUCCESS
<1>1. ASSUME NEW name, NEW cap, NEW type, do_open_q(p, name, cap, type)
      PROVE  FALSE
  BY <1>1 DEF do_open_q, QUEUE_OPEN_SUCCESS, QUEUE_ALREADY_EXIST, QUEUE_OPEN_FAIL
<1>2. ASSUME NEW name, do_close_q(p, name)
      PROVE  FALSE
  BY <1>2 DEF do_close_q, QUEUE_NOT_EXIST, QUEUE_CLOSE_SUCCESS
<1>3. ASSUME NEW name, NEW cap, NEW type, do_set_attr_q(p, name, cap, type)
      PROVE  FALSE
  BY <1>3 DEF do_set_attr_q, QUEUE_NOT_EXIST, QUEUE_UPDATE_SUCCESS
<1>4. ASSUME NEW name, do_get_attr_q(p, name)
      PROVE  FALSE
  BY <1>4 DEF do_get_attr_q, QUEUE_NOT_EXIST, QUEUE_UPDATE_SUCCESS
<1>5. ASSUME NEW id, do_mqreqnotify(p, id)
      PROVE  FALSE
  BY <1>5 DEF do_mqreqnotify, NOTIFY_FULL, NOTIFY_OK
<1>6. ASSUME NEW name, NEW recid, NEW expected, NEW mayWait,
             Receive(p, name, recid, expected, mayWait)
      PROVE  FALSE
  BY <1>6 DEF Receive, ReceiveFrom, NoMessage, Deliver, NothingFor,
              QUEUE_NOT_EXIST, MSG_REC_SUCCESS, MSG_REC_NO_MSG, REC_DLOCKED
<1> QED
  BY <1>1, <1>2, <1>3, <1>4, <1>5, <1>6 DEF Call, do_res_mg_q, do_blocking_receive

\* For receiver r, the process that has waited longest under its number and
\* everybody who asked for notification of it, in the words of SendReachesWaiters.
Reached(s, r) ==
    LET list == blockedQ_array[s]
        waiting == {i \in DOMAIN list : list[i].recid = r}
    IN  /\ waiting # {} /\ list[Least(waiting)].pid \in alive
              => Signalled(list[Least(waiting)].pid)
        /\ \A k \in DOMAIN notifiers :
              notifiers[k].id = r /\ notifiers[k].pid \in alive
                  => Signalled(notifiers[k].pid)

LEMMA SendTells ==
    ASSUME TypesInv, NEW p \in Pids, NEW name \in Names, NEW m \in Message,
           do_send_mg_q(p, name, m), reply'.code = MSG_ADD_SUCCESS,
           NEW s \in Open, queue_arr'[s] # queue_arr[s],
           NEW r \in ToSet(Last(queue_arr'[s].msgs).recieverIds)
    PROVE  Reached(s, r)
<1> DEFINE idx  == check_queue_exist(name)
           old  == queue_arr[idx]
           rs   == m.recieverIds
           wake == WakeReceivers(blockedQ_array[idx], rs)
<1>1. /\ idx # NULL
      /\ queue_arr' = [queue_arr EXCEPT ![idx] = add_to_queue(old, m)]
      /\ signals' = check_sig(f_intNotifyChk(rs) \cup wake.woken, "SIGUSR1")
  BY DEF do_send_mg_q, Answer, Reply, MSG_ADD_SUCCESS, QUEUE_NOT_EXIST,
         MSG_ADD_QUEUE_FULL, MSG_ADD_FAIL
<1>2. /\ idx \in Open /\ idx \in Slots /\ old \in GoodQueue
      /\ blockedQ_array[idx] \in Seq(ProcNode)
  BY <1>1, QueueFound DEF TypesInv, Open
<1>3. s = idx /\ queue_arr'[s] = add_to_queue(old, m)
  BY <1>1, <1>2 DEF TypesInv, TablesInv, Open
<1>4. Last(queue_arr'[s].msgs) = m
  <2>1. add_to_queue(old, m).msgs = Append(old.msgs, m) /\ old.msgs \in Seq(Message)
    BY <1>2 DEF add_to_queue, GoodQueue, Queue
  <2> DEFINE new == Append(old.msgs, m)
  <2>2. new[Len(old.msgs) + 1] = m /\ Len(new) = Len(old.msgs) + 1
    BY <2>1, AppendProperties
  <2> QED
    BY <1>3, <2>1, <2>2 DEF Last
<1>5. rs \in Seq(Ids) /\ DOMAIN rs = 1 .. Len(rs)
  BY LenProperties, ConstantsAssumption DEF Message, ConstantsAssumption
<1>6. PICK k \in 1 .. Len(rs) : rs[k] = r
  BY <1>4, <1>5 DEF ToSet
<1> DEFINE list == blockedQ_array[s]
           waiting == {i \in DOMAIN list : list[i].recid = r}
<1>7. ASSUME waiting # {}, list[Least(waiting)].pid \in alive
      PROVE  Signalled(list[Least(waiting)].pid)
  <2>1. list \in Seq(ProcNode) /\ DOMAIN list = 1 .. Len(list) /\ Len(list) \in Nat
    BY <1>2, <1>3, LenProperties
  <2> DEFINE j == Least(waiting)
  <2>2. j \in waiting /\ \A i \in waiting : j <= i
    <3>1. waiting \in SUBSET Nat
      BY <2>1
    <3> HIDE DEF waiting
    <3> QED
      BY <1>7, <3>1, LeastExists DEF Least
  <2>3. j \in 1 .. Len(list) /\ list[j].recid = r
        /\ \A i \in 1 .. Len(list) : list[i].recid = r => j <= i
    BY <2>1, <2>2
  <2>4. wake = WakeReceivers(list, rs)
    BY <1>3
  <2>5. list[j].pid \in alive
    BY <1>7
  <2> HIDE DEF j, list, wake, rs
  <2>6. list[j].pid \in wake.woken
    BY <1>5, <1>6, <2>1, <2>3, <2>4, <2>5, WakeReceiversTells
  <2>7. Signalled(list[j].pid)
    BY <1>1, <2>5, <2>6 DEF Signalled, check_sig
  <2> QED
    BY <2>7 DEF j
<1>8. ASSUME NEW n \in DOMAIN notifiers, notifiers[n].id = r, notifiers[n].pid \in alive
      PROVE  Signalled(notifiers[n].pid)
  <2>1. r \in ToSet(rs)
    BY <1>4
  <2>2. notifiers[n].pid \in f_intNotifyChk(rs)
    BY <1>8, <2>1 DEF f_intNotifyChk
  <2> HIDE DEF rs, wake
  <2> QED
    BY <1>1, <1>8, <2>2 DEF Signalled, check_sig
<1> QED
  BY <1>7, <1>8 DEF Reached

\* A successful send signals, for each of its receivers, the live process that
\* has waited longest under that number and all that asked for notification of it.
THEOREM SendsReachWaiters == Spec => SendReachesWaiters
<1>1. TypesInv /\ [Next]_vars =>
         [ \A s \in Open :
             (reply'.code = MSG_ADD_SUCCESS /\ queue_arr'[s] # queue_arr[s]) =>
                \A r \in ToSet(Last(queue_arr'[s].msgs).recieverIds) : Reached(s, r) ]_vars
  <2> SUFFICES ASSUME TypesInv, Next, reply'.code = MSG_ADD_SUCCESS,
                      NEW s \in Open, queue_arr'[s] # queue_arr[s],
                      NEW r \in ToSet(Last(queue_arr'[s].msgs).recieverIds)
               PROVE  Reached(s, r)
    OBVIOUS
  <2>1. PICK p \in alive : Call(p)
    BY DEF Next, Exit, Tick
  <2>2. p \in Pids
    BY DEF TypesInv, SendersInv
  <2>3. SendCall(p)
    BY <2>1, AddedBySend
  <2> QED
    BY <2>2, <2>3, SentMessage, SendTells
<1> QED
  BY <1>1, TypesInvInit, TypesInvStep, PTL DEF Spec, SendReachesWaiters, Reached

=============================================================================
