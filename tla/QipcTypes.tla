----------------------------- MODULE QipcTypes -----------------------------
(***************************************************************************)
(* The types and the parallel tables of the server of Qipc, for every      *)
(* value of its constants.  The inductive invariant, TypesInv, joins the   *)
(* invariant of QipcProofs to the two tables: each handler fills a free    *)
(* slot, frees one, or changes one in place (TablesStep).                  *)
(***************************************************************************)
EXTENDS QipcProofs, FiniteSetTheorems

-----------------------------------------------------------------------------
(* The loops of get_msg_from_queue.  Whatever set of states a turn of a    *)
(* loop stays in, the loop stays in.                                       *)

\* The loop over the queue that drops expired messages.
LEMMA LiveMessagesStays ==
    ASSUME NEW S, NEW seq, <<>> \in S, NEW n \in Nat, Len(seq) = n,
           \A acc \in S, i \in 1 .. n : KeepLive(acc, seq[i]) \in S
    PROVE  LiveMessages(seq) \in S
<1> DEFINE base    == <<>>
           step(f) == [i \in 0 .. n |->
                          IF i = 0 THEN base ELSE KeepLive(f[i - 1], seq[i])]
           g       == [i \in 1 .. n |-> [acc \in S |-> KeepLive(acc, seq[i])]]
           run     == CHOOSE f : f = step(f)
<1>1. g \in [1 .. n -> [S -> S]]
  OBVIOUS
<1>2. \A i \in 1 .. n, acc \in S : g[i][acc] = KeepLive(acc, seq[i])
  OBVIOUS
<1> HIDE DEF g
<1>3. PICK f : IsRun(f, S, n, base, g)
  BY <1>1, RunExists
<1>4. f = step(f)
  <2>1. f \in [0 .. n -> S] /\ f[0] = base
    BY <1>3 DEF IsRun
  <2>2. ASSUME NEW i \in 0 .. n, i # 0
        PROVE  f[i] = KeepLive(f[i - 1], seq[i])
    <3>1. i \in 1 .. n /\ i - 1 \in 0 .. n
      BY <2>2, SMT
    <3>2. f[i - 1] \in S
      BY <2>1, <3>1
    <3> QED
      BY <1>2, <1>3, <3>1, <3>2 DEF IsRun
  <2> QED
    BY <2>1, <2>2
<1>5. run = step(run)
  <2> HIDE DEF step
  <2> QED
    BY <1>4
<1>6. LiveMessages(seq) = run[n]
  BY DEF LiveMessages, ForEach
<1> HIDE DEF run
<1>7. run[0] = base
  BY <1>5
<1>8. ASSUME NEW i \in 1 .. n, run[i - 1] \in S
      PROVE  run[i] = g[i][run[i - 1]]
  <2>1. i \in 0 .. n /\ i # 0
    OBVIOUS
  <2>2. run[i] = KeepLive(run[i - 1], seq[i])
    BY <1>5, <2>1
  <2> QED
    BY <1>2, <1>8, <2>2
<1> HIDE DEF step
<1>9. run[n] \in S
  BY <1>1, <1>7, <1>8, LoopStays
<1> QED
  BY <1>6, <1>9

\* The loop over the receivers of an expired message.
LEMMA ForgetReceiversStays ==
    ASSUME NEW S, NEW base \in S, NEW seq, NEW n \in Nat, Len(seq) = n,
           \A acc \in S, i \in 1 .. n : ForgetReceiver(acc, seq[i]) \in S
    PROVE  ForgetReceivers(base, seq) \in S
<1> DEFINE step(f) == [i \in 0 .. n |->
                          IF i = 0 THEN base ELSE ForgetReceiver(f[i - 1], seq[i])]
           g       == [i \in 1 .. n |-> [acc \in S |-> ForgetReceiver(acc, seq[i])]]
           run     == CHOOSE f : f = step(f)
<1>1. g \in [1 .. n -> [S -> S]]
  OBVIOUS
<1>2. \A i \in 1 .. n, acc \in S : g[i][acc] = ForgetReceiver(acc, seq[i])
  OBVIOUS
<1> HIDE DEF g
<1>3. PICK f : IsRun(f, S, n, base, g)
  BY <1>1, RunExists
<1>4. f = step(f)
  <2>1. f \in [0 .. n -> S] /\ f[0] = base
    BY <1>3 DEF IsRun
  <2>2. ASSUME NEW i \in 0 .. n, i # 0
        PROVE  f[i] = ForgetReceiver(f[i - 1], seq[i])
    <3>1. i \in 1 .. n /\ i - 1 \in 0 .. n
      BY <2>2, SMT
    <3>2. f[i - 1] \in S
      BY <2>1, <3>1
    <3> QED
      BY <1>2, <1>3, <3>1, <3>2 DEF IsRun
  <2> QED
    BY <2>1, <2>2
<1>5. run = step(run)
  <2> HIDE DEF step
  <2> QED
    BY <1>4
<1>6. ForgetReceivers(base, seq) = run[n]
  BY DEF ForgetReceivers, ForEach
<1> HIDE DEF run
<1>7. run[0] = base
  BY <1>5
<1>8. ASSUME NEW i \in 1 .. n, run[i - 1] \in S
      PROVE  run[i] = g[i][run[i - 1]]
  <2>1. i \in 0 .. n /\ i # 0
    OBVIOUS
  <2>2. run[i] = ForgetReceiver(run[i - 1], seq[i])
    BY <1>5, <2>1
  <2> QED
    BY <1>2, <1>8, <2>2
<1> HIDE DEF step
<1>9. run[n] \in S
  BY <1>1, <1>7, <1>8, LoopStays
<1> QED
  BY <1>6, <1>9

\* The loop over the queue, as far as the waiting list is concerned.
LEMMA StillWaitingStays ==
    ASSUME NEW S, NEW base \in S, NEW seq, NEW n \in Nat, Len(seq) = n,
           \A acc \in S, i \in 1 .. n : ForgetReceiversOf(acc, seq[i]) \in S
    PROVE  StillWaiting(base, seq) \in S
<1> DEFINE step(f) == [i \in 0 .. n |->
                          IF i = 0 THEN base ELSE ForgetReceiversOf(f[i - 1], seq[i])]
           g       == [i \in 1 .. n |-> [acc \in S |-> ForgetReceiversOf(acc, seq[i])]]
           run     == CHOOSE f : f = step(f)
<1>1. g \in [1 .. n -> [S -> S]]
  OBVIOUS
<1>2. \A i \in 1 .. n, acc \in S : g[i][acc] = ForgetReceiversOf(acc, seq[i])
  OBVIOUS
<1> HIDE DEF g
<1>3. PICK f : IsRun(f, S, n, base, g)
  BY <1>1, RunExists
<1>4. f = step(f)
  <2>1. f \in [0 .. n -> S] /\ f[0] = base
    BY <1>3 DEF IsRun
  <2>2. ASSUME NEW i \in 0 .. n, i # 0
        PROVE  f[i] = ForgetReceiversOf(f[i - 1], seq[i])
    <3>1. i \in 1 .. n /\ i - 1 \in 0 .. n
      BY <2>2, SMT
    <3>2. f[i - 1] \in S
      BY <2>1, <3>1
    <3> QED
      BY <1>2, <1>3, <3>1, <3>2 DEF IsRun
  <2> QED
    BY <2>1, <2>2
<1>5. run = step(run)
  <2> HIDE DEF step
  <2> QED
    BY <1>4
<1>6. StillWaiting(base, seq) = run[n]
  BY DEF StillWaiting, ForEach
<1> HIDE DEF run
<1>7. run[0] = base
  BY <1>5
<1>8. ASSUME NEW i \in 1 .. n, run[i - 1] \in S
      PROVE  run[i] = g[i][run[i - 1]]
  <2>1. i \in 0 .. n /\ i # 0
    OBVIOUS
  <2>2. run[i] = ForgetReceiversOf(run[i - 1], seq[i])
    BY <1>5, <2>1
  <2> QED
    BY <1>2, <1>8, <2>2
<1> HIDE DEF step
<1>9. run[n] \in S
  BY <1>1, <1>7, <1>8, LoopStays
<1> QED
  BY <1>6, <1>9

\* The loop that chooses the message names one of the live ones, or none.
LEMMA BestMessageRange ==
    ASSUME NEW msgs, NEW n \in Nat, Len(msgs) = n, NEW recid, NEW expected
    PROVE  BestMessage(msgs, recid, expected) \in 0 .. n
<1> DEFINE S    == 0 .. n
           seq  == [i \in 1 .. n |-> i]
           turn(best, i) ==
               IF /\ Matches(msgs[i], recid, expected)
                  /\ best # 0 => msgs[best].priority > msgs[i].priority
               THEN i ELSE best
           step(f) == [i \in 0 .. n |->
                          IF i = 0 THEN 0 ELSE turn(f[i - 1], seq[i])]
           g    == [i \in 1 .. n |-> [best \in S |-> turn(best, seq[i])]]
           run  == CHOOSE f : f = step(f)
<1>0. Len(seq) = n /\ 0 \in S
  OBVIOUS
<1>1. \A best \in S, i \in 1 .. n : turn(best, seq[i]) \in S
  OBVIOUS
<1>6. BestMessage(msgs, recid, expected) = run[n]
  <2>1. BestMessage(msgs, recid, expected) =
            LET acc[i \in 0 .. Len(seq)] ==
                    IF i = 0 THEN 0 ELSE turn(acc[i - 1], seq[i])
            IN  acc[Len(seq)]
    BY DEF BestMessage, ForEach
  <2> HIDE DEF seq, turn
  <2> QED
    BY <1>0, <2>1
<1> HIDE DEF seq, turn, S
<1>2. g \in [1 .. n -> [S -> S]]
  BY <1>1
<1>3. \A i \in 1 .. n, best \in S : g[i][best] = turn(best, seq[i])
  OBVIOUS
<1> HIDE DEF g
<1>4. PICK f : IsRun(f, S, n, 0, g)
  BY <1>0, <1>2, RunExists
<1>5. f = step(f)
  <2>1. f \in [0 .. n -> S] /\ f[0] = 0
    BY <1>4 DEF IsRun
  <2>2. ASSUME NEW i \in 0 .. n, i # 0
        PROVE  f[i] = turn(f[i - 1], seq[i])
    <3>1. i \in 1 .. n /\ i - 1 \in 0 .. n
      BY <2>2, SMT
    <3>2. f[i - 1] \in S
      BY <2>1, <3>1
    <3> QED
      BY <1>3, <1>4, <3>1, <3>2 DEF IsRun
  <2> QED
    BY <2>1, <2>2
<1>7. run = step(run)
  <2> HIDE DEF step
  <2> QED
    BY <1>5
<1> HIDE DEF run
<1>8. run[0] = 0
  BY <1>7
<1>9. ASSUME NEW i \in 1 .. n, run[i - 1] \in S
      PROVE  run[i] = g[i][run[i - 1]]
  <2>1. i \in 0 .. n /\ i # 0
    OBVIOUS
  <2>2. run[i] = turn(run[i - 1], seq[i])
    BY <1>7, <2>1
  <2> QED
    BY <1>3, <1>9, <2>2
<1> HIDE DEF step
<1>10. run[n] \in S
  BY <1>0, <1>2, <1>8, <1>9, LoopStays
<1> QED
  BY <1>6, <1>10 DEF S

-----------------------------------------------------------------------------
(* The waiting lists and the queues keep their types.                      *)

\* Taking the first entry of a process out of a waiting list.
LEMMA DeleteTyped ==
    ASSUME NEW list \in Seq(ProcNode), NEW pid
    PROVE  delete_from_blocked_receiver_list(list, pid) \in Seq(ProcNode)
<1> DEFINE hit == {k \in 1 .. Len(list) : list[k].pid = pid}
           new == delete_from_blocked_receiver_list(list, pid)
<1>1. Len(list) \in Nat
  BY LenProperties
<1>2. CASE hit = {}
  <2>1. new = list
    BY <1>2 DEF delete_from_blocked_receiver_list, RemoveFirstMatch
  <2> QED
    BY <2>1
<1>3. CASE hit # {}
  <2>1. new = RemoveAt(list, Min(hit))
    BY <1>3 DEF delete_from_blocked_receiver_list, RemoveFirstMatch, SelectInSeq
  <2>2. Min(hit) \in 1 .. Len(list)
    <3>1. hit \in SUBSET Nat
      BY <1>1
    <3> QED
      BY <1>3, <3>1, MinProperty
  <2> QED
    BY <2>1, <2>2, RemoveAtProperties
<1> QED
  BY <1>2, <1>3

\* do_send_mg_q's loop over the receivers leaves a waiting list.
LEMMA WakeTyped ==
    ASSUME NEW list \in Seq(ProcNode), NEW rs \in Seq(Ids)
    PROVE  WakeReceivers(list, rs).list \in Seq(ProcNode)
<1> DEFINE S == [list : Seq(ProcNode), woken : {w \in SUBSET alive : TRUE}]
<1>1. Len(rs) \in Nat
  BY LenProperties
<1>2. [list |-> list, woken |-> {}] \in S
  OBVIOUS
<1>3. ASSUME NEW acc \in S, NEW i \in 1 .. Len(rs)
      PROVE  WakeReceiver(acc, rs[i]) \in S
  <2>1. acc.list \in Seq(ProcNode) /\ acc.woken \subseteq alive
    OBVIOUS
  <2> DEFINE pid == if_present_blocked_receiver_list(acc.list, rs[i])
  <2>2. WakeReceiver(acc, rs[i]) =
            IF pid \in alive
            THEN [list  |-> delete_from_blocked_receiver_list(acc.list, pid),
                  woken |-> acc.woken \cup {pid}]
            ELSE acc
    BY DEF WakeReceiver
  <2> HIDE DEF pid
  <2>3. delete_from_blocked_receiver_list(acc.list, pid) \in Seq(ProcNode)
    BY <2>1, DeleteTyped
  <2> QED
    BY <2>1, <2>2, <2>3
<1> HIDE DEF S
<1>4. WakeReceivers(list, rs) \in S
  BY <1>1, <1>2, <1>3, WakeReceiversStays
<1> QED
  BY <1>4 DEF S

\* So do the loops of get_msg_from_queue over expired messages.
LEMMA StillWaitingTyped ==
    ASSUME NEW list \in Seq(ProcNode), NEW msgs \in Seq(Message)
    PROVE  StillWaiting(list, msgs) \in Seq(ProcNode)
<1>1. Len(msgs) \in Nat
  BY LenProperties
<1>2. ASSUME NEW acc \in Seq(ProcNode), NEW rs \in Seq(Ids)
      PROVE  ForgetReceivers(acc, rs) \in Seq(ProcNode)
  <2>1. Len(rs) \in Nat
    BY LenProperties
  <2>2. \A l \in Seq(ProcNode), i \in 1 .. Len(rs) :
            ForgetReceiver(l, rs[i]) \in Seq(ProcNode)
    BY DeleteTyped DEF ForgetReceiver
  <2> QED
    BY <2>1, <2>2, ForgetReceiversStays
<1>3. ASSUME NEW acc \in Seq(ProcNode), NEW i \in 1 .. Len(msgs)
      PROVE  ForgetReceiversOf(acc, msgs[i]) \in Seq(ProcNode)
  <2>1. msgs[i] \in Message
    BY ElementOfSeq
  <2>2. msgs[i].recieverIds \in Seq(Ids)
    BY <2>1, ConstantsAssumption DEF Message, ConstantsAssumption
  <2> QED
    BY <1>2, <2>2 DEF ForgetReceiversOf
<1> QED
  BY <1>1, <1>3, StillWaitingStays

\* A queue whose currentcount is the length of its list.
GoodQueue == {q \in Queue : q.currentcount = Len(q.msgs)}

Relisted(q, ms, n) == [q EXCEPT !.msgs = ms, !.currentcount = n]

\* A queue with another list of messages, counted right.
LEMMA CountedList ==
    ASSUME NEW q \in Queue, NEW ms \in Seq(Message), NEW n, n = Len(ms)
    PROVE  Relisted(q, ms, n) \in GoodQueue /\ Relisted(q, ms, n).name = q.name
<1> DEFINE r == Relisted(q, ms, n)
<1>1. n \in Int
  BY LenProperties
<1>2. r \in Queue
  BY <1>1 DEF Queue, Relisted
<1>3. r.msgs = ms /\ r.currentcount = n /\ r.name = q.name
  BY DEF Queue, Relisted
<1> HIDE DEF r
<1>4. r \in GoodQueue
  BY <1>2, <1>3 DEF GoodQueue
<1> QED
  BY <1>3, <1>4 DEF r

\* The purge lowers currentcount by what it drops.
LEMMA PurgeGood ==
    ASSUME NEW q \in GoodQueue
    PROVE  PurgeExpired(q) \in GoodQueue /\ PurgeExpired(q).name = q.name
<1> DEFINE live == LiveMessages(q.msgs)
<1>1. q.msgs \in Seq(Message) /\ q \in Queue /\ q.currentcount = Len(q.msgs)
  BY DEF GoodQueue, Queue
<1>2. Len(q.msgs) \in Nat
  BY <1>1, LenProperties
<1>3. live \in Seq(Message)
  <2>1. \A acc \in Seq(Message), i \in 1 .. Len(q.msgs) :
            KeepLive(acc, q.msgs[i]) \in Seq(Message)
    <3>1. \A i \in 1 .. Len(q.msgs) : q.msgs[i] \in Message
      BY <1>1, ElementOfSeq
    <3> QED
      BY <3>1, AppendProperties DEF KeepLive
  <2>2. <<>> \in Seq(Message)
    OBVIOUS
  <2> QED
    BY <1>2, <2>1, <2>2, LiveMessagesStays
<1>4. PurgeExpired(q) = [q EXCEPT !.msgs = live,
                              !.currentcount = @ - (Len(q.msgs) - Len(live))]
  BY DEF PurgeExpired
<1> HIDE DEF live
<1>5. Len(live) \in Nat
  BY <1>3, LenProperties
<1> DEFINE n == q.currentcount - (Len(q.msgs) - Len(live))
<1>6. PurgeExpired(q) = Relisted(q, live, n)
  BY <1>4 DEF Relisted
<1>7. n = Len(live)
  BY <1>1, <1>2, <1>5
<1> HIDE DEF n
<1> QED
  BY <1>1, <1>3, <1>6, <1>7, CountedList

\* Taking a message lowers currentcount when the message leaves.
LEMMA ConsumeGood ==
    ASSUME NEW q \in GoodQueue, NEW i \in 1 .. Len(q.msgs)
    PROVE  Consume(q, i) \in GoodQueue /\ Consume(q, i).name = q.name
<1> DEFINE ms == q.msgs
<1>1. ms \in Seq(Message) /\ q \in Queue /\ q.currentcount = Len(ms)
  BY DEF GoodQueue, Queue
<1>2. Len(ms) \in Nat /\ ms[i] \in Message
  BY <1>1, LenProperties, ElementOfSeq
<1>3. CASE ms[i].pendingreceiverCount = 1
  <2>1. Consume(q, i) = [q EXCEPT !.msgs = RemoveAt(ms, i), !.currentcount = @ - 1]
    BY <1>3 DEF Consume, remove_node
  <2>2. RemoveAt(ms, i) \in Seq(Message) /\ Len(RemoveAt(ms, i)) = Len(ms) - 1
    BY <1>1, RemoveAtProperties
  <2> DEFINE rest == RemoveAt(ms, i)
  <2> HIDE DEF rest
  <2>3. /\ Consume(q, i) = [q EXCEPT !.msgs = rest, !.currentcount = @ - 1]
        /\ rest \in Seq(Message) /\ Len(rest) = Len(ms) - 1
    BY <2>1, <2>2 DEF rest
  <2> DEFINE n == q.currentcount - 1
  <2>4. Consume(q, i) = Relisted(q, rest, n)
    BY <2>3 DEF Relisted
  <2>5. n = Len(rest)
    BY <1>1, <2>3
  <2> HIDE DEF n
  <2> QED
    BY <1>1, <2>3, <2>4, <2>5, CountedList
<1>4. CASE ms[i].pendingreceiverCount # 1
  <2> DEFINE row == [ms[i] EXCEPT !.pendingreceiverCount = @ - 1]
             new == [ms EXCEPT ![i] = row]
  <2>1. Consume(q, i) = [q EXCEPT !.msgs = new]
    BY <1>4 DEF Consume
  <2>2. row \in Message
    BY <1>2 DEF Message
  <2> HIDE DEF row
  <2>3. new \in Seq(Message) /\ Len(new) = Len(ms)
    BY <1>1, <2>2, ExceptSeq
  <2> HIDE DEF new
  <2>4. [q EXCEPT !.msgs = new] \in Queue
    BY <1>1, <2>3 DEF Queue
  <2>5. /\ [q EXCEPT !.msgs = new].msgs = new
        /\ [q EXCEPT !.msgs = new].currentcount = q.currentcount
        /\ [q EXCEPT !.msgs = new].name = q.name
    BY <1>1 DEF Queue
  <2> QED
    BY <1>1, <2>1, <2>3, <2>4, <2>5 DEF GoodQueue
<1> QED
  BY <1>3, <1>4

\* Adding a message raises currentcount by one.
LEMMA AddGood ==
    ASSUME NEW q \in GoodQueue, NEW m \in Message
    PROVE  add_to_queue(q, m) \in GoodQueue /\ add_to_queue(q, m).name = q.name
<1>1. q.msgs \in Seq(Message) /\ q \in Queue /\ q.currentcount = Len(q.msgs)
  BY DEF GoodQueue, Queue
<1> DEFINE new == Append(q.msgs, m)
<1>2. /\ Len(q.msgs) \in Nat /\ new \in Seq(Message) /\ Len(new) = Len(q.msgs) + 1
  BY <1>1, LenProperties, AppendProperties
<1>3. add_to_queue(q, m) = [q EXCEPT !.msgs = new, !.currentcount = @ + 1]
  BY DEF add_to_queue
<1> HIDE DEF new
<1> DEFINE n == q.currentcount + 1
<1>4. add_to_queue(q, m) = Relisted(q, new, n)
  BY <1>3 DEF Relisted
<1>5. n = Len(new)
  BY <1>1, <1>2
<1> HIDE DEF n
<1> QED
  BY <1>1, <1>2, <1>4, <1>5, CountedList

-----------------------------------------------------------------------------
(* The tables of queues and of waiting lists.                              *)

TablesInv ==
    /\ queue_arr \in [Slots -> GoodQueue \cup {NULL}]
    /\ blockedQ_array \in [Slots -> Seq(ProcNode) \cup {NULL}]
    /\ queue_count = Cardinality(Open)
    /\ \A s \in Slots : queue_arr[s] = NULL <=> blockedQ_array[s] = NULL
    /\ \A s, t \in Open : queue_arr[s].name = queue_arr[t].name => s = t

\* What one handler may do to the tables: fill a free slot under a new name,
\* free a slot, or change a queue and its waiting list in place.
Opened(s, q) ==
    /\ queue_arr[s] = NULL
    /\ \A t \in Open : queue_arr[t].name # q.name
    /\ queue_arr' = [queue_arr EXCEPT ![s] = q]
    /\ blockedQ_array' = [blockedQ_array EXCEPT ![s] = <<>>]
    /\ queue_count' = queue_count + 1

Closed(s) ==
    /\ queue_arr' = [queue_arr EXCEPT ![s] = NULL]
    /\ blockedQ_array' = [blockedQ_array EXCEPT ![s] = NULL]
    /\ queue_count' = queue_count - 1

Updated(s, q, list) ==
    /\ q.name = queue_arr[s].name
    /\ queue_arr' = [queue_arr EXCEPT ![s] = q]
    /\ blockedQ_array' = [blockedQ_array EXCEPT ![s] = list]
    /\ UNCHANGED queue_count

TablesStep ==
    \/ UNCHANGED <<queue_arr, queue_count, blockedQ_array>>
    \/ \E s \in Slots, q \in GoodQueue : Opened(s, q)
    \/ \E s \in Open : Closed(s)
    \/ \E s \in Open, q \in GoodQueue, list \in Seq(ProcNode) : Updated(s, q, list)

\* There are finitely many slots, so the open ones can be counted.
LEMMA OpenCounted ==
    /\ IsFiniteSet(Open) /\ Cardinality(Open) \in 0 .. MaxQ
<1>1. MaxQ \in Nat
  BY ConstantsAssumption DEF ConstantsAssumption
<1>2. IsFiniteSet(Slots) /\ Cardinality(Slots) = MaxQ
  <2>1. 0 \in Int /\ MaxQ - 1 \in Int /\ (0 > MaxQ - 1 => MaxQ = 0)
    BY <1>1
  <2>2. IsFiniteSet(0 .. MaxQ - 1)
        /\ Cardinality(0 .. MaxQ - 1) = IF 0 > MaxQ - 1 THEN 0 ELSE (MaxQ - 1) - 0 + 1
    BY <2>1, FS_Interval
  <2> QED
    BY <1>1, <2>1, <2>2 DEF Slots
<1>3. Open \in SUBSET Slots
  BY DEF Open
<1>4. IsFiniteSet(Open) /\ Cardinality(Open) <= Cardinality(Slots)
  BY <1>2, <1>3, FS_Subset
<1>5. Cardinality(Open) \in Nat
  BY <1>4, FS_CardinalityType
<1> QED
  BY <1>1, <1>2, <1>4, <1>5

\* No queue and no waiting list is the null pointer.
LEMMA NotNull ==
    /\ \A q \in GoodQueue : q # NULL
    /\ \A list \in Seq(ProcNode) : list # NULL
BY NullAssumption DEF NullAssumption, GoodQueue

LEMMA OpenedSafe ==
    ASSUME TablesInv, NEW s \in Slots, NEW q \in GoodQueue, Opened(s, q)
    PROVE  TablesInv'
<1>1. /\ queue_arr' \in [Slots -> GoodQueue \cup {NULL}]
      /\ queue_arr'[s] = q /\ \A t \in Slots \ {s} : queue_arr'[t] = queue_arr[t]
  BY DEF TablesInv, Opened
<1>2. /\ blockedQ_array' \in [Slots -> Seq(ProcNode) \cup {NULL}]
      /\ blockedQ_array'[s] = <<>>
      /\ \A t \in Slots \ {s} : blockedQ_array'[t] = blockedQ_array[t]
  <2>1. <<>> \in Seq(ProcNode)
    OBVIOUS
  <2> QED
    BY <2>1 DEF TablesInv, Opened
<1>3. Open' = Open \cup {s} /\ s \notin Open
  BY <1>1, NotNull DEF Opened, Open
<1>4. queue_count' = Cardinality(Open')
  <2>1. Cardinality(Open \cup {s}) = Cardinality(Open) + 1
    BY <1>3, OpenCounted, FS_AddElement
  <2> QED
    BY <1>3, <2>1 DEF TablesInv, Opened
<1>5. \A t \in Slots : queue_arr'[t] = NULL <=> blockedQ_array'[t] = NULL
  <2>1. q # NULL /\ <<>> # NULL
    <3>1. <<>> \in Seq(ProcNode)
      OBVIOUS
    <3> QED
      BY <3>1, NotNull
  <2> QED
    BY <1>1, <1>2, <2>1 DEF TablesInv
<1>6. \A t, u \in Open' : queue_arr'[t].name = queue_arr'[u].name => t = u
  <2>1. \A t \in Open : t \in Slots \ {s}
    BY <1>3 DEF Open
  <2>2. \A t \in Open : queue_arr'[t] = queue_arr[t] /\ queue_arr[t].name # q.name
    BY <1>1, <2>1 DEF Opened
  <2> QED
    BY <1>1, <1>3, <2>2 DEF TablesInv
<1> QED
  BY <1>1, <1>2, <1>4, <1>5, <1>6 DEF TablesInv

LEMMA ClosedSafe ==
    ASSUME TablesInv, NEW s \in Open, Closed(s)
    PROVE  TablesInv'
<1>0. s \in Slots
  BY DEF Open
<1>1. /\ queue_arr' \in [Slots -> GoodQueue \cup {NULL}]
      /\ queue_arr'[s] = NULL /\ \A t \in Slots \ {s} : queue_arr'[t] = queue_arr[t]
  BY <1>0 DEF TablesInv, Closed
<1>2. /\ blockedQ_array' \in [Slots -> Seq(ProcNode) \cup {NULL}]
      /\ blockedQ_array'[s] = NULL
      /\ \A t \in Slots \ {s} : blockedQ_array'[t] = blockedQ_array[t]
  BY <1>0 DEF TablesInv, Closed
<1>3. Open' = Open \ {s}
  BY <1>1 DEF Open
<1>4. queue_count' = Cardinality(Open')
  <2>1. Cardinality(Open \ {s}) = Cardinality(Open) - 1
    BY OpenCounted, FS_RemoveElement
  <2> QED
    BY <1>3, <2>1 DEF TablesInv, Closed
<1>5. \A t \in Slots : queue_arr'[t] = NULL <=> blockedQ_array'[t] = NULL
  BY <1>1, <1>2 DEF TablesInv
<1>6. \A t, u \in Open' : queue_arr'[t].name = queue_arr'[u].name => t = u
  <2>1. \A t \in Open' : t \in Open /\ queue_arr'[t] = queue_arr[t]
    BY <1>1, <1>3 DEF Open
  <2> QED
    BY <2>1 DEF TablesInv
<1> QED
  BY <1>1, <1>2, <1>4, <1>5, <1>6 DEF TablesInv

LEMMA UpdatedSafe ==
    ASSUME TablesInv, NEW s \in Open, NEW q \in GoodQueue,
           NEW list \in Seq(ProcNode), Updated(s, q, list)
    PROVE  TablesInv'
<1>0. s \in Slots
  BY DEF Open
<1>1. /\ queue_arr' \in [Slots -> GoodQueue \cup {NULL}]
      /\ queue_arr'[s] = q /\ \A t \in Slots \ {s} : queue_arr'[t] = queue_arr[t]
  BY <1>0 DEF TablesInv, Updated
<1>2. /\ blockedQ_array' \in [Slots -> Seq(ProcNode) \cup {NULL}]
      /\ blockedQ_array'[s] = list
      /\ \A t \in Slots \ {s} : blockedQ_array'[t] = blockedQ_array[t]
  BY <1>0 DEF TablesInv, Updated
<1>3. Open' = Open
  BY <1>1, NotNull DEF Open
<1>4. queue_count' = Cardinality(Open')
  BY <1>3 DEF TablesInv, Updated
<1>5. \A t \in Slots : queue_arr'[t] = NULL <=> blockedQ_array'[t] = NULL
  BY <1>1, <1>2, NotNull DEF TablesInv
<1>6. \A t, u \in Open' : queue_arr'[t].name = queue_arr'[u].name => t = u
  <2>1. \A t \in Open : queue_arr'[t].name = queue_arr[t].name
    BY <1>1 DEF Open, Updated
  <2> QED
    BY <1>3, <2>1 DEF TablesInv
<1> QED
  BY <1>1, <1>2, <1>4, <1>5, <1>6 DEF TablesInv

LEMMA TablesStepSafe ==
    ASSUME TablesInv, TablesStep
    PROVE  TablesInv'
<1>1. CASE UNCHANGED <<queue_arr, queue_count, blockedQ_array>>
  BY <1>1 DEF TablesInv, Open
<1> QED
  BY <1>1, OpenedSafe, ClosedSafe, UpdatedSafe DEF TablesStep

\* check_queue_exist finds the open queue of that name, if there is one.
LEMMA QueueFound ==
    ASSUME TablesInv, NEW name
    PROVE  /\ check_queue_exist(name) = NULL =>
                 \A t \in Open : queue_arr[t].name # name
           /\ check_queue_exist(name) # NULL =>
                 /\ check_queue_exist(name) \in Open
                 /\ queue_arr[check_queue_exist(name)] \in GoodQueue
                 /\ queue_arr[check_queue_exist(name)].name = name
                 /\ blockedQ_array[check_queue_exist(name)] \in Seq(ProcNode)
<1> DEFINE hits == {s \in Slots : queue_arr[s] # NULL /\ queue_arr[s].name = name}
<1>1. check_queue_exist(name) = IF hits = {} THEN NULL ELSE Least(hits)
  BY DEF check_queue_exist
<1>2. hits # {} => Least(hits) \in hits
  <2>1. hits \in SUBSET Nat
    BY DEF Slots
  <2> HIDE DEF hits
  <2> QED
    BY <2>1, LeastExists DEF Least
<1>3. NULL \notin Slots
  BY NullAssumption DEF NullAssumption
<1>4. CASE hits = {}
  BY <1>1, <1>4 DEF Open
<1>5. CASE hits # {}
  <2>1. Least(hits) \in hits /\ check_queue_exist(name) = Least(hits)
    BY <1>1, <1>2, <1>5
  <2> QED
    BY <1>3, <2>1 DEF Open, TablesInv
<1> QED
  BY <1>4, <1>5

\* get_empty_q_slot finds a free slot, if there is one.
LEMMA SlotFound ==
    ASSUME get_empty_q_slot # NULL
    PROVE  get_empty_q_slot \in Slots /\ queue_arr[get_empty_q_slot] = NULL
<1> DEFINE free == {s \in Slots : queue_arr[s] = NULL}
<1>1. get_empty_q_slot = Least(free) /\ free # {}
  BY DEF get_empty_q_slot
<1>2. free \in SUBSET Nat
  BY DEF Slots
<1> HIDE DEF free
<1>3. Least(free) \in free
  BY <1>1, <1>2, LeastExists DEF Least
<1> QED
  BY <1>1, <1>3 DEF free

-----------------------------------------------------------------------------
(* The other variables, and the handlers one by one.                       *)

RestOK ==
    /\ notifiers \in Seq([pid : Pids, id : Ids]) /\ Len(notifiers) <= MaxNotifier
    /\ clock \in 0 .. MaxTime
    /\ reply.pid \in Pids \cup {NULL}
    /\ signals \subseteq Signal

TypesInv == SendersInv /\ TablesInv /\ RestOK

\* What a handler called by p does to the variables of RestOK, but for
\* do_mqreqnotify.
Answered(p) ==
    /\ reply'.pid = p
    /\ signals' \subseteq Signal
    /\ UNCHANGED <<notifiers, clock>>

LEMMA AnsweredOK ==
    ASSUME RestOK, NEW p \in Pids, Answered(p)
    PROVE  RestOK'
BY DEF RestOK, Answered

\* A signal goes to a live process, whomever it was meant for.
LEMMA SignalsTyped ==
    ASSUME alive \subseteq Pids, NEW ps
    PROVE  check_sig(ps, "SIGUSR1") \subseteq Signal /\ check_sig(ps, "SIGUSR2") \subseteq Signal
BY DEF check_sig, Signal

LEMMA OpenCall ==
    ASSUME TypesInv, NEW p \in Pids, NEW name \in Names, NEW cap \in Caps,
           NEW type \in Types, do_open_q(p, name, cap, type)
    PROVE  TablesStep /\ Answered(p)
<1>1. Answered(p)
  BY DEF do_open_q, Answered, Answer, Reply
<1>2. CASE UNCHANGED <<queue_arr, queue_count, blockedQ_array>>
  BY <1>1, <1>2 DEF TablesStep
<1> DEFINE idx == get_empty_q_slot
           q   == [name |-> name, capacity |-> CappedCapacity(cap),
                   currentcount |-> 0, blocking |-> type, msgs |-> <<>>]
<1>3. CASE /\ idx # NULL /\ check_queue_exist(name) = NULL
           /\ queue_arr' = [queue_arr EXCEPT ![idx] = q]
           /\ blockedQ_array' = [blockedQ_array EXCEPT ![idx] = <<>>]
           /\ queue_count' = queue_count + 1
  <2>1. idx \in Slots /\ queue_arr[idx] = NULL
    BY <1>3, SlotFound
  <2>2. q \in GoodQueue /\ q.name = name
    <3>1. CappedCapacity(cap) \in Int /\ type \in QueueTypes
      BY ConstantsAssumption DEF ConstantsAssumption, CappedCapacity
    <3>2. <<>> \in Seq(Message) /\ Len(<<>>) = 0
      OBVIOUS
    <3> QED
      BY <3>1, <3>2 DEF GoodQueue, Queue
  <2>3. \A t \in Open : queue_arr[t].name # name
    BY <1>3, QueueFound DEF TypesInv
  <2> HIDE DEF idx, q
  <2>4. Opened(idx, q)
    BY <1>3, <2>1, <2>2, <2>3 DEF Opened
  <2> QED
    BY <1>1, <2>1, <2>2, <2>4 DEF TablesStep
<1> QED
  BY <1>2, <1>3 DEF do_open_q

LEMMA CloseCall ==
    ASSUME TypesInv, NEW p \in Pids, NEW name \in Names, do_close_q(p, name)
    PROVE  TablesStep /\ Answered(p)
<1>1. Answered(p)
  BY DEF do_close_q, Answered, Answer, Reply
<1>2. CASE UNCHANGED <<queue_arr, queue_count, blockedQ_array>>
  BY <1>1, <1>2 DEF TablesStep
<1> DEFINE idx == check_queue_exist(name)
<1>3. CASE idx # NULL /\ Closed(idx)
  <2>1. idx \in Open
    BY <1>3, QueueFound DEF TypesInv
  <2> QED
    BY <1>1, <1>3, <2>1 DEF TablesStep
<1> QED
  BY <1>2, <1>3 DEF do_close_q, Closed

LEMMA SetAttrCall ==
    ASSUME TypesInv, NEW p \in Pids, NEW name \in Names, NEW cap \in Caps,
           NEW type \in Types, do_set_attr_q(p, name, cap, type)
    PROVE  TablesStep /\ Answered(p)
<1>1. Answered(p)
  BY DEF do_set_attr_q, Answered, Answer, Reply
<1>2. CASE UNCHANGED <<queue_arr, queue_count, blockedQ_array>>
  BY <1>1, <1>2 DEF TablesStep
<1> DEFINE idx == check_queue_exist(name)
           old == queue_arr[idx]
           q   == [old EXCEPT !.capacity = CappedCapacity(cap), !.blocking = type]
<1>3. CASE idx # NULL /\ queue_arr' = [queue_arr EXCEPT ![idx] = q]
  <2>1. idx \in Open /\ old \in GoodQueue /\ blockedQ_array[idx] \in Seq(ProcNode)
    BY <1>3, QueueFound DEF TypesInv
  <2>2. q \in GoodQueue /\ q.name = old.name
    <3>1. CappedCapacity(cap) \in Int /\ type \in QueueTypes
      BY ConstantsAssumption DEF ConstantsAssumption, CappedCapacity
    <3>2. q \in Queue /\ q.currentcount = old.currentcount /\ q.msgs = old.msgs
                    /\ q.name = old.name
      BY <2>1, <3>1 DEF GoodQueue, Queue
    <3> HIDE DEF q
    <3> QED
      BY <2>1, <3>2 DEF GoodQueue
  <2>3. UNCHANGED <<queue_count, blockedQ_array>>
    BY DEF do_set_attr_q
  <2>4. blockedQ_array = [blockedQ_array EXCEPT ![idx] = blockedQ_array[idx]]
    BY DEF TypesInv, TablesInv
  <2> HIDE DEF idx, q
  <2>5. Updated(idx, q, blockedQ_array[idx])
    BY <1>3, <2>2, <2>3, <2>4 DEF Updated
  <2> QED
    BY <1>1, <2>1, <2>2, <2>5 DEF TablesStep
<1> QED
  BY <1>2, <1>3 DEF do_set_attr_q

LEMMA GetAttrCall ==
    ASSUME NEW p \in Pids, NEW name \in Names, do_get_attr_q(p, name)
    PROVE  TablesStep /\ Answered(p)
BY DEF do_get_attr_q, Answered, Answer, Reply, TablesStep

\* The one handler that changes the notification requests.
LEMMA NotifyCall ==
    ASSUME TypesInv, NEW p \in Pids, NEW id \in Ids, do_mqreqnotify(p, id)
    PROVE  TablesStep /\ RestOK'
<1>1. TablesStep
  BY DEF do_mqreqnotify, TablesStep
<1>2. /\ notifiers \in Seq([pid : Pids, id : Ids]) /\ Len(notifiers) \in Nat
      /\ Len(notifiers) <= MaxNotifier /\ MaxNotifier \in Nat
  BY ConstantsAssumption, LenProperties DEF TypesInv, RestOK, ConstantsAssumption
<1>3. /\ notifiers' \in Seq([pid : Pids, id : Ids]) /\ Len(notifiers') <= MaxNotifier
  <2>1. CASE UNCHANGED notifiers
    BY <1>2, <2>1
  <2> DEFINE row == [pid |-> p, id |-> id]
  <2>2. CASE ~NotifierTableFull /\ notifiers' = Append(notifiers, row)
    <3>1. row \in [pid : Pids, id : Ids]
      OBVIOUS
    <3> HIDE DEF row
    <3>2. /\ notifiers' \in Seq([pid : Pids, id : Ids])
          /\ Len(notifiers') = Len(notifiers) + 1
      BY <1>2, <2>2, <3>1, AppendProperties
    <3>3. Len(notifiers) # MaxNotifier
      BY <2>2 DEF NotifierTableFull
    <3> QED
      BY <1>2, <3>2, <3>3
  <2> QED
    BY <2>1, <2>2 DEF do_mqreqnotify
<1>4. reply'.pid = p /\ signals' \subseteq Signal /\ UNCHANGED clock
  BY DEF do_mqreqnotify, Answer, Reply
<1> QED
  BY <1>1, <1>3, <1>4 DEF TypesInv, RestOK

LEMMA SendTables ==
    ASSUME TypesInv, NEW p \in Pids, NEW name \in Names, NEW m \in Message,
           do_send_mg_q(p, name, m)
    PROVE  TablesStep /\ Answered(p)
<1>1. Answered(p)
  <2>1. reply'.pid = p /\ UNCHANGED <<notifiers, clock>>
    BY DEF do_send_mg_q, Answer, Reply
  <2>2. \E ps : signals' = check_sig(ps, "SIGUSR1") \/ signals' = check_sig(ps, "SIGUSR2")
    BY DEF do_send_mg_q
  <2> QED
    BY <2>1, <2>2, SignalsTyped DEF Answered, TypesInv, SendersInv
<1>2. CASE UNCHANGED <<queue_arr, blockedQ_array>>
  BY <1>1, <1>2 DEF TablesStep, do_send_mg_q
<1> DEFINE idx == check_queue_exist(name)
           q   == add_to_queue(queue_arr[idx], m)
           list == WakeReceivers(blockedQ_array[idx], m.recieverIds).list
<1>3. ASSUME idx # NULL
      PROVE  /\ idx \in Open /\ queue_arr[idx] \in GoodQueue
             /\ blockedQ_array[idx] \in Seq(ProcNode)
             /\ q \in GoodQueue /\ q.name = queue_arr[idx].name
             /\ list \in Seq(ProcNode)
  <2>1. /\ idx \in Open /\ queue_arr[idx] \in GoodQueue
        /\ blockedQ_array[idx] \in Seq(ProcNode)
    BY <1>3, QueueFound DEF TypesInv
  <2>2. m.recieverIds \in Seq(Ids)
    BY ConstantsAssumption DEF Message, ConstantsAssumption
  <2>3. list \in Seq(ProcNode)
    BY <2>1, <2>2, WakeTyped
  <2> QED
    BY <2>1, <2>3, AddGood
<1>4. UNCHANGED queue_count
  BY DEF do_send_mg_q
<1>5. CASE /\ idx # NULL /\ queue_arr' = [queue_arr EXCEPT ![idx] = q]
           /\ UNCHANGED blockedQ_array
  <2>1. blockedQ_array = [blockedQ_array EXCEPT ![idx] = blockedQ_array[idx]]
    BY DEF TypesInv, TablesInv
  <2> HIDE DEF idx, q
  <2>2. Updated(idx, q, blockedQ_array[idx])
    BY <1>3, <1>4, <1>5, <2>1 DEF Updated
  <2> QED
    BY <1>1, <1>3, <1>5, <2>2 DEF TablesStep
<1>6. CASE /\ idx # NULL /\ queue_arr' = [queue_arr EXCEPT ![idx] = q]
           /\ blockedQ_array' = [blockedQ_array EXCEPT ![idx] = list]
  <2> HIDE DEF idx, q, list
  <2>1. Updated(idx, q, list)
    BY <1>3, <1>4, <1>6 DEF Updated
  <2> QED
    BY <1>1, <1>3, <1>6, <2>1 DEF TablesStep
<1> QED
  BY <1>2, <1>5, <1>6 DEF do_send_mg_q

\* What a receive that finds no message does to the waiting list.
LEMMA NoMessageList ==
    ASSUME NEW p \in Pids, NEW idx, NEW list \in Seq(ProcNode), NEW recid \in Ids,
           NEW expected \in Ids \cup {AnySender}, NEW mayWait,
           NoMessage(p, idx, list, recid, expected, mayWait)
    PROVE  /\ reply'.pid = p
           /\ \E new \in Seq(ProcNode) :
                 blockedQ_array' = [blockedQ_array EXCEPT ![idx] = new]
<1>1. reply'.pid = p
  BY DEF NoMessage, NothingFor, Reply
<1> DEFINE longer == add_to_blocked_receiver_list(list, p, expected, recid)
<1>2. longer \in Seq(ProcNode)
  <2> DEFINE row == [pid |-> p, recid |-> recid, sendid |-> expected]
  <2>1. row \in ProcNode
    BY DEF ProcNode
  <2>2. longer = Append(list, row)
    BY DEF add_to_blocked_receiver_list
  <2> HIDE DEF row, longer
  <2> QED
    BY <2>1, <2>2, AppendProperties
<1>3. \/ blockedQ_array' = [blockedQ_array EXCEPT ![idx] = list]
      \/ blockedQ_array' = [blockedQ_array EXCEPT ![idx] = longer]
  BY DEF NoMessage
<1> HIDE DEF longer
<1> QED
  BY <1>1, <1>2, <1>3

LEMMA ReceiveTables ==
    ASSUME TypesInv, NEW p \in Pids, NEW name \in Names, NEW recid \in Ids,
           NEW expected \in Ids \cup {AnySender}, NEW mayWait,
           Receive(p, name, recid, expected, mayWait)
    PROVE  TablesStep /\ Answered(p)
<1> DEFINE idx  == check_queue_exist(name)
           old  == queue_arr[idx]
           wait == blockedQ_array[idx]
           q    == PurgeExpired(old)
           list == StillWaiting(wait, old.msgs)
           best == BestMessage(q.msgs, recid, expected)
<1>1. UNCHANGED <<queue_count, notifiers, clock>>
  BY DEF Receive
<1>2. CASE idx = NULL
  <2>1. UNCHANGED <<queue_arr, blockedQ_array>> /\ signals' = {} /\ Answer(p, QUEUE_NOT_EXIST)
    BY <1>2 DEF Receive
  <2> QED
    BY <1>1, <2>1 DEF TablesStep, Answered, Answer, Reply
<1>3. CASE idx # NULL
  <2>1. idx \in Open /\ old \in GoodQueue /\ wait \in Seq(ProcNode)
    BY <1>3, QueueFound DEF TypesInv
  <2>2. queue_arr = [queue_arr EXCEPT ![idx] = old]
    BY DEF TypesInv, TablesInv
  <2>3. CASE /\ NoMessage(p, idx, wait, recid, expected, mayWait)
             /\ signals' = {} /\ UNCHANGED queue_arr
    <3> HIDE DEF idx, old, wait
    <3>1. PICK new \in Seq(ProcNode) :
              blockedQ_array' = [blockedQ_array EXCEPT ![idx] = new]
      BY <2>1, <2>3, NoMessageList
    <3>2. Updated(idx, old, new)
      BY <1>1, <2>2, <2>3, <3>1 DEF Updated, old
    <3>3. reply'.pid = p
      BY <2>1, <2>3, NoMessageList
    <3> QED
      BY <1>1, <2>1, <2>3, <3>2, <3>3 DEF TablesStep, Answered
  <2>4. CASE ReceiveFrom(p, idx, recid, expected, mayWait)
    <3>1. q \in GoodQueue /\ q.name = old.name
      BY <2>1, PurgeGood
    <3>2. list \in Seq(ProcNode)
      <4>1. old.msgs \in Seq(Message)
        BY <2>1 DEF GoodQueue, Queue
      <4> HIDE DEF old, wait
      <4> QED
        BY <2>1, <4>1, StillWaitingTyped
    <3>3. best \in 0 .. Len(q.msgs)
      <4>1. Len(q.msgs) \in Nat
        <5>1. q.msgs \in Seq(Message)
          BY <3>1 DEF GoodQueue, Queue
        <5> QED
          BY <5>1, LenProperties
      <4> HIDE DEF q
      <4> QED
        BY <4>1, BestMessageRange
    <3>4. signals' \subseteq Signal
      <4>1. \E ps : signals' = check_sig(ps, "SIGUSR1")
        BY <2>4 DEF ReceiveFrom
      <4> QED
        BY <4>1, SignalsTyped DEF TypesInv, SendersInv
    <3>5. CASE /\ best # 0
               /\ queue_arr' = [queue_arr EXCEPT ![idx] = Consume(q, best)]
               /\ blockedQ_array' = [blockedQ_array EXCEPT ![idx] = list]
               /\ reply'.pid = p
      <4> DEFINE new == Consume(q, best)
      <4> HIDE DEF idx, q, list, best, old
      <4>1. best \in 1 .. Len(q.msgs)
        BY <3>3, <3>5
      <4>2. new \in GoodQueue /\ new.name = q.name
        BY <3>1, <4>1, ConsumeGood
      <4> HIDE DEF new
      <4>3. Updated(idx, new, list)
        BY <1>1, <3>1, <3>5, <4>2 DEF Updated, old, new
      <4> QED
        BY <1>1, <2>1, <3>2, <3>4, <3>5, <4>2, <4>3 DEF TablesStep, Answered
    <3>6. CASE /\ queue_arr' = [queue_arr EXCEPT ![idx] = q]
               /\ NoMessage(p, idx, list, recid, expected, mayWait)
      <4> HIDE DEF idx, q, list, old
      <4>1. PICK new \in Seq(ProcNode) :
                blockedQ_array' = [blockedQ_array EXCEPT ![idx] = new]
        BY <3>2, <3>6, NoMessageList
      <4>2. Updated(idx, q, new)
        BY <1>1, <3>1, <3>6, <4>1 DEF Updated, old
      <4>3. reply'.pid = p
        BY <3>2, <3>6, NoMessageList
      <4> QED
        BY <1>1, <2>1, <3>1, <3>4, <4>2, <4>3 DEF TablesStep, Answered
    <3>7. \/ /\ best # 0
             /\ queue_arr' = [queue_arr EXCEPT ![idx] = Consume(q, best)]
             /\ blockedQ_array' = [blockedQ_array EXCEPT ![idx] = list]
             /\ Deliver(p, q.msgs[best], recid, expected)
          \/ /\ queue_arr' = [queue_arr EXCEPT ![idx] = q]
             /\ NoMessage(p, idx, list, recid, expected, mayWait)
      BY <2>4 DEF ReceiveFrom
    <3>8. Deliver(p, q.msgs[best], recid, expected) => reply'.pid = p
      BY DEF Deliver, Reply
    <3> QED
      BY <3>5, <3>6, <3>7, <3>8
  <2> QED
    BY <1>3, <2>3, <2>4 DEF Receive
<1> QED
  BY <1>2, <1>3

-----------------------------------------------------------------------------
(* The theorems.                                                           *)

\* Every call leaves the tables in step and the other variables typed.
LEMMA CallTypes ==
    ASSUME TypesInv, NEW p \in alive, Call(p)
    PROVE  TypesInv'
<1>0. p \in Pids /\ Uses[p] \subseteq Ids
  BY ConstantsAssumption DEF TypesInv, SendersInv, ConstantsAssumption
<1>1. SendersInv'
  <2>1. TableStep /\ UNCHANGED alive
    BY CallTable DEF TypesInv
  <2> QED
    BY <2>1, TableStepSafe DEF TypesInv, SendersInv
<1> DEFINE Done == TablesStep /\ RestOK'
<1>2. (TablesStep /\ Answered(p)) => Done
  BY <1>0, AnsweredOK DEF TypesInv
<1> HIDE DEF Done
<1>3. ASSUME NEW name \in Names, NEW cap \in Caps, NEW type \in Types,
             do_open_q(p, name, cap, type)
      PROVE  Done
  BY <1>0, <1>2, <1>3, OpenCall
<1>4. ASSUME NEW name \in Names, do_close_q(p, name)
      PROVE  Done
  BY <1>0, <1>2, <1>4, CloseCall
<1>5. ASSUME NEW name \in Names, NEW cap \in Caps, NEW type \in Types,
             do_set_attr_q(p, name, cap, type)
      PROVE  Done
  BY <1>0, <1>2, <1>5, SetAttrCall
<1>6. ASSUME NEW name \in Names, do_get_attr_q(p, name)
      PROVE  Done
  BY <1>0, <1>2, <1>6, GetAttrCall
<1>7. ASSUME NEW id \in Ids, do_mqreqnotify(p, id)
      PROVE  Done
  BY <1>0, <1>7, NotifyCall DEF Done
<1>8. ASSUME SendCall(p)
      PROVE  Done
  <2>1. PICK name \in Names, sNo \in Uses[p], rs \in RecvLists,
             prio \in Prios, exp \in Expiries :
                do_send_mg_q(p, name, get_qipc_msg(sNo, rs, prio, exp))
    BY <1>8 DEF SendCall
  <2> DEFINE m == get_qipc_msg(sNo, rs, prio, exp)
  <2>2. m \in Message
    <3>1. rs \in Seq(Ids) /\ Len(rs) \in Int
      BY ConstantsAssumption, LenProperties DEF ConstantsAssumption
    <3> QED
      BY <1>0, <3>1 DEF get_qipc_msg, Message
  <2> HIDE DEF m
  <2>3. do_send_mg_q(p, name, m)
    BY <2>1 DEF m
  <2>4. name \in Names
    BY <2>1
  <2>5. TablesStep /\ Answered(p)
    BY <1>0, <2>2, <2>3, <2>4, SendTables
  <2> QED
    BY <1>2, <2>5
<1>9. ASSUME NEW name \in Names, NEW recid \in Uses[p],
             NEW expected \in Ids \cup {AnySender},
             do_res_mg_q(p, name, recid, expected)
      PROVE  Done
  BY <1>0, <1>2, <1>9, ReceiveTables DEF do_res_mg_q
<1>10. ASSUME NEW name \in Names, NEW recid \in Uses[p],
              NEW expected \in Ids \cup {AnySender},
              do_blocking_receive(p, name, recid, expected)
       PROVE  Done
  BY <1>0, <1>2, <1>10, ReceiveTables DEF do_blocking_receive
<1>11. Done
  BY <1>3, <1>4, <1>5, <1>6, <1>7, <1>8, <1>9, <1>10 DEF Call
<1> QED
  BY <1>1, <1>11, TablesStepSafe DEF TypesInv, Done

LEMMA TypesInvInit == Init => TypesInv
<1> SUFFICES ASSUME Init PROVE TypesInv
  OBVIOUS
<1>1. SendersInv
  BY SendersInvInit
<1>2. TablesInv
  <2>1. /\ queue_arr = [s \in Slots |-> NULL] /\ blockedQ_array = [s \in Slots |-> NULL]
        /\ queue_count = 0
    BY DEF Init
  <2>2. Open = {}
    BY <2>1 DEF Open
  <2>3. Cardinality(Open) = 0
    BY <2>2, FS_EmptySet
  <2> QED
    BY <2>1, <2>2, <2>3 DEF TablesInv
<1>3. RestOK
  <2>1. /\ notifiers = <<>> /\ clock = 0 /\ reply.pid = NULL /\ signals = {}
    BY DEF Init, NoReply, Reply
  <2>2. <<>> \in Seq([pid : Pids, id : Ids]) /\ Len(<<>>) = 0
    OBVIOUS
  <2>3. MaxNotifier \in Nat /\ MaxTime \in Nat
    BY ConstantsAssumption DEF ConstantsAssumption
  <2> QED
    BY <2>1, <2>2, <2>3 DEF RestOK
<1> QED
  BY <1>1, <1>2, <1>3 DEF TypesInv

LEMMA TypesInvStep == TypesInv /\ [Next]_vars => TypesInv'
<1> SUFFICES ASSUME TypesInv, [Next]_vars PROVE TypesInv'
  OBVIOUS
<1>1. SendersInv'
  BY SendersInvStep DEF TypesInv
<1>2. CASE UNCHANGED vars
  BY <1>1, <1>2 DEF vars, TypesInv, TablesInv, RestOK, Open
<1>3. ASSUME NEW p \in alive, Call(p)
      PROVE  TypesInv'
  BY <1>3, CallTypes
<1>4. ASSUME NEW p \in alive, Exit(p)
      PROVE  TypesInv'
  <2>1. TablesInv'
    BY <1>4 DEF Exit, TypesInv, TablesInv, Open
  <2>2. RestOK'
    BY <1>4 DEF Exit, NoReply, Reply, TypesInv, RestOK
  <2> QED
    BY <1>1, <2>1, <2>2 DEF TypesInv
<1>5. CASE Tick
  <2>1. TablesInv'
    BY <1>5 DEF Tick, TypesInv, TablesInv, Open
  <2>2. MaxTime \in Nat
    BY ConstantsAssumption DEF ConstantsAssumption
  <2>3. RestOK'
    BY <1>5, <2>2 DEF Tick, NoReply, Reply, TypesInv, RestOK
  <2> QED
    BY <1>1, <2>1, <2>3 DEF TypesInv
<1> QED
  BY <1>2, <1>3, <1>4, <1>5 DEF Next

LEMMA TypesInvMeans == TypesInv => TypeOK /\ TablesAgree
<1> SUFFICES ASSUME TypesInv PROVE TypeOK /\ TablesAgree
  OBVIOUS
<1>1. TablesInv /\ RestOK /\ SendersInv
  BY DEF TypesInv
<1>2. queue_arr \in [Slots -> Queue \cup {NULL}]
  <2>1. GoodQueue \subseteq Queue
    BY DEF GoodQueue
  <2> QED
    BY <1>1, <2>1 DEF TablesInv
<1>3. queue_count \in 0 .. MaxQ
  BY <1>1, OpenCounted DEF TablesInv
<1>4. TypeOK
  BY <1>1, <1>2, <1>3 DEF TypeOK, TablesInv, RestOK, SendersInv
<1>5. Open = {s \in Slots : blockedQ_array[s] # NULL}
  BY <1>1 DEF Open, TablesInv
<1>6. \A s \in Open : queue_arr[s].currentcount = Len(queue_arr[s].msgs)
  BY <1>1 DEF Open, TablesInv, GoodQueue
<1>7. TablesAgree
  BY <1>1, <1>5, <1>6 DEF TablesAgree, TablesInv
<1> QED
  BY <1>4, <1>7

\* Every variable keeps its type through every handler of qipc.c.
THEOREM TypesKept == Spec => []TypeOK
<1>1. TypesInv => TypeOK
  BY TypesInvMeans
<1> QED
  BY <1>1, TypesInvInit, TypesInvStep, PTL DEF Spec

\* However many queues, names, messages and processes there are, queue_count,
\* the two arrays, the names and the message counts never disagree.
THEOREM TablesStayInStep == Spec => []TablesAgree
<1>1. TypesInv => TablesAgree
  BY TypesInvMeans
<1> QED
  BY <1>1, TypesInvInit, TypesInvStep, PTL DEF Spec

=============================================================================
