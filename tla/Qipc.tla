-------------------------------- MODULE Qipc --------------------------------
(***************************************************************************)
(* The qIPC message queues inside the MINIX process manager (PM):          *)
(* ipc/pm/qipc.c.  PM is a single-threaded server, main.c's loop receives  *)
(* one system call, runs its handler to the end and replies, so every      *)
(* handler of qipc.c is one atomic action here.  Nothing is assumed of the *)
(* callers: a live process may issue any of the eight calls at any time.   *)
(* QipcClients adds the user library that issues them and waits.           *)
(***************************************************************************)
EXTENDS Integers, Sequences, FiniteSets, SequencesExt

CONSTANTS
    Names,           \* queue names
    Pids,            \* processes
    Ids,             \* participant numbers, the CONFIG file of the user program
    Uses,            \* the participant numbers each process gives as its own
    AnySender,       \* "no particular sender", the -1 of expected_sender
    NULL,            \* C's null pointer, and "not found" where qipc.c has -1
    MaxQ,            \* QIPC_MAX_Q_COUNT
    MaxCap,          \* QIPC_MAX_Q_MSG_CAP
    MaxNotifier,     \* QIPC_MAX_NOTIFIER_COUNT
    MaxBlockingSend, \* MAX_BLOCKING_SEND (a bound: qipc.c never checks it)
    Caps,            \* capacities that callers ask for
    Types,           \* queue types that callers ask for
    Prios,           \* message priorities
    Expiries,        \* message expiry times
    RecvLists,       \* receiver lists of messages
    MaxTime,         \* bound on the clock
    MaxMsgs,         \* bound on the messages in one queue
    MaxWaiters       \* bound on the receivers waiting on one queue

NON_BLOCKING == 0
BLOCKING     == 1
QueueTypes   == {NON_BLOCKING, BLOCKING}

ASSUME ConstantsAssumption ==
    /\ NULL \notin Pids \cup Ids \cup Names
    /\ AnySender \notin Ids /\ AnySender # NULL
    /\ Uses \in [Pids -> SUBSET Ids]
    /\ MaxQ \in Nat /\ MaxCap \in Nat /\ MaxNotifier \in Nat
    /\ MaxBlockingSend \in Nat
    /\ Caps \subseteq Int /\ Prios \subseteq Int /\ Expiries \subseteq Int
    /\ Types \subseteq QueueTypes
    /\ RecvLists \subseteq Seq(Ids)
    /\ MaxTime \in Nat /\ MaxMsgs \in Nat /\ MaxWaiters \in Nat

\* What a handler returns (qipc.h), by name.
QUEUE_OPEN_SUCCESS   == "QUEUE_OPEN_SUCCESS"
QUEUE_ALREADY_EXIST  == "QUEUE_ALREADY_EXIST"
QUEUE_OPEN_FAIL      == "QUEUE_OPEN_FAIL"
MSG_ADD_SUCCESS      == "MSG_ADD_SUCCESS"
MSG_ADD_QUEUE_FULL   == "MSG_ADD_QUEUE_FULL"
MSG_ADD_FAIL         == "MSG_ADD_FAIL"
MSG_REC_SUCCESS      == "MSG_REC_SUCCESS"
MSG_REC_NO_MSG       == "MSG_REC_NO_MSG"
QUEUE_NOT_EXIST      == "QUEUE_NOT_EXIST"
QUEUE_CLOSE_SUCCESS  == "QUEUE_CLOSE_SUCCESS"
QUEUE_UPDATE_SUCCESS == "QUEUE_UPDATE_SUCCESS"
REC_DLOCKED          == "REC_DLOCKED"
NOTIFY_OK            == "NOTIFY_OK"       \* do_mqreqnotify returns 1
NOTIFY_FULL          == "NOTIFY_FULL"     \* do_mqreqnotify returns 0

VARIABLES
    queue_arr,          \* slot -> NULL or a queue with its messages
    queue_count,
    blockedQ_array,     \* slot -> NULL or the receivers waiting on that queue
    blocking_sender,    \* the senders waiting for their message to be read
    notifiers,          \* g_arrNotificationPID, its length is notifier_count
    clock,              \* clock_time()
    alive,              \* the processes PM has a slot for
    reply,              \* what the last handler answered, and to whom
    signals             \* the signals the last handler raised

vars == <<queue_arr, queue_count, blockedQ_array, blocking_sender, notifiers,
          clock, alive, reply, signals>>

Slots == 0 .. MaxQ - 1

Message == [senderId : Ids, recieverIds : RecvLists, priority : Prios,
            expiryts : Expiries, pendingreceiverCount : Int]

Queue == [name : Names, capacity : Int, currentcount : Int,
          blocking : QueueTypes, msgs : Seq(Message)]

ProcNode == [pid : Pids, recid : Ids, sendid : Ids \cup {AnySender}]

ASSUME NullAssumption ==
    /\ NULL \notin Queue /\ NULL \notin Slots
    /\ NULL \notin Seq(ProcNode) /\ NULL \notin Seq(Message)

\* One row of blocking_sender.  "to" is auxiliary: the code keeps only the
\* number of receivers that have not read the message yet.
Sender == [pid : Pids, cnt : Int, no : Ids, to : RecvLists]

Signal == Pids \X {"SIGUSR1", "SIGUSR2"}

-----------------------------------------------------------------------------
(* Replies and signals.                                                    *)

\* "req" is auxiliary: what a receive had asked for.
Reply(p, code, msg, req) == [pid |-> p, code |-> code, msg |-> msg, req |-> req]
NoReply == Reply(NULL, "NO_REPLY", NULL, NULL)

Answer(p, code) == reply' = Reply(p, code, NULL, NULL)
Deliver(p, m, recid, expected) ==
    reply' = Reply(p, MSG_REC_SUCCESS, m, [recid |-> recid, expected |-> expected])
NothingFor(p, code, name, recid, expected) ==
    reply' = Reply(p, code, NULL,
                   [name |-> name, recid |-> recid, expected |-> expected])

\* check_sig(pid, sig, 1): the signal reaches the process if it still exists.
check_sig(ps, sig) == {<<p, sig>> : p \in ps \cap alive}

-----------------------------------------------------------------------------
(* The loops of qipc.c over a receiver list or a message list: op applied  *)
(* to each element in turn, from base.                                     *)

ForEach(op(_, _), base, seq) ==
    LET acc[i \in 0 .. Len(seq)] ==
            IF i = 0 THEN base ELSE op(acc[i - 1], seq[i])
    IN  acc[Len(seq)]

-----------------------------------------------------------------------------
(* The table of queues.                                                    *)

Least(S) == CHOOSE s \in S : \A t \in S : s <= t

get_empty_q_slot ==
    LET free == {s \in Slots : queue_arr[s] = NULL}
    IN  IF free = {} THEN NULL ELSE Least(free)

\* MUTANT: the strcmp test of check_queue_exist without its negation.
check_queue_exist_Negated(name) ==
    LET hits == {s \in Slots : queue_arr[s] # NULL /\ queue_arr[s].name # name}
    IN  IF hits = {} THEN NULL ELSE Least(hits)

check_queue_exist(name) ==
    LET hits == {s \in Slots : queue_arr[s] # NULL /\ queue_arr[s].name = name}
    IN  IF hits = {} THEN NULL ELSE Least(hits)

\* MUTANT: a send is refused one message too late.
QueueFull_OffByOne(q) == q.currentcount = q.capacity + 1

\* The test of do_send_mg_q: equality, not "at least".
QueueFull(q) == q.currentcount = q.capacity

CappedCapacity(cap) == IF cap > MaxCap THEN MaxCap ELSE cap

-----------------------------------------------------------------------------
(* The receivers waiting on a queue: a list in order of arrival.           *)

\* The process of the first entry with this receiver id, NULL if there is none.
if_present_blocked_receiver_list(list, recid) ==
    LET i == SelectInSeq(list, LAMBDA e : e.recid = recid)
    IN  IF i = 0 THEN NULL ELSE list[i].pid

delete_from_blocked_receiver_list(list, pid) ==
    RemoveFirstMatch(list, LAMBDA e : e.pid = pid)

add_to_blocked_receiver_list(list, pid, sendid, recid) ==
    Append(list, [pid |-> pid, recid |-> recid, sendid |-> sendid])

\* MUTANT: the two numbers of the second test swapped.
check_for_deadlock_Swapped(list, recid, sendid) ==
    \E i \in DOMAIN list : list[i].recid = sendid /\ list[i].sendid = sendid

check_for_deadlock(list, recid, sendid) ==
    \E i \in DOMAIN list : list[i].recid = sendid /\ list[i].sendid = recid

-----------------------------------------------------------------------------
(* The table of blocked senders.                                           *)

\* MUTANT: the table of blocked senders is not consulted.
BlockingSendRefused_SelfOnly(sNo, receivers) == sNo \in ToSet(receivers)

\* MUTANT: the sender itself is not looked for among the receivers.
BlockingSendRefused_TableOnly(sNo, receivers) ==
    \E i \in DOMAIN receivers : \E j \in DOMAIN blocking_sender :
        blocking_sender[j].no = receivers[i]

\* blocking_adder_add refuses a sender that names itself or names a
\* participant that is itself in a blocking send.
BlockingSendRefused(sNo, receivers) ==
    \E i \in DOMAIN receivers :
        \/ receivers[i] = sNo
        \/ \E j \in DOMAIN blocking_sender : blocking_sender[j].no = receivers[i]

blocking_adder_add(pid, sNo, receivers) ==
    Append(blocking_sender,
           [pid |-> pid, cnt |-> Len(receivers), no |-> sNo, to |-> receivers])

\* MUTANT: the row is released one reader too late.
remove_send_blocking_rid_OffByOne(sNo) ==
    LET i == SelectInSeq(blocking_sender, LAMBDA e : e.no = sNo)
    IN  IF i = 0
        THEN [table |-> blocking_sender, woken |-> {}]
        ELSE IF blocking_sender[i].cnt = 0
        THEN [table |-> RemoveAt(blocking_sender, i),
              woken |-> {blocking_sender[i].pid}]
        ELSE [table |-> [blocking_sender EXCEPT ![i].cnt = @ - 1],
              woken |-> {}]

\* MUTANT: the row stays when its process is signalled.
remove_send_blocking_rid_KeepsRow(sNo) ==
    LET i == SelectInSeq(blocking_sender, LAMBDA e : e.no = sNo)
    IN  IF i = 0
        THEN [table |-> blocking_sender, woken |-> {}]
        ELSE [table |-> [blocking_sender EXCEPT ![i].cnt = @ - 1],
              woken |-> IF blocking_sender[i].cnt = 1 THEN {blocking_sender[i].pid}
                                                      ELSE {}]

\* One reader less to wait for, for the first row with this number: the row
\* goes, and its process is signalled, when that was the last one.
remove_send_blocking_rid(sNo) ==
    LET i == SelectInSeq(blocking_sender, LAMBDA e : e.no = sNo)
    IN  IF i = 0
        THEN [table |-> blocking_sender, woken |-> {}]
        ELSE IF blocking_sender[i].cnt = 1
        THEN [table |-> RemoveAt(blocking_sender, i),
              woken |-> {blocking_sender[i].pid}]
        ELSE [table |-> [blocking_sender EXCEPT ![i].cnt = @ - 1],
              woken |-> {}]

-----------------------------------------------------------------------------
(* Opening, closing and configuring a queue.                               *)

do_open_q(p, name, cap, type) ==
    LET idx == get_empty_q_slot IN
    /\ signals' = {}
    /\ \/ /\ idx = NULL
          /\ Answer(p, QUEUE_OPEN_FAIL)
          /\ UNCHANGED <<queue_arr, queue_count, blockedQ_array>>
       \/ /\ idx # NULL
          /\ check_queue_exist(name) # NULL
          /\ Answer(p, QUEUE_ALREADY_EXIST)
          /\ UNCHANGED <<queue_arr, queue_count, blockedQ_array>>
       \/ /\ idx # NULL
          /\ check_queue_exist(name) = NULL
          /\ queue_arr' = [queue_arr EXCEPT ![idx] =
                [name |-> name, capacity |-> CappedCapacity(cap),
                 currentcount |-> 0, blocking |-> type, msgs |-> <<>>]]
          /\ blockedQ_array' = [blockedQ_array EXCEPT ![idx] = <<>>]
          /\ queue_count' = queue_count + 1
          /\ Answer(p, QUEUE_OPEN_SUCCESS)
    /\ UNCHANGED <<blocking_sender, notifiers, clock, alive>>

\* Anybody may close any queue; its messages and its waiting receivers are
\* dropped, and blocked senders stay in their table.
do_close_q(p, name) ==
    LET idx == check_queue_exist(name) IN
    /\ signals' = {}
    /\ \/ /\ idx = NULL
          /\ Answer(p, QUEUE_NOT_EXIST)
          /\ UNCHANGED <<queue_arr, queue_count, blockedQ_array>>
       \/ /\ idx # NULL
          /\ queue_arr' = [queue_arr EXCEPT ![idx] = NULL]
          /\ blockedQ_array' = [blockedQ_array EXCEPT ![idx] = NULL]
          /\ queue_count' = queue_count - 1
          /\ Answer(p, QUEUE_CLOSE_SUCCESS)
    /\ UNCHANGED <<blocking_sender, notifiers, clock, alive>>

do_set_attr_q(p, name, cap, type) ==
    LET idx == check_queue_exist(name) IN
    /\ signals' = {}
    /\ \/ /\ idx = NULL
          /\ Answer(p, QUEUE_NOT_EXIST)
          /\ UNCHANGED queue_arr
       \/ /\ idx # NULL
          /\ queue_arr' = [queue_arr EXCEPT ![idx] =
                [@ EXCEPT !.capacity = CappedCapacity(cap), !.blocking = type]]
          /\ Answer(p, QUEUE_UPDATE_SUCCESS)
    /\ UNCHANGED <<queue_count, blockedQ_array, blocking_sender, notifiers,
                   clock, alive>>

do_get_attr_q(p, name) ==
    LET idx == check_queue_exist(name) IN
    /\ signals' = {}
    /\ \/ /\ idx = NULL
          /\ Answer(p, QUEUE_NOT_EXIST)
       \/ /\ idx # NULL
          /\ reply' = Reply(p, QUEUE_UPDATE_SUCCESS,
                            [capacity |-> queue_arr[idx].capacity,
                             blocking |-> queue_arr[idx].blocking], NULL)
    /\ UNCHANGED <<queue_arr, queue_count, blockedQ_array, blocking_sender,
                   notifiers, clock, alive>>

-----------------------------------------------------------------------------
(* Notification requests.                                                  *)

\* MUTANT: one entry too many.
NotifierTableFull_OffByOne == Len(notifiers) = MaxNotifier + 1

NotifierTableFull == Len(notifiers) = MaxNotifier

do_mqreqnotify(p, id) ==
    /\ signals' = {}
    /\ \/ /\ NotifierTableFull
          /\ Answer(p, NOTIFY_FULL)
          /\ UNCHANGED notifiers
       \/ /\ ~NotifierTableFull
          /\ notifiers' = Append(notifiers, [pid |-> p, id |-> id])
          /\ Answer(p, NOTIFY_OK)
    /\ UNCHANGED <<queue_arr, queue_count, blockedQ_array, blocking_sender,
                   clock, alive>>

\* The processes that asked to be told of messages for one of these receivers.
f_intNotifyChk(receivers) ==
    {notifiers[k].pid : k \in {k \in DOMAIN notifiers :
                                  notifiers[k].id \in ToSet(receivers)}}

-----------------------------------------------------------------------------
(* Sending.                                                                *)

add_to_queue(q, m) == [q EXCEPT !.msgs = Append(@, m), !.currentcount = @ + 1]

\* MUTANT: the loop stops after the first receiver it wakes.
WakeReceiver_FirstOnly(acc, recid) ==
    LET pid == if_present_blocked_receiver_list(acc.list, recid)
    IN  IF pid \in alive /\ acc.woken = {}
        THEN [list  |-> delete_from_blocked_receiver_list(acc.list, pid),
              woken |-> acc.woken \cup {pid}]
        ELSE acc

\* MUTANT: check_sig's result is not looked at before the entry is deleted.
WakeReceiver_Unchecked(acc, recid) ==
    LET pid == if_present_blocked_receiver_list(acc.list, recid)
    IN  [list  |-> delete_from_blocked_receiver_list(acc.list, pid),
         woken |-> acc.woken \cup {pid}]

\* Each receiver in turn: the first process waiting under that number is
\* signalled, and only if it still exists does it leave the list.
WakeReceiver(acc, recid) ==
    LET pid == if_present_blocked_receiver_list(acc.list, recid)
    IN  IF pid \in alive
        THEN [list  |-> delete_from_blocked_receiver_list(acc.list, pid),
              woken |-> acc.woken \cup {pid}]
        ELSE acc

WakeReceivers(list, receivers) ==
    ForEach(WakeReceiver, [list |-> list, woken |-> {}], receivers)

get_qipc_msg(sNo, receivers, prio, exp) ==
    [senderId |-> sNo, recieverIds |-> receivers, priority |-> prio,
     expiryts |-> exp, pendingreceiverCount |-> Len(receivers)]

\* Note the order: the message is already in the queue when the refusal of
\* blocking_adder_add is looked at.
do_send_mg_q(p, name, m) ==
    LET idx == check_queue_exist(name)
        q   == queue_arr[idx]
        refused == q.blocking = BLOCKING
                   /\ BlockingSendRefused(m.senderId, m.recieverIds)
        wake == WakeReceivers(blockedQ_array[idx], m.recieverIds)
    IN
    /\ \/ /\ idx = NULL
          /\ signals' = check_sig({p}, "SIGUSR2")
          /\ Answer(p, QUEUE_NOT_EXIST)
          /\ UNCHANGED <<queue_arr, blockedQ_array, blocking_sender>>
       \/ /\ idx # NULL /\ QueueFull(q)
          /\ signals' = check_sig({p}, "SIGUSR2")
          /\ Answer(p, MSG_ADD_QUEUE_FULL)
          /\ UNCHANGED <<queue_arr, blockedQ_array, blocking_sender>>
       \/ /\ idx # NULL /\ ~QueueFull(q)
          /\ Len(q.msgs) < MaxMsgs                       \* bound
          /\ refused
          /\ queue_arr' = [queue_arr EXCEPT ![idx] = add_to_queue(@, m)]
          /\ signals' = check_sig({p}, "SIGUSR2")
          /\ Answer(p, MSG_ADD_FAIL)
          /\ UNCHANGED <<blockedQ_array, blocking_sender>>
       \/ /\ idx # NULL /\ ~QueueFull(q)
          /\ Len(q.msgs) < MaxMsgs                       \* bound
          /\ ~refused
          /\ \/ /\ q.blocking = BLOCKING
                /\ Len(blocking_sender) < MaxBlockingSend \* bound
                /\ blocking_sender' =
                      blocking_adder_add(p, m.senderId, m.recieverIds)
             \/ /\ q.blocking # BLOCKING
                /\ UNCHANGED blocking_sender
          /\ queue_arr' = [queue_arr EXCEPT ![idx] = add_to_queue(@, m)]
          /\ blockedQ_array' = [blockedQ_array EXCEPT ![idx] = wake.list]
          /\ signals' = check_sig(f_intNotifyChk(m.recieverIds) \cup wake.woken,
                                  "SIGUSR1")
          /\ Answer(p, MSG_ADD_SUCCESS)
    /\ UNCHANGED <<queue_count, notifiers, clock, alive>>

-----------------------------------------------------------------------------
(* Receiving.                                                              *)

Expired(m) == m.expiryts < clock

\* MUTANT: the head is unlinked, whichever node was asked for.
remove_node_Head(q, i) == [q EXCEPT !.msgs = Tail(@), !.currentcount = @ - 1]

remove_node(q, i) == [q EXCEPT !.msgs = RemoveAt(@, i), !.currentcount = @ - 1]

\* get_msg_from_queue, first half: expired messages leave the queue, and the
\* first process waiting under each of their receivers' numbers leaves the
\* waiting list.  It is not signalled.
KeepLive(live, m) == IF Expired(m) THEN live ELSE Append(live, m)

LiveMessages(msgs) == ForEach(KeepLive, <<>>, msgs)

\* MUTANT: an expired message is found too.
PurgeExpired_Skipped(q) == q

PurgeExpired(q) ==
    LET live == LiveMessages(q.msgs)
    IN  [q EXCEPT !.msgs = live,
                  !.currentcount = @ - (Len(q.msgs) - Len(live))]

ForgetReceiver(list, recid) ==
    delete_from_blocked_receiver_list(
        list, if_present_blocked_receiver_list(list, recid))

ForgetReceivers(list, receivers) == ForEach(ForgetReceiver, list, receivers)

ForgetReceiversOf(list, m) ==
    IF Expired(m) THEN ForgetReceivers(list, m.recieverIds) ELSE list

StillWaiting(list, msgs) == ForEach(ForgetReceiversOf, list, msgs)

\* get_msg_from_queue, second half: the message this receiver gets, by its
\* place among the live ones (0 if it gets none).  A later message replaces
\* the choice only when its priority number is smaller.
Matches(m, recid, expected) ==
    /\ expected \in {AnySender, m.senderId}
    /\ recid \in ToSet(m.recieverIds)

\* MUTANT: ">=" for ">", the last of the best instead of the first.
BestMessage_Last(msgs, recid, expected) ==
    LET better(best, i) ==
            IF /\ Matches(msgs[i], recid, expected)
               /\ best # 0 => msgs[best].priority >= msgs[i].priority
            THEN i ELSE best
    IN  ForEach(better, 0, [i \in 1 .. Len(msgs) |-> i])

BestMessage(msgs, recid, expected) ==
    LET better(best, i) ==
            IF /\ Matches(msgs[i], recid, expected)
               /\ best # 0 => msgs[best].priority > msgs[i].priority
            THEN i ELSE best
    IN  ForEach(better, 0, [i \in 1 .. Len(msgs) |-> i])

\* Whose blocking send the receive counts as read: the expected sender, or the
\* sender of the last message that was looked at, whether or not it was for
\* this receiver.  Without a live message neither rmv_yes nor sNo was ever
\* assigned: any number may be found there, and AnySender stands for none.
CountedSenders(msgs, expected) ==
    IF msgs = <<>> THEN Ids \cup {AnySender}
    ELSE {IF expected # AnySender THEN expected ELSE msgs[Len(msgs)].senderId}

\* MUTANT: the last reader does not take the message away.
Consume_OffByOne(q, i) ==
    IF q.msgs[i].pendingreceiverCount = 0 THEN remove_node(q, i)
    ELSE [q EXCEPT !.msgs[i].pendingreceiverCount = @ - 1]

\* The message taken by one of its receivers; it leaves with the last of them.
Consume(q, i) ==
    IF q.msgs[i].pendingreceiverCount = 1 THEN remove_node(q, i)
    ELSE [q EXCEPT !.msgs[i].pendingreceiverCount = @ - 1]

\* No message: a non-blocking caller is told so.  A blocking caller joins the
\* waiting list, unless somebody there waits for it while it asks to wait for
\* them.
NoMessage(p, idx, list, recid, expected, mayWait) ==
    \/ /\ ~mayWait
       /\ blockedQ_array' = [blockedQ_array EXCEPT ![idx] = list]
       /\ NothingFor(p, MSG_REC_NO_MSG, queue_arr[idx].name, recid, expected)
    \/ /\ mayWait /\ check_for_deadlock(list, recid, expected)
       /\ blockedQ_array' = [blockedQ_array EXCEPT ![idx] = list]
       /\ NothingFor(p, REC_DLOCKED, queue_arr[idx].name, recid, expected)
    \/ /\ mayWait /\ ~check_for_deadlock(list, recid, expected)
       /\ Len(list) < MaxWaiters                         \* bound
       /\ blockedQ_array' = [blockedQ_array EXCEPT ![idx] =
             add_to_blocked_receiver_list(list, p, expected, recid)]
       /\ NothingFor(p, MSG_REC_NO_MSG, queue_arr[idx].name, recid, expected)

\* The queue exists and is not empty: get_msg_from_queue runs, and the message
\* it finds is consumed.
ReceiveFrom(p, idx, recid, expected, mayWait) ==
    LET q    == PurgeExpired(queue_arr[idx])
        list == StillWaiting(blockedQ_array[idx], queue_arr[idx].msgs)
        best == BestMessage(q.msgs, recid, expected)
    IN
    /\ \E sNo \in CountedSenders(q.msgs, expected) :
          LET freed == remove_send_blocking_rid(sNo)
          IN  /\ blocking_sender' = freed.table
              /\ signals' = check_sig(freed.woken, "SIGUSR1")
    /\ \/ /\ best # 0
          /\ queue_arr' = [queue_arr EXCEPT ![idx] = Consume(q, best)]
          /\ blockedQ_array' = [blockedQ_array EXCEPT ![idx] = list]
          /\ Deliver(p, q.msgs[best], recid, expected)
       \/ /\ best = 0
          /\ queue_arr' = [queue_arr EXCEPT ![idx] = q]
          /\ NoMessage(p, idx, list, recid, expected, mayWait)

\* do_res_mg_q and do_blocking_receive differ only in what they do when there
\* is no message.
Receive(p, name, recid, expected, mayWait) ==
    LET idx == check_queue_exist(name) IN
    /\ \/ /\ idx = NULL
          /\ Answer(p, QUEUE_NOT_EXIST)
          /\ signals' = {}
          /\ UNCHANGED <<queue_arr, blockedQ_array, blocking_sender>>
       \/ /\ idx # NULL /\ queue_arr[idx].currentcount = 0
          /\ NoMessage(p, idx, blockedQ_array[idx], recid, expected, mayWait)
          /\ signals' = {}
          /\ UNCHANGED <<queue_arr, blocking_sender>>
       \/ /\ idx # NULL /\ queue_arr[idx].currentcount # 0
          /\ ReceiveFrom(p, idx, recid, expected, mayWait)
    /\ UNCHANGED <<queue_count, notifiers, clock, alive>>

do_res_mg_q(p, name, recid, expected) ==
    Receive(p, name, recid, expected, FALSE)

do_blocking_receive(p, name, recid, expected) ==
    Receive(p, name, recid, expected, TRUE)

-----------------------------------------------------------------------------
(* Around the handlers.                                                    *)

\* A process ends.  PM frees its slot; no qIPC table is cleaned.
Exit(p) ==
    /\ alive' = alive \ {p}
    /\ reply' = NoReply
    /\ signals' = {}
    /\ UNCHANGED <<queue_arr, queue_count, blockedQ_array, blocking_sender,
                   notifiers, clock>>

Tick ==
    /\ clock < MaxTime                                   \* bound
    /\ clock' = clock + 1
    /\ reply' = NoReply
    /\ signals' = {}
    /\ UNCHANGED <<queue_arr, queue_count, blockedQ_array, blocking_sender,
                   notifiers, alive>>

Init ==
    /\ queue_arr = [s \in Slots |-> NULL]
    /\ queue_count = 0
    /\ blockedQ_array = [s \in Slots |-> NULL]
    /\ blocking_sender = <<>>
    /\ notifiers = <<>>
    /\ clock = 0
    /\ alive = Pids
    /\ reply = NoReply
    /\ signals = {}

\* One iteration of PM's loop for caller p: main.c dispatches the call number
\* through the call vector of table.c.
SendCall(p) ==
    \E name \in Names, sNo \in Uses[p], rs \in RecvLists,
       prio \in Prios, exp \in Expiries :
          do_send_mg_q(p, name, get_qipc_msg(sNo, rs, prio, exp))

Call(p) ==
    \/ \E name \in Names, cap \in Caps, type \in Types : do_open_q(p, name, cap, type)
    \/ \E name \in Names : do_close_q(p, name)
    \/ \E name \in Names, cap \in Caps, type \in Types : do_set_attr_q(p, name, cap, type)
    \/ \E name \in Names : do_get_attr_q(p, name)
    \/ \E id \in Ids : do_mqreqnotify(p, id)
    \/ SendCall(p)
    \/ \E name \in Names, recid \in Uses[p], expected \in Ids \cup {AnySender} :
          do_res_mg_q(p, name, recid, expected)
    \/ \E name \in Names, recid \in Uses[p], expected \in Ids \cup {AnySender} :
          do_blocking_receive(p, name, recid, expected)

Next ==
    \/ \E p \in alive : Call(p)
    \/ \E p \in alive : Exit(p)
    \/ Tick

Spec == Init /\ [][Next]_vars

-----------------------------------------------------------------------------
(* What the server promises whatever its callers do.                       *)

\* Every variable keeps its type through every handler.
TypeOK ==
    /\ queue_arr \in [Slots -> Queue \cup {NULL}]
    /\ queue_count \in 0 .. MaxQ
    /\ blockedQ_array \in [Slots -> Seq(ProcNode) \cup {NULL}]
    /\ blocking_sender \in Seq(Sender)
    /\ notifiers \in Seq([pid : Pids, id : Ids]) /\ Len(notifiers) <= MaxNotifier
    /\ clock \in 0 .. MaxTime
    /\ alive \subseteq Pids
    /\ reply.pid \in Pids \cup {NULL}
    /\ signals \subseteq Signal

Open == {s \in Slots : queue_arr[s] # NULL}

\* The tables that qipc.c keeps in parallel never disagree: queue_count counts
\* the slots in use, a slot has a waiting list exactly when it has a queue, no
\* two queues share a name, and currentcount is the length of the list.
TablesAgree ==
    /\ queue_count = Cardinality(Open)
    /\ Open = {s \in Slots : blockedQ_array[s] # NULL}
    /\ \A s, t \in Open : queue_arr[s].name = queue_arr[t].name => s = t
    /\ \A s \in Open : queue_arr[s].currentcount = Len(queue_arr[s].msgs)

\* A queued message still has a reader to come, and never more readers than it
\* was sent to.
MessagesAwaitReaders ==
    \A s \in Open : \A i \in DOMAIN queue_arr[s].msgs :
        LET m == queue_arr[s].msgs[i]
        IN  m.pendingreceiverCount \in 1 .. Len(m.recieverIds)

\* A row of blocking_sender still waits for a reader: it is released, and its
\* process signalled, in the very step that counts the last one.
RowsAwaitReaders ==
    \A i \in DOMAIN blocking_sender :
        blocking_sender[i].cnt \in 1 .. Len(blocking_sender[i].to)

\* No row of blocking_sender waits for an earlier row, or for itself.
WaitsForward(table) ==
    \A i, j \in DOMAIN table : i <= j => table[i].no \notin ToSet(table[j].to)

SendWaitsForward == WaitsForward(blocking_sender)

\* blocking_adder_add's refusals are enough to keep blocked senders out of
\* deadlock: among any rows of the table there is one that waits for none of
\* them, so it can be released by participants that are free to receive.
NoSenderDeadlock ==
    \A S \in SUBSET DOMAIN blocking_sender : S # {} =>
        \E i \in S : \A j \in S :
            blocking_sender[j].no \notin ToSet(blocking_sender[i].to)

\* check_for_deadlock is enough for two receivers: no two entries of one
\* waiting list wait for each other.
NoReceiverTwoCycle ==
    \A s \in Slots : blockedQ_array[s] # NULL =>
        LET list == blockedQ_array[s] IN
        \A i, j \in DOMAIN list :
            list[i].recid = list[j].sendid /\ list[j].recid = list[i].sendid => i = j

\* A receiver gets, of the live messages it asked for, the first among those
\* of the smallest priority number; receivers are served in order of arrival.
DeliveryOrder ==
    [][ \A s \in Open :
          (reply'.code = MSG_REC_SUCCESS /\ queue_arr'[s] # queue_arr[s]) =>
            LET msgs == queue_arr[s].msgs
                mine == {i \in DOMAIN msgs :
                           /\ msgs[i].expiryts >= clock
                           /\ reply'.req.recid \in ToSet(msgs[i].recieverIds)
                           /\ reply'.req.expected \in {AnySender, msgs[i].senderId}}
            IN  \E i \in mine :
                  /\ reply'.msg = msgs[i]
                  /\ \A j \in mine \ {i} :
                       \/ msgs[i].priority < msgs[j].priority
                       \/ msgs[i].priority = msgs[j].priority /\ i < j ]_vars

\* The readings that live messages of a queue still have to come.
PendingReadings(msgs) ==
    ForEach(LAMBDA n, m : IF Expired(m) THEN n ELSE n + m.pendingreceiverCount,
            0, msgs)

\* No reading is lost or made up while a queue stays open: a receive takes one
\* from the message it returns and nothing else, a send only adds.
ReadingsConserved ==
    [][ \A s \in Open : queue_arr'[s] # NULL =>
          LET before == PendingReadings(queue_arr[s].msgs)
              after  == PendingReadings(queue_arr'[s].msgs)
          IN  CASE reply'.code = MSG_REC_SUCCESS /\ queue_arr'[s] # queue_arr[s] ->
                     after = before - 1
                [] reply'.code \in {MSG_ADD_SUCCESS, MSG_ADD_FAIL} -> after >= before
                [] OTHER -> after = before ]_vars

\* Entries of the waiting list of slot s that this step removes.
Leaving(s) ==
    ToSet(blockedQ_array[s]) \
        (IF blockedQ_array'[s] = NULL THEN {} ELSE ToSet(blockedQ_array'[s]))

Signalled(pid) == <<pid, "SIGUSR1">> \in signals'

\* A successful send tells everybody it concerns: for each receiver, the live
\* process that has waited longest under that number, and every live process
\* that asked for notification of it.
SendReachesWaiters ==
    [][ \A s \in Open :
          (reply'.code = MSG_ADD_SUCCESS /\ queue_arr'[s] # queue_arr[s]) =>
            \A r \in ToSet(Last(queue_arr'[s].msgs).recieverIds) :
              LET list == blockedQ_array[s]
                  waiting == {i \in DOMAIN list : list[i].recid = r}
              IN  /\ waiting # {} /\ list[Least(waiting)].pid \in alive
                        => Signalled(list[Least(waiting)].pid)
                  /\ \A k \in DOMAIN notifiers :
                        notifiers[k].id = r /\ notifiers[k].pid \in alive
                            => Signalled(notifiers[k].pid) ]_vars

\* While its queue stays open a receiver leaves the waiting list only with a
\* signal, or because a message that one of its entries waits for has expired.
WaiterLeavesForAReason ==
    [][ \A s \in Open : queue_arr'[s] # NULL =>
          \A e \in Leaving(s) :
            \/ Signalled(e.pid)
            \/ \E i \in DOMAIN queue_arr[s].msgs :
                  /\ Expired(queue_arr[s].msgs[i])
                  /\ \E f \in ToSet(blockedQ_array[s]) :
                        /\ f.pid = e.pid
                        /\ f.recid \in ToSet(queue_arr[s].msgs[i].recieverIds) ]_vars

Overfull(q) == q.currentcount > q.capacity

\* A queue that is within its capacity is taken beyond it by do_set_attr_q
\* alone, never by a send.
OnlySetAttrOverfills ==
    [][ \A s \in Open :
          (queue_arr'[s] # NULL /\ ~Overfull(queue_arr[s]) /\ Overfull(queue_arr'[s]))
            => reply'.code = QUEUE_UPDATE_SUCCESS ]_vars

=============================================================================
