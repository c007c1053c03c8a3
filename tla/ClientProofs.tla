--------------------------- MODULE ClientProofs ---------------------------
(***************************************************************************)
(* The processes that use the library are callers of the server that its   *)
(* specification allows: QipcClients implements Qipc, for any processes,   *)
(* names and menus.  What is proved of Qipc therefore holds of the whole   *)
(* system.                                                                 *)
(***************************************************************************)
EXTENDS QipcClients, QipcWaiters

AskedSoFar == [name : Names \cup {NULL}, recid : Ids \cup {NULL},
               expected : Ids \cup {AnySender, NULL}]

\* What inthandler_rec, or the sleep before it, finds in the three globals.
AskedReady(p) ==
    pc[p] \in InReceive \/ (\E sig \in Signals : handler[p][sig] = "inthandler_rec")
        => asked[p] \in Asked /\ asked[p].recid \in Uses[p]

\* Only inthandler_rec makes a call whose arguments are not typed in the same
\* step: the invariant says where they come from.
AskedInv ==
    /\ pc \in [Pids -> Places]
    /\ handler \in [Pids -> [Signals -> Handlers]]
    /\ asked \in [Pids -> AskedSoFar]
    /\ alive \subseteq Pids
    /\ \A p \in Pids : AskedReady(p)

\* Every call of the menu is a call that the server's specification allows.
LEMMA MenuCalls ==
    ASSUME NEW p \in alive, alive \subseteq Pids,
           \/ \E name \in Typed : do_open_q(p, name, OpenCapacity, NON_BLOCKING)
           \/ \E name \in Typed : do_close_q(p, name)
           \/ \E name \in Typed, cap \in Caps, type \in Types :
                 do_set_attr_q(p, name, cap, type)
           \/ \E name \in Typed : do_get_attr_q(p, name)
           \/ \E id \in Ids : do_mqreqnotify(p, id)
           \/ SendTyped(p)
           \/ \E name \in Names, recid \in Uses[p], expected \in Ids \cup {AnySender} :
                 do_res_mg_q(p, name, recid, expected)
           \/ \E name \in Names, recid \in Uses[p], expected \in Ids \cup {AnySender} :
                 do_blocking_receive(p, name, recid, expected)
    PROVE  Next
<1>1. Typed \subseteq Names /\ OpenCapacity \in Caps /\ NON_BLOCKING \in Types
  BY ClientsAssumption
<1>2. SendTyped(p) => SendCall(p)
  BY <1>1 DEF SendTyped, SendCall
<1>3. Call(p)
  BY <1>1, <1>2 DEF Call
<1> QED
  BY <1>3 DEF Next

\* The handlers never change which process is alive, except by its end.
LEMMA AliveShrinks == ASSUME alive \subseteq Pids, [Next]_vars PROVE alive' \subseteq Pids
<1>1. CASE UNCHANGED vars
  BY <1>1 DEF vars
<1>2. CASE \E p \in alive : Exit(p)
  BY <1>2 DEF Exit
<1>3. CASE Tick
  BY <1>3 DEF Tick
<1>4. CASE \E p \in alive : Call(p)
  <2>1. PICK p \in alive : Call(p)
    BY <1>4
  <2>2. \A name, cap, type : do_open_q(p, name, cap, type) => UNCHANGED alive
    BY DEF do_open_q
  <2>3. \A name : do_close_q(p, name) => UNCHANGED alive
    BY DEF do_close_q
  <2>4. \A name, cap, type : do_set_attr_q(p, name, cap, type) => UNCHANGED alive
    BY DEF do_set_attr_q
  <2>5. \A name : do_get_attr_q(p, name) => UNCHANGED alive
    BY DEF do_get_attr_q
  <2>6. \A id : do_mqreqnotify(p, id) => UNCHANGED alive
    BY DEF do_mqreqnotify
  <2>7. \A name, m : do_send_mg_q(p, name, m) => UNCHANGED alive
    BY DEF do_send_mg_q
  <2>8. \A name, recid, expected :
           do_res_mg_q(p, name, recid, expected) => UNCHANGED alive
    BY DEF do_res_mg_q, Receive
  <2>9. \A name, recid, expected :
           do_blocking_receive(p, name, recid, expected) => UNCHANGED alive
    BY DEF do_blocking_receive, Receive
  <2> QED
    BY <2>1, <2>2, <2>3, <2>4, <2>5, <2>6, <2>7, <2>8, <2>9 DEF Call, SendCall
<1> QED
  BY <1>1, <1>2, <1>3, <1>4 DEF Next

\* A step of a user.
LEMMA UserStepServed ==
    ASSUME AskedInv, NEW p \in Pids, UserStep(p)
    PROVE  AskedInv' /\ [Next]_vars
<1> USE DEF AskedInv
<1>0. Typed \subseteq Names /\ Uses[p] \subseteq Ids
  BY ClientsAssumption, ConstantsAssumption
<1>1. CASE Qopen(p) \/ Qclose(p) \/ Qsetattr(p) \/ Qgetattr(p) \/ nonblock_send(p)
  <2>1. p \in alive /\ Next
    BY <1>1, MenuCalls DEF Qopen, Qclose, Qsetattr, Qgetattr, nonblock_send, AtMenu, At
  <2>2. UNCHANGED <<pc, handler, asked>>
    BY <1>1 DEF Qopen, Qclose, Qsetattr, Qgetattr, nonblock_send
  <2> QED
    BY <2>1, <2>2, AliveShrinks DEF AskedReady
<1>2. CASE nonblock_receive(p)
  <2>1. PICK expected \in Ids \cup {AnySender} :
           asked' = [asked EXCEPT ![p].expected = expected]
    BY <1>2 DEF nonblock_receive, async_recieve
  <2>2. p \in alive /\ Next /\ UNCHANGED <<pc, handler>>
    BY <1>0, <1>2, MenuCalls DEF nonblock_receive, async_recieve, AtMenu, At
  <2>3. \A q \in Pids : /\ asked[q] \in AskedSoFar => asked'[q] \in AskedSoFar
                        /\ asked[q] \in Asked => asked'[q] \in Asked
                        /\ asked'[q].recid = asked[q].recid
    BY <2>1 DEF AskedSoFar, Asked
  <2>4. asked' \in [Pids -> AskedSoFar]
    BY <2>1, <2>3
  <2>5. \A q \in Pids : AskedReady(q)'
    BY <2>2, <2>3 DEF AskedReady
  <2> QED
    BY <2>2, <2>4, <2>5, AliveShrinks
<1>3. CASE block_receive(p)
  <2>1. PICK name \in Typed, recid \in Uses[p], expected \in Ids \cup {AnySender} :
           asked' = [asked EXCEPT ![p] =
              [name |-> name, recid |-> recid, expected |-> expected]]
    BY <1>3 DEF block_receive, blocking_recieve, Remember
  <2>2. p \in alive /\ Next /\ UNCHANGED handler
    BY <1>0, <1>3, MenuCalls DEF block_receive, blocking_recieve, AtMenu, At
  <2>3. pc' \in [Pids -> Places] /\ \A q \in Pids \ {p} : pc'[q] = pc[q]
    BY <1>3 DEF block_receive, blocking_recieve, Places, InReceive
  <2>4. asked'[p] \in Asked /\ asked'[p].recid \in Uses[p] /\ asked'[p] \in AskedSoFar
    BY <1>0, <2>1 DEF Asked, AskedSoFar
  <2>5. \A q \in Pids \ {p} : asked'[q] = asked[q]
    BY <2>1
  <2>6. asked' \in [Pids -> AskedSoFar]
    BY <2>1, <2>4, <2>5
  <2>7. \A q \in Pids : AskedReady(q)'
    BY <2>2, <2>3, <2>4, <2>5 DEF AskedReady
  <2> QED
    BY <2>2, <2>3, <2>6, <2>7, AliveShrinks
<1>4. CASE blocking_send(p)
  <2>1. p \in alive /\ Next /\ UNCHANGED asked
    BY <1>4, MenuCalls DEF blocking_send, mq_send, AtMenu, At
  <2>2. handler' = [handler EXCEPT ![p]["SIGUSR1"] = "ipthandler",
                                   ![p]["SIGUSR2"] = "ipthandler"]
    BY <1>4 DEF blocking_send, mq_send
  <2>3. pc' = [pc EXCEPT ![p] = "sent"]
    BY <1>4 DEF blocking_send
  <2>4. pc' \in [Pids -> Places]
    BY <2>3 DEF Places, InSend
  <2>5. handler' \in [Pids -> [Signals -> Handlers]]
    BY <2>2 DEF Handlers, Signals
  <2>6. \A q \in Pids : AskedReady(q)'
    BY <2>1, <2>2, <2>3 DEF AskedReady, InReceive, Signals
  <2> QED
    BY <2>1, <2>4, <2>5, <2>6, AliveShrinks
<1>5. CASE reqnotify(p)
  <2>1. p \in alive /\ Next /\ UNCHANGED asked
    BY <1>5, MenuCalls DEF reqnotify, mq_reqnotify, AtMenu, At
  <2>2. handler' = [handler EXCEPT ![p]["SIGUSR1"] = "notifyhandler",
                                   ![p]["SIGINT"] = "notifyhandler"]
    BY <1>5 DEF reqnotify, mq_reqnotify
  <2>3. pc' = [pc EXCEPT ![p] = "spinning"]
    BY <1>5 DEF reqnotify
  <2>4. pc' \in [Pids -> Places]
    BY <2>3 DEF Places
  <2>5. handler' \in [Pids -> [Signals -> Handlers]]
    BY <2>2 DEF Handlers, Signals
  <2>6. \A q \in Pids : AskedReady(q)'
    BY <2>1, <2>2, <2>3 DEF AskedReady, InReceive, Signals
  <2> QED
    BY <2>1, <2>4, <2>5, <2>6, AliveShrinks
<1>6. CASE Leave(p)
  <2>1. p \in alive /\ Exit(p) /\ UNCHANGED <<handler, asked>>
    BY <1>6 DEF Leave, Die, AtMenu, At
  <2>2. pc' = [pc EXCEPT ![p] = "dead"]
    BY <1>6 DEF Leave, Die
  <2> QED
    BY <2>1, <2>2, AliveShrinks DEF Next, AskedReady, Places, InReceive
<1>7. CASE Interrupt(p)
  BY <1>7 DEF Interrupt, vars, AskedReady
<1> QED
  BY <1>1, <1>2, <1>3, <1>4, <1>5, <1>6, <1>7 DEF UserStep

\* A step that a process takes without its user.
LEMMA OwnStepServed ==
    ASSUME AskedInv, NEW p \in Pids, OwnStep(p)
    PROVE  AskedInv' /\ [Next]_vars
<1> USE DEF AskedInv
<1>1. CASE InstallReceiveHandler(p)
  <2>1. UNCHANGED <<vars, asked>> /\ At(p, "registered")
    BY <1>1 DEF InstallReceiveHandler
  <2>2. handler' = [handler EXCEPT ![p]["SIGUSR1"] = "inthandler_rec"]
    BY <1>1 DEF InstallReceiveHandler
  <2>3. pc' = [pc EXCEPT ![p] = "armed"]
    BY <1>1 DEF InstallReceiveHandler
  <2>4. pc' \in [Pids -> Places]
    BY <2>3 DEF Places, InReceive
  <2>5. handler' \in [Pids -> [Signals -> Handlers]]
    BY <2>2 DEF Handlers, Signals
  <2>6. \A q \in Pids : AskedReady(q)'
    BY <2>1, <2>2, <2>3 DEF AskedReady, InReceive, At
  <2> QED
    BY <2>1, <2>4, <2>5, <2>6 DEF vars
<1>2. CASE Suspend(p)
  <2>1. UNCHANGED <<vars, handler, asked>>
    BY <1>2 DEF Suspend
  <2>2. PICK place \in {"suspended", "asleep"} :
           /\ pc' = [pc EXCEPT ![p] = place]
           /\ place = "asleep" => pc[p] = "armed"
    BY <1>2 DEF Suspend, At
  <2>3. pc' \in [Pids -> Places]
    BY <2>2 DEF Places, InSend, InReceive
  <2>4. \A q \in Pids : AskedReady(q)'
    BY <2>1, <2>2 DEF AskedReady, InReceive
  <2> QED
    BY <2>1, <2>3, <2>4 DEF vars
<1>3. CASE StopSpinning(p)
  <2>1. UNCHANGED <<vars, handler, asked>> /\ pc' = [pc EXCEPT ![p] = "menu"]
    BY <1>3 DEF StopSpinning
  <2> QED
    BY <2>1 DEF vars, AskedReady, Places, InReceive
<1>4. ASSUME NEW sig \in Signals, Handle(p, sig)
      PROVE  AskedInv' /\ [Next]_vars
  <2>1. CASE Die(p)
    <3>1. p \in alive /\ Exit(p) /\ UNCHANGED <<handler, asked>>
      BY <1>4, <2>1 DEF Handle, Die
    <3>2. pc' = [pc EXCEPT ![p] = "dead"]
      BY <2>1 DEF Die
    <3> QED
      BY <3>1, <3>2, AliveShrinks DEF Next, AskedReady, Places, InReceive
  <2>2. CASE AfterHandler(p) /\ UNCHANGED <<handler, asked>>
    <3>1. pc' = [pc EXCEPT ![p] = IF @ \in InSigsuspend THEN "menu" ELSE @]
      BY <2>2 DEF AfterHandler
    <3>2. pc' \in [Pids -> Places] /\ \A q \in Pids : pc'[q] \in InReceive => pc[q] \in InReceive
      BY <3>1 DEF Places, InReceive
    <3>3. \A q \in Pids : AskedReady(q)'
      BY <2>2, <3>2 DEF AskedReady
    <3>4. CASE UNCHANGED vars
      BY <2>2, <3>2, <3>3, <3>4 DEF vars
    <3>5. ASSUME handler[p][sig] = "inthandler_rec",
                 NEW name \in NamesSeen(p), ReceiveAgain(p, name)
          PROVE  AskedInv' /\ [Next]_vars
      <4>1. asked[p] \in Asked /\ asked[p].recid \in Uses[p]
        BY <3>5 DEF AskedReady
      <4>2. name \in Names /\ asked[p].expected \in Ids \cup {AnySender}
        BY <3>5, <4>1 DEF NamesSeen, Asked
      <4>3. p \in alive /\ Next
        BY <1>4, <3>5, <4>1, <4>2, MenuCalls DEF Handle, ReceiveAgain
      <4> QED
        BY <2>2, <3>2, <3>3, <4>3, AliveShrinks
    <3> QED
      BY <1>4, <2>1, <3>4, <3>5 DEF Handle
  <2> QED
    BY <1>4, <2>1, <2>2 DEF Handle
<1> QED
  BY <1>1, <1>2, <1>3, <1>4 DEF OwnStep

LEMMA AskedInvInit == ClientsInit => AskedInv
<1> SUFFICES ASSUME ClientsInit PROVE AskedInv
  OBVIOUS
<1>1. \A p \in Pids : /\ pc[p] = "menu" /\ asked[p] \in AskedSoFar
                      /\ \A sig \in Signals : handler[p][sig] = "SIG_DFL"
  BY DEF ClientsInit, AskedSoFar
<1>2. /\ pc \in [Pids -> Places] /\ handler \in [Pids -> [Signals -> Handlers]]
      /\ asked \in [Pids -> AskedSoFar] /\ alive \subseteq Pids
  BY DEF ClientsInit, Init, Places, Handlers, AskedSoFar
<1> QED
  BY <1>1, <1>2 DEF AskedInv, AskedReady, InReceive

LEMMA AskedInvStep == AskedInv /\ [ClientsNext]_cvars => AskedInv' /\ [Next]_vars
<1> SUFFICES ASSUME AskedInv, [ClientsNext]_cvars PROVE AskedInv' /\ [Next]_vars
  OBVIOUS
<1>1. CASE UNCHANGED cvars
  BY <1>1 DEF cvars, vars, libVars, AskedInv, AskedReady
<1>2. CASE Time
  <2>1. Next /\ UNCHANGED <<pc, handler, asked>>
    BY <1>2 DEF Time, libVars, Next
  <2> QED
    BY <2>1, AliveShrinks DEF AskedInv, AskedReady
<1>3. ASSUME NEW p \in Pids, UserStep(p) \/ OwnStep(p)
      PROVE  AskedInv' /\ [Next]_vars
  BY <1>3, UserStepServed, OwnStepServed
<1> QED
  BY <1>1, <1>2, <1>3 DEF ClientsNext

\* The processes of the library and the menu program, with any users, are
\* callers that the server's specification allows.
THEOREM ClientsServed == ClientsSpec => ClientsImplementServer
<1>1. ClientsInit => Init
  BY DEF ClientsInit
<1> QED
  BY <1>1, AskedInvInit, AskedInvStep, PTL DEF ClientsSpec, ClientsImplementServer, Spec

\* The server's freedom from deadlock among blocked senders holds of the system
\* of server and processes.
THEOREM SystemSendersDeadlockFree == ClientsSpec => []NoSenderDeadlock
BY ClientsServed, SendersDeadlockFree, PTL DEF ClientsImplementServer

-----------------------------------------------------------------------------
(* Who is in the tables of PM, and whom a call signals.                    *)

Waits(q) == \E s \in Slots : /\ blockedQ_array[s] # NULL
                             /\ \E e \in ToSet(blockedQ_array[s]) : e.pid = q
Notified(q) == \E k \in DOMAIN notifiers : notifiers[k].pid = q

OneRow(q) == \A i, j \in DOMAIN blocking_sender :
    blocking_sender[i].pid = q /\ blocking_sender[j].pid = q => i = j

\* What a call of p does for process q, when it may make p wait, add a row for p
\* or note p for notifications.
TracedFor(q, p, waits, sends, notes) ==
    /\ Waits(q)' => Waits(q) \/ (waits /\ q = p)
    /\ Notified(q)' => Notified(q) \/ (notes /\ q = p)
    /\ KnownSender(q)' => KnownSender(q) \/ (sends /\ q = p)
    /\ OneRow(q) /\ ~(sends /\ q = p /\ KnownSender(q)) => OneRow(q)'
    /\ <<q, "SIGUSR1">> \in signals' =>
          \/ Waits(q) \/ Notified(q)
          \/ KnownSender(q) /\ (OneRow(q) => ~KnownSender(q)')
    /\ KnownSender(q) /\ q \in alive => KnownSender(q)' \/ <<q, "SIGUSR1">> \in signals'
    /\ <<q, "SIGUSR2">> \in signals' =>
          sends /\ q = p /\ (KnownSender(q)' => KnownSender(q))
    /\ <<q, "SIGINT">> \notin signals'
    /\ \A sig : <<q, sig>> \in signals' => q \in alive

Traced(p, waits, sends, notes) ==
    UNCHANGED alive /\ \A q \in Pids : TracedFor(q, p, waits, sends, notes)

\* A list makes nobody wait but those who have joined it.
LEMMA RelistedWaits ==
    ASSUME TypesInv, NEW s \in Open, NEW new, NEW joined, NEW q,
           blockedQ_array' = [blockedQ_array EXCEPT ![s] = new],
           \A e \in ToSet(new) : e \in ToSet(blockedQ_array[s]) \/ e.pid \in joined,
           Waits(q)'
    PROVE  Waits(q) \/ q \in joined
<1>1. /\ s \in Slots /\ blockedQ_array[s] # NULL
      /\ blockedQ_array \in [Slots -> Seq(ProcNode) \cup {NULL}]
  BY NotNull DEF TypesInv, TablesInv, Open
<1>2. PICK t \in Slots : /\ blockedQ_array'[t] # NULL
                         /\ \E e \in ToSet(blockedQ_array'[t]) : e.pid = q
  BY DEF Waits
<1>3. CASE t = s
  BY <1>1, <1>2, <1>3 DEF Waits
<1>4. CASE t # s
  BY <1>1, <1>2, <1>4 DEF Waits
<1> QED
  BY <1>3, <1>4

\* A new row is its sender's.
LEMMA AddedRowTraced ==
    ASSUME SendersInv, NEW p \in Pids, NEW sNo \in Ids, NEW rs \in RecvLists,
           blocking_sender' = blocking_adder_add(p, sNo, rs), NEW q
    PROVE  /\ KnownSender(q)' => KnownSender(q) \/ q = p
           /\ KnownSender(q) => KnownSender(q)'
           /\ q = p => KnownSender(q)'
           /\ OneRow(q) /\ ~(q = p /\ KnownSender(q)) => OneRow(q)'
<1> DEFINE t   == blocking_sender
           row == [pid |-> p, cnt |-> Len(rs), no |-> sNo, to |-> rs]
<1>1. row \in Sender /\ row.pid = p
  BY LenProperties, ConstantsAssumption DEF Sender, ConstantsAssumption
<1>2. t' = Append(t, row) /\ t \in Seq(Sender)
  BY DEF blocking_adder_add, SendersInv
<1> HIDE DEF row, t
<1>3. /\ Len(t) \in Nat /\ DOMAIN t = 1 .. Len(t) /\ DOMAIN t' = 1 .. Len(t) + 1
      /\ t'[Len(t) + 1] = row /\ \A k \in 1 .. Len(t) : t'[k] = t[k]
  <2>1. t' \in Seq(Sender) /\ Len(t') = Len(t) + 1
    BY <1>1, <1>2, AppendProperties
  <2> QED
    BY <1>1, <1>2, <2>1, AppendProperties, LenProperties
<1>4. KnownSender(q)' <=> \E i \in 1 .. Len(t) + 1 : t'[i].pid = q
  BY <1>3 DEF KnownSender, t
<1>5. KnownSender(q) <=> \E i \in 1 .. Len(t) : t[i].pid = q
  BY <1>3 DEF KnownSender, t
<1>6. \A k \in 1 .. Len(t) + 1 : k \in 1 .. Len(t) \/ k = Len(t) + 1
  BY <1>3
<1>7. \A k \in 1 .. Len(t) : k \in 1 .. Len(t) + 1
  BY <1>3
<1>8. Len(t) + 1 \in 1 .. Len(t) + 1
  BY <1>3
<1>9. ASSUME OneRow(q), ~(q = p /\ KnownSender(q)),
             NEW i \in 1 .. Len(t) + 1, NEW j \in 1 .. Len(t) + 1,
             t'[i].pid = q, t'[j].pid = q
      PROVE  i = j
  <2>1. \A k \in 1 .. Len(t), m \in 1 .. Len(t) : t[k].pid = q /\ t[m].pid = q => k = m
    BY <1>3, <1>9 DEF OneRow, t
  <2>2. CASE i \in 1 .. Len(t) /\ j \in 1 .. Len(t)
    BY <1>3, <1>9, <2>1, <2>2
  <2>3. CASE i = Len(t) + 1 \/ j = Len(t) + 1
    <3>1. q = p
      BY <1>1, <1>3, <1>9, <2>3
    <3>2. \A k \in 1 .. Len(t) : t'[k].pid # q
      BY <1>3, <1>5, <1>9, <3>1
    <3> QED
      BY <1>6, <1>9, <3>2
  <2> QED
    BY <1>6, <2>2, <2>3
<1>10. OneRow(q) /\ ~(q = p /\ KnownSender(q)) => OneRow(q)'
  BY <1>3, <1>9 DEF OneRow, t
<1> QED
  BY <1>1, <1>3, <1>4, <1>5, <1>6, <1>7, <1>8, <1>10

\* A reader counted leaves the processes of the rows, but for that of a row that
\* is taken out, which is woken.
LEMMA FreedRows ==
    ASSUME SendersInv, NEW sNo
    PROVE  LET freed == remove_send_blocking_rid(sNo)
               t     == blocking_sender
           IN  \/ /\ freed.woken = {} /\ DOMAIN freed.table = DOMAIN t
                  /\ \A k \in DOMAIN t : freed.table[k].pid = t[k].pid
               \/ \E i \in 1 .. Len(t) :
                     freed.woken = {t[i].pid} /\ freed.table = RemoveAt(t, i)
<1> DEFINE t   == blocking_sender
           hit == {k \in 1 .. Len(t) : t[k].no = sNo}
           i   == SelectInSeq(t, LAMBDA e : e.no = sNo)
           freed == remove_send_blocking_rid(sNo)
<1>1. t \in Seq(Sender) /\ Len(t) \in Nat /\ DOMAIN t = 1 .. Len(t)
  BY LenProperties DEF SendersInv
<1>2. i = 0 \/ i \in 1 .. Len(t)
  <2>1. i = IF hit # {} THEN Min(hit) ELSE 0
    BY DEF SelectInSeq
  <2>2. hit \in SUBSET Nat
    BY <1>1
  <2> QED
    BY <2>1, <2>2, MinProperty
<1>3. CASE i = 0
  BY <1>3 DEF remove_send_blocking_rid
<1>4. CASE i # 0 /\ t[i].cnt = 1
  BY <1>2, <1>4 DEF remove_send_blocking_rid
<1>5. CASE i # 0 /\ t[i].cnt # 1
  <2> DEFINE row == [t[i] EXCEPT !.cnt = @ - 1]
  <2>1. freed.table = [t EXCEPT ![i] = row] /\ freed.woken = {} /\ i \in 1 .. Len(t)
    BY <1>2, <1>5 DEF remove_send_blocking_rid
  <2>2. t[i] \in Sender
    BY <1>1, <2>1, ElementOfSeq
  <2>3. row.pid = t[i].pid
    <3> HIDE DEF t, i
    <3> QED
      BY <2>2 DEF Sender
  <2> HIDE DEF t, i, row, freed
  <2>4. /\ DOMAIN freed.table = DOMAIN t
        /\ \A k \in DOMAIN t : freed.table[k].pid = t[k].pid
    BY <1>1, <2>1, <2>3
  <2> QED
    BY <2>1, <2>4 DEF freed, t
<1> QED
  BY <1>3, <1>4, <1>5

LEMMA FreedRowTraced ==
    ASSUME SendersInv, NEW sNo,
           blocking_sender' = remove_send_blocking_rid(sNo).table,
           signals' = check_sig(remove_send_blocking_rid(sNo).woken, "SIGUSR1"), NEW q
    PROVE  /\ KnownSender(q)' => KnownSender(q)
           /\ OneRow(q) => OneRow(q)'
           /\ <<q, "SIGUSR1">> \in signals' =>
                 KnownSender(q) /\ (OneRow(q) => ~KnownSender(q)')
           /\ KnownSender(q) /\ q \in alive =>
                 KnownSender(q)' \/ <<q, "SIGUSR1">> \in signals'
<1> DEFINE t     == blocking_sender
           freed == remove_send_blocking_rid(sNo)
<1>1. t \in Seq(Sender) /\ Len(t) \in Nat /\ DOMAIN t = 1 .. Len(t) /\ t' = freed.table
  BY LenProperties DEF SendersInv
<1>2. <<q, "SIGUSR1">> \in signals' <=> q \in freed.woken \cap alive
  <2> HIDE DEF freed
  <2>1. signals' = {<<r, "SIGUSR1">> : r \in freed.woken \cap alive}
    BY DEF check_sig, freed
  <2> QED
    BY <2>1
<1>3. CASE /\ freed.woken = {} /\ DOMAIN freed.table = DOMAIN t
           /\ \A k \in DOMAIN t : freed.table[k].pid = t[k].pid
  <2> HIDE DEF freed
  <2> QED
    BY <1>1, <1>2, <1>3 DEF KnownSender, OneRow
<1>4. ASSUME NEW i \in 1 .. Len(t), freed.woken = {t[i].pid}, freed.table = RemoveAt(t, i)
      PROVE  /\ KnownSender(q)' => KnownSender(q)
             /\ OneRow(q) => OneRow(q)'
             /\ <<q, "SIGUSR1">> \in signals' =>
                   KnownSender(q) /\ (OneRow(q) => ~KnownSender(q)')
             /\ KnownSender(q) /\ q \in alive =>
                   KnownSender(q)' \/ <<q, "SIGUSR1">> \in signals'
  <2>0. t' = RemoveAt(t, i) /\ i \in Nat /\ 1 <= i /\ i <= Len(t)
    BY <1>1, <1>4
  <2> HIDE DEF freed, t
  <2>1. /\ Len(t') = Len(t) - 1 /\ t' \in Seq(Sender)
        /\ \A k \in 1 .. Len(t) - 1 : t'[k] = IF k < i THEN t[k] ELSE t[k + 1]
    BY <1>1, <2>0, RemoveAtProperties
  <2>2. DOMAIN t' = 1 .. Len(t) - 1
    BY <2>1, LenProperties
  <2> DEFINE old(k) == IF k < i THEN k ELSE k + 1
  <2>3. \A k \in 1 .. Len(t) - 1 : /\ old(k) \in 1 .. Len(t) /\ old(k) # i
                                   /\ t'[k] = t[old(k)]
    <3>1. ASSUME NEW k \in 1 .. Len(t) - 1
          PROVE  old(k) \in 1 .. Len(t) /\ old(k) # i
      BY <1>1, <2>0
    <3>2. ASSUME NEW k \in 1 .. Len(t) - 1
          PROVE  t'[k] = t[old(k)]
      BY <2>1
    <3> HIDE DEF old
    <3> QED
      BY <3>1, <3>2
  <2>4. \A k, m \in 1 .. Len(t) - 1 : old(k) = old(m) => k = m
    BY <1>1, <2>0
  <2>5. \A m \in 1 .. Len(t) : m = i \/ \E k \in 1 .. Len(t) - 1 : old(k) = m
    <3>1. ASSUME NEW m \in 1 .. Len(t), m < i
          PROVE  m \in 1 .. Len(t) - 1 /\ old(m) = m
      BY <1>1, <2>0, <3>1
    <3>2. ASSUME NEW m \in 1 .. Len(t), i < m
          PROVE  m - 1 \in 1 .. Len(t) - 1 /\ old(m - 1) = m
      BY <1>1, <2>0, <3>2
    <3>3. \A m \in 1 .. Len(t) : m < i \/ i < m \/ m = i
      BY <1>1, <2>0
    <3> HIDE DEF old
    <3> QED
      BY <3>1, <3>2, <3>3
  <2> HIDE DEF old
  <2>6. KnownSender(q)' <=> \E k \in 1 .. Len(t) - 1 : t'[k].pid = q
    BY <2>2 DEF KnownSender, t
  <2>7. KnownSender(q) <=> \E k \in 1 .. Len(t) : t[k].pid = q
    BY <1>1 DEF KnownSender, t
  <2>8. OneRow(q)' <=> \A k, m \in 1 .. Len(t) - 1 :
                           t'[k].pid = q /\ t'[m].pid = q => k = m
    BY <2>2 DEF OneRow, t
  <2>9. OneRow(q) <=> \A k, m \in 1 .. Len(t) : t[k].pid = q /\ t[m].pid = q => k = m
    BY <1>1 DEF OneRow, t
  <2>10. KnownSender(q)' => KnownSender(q)
    BY <2>3, <2>6, <2>7
  <2>11. OneRow(q) => OneRow(q)'
    BY <2>3, <2>4, <2>8, <2>9
  <2>12. q = t[i].pid => KnownSender(q) /\ (OneRow(q) => ~KnownSender(q)')
    BY <2>3, <2>6, <2>7, <2>9, <1>4
  <2>13. ASSUME NEW m \in 1 .. Len(t), t[m].pid = q, q # t[i].pid
         PROVE  KnownSender(q)'
    <3>1. PICK k \in 1 .. Len(t) - 1 : old(k) = m
      BY <2>5, <2>13
    <3>2. t'[k].pid = q
      BY <2>3, <2>13, <3>1
    <3> QED
      BY <2>6, <3>2
  <2> QED
    BY <1>2, <1>4, <2>7, <2>10, <2>11, <2>12, <2>13
<1> QED
  BY <1>3, <1>4, FreedRows

LEMMA CheckSig ==
    ASSUME NEW ps, NEW raised
    PROVE  \A q, sig : <<q, sig>> \in check_sig(ps, raised) <=>
                          sig = raised /\ q \in ps /\ q \in alive
BY DEF check_sig

\* The calls that neither signal, send nor list anybody.
LEMMA QuietTraced ==
    ASSUME TypesInv, NEW p,
           UNCHANGED <<blocking_sender, notifiers, alive>>, signals' = {},
           \A q \in Pids : Waits(q)' => Waits(q)
    PROVE  Traced(p, FALSE, FALSE, FALSE)
BY DEF Traced, TracedFor, Notified, KnownSender, OneRow

LEMMA OpenTraced ==
    ASSUME TypesInv, NEW p, NEW name, NEW cap, NEW type, do_open_q(p, name, cap, type)
    PROVE  Traced(p, FALSE, FALSE, FALSE)
<1> DEFINE idx == get_empty_q_slot
<1>1. UNCHANGED <<blocking_sender, notifiers, alive>> /\ signals' = {}
  BY DEF do_open_q
<1>2. ASSUME NEW q \in Pids, Waits(q)'
      PROVE  Waits(q)
  <2>1. CASE UNCHANGED blockedQ_array
    BY <1>2, <2>1 DEF Waits
  <2>2. CASE idx # NULL /\ blockedQ_array' = [blockedQ_array EXCEPT ![idx] = <<>>]
    <3>1. idx \in Slots
      BY <2>2, SlotFound
    <3> HIDE DEF idx
    <3>2. blockedQ_array \in [Slots -> Seq(ProcNode) \cup {NULL}]
      BY DEF TypesInv, TablesInv
    <3>3. ToSet(<<>>) = {}
      BY DEF ToSet
    <3> QED
      BY <1>2, <2>2, <3>1, <3>2, <3>3 DEF Waits
  <2> QED
    BY <2>1, <2>2 DEF do_open_q
<1> QED
  BY <1>1, <1>2, QuietTraced

LEMMA CloseTraced ==
    ASSUME TypesInv, NEW p, NEW name, do_close_q(p, name)
    PROVE  Traced(p, FALSE, FALSE, FALSE)
<1> DEFINE idx == check_queue_exist(name)
<1>1. UNCHANGED <<blocking_sender, notifiers, alive>> /\ signals' = {}
  BY DEF do_close_q
<1>2. ASSUME NEW q \in Pids, Waits(q)'
      PROVE  Waits(q)
  <2>1. CASE UNCHANGED blockedQ_array
    BY <1>2, <2>1 DEF Waits
  <2>2. CASE blockedQ_array' = [blockedQ_array EXCEPT ![idx] = NULL]
    <3> HIDE DEF idx
    <3>1. blockedQ_array \in [Slots -> Seq(ProcNode) \cup {NULL}]
      BY DEF TypesInv, TablesInv
    <3> QED
      BY <1>2, <2>2, <3>1 DEF Waits
  <2> QED
    BY <2>1, <2>2 DEF do_close_q
<1> QED
  BY <1>1, <1>2, QuietTraced

LEMMA AttrTraced ==
    ASSUME TypesInv, NEW p, NEW name, NEW cap, NEW type,
           do_set_attr_q(p, name, cap, type) \/ do_get_attr_q(p, name)
    PROVE  Traced(p, FALSE, FALSE, FALSE)
<1>1. /\ UNCHANGED <<blockedQ_array, blocking_sender, notifiers, alive>>
      /\ signals' = {}
  BY DEF do_set_attr_q, do_get_attr_q
<1> QED
  BY <1>1, QuietTraced DEF Waits

LEMMA NotifyTraced ==
    ASSUME TypesInv, NEW p, NEW id, do_mqreqnotify(p, id)
    PROVE  Traced(p, FALSE, FALSE, TRUE)
<1>1. /\ UNCHANGED <<blockedQ_array, blocking_sender, alive>> /\ signals' = {}
      /\ \/ UNCHANGED notifiers
         \/ notifiers' = Append(notifiers, [pid |-> p, id |-> id])
  BY DEF do_mqreqnotify
<1>2. ASSUME NEW q, Notified(q)' PROVE Notified(q) \/ q = p
  <2>1. CASE UNCHANGED notifiers
    BY <1>2, <2>1 DEF Notified
  <2>2. CASE notifiers' = Append(notifiers, [pid |-> p, id |-> id])
    <3> DEFINE T   == [pid : Pids, id : Ids]
               row == [pid |-> p, id |-> id]
    <3>1. notifiers \in Seq(T) /\ Len(notifiers) \in Nat
      BY LenProperties DEF TypesInv, RestOK
    <3>2. /\ DOMAIN notifiers = 1 .. Len(notifiers)
          /\ DOMAIN notifiers' = 1 .. Len(notifiers) + 1
          /\ \A k \in 1 .. Len(notifiers) + 1 :
                notifiers'[k] = IF k <= Len(notifiers) THEN notifiers[k] ELSE row
      BY <2>2, <3>1
    <3>3. row.pid = p
      OBVIOUS
    <3> HIDE DEF row
    <3>4. PICK k \in 1 .. Len(notifiers) + 1 : notifiers'[k].pid = q
      BY <1>2, <3>2 DEF Notified
    <3>5. CASE k <= Len(notifiers)
      <4>1. k \in DOMAIN notifiers
        BY <3>1, <3>2, <3>5
      <4> QED
        BY <3>2, <3>4, <3>5, <4>1 DEF Notified
    <3>6. CASE ~(k <= Len(notifiers))
      BY <3>2, <3>3, <3>4, <3>6
    <3> QED
      BY <3>5, <3>6
  <2> QED
    BY <1>1, <2>1, <2>2
<1> QED
  BY <1>1, <1>2 DEF Traced, TracedFor, Waits, KnownSender, OneRow

LEMMA SendTraced ==
    ASSUME TypesInv, NEW p \in Pids, NEW name \in Names, NEW m \in Message,
           do_send_mg_q(p, name, m)
    PROVE  Traced(p, FALSE, TRUE, FALSE)
<1> DEFINE idx  == check_queue_exist(name)
           rs   == m.recieverIds
           wake == WakeReceivers(blockedQ_array[idx], rs)
<1>1. UNCHANGED <<notifiers, alive>> /\ SendersInv
  BY DEF do_send_mg_q, TypesInv
<1>2. \A q : Notified(q)' => Notified(q)
  BY <1>1 DEF Notified
<1>3. CASE UNCHANGED <<blockedQ_array, blocking_sender>> /\ signals' = check_sig({p}, "SIGUSR2")
  <2>1. \A q, sig : <<q, sig>> \in signals' <=> sig = "SIGUSR2" /\ q = p /\ q \in alive
    <3> DEFINE raised == check_sig({p}, "SIGUSR2")
    <3>1. \A q, sig : <<q, sig>> \in raised
                            <=> sig = "SIGUSR2" /\ q \in {p} /\ q \in alive
      BY CheckSig
    <3>2. signals' = raised
      BY <1>3
    <3> HIDE DEF raised
    <3> TAKE q, sig
    <3>3. <<q, sig>> \in raised <=> sig = "SIGUSR2" /\ q \in {p} /\ q \in alive
      BY <3>1, Zenon
    <3> QED
      BY <3>2, <3>3
  <2> QED
    BY <1>1, <1>2, <1>3, <2>1 DEF Traced, TracedFor, Waits, KnownSender, OneRow
<1>4. CASE /\ idx # NULL
           /\ \/ blocking_sender' = blocking_adder_add(p, m.senderId, rs)
              \/ UNCHANGED blocking_sender
           /\ blockedQ_array' = [blockedQ_array EXCEPT ![idx] = wake.list]
           /\ signals' = check_sig(f_intNotifyChk(rs) \cup wake.woken, "SIGUSR1")
  <2>1. idx \in Open /\ blockedQ_array[idx] \in Seq(ProcNode) /\ blockedQ_array[idx] # NULL
    BY <1>4, QueueFound, NotNull DEF TypesInv
  <2>2. rs \in Seq(Ids) /\ rs \in RecvLists /\ m.senderId \in Ids
    BY ConstantsAssumption DEF Message, ConstantsAssumption
  <2>3. /\ wake.list \in Seq(ProcNode)
        /\ Thinned(wake.list, blockedQ_array[idx], wake.woken)
    BY <2>1, <2>2, WakeReceiversTells
  <2>4. wake.woken \subseteq {e.pid : e \in ToSet(blockedQ_array[idx])}
    BY <2>1, <2>2, WokenWaited DEF TypesInv, SendersInv
  <2>5. \A q, sig : <<q, sig>> \in signals' <=>
            /\ sig = "SIGUSR1" /\ q \in alive
            /\ q \in f_intNotifyChk(rs) \cup wake.woken
    <3> DEFINE ps == f_intNotifyChk(rs) \cup wake.woken
    <3>0. signals' = check_sig(ps, "SIGUSR1")
      BY <1>4
    <3> HIDE DEF ps
    <3> DEFINE raised == check_sig(ps, "SIGUSR1")
    <3>1. \A q, sig : <<q, sig>> \in raised
                            <=> sig = "SIGUSR1" /\ q \in ps /\ q \in alive
      BY CheckSig
    <3> HIDE DEF raised
    <3>2. signals' = raised
      BY <3>0 DEF raised
    <3> TAKE q, sig
    <3>3. <<q, sig>> \in raised <=> sig = "SIGUSR1" /\ q \in ps /\ q \in alive
      BY <3>1, Zenon
    <3> QED
      BY <3>2, <3>3 DEF ps
  <2> HIDE DEF wake
  <2>6. \A e \in ToSet(wake.list) : e \in ToSet(blockedQ_array[idx])
    BY <2>1, <2>3, ThinnedMembers
  <2>7. ASSUME NEW q, q \in wake.woken PROVE Waits(q)
    BY <2>1, <2>4, <2>7 DEF Waits, Open
  <2>8. ASSUME NEW q, q \in f_intNotifyChk(rs) PROVE Notified(q)
    BY <2>8 DEF f_intNotifyChk, Notified
  <2>9. ASSUME NEW q, Waits(q)' PROVE Waits(q)
    <3> HIDE DEF idx
    <3> DEFINE nobody == {}
    <3>1. q \notin nobody
      OBVIOUS
    <3> HIDE DEF nobody
    <3>2. \A e \in ToSet(wake.list) : e \in ToSet(blockedQ_array[idx]) \/ e.pid \in nobody
      BY <2>6
    <3>3. Waits(q) \/ q \in nobody
      BY <1>4, <2>1, <2>9, <3>2, RelistedWaits
    <3> QED
      BY <3>1, <3>3
  <2>10. ASSUME NEW q
         PROVE  /\ KnownSender(q)' => KnownSender(q) \/ q = p
                /\ KnownSender(q) => KnownSender(q)'
                /\ OneRow(q) /\ ~(q = p /\ KnownSender(q)) => OneRow(q)'
    <3>1. CASE UNCHANGED blocking_sender
      BY <3>1 DEF KnownSender, OneRow
    <3>2. CASE blocking_sender' = blocking_adder_add(p, m.senderId, rs)
      BY <1>1, <2>2, <3>2, AddedRowTraced
    <3> QED
      BY <1>4, <3>1, <3>2
  <2> QED
    BY <1>1, <1>2, <2>5, <2>7, <2>8, <2>9, <2>10 DEF Traced, TracedFor
<1> QED
  BY <1>3, <1>4 DEF do_send_mg_q

LEMMA AppendedMembers ==
    ASSUME NEW T, NEW l \in Seq(T), NEW row \in T
    PROVE  ToSet(Append(l, row)) = ToSet(l) \cup {row}
<1> DEFINE new == Append(l, row)
<1>1. /\ new \in Seq(T) /\ Len(new) = Len(l) + 1 /\ new[Len(l) + 1] = row
      /\ \A k \in 1 .. Len(l) : new[k] = l[k]
  BY AppendProperties
<1>2. Len(l) \in Nat /\ DOMAIN l = 1 .. Len(l)
  BY LenProperties
<1> HIDE DEF new
<1>3. DOMAIN new = 1 .. Len(l) + 1
  BY <1>1, LenProperties
<1>4. \A k \in 1 .. Len(l) + 1 : k \in 1 .. Len(l) \/ k = Len(l) + 1
  BY <1>2
<1>5. \A k \in 1 .. Len(l) : k \in 1 .. Len(l) + 1
  BY <1>2
<1>6. Len(l) + 1 \in 1 .. Len(l) + 1
  BY <1>2
<1>7. ToSet(new) = ToSet(l) \cup {row}
  BY <1>1, <1>2, <1>3, <1>4, <1>5, <1>6 DEF ToSet
<1> QED
  BY <1>7 DEF new

\* Only a blocking receive that finds no message makes its caller wait.
LEMMA NoMessageWaits ==
    ASSUME TypesInv, NEW p \in Pids, NEW idx \in Open, NEW list \in Seq(ProcNode),
           \A e \in ToSet(list) : e \in ToSet(blockedQ_array[idx]),
           NEW recid \in Ids, NEW expected \in Ids \cup {AnySender}, NEW mayWait,
           NoMessage(p, idx, list, recid, expected, mayWait),
           NEW q, Waits(q)'
    PROVE  Waits(q) \/ (mayWait /\ reply'.code = MSG_REC_NO_MSG /\ q = p)
<1> DEFINE nobody == {}
           longer == add_to_blocked_receiver_list(list, p, expected, recid)
<1>1. CASE blockedQ_array' = [blockedQ_array EXCEPT ![idx] = list]
  <2>1. q \notin nobody
    OBVIOUS
  <2> HIDE DEF nobody
  <2>2. \A e \in ToSet(list) : e \in ToSet(blockedQ_array[idx]) \/ e.pid \in nobody
    OBVIOUS
  <2> QED
    BY <1>1, <2>1, <2>2, RelistedWaits
<1>2. CASE /\ mayWait /\ blockedQ_array' = [blockedQ_array EXCEPT ![idx] = longer]
           /\ NothingFor(p, MSG_REC_NO_MSG, queue_arr[idx].name, recid, expected)
  <2> DEFINE row == [pid |-> p, recid |-> recid, sendid |-> expected]
  <2>1. row \in ProcNode /\ row.pid = p /\ longer = Append(list, row)
    BY DEF ProcNode, add_to_blocked_receiver_list
  <2> HIDE DEF row, longer
  <2>2. ToSet(longer) = ToSet(list) \cup {row}
    BY <2>1, AppendedMembers
  <2>3. \A e \in ToSet(longer) : e \in ToSet(blockedQ_array[idx]) \/ e.pid \in {p}
    BY <2>1, <2>2
  <2>4. Waits(q) \/ q \in {p}
    BY <1>2, <2>3, RelistedWaits
  <2>5. reply'.code = MSG_REC_NO_MSG
    BY <1>2 DEF NothingFor, Reply
  <2> QED
    BY <1>2, <2>4, <2>5
<1> QED
  BY <1>1, <1>2 DEF NoMessage

LEMMA ReceiveTraced ==
    ASSUME TypesInv, NEW p \in Pids, NEW name \in Names, NEW recid \in Ids,
           NEW expected \in Ids \cup {AnySender}, NEW mayWait,
           Receive(p, name, recid, expected, mayWait)
    PROVE  Traced(p, mayWait /\ reply'.code = MSG_REC_NO_MSG, FALSE, FALSE)
<1> DEFINE idx  == check_queue_exist(name)
           msgs == queue_arr[idx].msgs
           wait == blockedQ_array[idx]
           list == StillWaiting(wait, msgs)
           soon == mayWait /\ reply'.code = MSG_REC_NO_MSG
<1>1. UNCHANGED <<notifiers, alive>> /\ SendersInv
  BY DEF Receive, TypesInv
<1>2. \A q : Notified(q)' => Notified(q)
  BY <1>1 DEF Notified
<1>3. CASE UNCHANGED <<blockedQ_array, blocking_sender>> /\ signals' = {}
  BY <1>1, <1>2, <1>3 DEF Traced, TracedFor, Waits, KnownSender, OneRow
<1>4. ASSUME idx # NULL
      PROVE  /\ idx \in Open /\ wait \in Seq(ProcNode) /\ msgs \in Seq(Message)
             /\ list \in Seq(ProcNode) /\ \A e \in ToSet(list) : e \in ToSet(wait)
  <2>1. idx \in Open /\ wait \in Seq(ProcNode) /\ msgs \in Seq(Message)
    BY <1>4, QueueFound DEF TypesInv, GoodQueue, Queue
  <2> HIDE DEF idx, wait, msgs
  <2>2. list \in Seq(ProcNode) /\ Thinned(list, wait, Purged(wait, msgs))
    BY <2>1, StillWaitingTyped, StillWaitingThins
  <2> HIDE DEF list
  <2> QED
    BY <2>1, <2>2, ThinnedMembers
<1>5. CASE /\ idx # NULL /\ NoMessage(p, idx, wait, recid, expected, mayWait)
           /\ signals' = {} /\ UNCHANGED blocking_sender
  <2>1. idx \in Open /\ wait \in Seq(ProcNode)
    BY <1>4, <1>5
  <2> HIDE DEF idx
  <2>2. \A q : Waits(q)' => Waits(q) \/ (soon /\ q = p)
    BY <1>5, <2>1, NoMessageWaits
  <2> QED
    BY <1>1, <1>2, <1>5, <2>2 DEF Traced, TracedFor, KnownSender, OneRow
<1>6. CASE idx # NULL /\ ReceiveFrom(p, idx, recid, expected, mayWait)
  <2>1. /\ idx \in Open /\ list \in Seq(ProcNode)
        /\ \A e \in ToSet(list) : e \in ToSet(blockedQ_array[idx])
    BY <1>4, <1>6
  <2>2. PICK sNo : /\ blocking_sender' = remove_send_blocking_rid(sNo).table
                   /\ signals' = check_sig(remove_send_blocking_rid(sNo).woken, "SIGUSR1")
    BY <1>6 DEF ReceiveFrom
  <2>3. \/ blockedQ_array' = [blockedQ_array EXCEPT ![idx] = list]
        \/ NoMessage(p, idx, list, recid, expected, mayWait)
    BY <1>6 DEF ReceiveFrom
  <2> HIDE DEF idx, list
  <2>4. ASSUME NEW q, Waits(q)'
        PROVE  Waits(q) \/ (soon /\ q = p)
    <3>1. CASE NoMessage(p, idx, list, recid, expected, mayWait)
      BY <2>1, <2>4, <3>1, NoMessageWaits
    <3>2. CASE blockedQ_array' = [blockedQ_array EXCEPT ![idx] = list]
      <4> DEFINE nobody == {}
      <4>1. q \notin nobody
        OBVIOUS
      <4> HIDE DEF nobody
      <4>2. \A e \in ToSet(list) : e \in ToSet(blockedQ_array[idx]) \/ e.pid \in nobody
        BY <2>1
      <4> QED
        BY <2>1, <2>4, <3>2, <4>1, <4>2, RelistedWaits
    <3> QED
      BY <2>3, <3>1, <3>2
  <2>5. ASSUME NEW q
        PROVE  /\ KnownSender(q)' => KnownSender(q)
               /\ OneRow(q) => OneRow(q)'
               /\ <<q, "SIGUSR1">> \in signals' =>
                     KnownSender(q) /\ (OneRow(q) => ~KnownSender(q)')
               /\ KnownSender(q) /\ q \in alive =>
                     KnownSender(q)' \/ <<q, "SIGUSR1">> \in signals'
    BY <1>1, <2>2, FreedRowTraced
  <2>6. ASSUME NEW q, NEW sig, <<q, sig>> \in signals'
        PROVE  sig = "SIGUSR1" /\ q \in alive
    <3> DEFINE ps == remove_send_blocking_rid(sNo).woken
    <3>1. signals' = check_sig(ps, "SIGUSR1")
      BY <2>2
    <3> HIDE DEF ps
    <3>2. <<q, sig>> \in check_sig(ps, "SIGUSR1")
      BY <2>6, <3>1
    <3> QED
      BY <3>2, CheckSig
  <2> HIDE DEF soon
  <2> QED
    BY <1>1, <1>2, <2>4, <2>5, <2>6 DEF Traced, TracedFor, soon
<1> QED
  BY <1>3, <1>5, <1>6 DEF Receive

-----------------------------------------------------------------------------
(* Why a signal can be pending.                                            *)

\* Everything but the process itself says whether it is dead.
LibTyped ==
    /\ pending \in [Pids -> SUBSET Signals]
    /\ blocking_return \in [Pids -> {0, 1}]
    /\ notification_alert \in [Pids -> {0, 1}]
    /\ \A p \in Pids : /\ p \in alive <=> pc[p] # "dead"
                       /\ p \notin alive => pending[p] = {}

\* Whoever is in a table of PM has asked for it in the library, and has installed
\* a handler for the signal that may come of it, but for two cases.
CausesFor(q) ==
    /\ handler[q]["SIGINT"] \in {"SIG_DFL", "notifyhandler"}
    /\ handler[q]["SIGUSR2"] \in {"SIG_DFL", "ipthandler"}
    /\ Notified(q) => /\ handler[q]["SIGUSR1"] # "SIG_DFL"
                      /\ handler[q]["SIGINT"] = "notifyhandler"
    /\ Waits(q) => /\ asked[q].recid # NULL
                   /\ pc[q] \in {"registered", "dead"} \/ handler[q]["SIGUSR1"] # "SIG_DFL"
    /\ KnownSender(q) => "send" \in Menu[q] \/ handler[q]["SIGUSR1"] # "SIG_DFL"
    /\ handler[q]["SIGUSR1"] = "SIG_DFL" =>
          /\ pc[q] \in {"menu", "registered", "dead"}
          /\ "SIGUSR1" \in pending[q] => pc[q] = "registered" \/ "send" \in Menu[q]
    /\ handler[q]["SIGUSR2"] = "SIG_DFL" /\ "SIGUSR2" \in pending[q] =>
          pc[q] = "menu" /\ "send" \in Menu[q]

\* The processes that CompletedEarlyOnlyTo excepts.
Excepted(q) ==
    \/ handler[q]["SIGINT"] = "notifyhandler"
    \/ asked[q].recid # NULL
    \/ "send" \in Menu[q]

\* Any other has one row at most, stays in mq_send while it has it, and has no
\* signal of PM's to handle meanwhile.
EarlyFor(q) ==
    ~Excepted(q) =>
        /\ OneRow(q)
        /\ KnownSender(q) => /\ pc[q] \in InSend \cup {"dead"}
                             /\ "SIGUSR1" \notin pending[q] /\ "SIGUSR2" \notin pending[q]

CausesInv == LibTyped /\ \A q \in Pids : CausesFor(q) /\ EarlyFor(q)

LEMMA RaisedTo ==
    ASSUME NEW old, Raise(old), NEW q \in Pids
    PROVE  pending'[q] = old[q] \cup {sig \in Signals : <<q, sig>> \in signals'}
BY DEF Raise

\* A call of another process, and a call that leaves nothing in the tables for
\* its own.
LEMMA Bystander ==
    ASSUME CausesInv, NEW q \in Pids, NEW p, NEW waits, NEW sends, NEW notes,
           TracedFor(q, p, waits, sends, notes),
           q # p \/ ~(waits \/ sends \/ notes),
           pc'[q] = pc[q], handler'[q] = handler[q], asked'[q].recid = asked[q].recid,
           pending'[q] = pending[q] \cup {sig \in Signals : <<q, sig>> \in signals'}
    PROVE  CausesFor(q)' /\ EarlyFor(q)'
<1>0. CausesFor(q) /\ EarlyFor(q) /\ (q \in alive <=> pc[q] # "dead")
  BY DEF CausesInv, LibTyped
<1>1. /\ Waits(q)' => Waits(q)
      /\ Notified(q)' => Notified(q)
      /\ KnownSender(q)' => KnownSender(q)
      /\ OneRow(q) => OneRow(q)'
      /\ <<q, "SIGUSR1">> \in signals' =>
            /\ q \in alive
            /\ Waits(q) \/ Notified(q) \/ (KnownSender(q) /\ (OneRow(q) => ~KnownSender(q)'))
      /\ <<q, "SIGUSR2">> \notin signals'
  BY DEF TracedFor
<1>2. /\ "SIGUSR1" \in pending'[q] <=> "SIGUSR1" \in pending[q] \/ <<q, "SIGUSR1">> \in signals'
      /\ "SIGUSR2" \in pending'[q] <=> "SIGUSR2" \in pending[q]
  BY <1>1 DEF Signals
<1>3. CausesFor(q)'
  BY <1>0, <1>1, <1>2 DEF CausesFor
<1>4. EarlyFor(q)'
  <2> SUFFICES ASSUME ~Excepted(q)'
               PROVE  /\ OneRow(q)'
                      /\ KnownSender(q)' => /\ pc'[q] \in InSend \cup {"dead"}
                                            /\ "SIGUSR1" \notin pending'[q]
                                            /\ "SIGUSR2" \notin pending'[q]
    BY DEF EarlyFor
  <2>1. ~Excepted(q)
    BY DEF Excepted
  <2>2. ~Waits(q) /\ ~Notified(q)
    BY <1>0, <2>1 DEF CausesFor, Excepted
  <2>3. OneRow(q) /\ (KnownSender(q) => /\ pc[q] \in InSend \cup {"dead"}
                                        /\ "SIGUSR1" \notin pending[q]
                                        /\ "SIGUSR2" \notin pending[q])
    BY <1>0, <2>1 DEF EarlyFor
  <2> QED
    BY <1>1, <1>2, <2>2, <2>3
<1> QED
  BY <1>3, <1>4

\* A step that has nothing to do with q.
LEMMA Untouched ==
    ASSUME CausesInv, NEW q \in Pids,
           UNCHANGED <<blockedQ_array, notifiers, blocking_sender>>,
           pc'[q] = pc[q], handler'[q] = handler[q], asked'[q] = asked[q],
           pending'[q] \ {"SIGINT"} \subseteq pending[q]
    PROVE  CausesFor(q)' /\ EarlyFor(q)'
<1>1. CausesFor(q) /\ EarlyFor(q)
  BY DEF CausesInv
<1>2. /\ Waits(q)' <=> Waits(q)
      /\ Notified(q)' <=> Notified(q)
      /\ KnownSender(q)' <=> KnownSender(q)
      /\ OneRow(q)' <=> OneRow(q)
  BY DEF Waits, Notified, KnownSender, OneRow
<1>3. /\ "SIGUSR1" \in pending'[q] => "SIGUSR1" \in pending[q]
      /\ "SIGUSR2" \in pending'[q] => "SIGUSR2" \in pending[q]
  OBVIOUS
<1>4. CausesFor(q)'
  BY <1>1, <1>2, <1>3 DEF CausesFor
<1>5. EarlyFor(q)'
  BY <1>1, <1>2, <1>3 DEF EarlyFor, Excepted
<1> QED
  BY <1>4, <1>5

\* Whoever dies keeps its entries in the tables, and hears of nothing any more.
LEMMA DeathCauses ==
    ASSUME CausesInv, AskedInv, NEW p \in Pids, p \in alive, Die(p)
    PROVE  CausesInv'
<1>0. /\ pc \in [Pids -> Places] /\ pending \in [Pids -> SUBSET Signals]
      /\ \A q \in Pids : (q \in alive <=> pc[q] # "dead") /\ (q \notin alive => pending[q] = {})
  BY DEF CausesInv, LibTyped, AskedInv
<1>1. /\ pc' = [pc EXCEPT ![p] = "dead"] /\ pending' = [pending EXCEPT ![p] = {}]
      /\ alive' = alive \ {p}
      /\ UNCHANGED <<blockedQ_array, notifiers, blocking_sender, handler, asked,
                     blocking_return, notification_alert>>
  BY DEF Die, Exit
<1>2. LibTyped'
  BY <1>0, <1>1 DEF CausesInv, LibTyped
<1>3. ASSUME NEW q \in Pids, q # p
      PROVE  CausesFor(q)' /\ EarlyFor(q)'
  <2>1. pc'[q] = pc[q] /\ pending'[q] = pending[q]
    BY <1>0, <1>1, <1>3
  <2> QED
    BY <1>1, <2>1, Untouched
<1>4. CausesFor(p)' /\ EarlyFor(p)'
  <2>1. CausesFor(p) /\ EarlyFor(p) /\ pc'[p] = "dead" /\ pending'[p] = {}
    BY <1>0, <1>1 DEF CausesInv
  <2>2. /\ Waits(p)' <=> Waits(p)
        /\ Notified(p)' <=> Notified(p)
        /\ KnownSender(p)' <=> KnownSender(p)
        /\ OneRow(p)' <=> OneRow(p)
    BY <1>1 DEF Waits, Notified, KnownSender, OneRow
  <2>3. CausesFor(p)'
    BY <1>1, <2>1, <2>2 DEF CausesFor
  <2>4. EarlyFor(p)'
    BY <1>1, <2>1, <2>2 DEF EarlyFor, Excepted
  <2> QED
    BY <2>3, <2>4
<1> QED
  BY <1>2, <1>3, <1>4 DEF CausesInv

\* What holds after every call of p that changes p's own state only.
OnlyOf(p, old) ==
    /\ Raise(old)
    /\ UNCHANGED <<blocking_return, notification_alert>>
    /\ \A q \in Pids : /\ old[q] \subseteq pending[q]
                       /\ pc'[q] = "dead" <=> pc[q] = "dead"
    /\ \A q \in Pids \ {p} : /\ old[q] = pending[q] /\ pc'[q] = pc[q]
                             /\ handler'[q] = handler[q] /\ asked'[q] = asked[q]

LEMMA CallCauses ==
    ASSUME CausesInv, NEW p \in Pids, NEW waits, NEW sends, NEW notes,
           Traced(p, waits, sends, notes), NEW old, OnlyOf(p, old),
           CausesFor(p)' /\ EarlyFor(p)'
    PROVE  CausesInv'
<1>1. \A q \in Pids : pending'[q] = old[q] \cup {sig \in Signals : <<q, sig>> \in signals'}
  BY RaisedTo DEF OnlyOf
<1>2. LibTyped'
  <2>1. pending' = [q \in Pids |-> old[q] \cup {sig \in Signals : <<q, sig>> \in signals'}]
    BY DEF OnlyOf, Raise
  <2>2. \A q \in Pids : old[q] \subseteq Signals /\ old[q] \subseteq pending[q]
    BY DEF OnlyOf, CausesInv, LibTyped
  <2>3. pending' \in [Pids -> SUBSET Signals]
    BY <2>1, <2>2
  <2>4. ASSUME NEW q \in Pids
        PROVE  /\ q \in alive' <=> pc'[q] # "dead"
               /\ q \notin alive' => pending'[q] = {}
    <3>1. /\ q \in alive <=> pc[q] # "dead"
          /\ q \notin alive => pending[q] = {}
          /\ pc'[q] = "dead" <=> pc[q] = "dead"
      BY DEF OnlyOf, CausesInv, LibTyped
    <3>2. alive' = alive /\ \A sig : <<q, sig>> \in signals' => q \in alive
      BY DEF Traced, TracedFor
    <3> QED
      BY <1>1, <2>2, <3>1, <3>2
  <2> QED
    BY <2>3, <2>4 DEF LibTyped, OnlyOf, CausesInv
<1>3. ASSUME NEW q \in Pids, q # p
      PROVE  CausesFor(q)' /\ EarlyFor(q)'
  <2>1. /\ pc'[q] = pc[q] /\ handler'[q] = handler[q] /\ asked'[q] = asked[q]
        /\ pending'[q] = pending[q] \cup {sig \in Signals : <<q, sig>> \in signals'}
    BY <1>1, <1>3 DEF OnlyOf
  <2>2. TracedFor(q, p, waits, sends, notes)
    BY DEF Traced
  <2> QED
    BY <1>3, <2>1, <2>2, Bystander
<1> QED
  BY <1>2, <1>3 DEF CausesInv

\* What p's own state is like before its call, and what PM's step does for p.
LEMMA AtMenuFacts ==
    ASSUME CausesInv, NEW p \in Pids, NEW choice, AtMenu(p, choice)
    PROVE  /\ p \in alive /\ pc[p] = "menu" /\ pending[p] = {} /\ choice \in Menu[p]
           /\ CausesFor(p) /\ EarlyFor(p)
BY DEF AtMenu, At, CausesInv

LEMMA SendTypedTraced ==
    ASSUME TypesInv, NEW p \in Pids, SendTyped(p)
    PROVE  Traced(p, FALSE, TRUE, FALSE)
<1>1. SendCall(p)
  BY ClientsAssumption DEF SendTyped, SendCall
<1>2. PICK name \in Names, m \in Message : do_send_mg_q(p, name, m)
  BY <1>1, SentMessage
<1> QED
  BY <1>2, SendTraced

LEMMA UserStepCauses ==
    ASSUME TypesInv, AskedInv, CausesInv, NEW p \in Pids, UserStep(p)
    PROVE  CausesInv'
<1>0. /\ Typed \subseteq Names /\ Uses[p] \subseteq Ids
      /\ pc \in [Pids -> Places] /\ handler \in [Pids -> [Signals -> Handlers]]
      /\ asked \in [Pids -> AskedSoFar]
  BY ClientsAssumption, ConstantsAssumption DEF ConstantsAssumption, AskedInv
<1>1. CASE Qopen(p) \/ Qclose(p) \/ Qsetattr(p) \/ Qgetattr(p)
  <2>1. Traced(p, FALSE, FALSE, FALSE)
    BY <1>1, OpenTraced, CloseTraced, AttrTraced DEF Qopen, Qclose, Qsetattr, Qgetattr
  <2>2. Raise(pending)
        /\ UNCHANGED <<pc, handler, blocking_return, notification_alert, asked>>
    BY <1>1 DEF Qopen, Qclose, Qsetattr, Qgetattr
  <2>3. OnlyOf(p, pending)
    BY <2>2 DEF OnlyOf
  <2>4. CausesFor(p)' /\ EarlyFor(p)'
    BY <2>1, <2>2, RaisedTo, Bystander DEF Traced
  <2> QED
    BY <2>1, <2>3, <2>4, CallCauses
<1>2. CASE nonblock_send(p)
  <2>1. /\ AtMenu(p, "send") /\ SendTyped(p) /\ Raise(pending)
        /\ UNCHANGED <<pc, handler, blocking_return, notification_alert, asked>>
    BY <1>2 DEF nonblock_send
  <2>2. Traced(p, FALSE, TRUE, FALSE)
    BY <2>1, SendTypedTraced
  <2>3. OnlyOf(p, pending)
    BY <2>1 DEF OnlyOf
  <2>4. pc[p] = "menu" /\ "send" \in Menu[p] /\ CausesFor(p)
    BY <2>1, AtMenuFacts
  <2>5. CausesFor(p)'
    BY <2>1, <2>2, <2>4 DEF CausesFor, Traced, TracedFor
  <2>6. EarlyFor(p)'
    BY <2>4 DEF EarlyFor, Excepted
  <2> QED
    BY <2>2, <2>3, <2>5, <2>6, CallCauses
<1>3. CASE nonblock_receive(p)
  <2>1. PICK name \in Typed, recid \in Uses[p], expected \in Ids \cup {AnySender} :
           async_recieve(p, name, recid, expected)
    BY <1>3 DEF nonblock_receive
  <2>2. /\ AtMenu(p, "receive") /\ Raise(pending)
        /\ UNCHANGED <<pc, handler, blocking_return, notification_alert>>
    BY <1>3 DEF nonblock_receive
  <2>3. Receive(p, name, recid, expected, FALSE)
        /\ asked' = [asked EXCEPT ![p].expected = expected]
    BY <2>1 DEF async_recieve, do_res_mg_q
  <2> DEFINE soon == FALSE /\ reply'.code = MSG_REC_NO_MSG
  <2>4. Traced(p, soon, FALSE, FALSE) /\ ~soon
    BY <1>0, <2>3, ReceiveTraced
  <2> HIDE DEF soon
  <2>5. /\ asked'[p].recid = asked[p].recid
        /\ \A q \in Pids \ {p} : asked'[q] = asked[q]
    BY <1>0, <2>3 DEF AskedSoFar
  <2>6. OnlyOf(p, pending)
    BY <2>2, <2>5 DEF OnlyOf
  <2>7. TracedFor(p, p, soon, FALSE, FALSE)
        /\ pending'[p] = pending[p] \cup {sig \in Signals : <<p, sig>> \in signals'}
    BY <2>2, <2>4, RaisedTo DEF Traced
  <2>8. CausesFor(p)' /\ EarlyFor(p)'
    BY <2>2, <2>4, <2>5, <2>7, Bystander
  <2> QED
    BY <2>4, <2>6, <2>8, CallCauses
<1>4. CASE block_receive(p)
  <2>1. PICK name \in Typed, recid \in Uses[p], expected \in Ids \cup {AnySender} :
           blocking_recieve(p, name, recid, expected)
    BY <1>4 DEF block_receive
  <2>2. /\ AtMenu(p, "block_receive") /\ Raise(pending)
        /\ UNCHANGED <<handler, blocking_return, notification_alert>>
    BY <1>4 DEF block_receive
  <2> DEFINE none == reply'.code = MSG_REC_NO_MSG
             soon == TRUE /\ reply'.code = MSG_REC_NO_MSG
  <2>3. /\ Receive(p, name, recid, expected, TRUE)
        /\ asked' = [asked EXCEPT ![p] =
                        [name |-> name, recid |-> recid, expected |-> expected]]
        /\ pc' = [pc EXCEPT ![p] = IF none THEN "registered" ELSE @]
    BY <2>1 DEF blocking_recieve, do_blocking_receive, Remember, MustSleep
  <2>4. Traced(p, soon, FALSE, FALSE)
    BY <1>0, <2>3, ReceiveTraced
  <2>5. pc[p] = "menu" /\ pending[p] = {} /\ CausesFor(p)
    BY <2>2, AtMenuFacts
  <2>6. /\ asked'[p].recid = recid /\ recid # NULL
        /\ \A q \in Pids \ {p} : asked'[q] = asked[q] /\ pc'[q] = pc[q]
        /\ pc'[p] = IF soon THEN "registered" ELSE "menu"
    BY <1>0, <2>3, <2>5, ConstantsAssumption DEF ConstantsAssumption
  <2>7. OnlyOf(p, pending)
    BY <2>2, <2>5, <2>6 DEF OnlyOf
  <2>8. pending'[p] = {sig \in Signals : <<p, sig>> \in signals'}
    BY <2>2, <2>5, RaisedTo
  <2> HIDE DEF soon
  <2>9. CausesFor(p)'
    BY <2>2, <2>4, <2>5, <2>6, <2>8 DEF CausesFor, Traced, TracedFor
  <2>10. EarlyFor(p)'
    BY <2>6 DEF EarlyFor, Excepted
  <2> QED
    BY <2>4, <2>7, <2>9, <2>10, CallCauses
<1>5. CASE blocking_send(p)
  <2>1. /\ AtMenu(p, "block_send") /\ SendTyped(p) /\ Raise(pending)
        /\ handler' = [handler EXCEPT ![p]["SIGUSR1"] = "ipthandler",
                                      ![p]["SIGUSR2"] = "ipthandler"]
        /\ pc' = [pc EXCEPT ![p] = "sent"]
        /\ UNCHANGED <<blocking_return, notification_alert, asked>>
    BY <1>5 DEF blocking_send, mq_send
  <2>2. Traced(p, FALSE, TRUE, FALSE)
    BY <2>1, SendTypedTraced
  <2>3. pc[p] = "menu" /\ pending[p] = {} /\ CausesFor(p) /\ EarlyFor(p)
    BY <2>1, AtMenuFacts
  <2>4. /\ handler'[p]["SIGUSR1"] = "ipthandler" /\ handler'[p]["SIGUSR2"] = "ipthandler"
        /\ handler'[p]["SIGINT"] = handler[p]["SIGINT"]
        /\ pc'[p] = "sent"
        /\ \A q \in Pids \ {p} : handler'[q] = handler[q] /\ pc'[q] = pc[q]
    BY <1>0, <2>1 DEF Signals
  <2>5. OnlyOf(p, pending)
    BY <2>1, <2>3, <2>4 DEF OnlyOf
  <2>6. pending'[p] = {sig \in Signals : <<p, sig>> \in signals'}
    BY <2>1, <2>3, RaisedTo
  <2>7. CausesFor(p)'
    BY <2>1, <2>2, <2>3, <2>4 DEF CausesFor, Traced, TracedFor
  <2>8. EarlyFor(p)'
    <3> SUFFICES ASSUME ~Excepted(p)'
                 PROVE  /\ OneRow(p)'
                        /\ KnownSender(p)' => /\ pc'[p] \in InSend \cup {"dead"}
                                              /\ "SIGUSR1" \notin pending'[p]
                                              /\ "SIGUSR2" \notin pending'[p]
      BY DEF EarlyFor
    <3>1. ~Excepted(p)
      BY <2>1, <2>4 DEF Excepted
    <3>2. OneRow(p) /\ ~KnownSender(p)
      BY <2>3, <3>1 DEF EarlyFor, InSend
    <3>3. ~Waits(p) /\ ~Notified(p)
      BY <2>3, <3>1 DEF CausesFor, Excepted
    <3> QED
      BY <2>2, <2>4, <2>6, <3>2, <3>3 DEF Traced, TracedFor, InSend
  <2> QED
    BY <2>2, <2>5, <2>7, <2>8, CallCauses
<1>6. CASE reqnotify(p)
  <2>1. PICK id \in Ids : mq_reqnotify(p, id)
    BY <1>6 DEF reqnotify
  <2>2. /\ AtMenu(p, "notify") /\ do_mqreqnotify(p, id) /\ Raise(pending)
        /\ handler' = [handler EXCEPT ![p]["SIGUSR1"] = "notifyhandler",
                                      ![p]["SIGINT"] = "notifyhandler"]
        /\ pc' = [pc EXCEPT ![p] = "spinning"]
        /\ UNCHANGED <<blocking_return, notification_alert, asked>>
    BY <1>6, <2>1 DEF reqnotify, mq_reqnotify
  <2>3. Traced(p, FALSE, FALSE, TRUE)
    BY <2>2, NotifyTraced
  <2>4. pc[p] = "menu" /\ pending[p] = {} /\ CausesFor(p)
    BY <2>2, AtMenuFacts
  <2>5. /\ handler'[p]["SIGUSR1"] = "notifyhandler"
        /\ handler'[p]["SIGINT"] = "notifyhandler"
        /\ handler'[p]["SIGUSR2"] = handler[p]["SIGUSR2"]
        /\ pc'[p] = "spinning"
        /\ \A q \in Pids \ {p} : handler'[q] = handler[q] /\ pc'[q] = pc[q]
    BY <1>0, <2>2 DEF Signals
  <2>6. OnlyOf(p, pending)
    BY <2>2, <2>4, <2>5 DEF OnlyOf
  <2>7. pending'[p] = {sig \in Signals : <<p, sig>> \in signals'}
    BY <2>2, <2>4, RaisedTo
  <2>8. CausesFor(p)'
    BY <2>2, <2>3, <2>4, <2>5, <2>7 DEF CausesFor, Traced, TracedFor
  <2>9. EarlyFor(p)'
    BY <2>5 DEF EarlyFor, Excepted
  <2> QED
    BY <2>3, <2>6, <2>8, <2>9, CallCauses
<1>7. CASE Leave(p)
  BY <1>7, DeathCauses DEF Leave, AtMenu, At
<1>8. CASE Interrupt(p)
  <2>1. /\ p \in alive /\ pending' = [pending EXCEPT ![p] = @ \cup {"SIGINT"}]
        /\ UNCHANGED <<queue_arr, queue_count, blockedQ_array, blocking_sender,
                       notifiers, alive>>
        /\ UNCHANGED <<pc, handler, blocking_return, notification_alert, asked>>
    BY <1>8 DEF Interrupt, vars
  <2>2. LibTyped'
    BY <2>1 DEF CausesInv, LibTyped, Signals
  <2>3. ASSUME NEW q \in Pids PROVE CausesFor(q)' /\ EarlyFor(q)'
    <3>1. pending'[q] \ {"SIGINT"} \subseteq pending[q]
      BY <2>1 DEF CausesInv, LibTyped
    <3> QED
      BY <2>1, <3>1, Untouched
  <2> QED
    BY <2>2, <2>3 DEF CausesInv
<1> QED
  BY <1>1, <1>2, <1>3, <1>4, <1>5, <1>6, <1>7, <1>8 DEF UserStep

\* A step of p in the library that calls nobody.
LEMMA SilentCauses ==
    ASSUME CausesInv, NEW p \in Pids, UNCHANGED vars, LibTyped',
           \A q \in Pids \ {p} : /\ pc'[q] = pc[q] /\ handler'[q] = handler[q]
                                 /\ asked'[q] = asked[q] /\ pending'[q] = pending[q],
           CausesFor(p)' /\ EarlyFor(p)'
    PROVE  CausesInv'
<1>1. UNCHANGED <<blockedQ_array, notifiers, blocking_sender>>
  BY DEF vars
<1>2. ASSUME NEW q \in Pids, q # p
      PROVE  CausesFor(q)' /\ EarlyFor(q)'
  BY <1>1, <1>2, Untouched
<1> QED
  BY <1>2 DEF CausesInv

LEMMA HandledCauses ==
    ASSUME CausesInv, AskedInv, NEW p \in Pids, NEW sig \in Signals, p \in alive,
           sig \in pending[p], handler[p][sig] \in {"ipthandler", "notifyhandler"},
           AfterHandler(p), pending' = Without(p, sig), UNCHANGED <<vars, handler, asked>>,
           blocking_return' \in [Pids -> {0, 1}], notification_alert' \in [Pids -> {0, 1}]
    PROVE  CausesInv'
<1>1. /\ pc \in [Pids -> Places] /\ pending \in [Pids -> SUBSET Signals]
      /\ \A q \in Pids : (q \in alive <=> pc[q] # "dead") /\ (q \notin alive => pending[q] = {})
      /\ CausesFor(p) /\ EarlyFor(p)
  BY DEF CausesInv, LibTyped, AskedInv
<1>2. /\ pc' = [pc EXCEPT ![p] = IF @ \in InSigsuspend THEN "menu" ELSE @]
      /\ pending' = [pending EXCEPT ![p] = @ \ {sig}]
  BY DEF AfterHandler, Without
<1>3. /\ pc'[p] = (IF pc[p] \in InSigsuspend THEN "menu" ELSE pc[p])
      /\ pending'[p] = pending[p] \ {sig}
      /\ \A q \in Pids \ {p} : pc'[q] = pc[q] /\ pending'[q] = pending[q]
  BY <1>1, <1>2
<1>4. UNCHANGED <<blockedQ_array, notifiers, blocking_sender, alive>>
  BY DEF vars
<1>5. LibTyped'
  <2>1. pending' \in [Pids -> SUBSET Signals]
    BY <1>1, <1>2
  <2>2. \A q \in Pids : /\ q \in alive' <=> pc'[q] # "dead"
                        /\ q \notin alive' => pending'[q] = {}
    BY <1>1, <1>3, <1>4 DEF InSigsuspend
  <2> QED
    BY <2>1, <2>2 DEF LibTyped
<1>6. /\ Waits(p)' <=> Waits(p)
      /\ Notified(p)' <=> Notified(p)
      /\ KnownSender(p)' <=> KnownSender(p)
      /\ OneRow(p)' <=> OneRow(p)
  BY <1>4 DEF Waits, Notified, KnownSender, OneRow
<1>7. CausesFor(p)'
  BY <1>1, <1>3, <1>6 DEF CausesFor, InSigsuspend
<1>8. EarlyFor(p)'
  <2> SUFFICES ASSUME ~Excepted(p)'
               PROVE  OneRow(p)' /\ ~KnownSender(p)'
    BY DEF EarlyFor
  <2>1. ~Excepted(p)
    BY DEF Excepted
  <2>2. OneRow(p) /\ (KnownSender(p) => "SIGUSR1" \notin pending[p] /\ "SIGUSR2" \notin pending[p])
    BY <1>1, <2>1 DEF EarlyFor
  <2>3. handler[p]["SIGINT"] = "SIG_DFL"
    BY <1>1, <2>1 DEF CausesFor, Excepted
  <2>4. sig \in {"SIGUSR1", "SIGUSR2"}
    BY <2>3 DEF Signals
  <2> QED
    BY <1>6, <2>2, <2>4
<1> QED
  BY <1>3, <1>5, <1>7, <1>8, SilentCauses

LEMMA ReceivedAgainCauses ==
    ASSUME TypesInv, CausesInv, AskedInv, NEW p \in Pids, NEW sig \in Signals, p \in alive,
           sig \in pending[p], handler[p][sig] = "inthandler_rec",
           NEW name \in NamesSeen(p), ReceiveAgain(p, name),
           AfterHandler(p), Raise(Without(p, sig)),
           UNCHANGED <<handler, blocking_return, notification_alert, asked>>
    PROVE  CausesInv'
<1>1. asked[p] \in Asked
  BY DEF AskedInv, AskedReady
<1>2. /\ asked[p].recid \in Ids /\ asked[p].expected \in Ids \cup {AnySender}
      /\ name \in Names /\ asked[p].recid # NULL
  BY <1>1, ConstantsAssumption DEF Asked, NamesSeen, ConstantsAssumption
<1> DEFINE soon == TRUE /\ reply'.code = MSG_REC_NO_MSG
<1>3. Receive(p, name, asked[p].recid, asked[p].expected, TRUE)
  BY DEF ReceiveAgain, do_blocking_receive
<1>4. Traced(p, soon, FALSE, FALSE)
  BY <1>2, <1>3, ReceiveTraced
<1> HIDE DEF soon
<1>5. /\ pc \in [Pids -> Places] /\ pending \in [Pids -> SUBSET Signals] /\ CausesFor(p)
  BY DEF CausesInv, LibTyped, AskedInv
<1>6. /\ pc'[p] = (IF pc[p] \in InSigsuspend THEN "menu" ELSE pc[p])
      /\ \A q \in Pids \ {p} : pc'[q] = pc[q]
  BY <1>5 DEF AfterHandler
<1> DEFINE old == Without(p, sig)
<1>7. old[p] = pending[p] \ {sig} /\ \A q \in Pids \ {p} : old[q] = pending[q]
  BY <1>5 DEF Without
<1>8. pending'[p] = old[p] \cup {s \in Signals : <<p, s>> \in signals'}
  BY DEF Raise
<1> HIDE DEF old
<1>9. OnlyOf(p, old)
  <2>1. Raise(old)
    BY DEF old
  <2> QED
    BY <1>6, <1>7, <2>1 DEF OnlyOf, InSigsuspend
<1>10. handler[p]["SIGUSR1"] = "inthandler_rec"
  BY <1>5 DEF CausesFor, Signals
<1>11. CausesFor(p)'
  BY <1>2, <1>4, <1>5, <1>6, <1>7, <1>8, <1>10 DEF CausesFor, Traced, TracedFor, InSigsuspend
<1>12. EarlyFor(p)'
  BY <1>2 DEF EarlyFor, Excepted
<1> QED
  BY <1>4, <1>9, <1>11, <1>12, CallCauses

LEMMA OwnStepCauses ==
    ASSUME TypesInv, AskedInv, CausesInv, NEW p \in Pids, OwnStep(p)
    PROVE  CausesInv'
<1>0. /\ pc \in [Pids -> Places] /\ handler \in [Pids -> [Signals -> Handlers]]
      /\ CausesFor(p) /\ EarlyFor(p) /\ LibTyped /\ AskedReady(p)
  BY DEF CausesInv, AskedInv
<1>1. CASE InstallReceiveHandler(p)
  <2>1. /\ UNCHANGED <<vars, pending, blocking_return, notification_alert, asked>>
        /\ handler' = [handler EXCEPT ![p]["SIGUSR1"] = "inthandler_rec"]
        /\ pc' = [pc EXCEPT ![p] = "armed"] /\ pc[p] = "registered" /\ pending[p] = {}
    BY <1>1 DEF InstallReceiveHandler, At
  <2>2. /\ handler'[p]["SIGUSR1"] = "inthandler_rec"
        /\ handler'[p]["SIGUSR2"] = handler[p]["SIGUSR2"]
        /\ handler'[p]["SIGINT"] = handler[p]["SIGINT"]
        /\ pc'[p] = "armed"
        /\ \A q \in Pids \ {p} : handler'[q] = handler[q] /\ pc'[q] = pc[q]
    BY <1>0, <2>1 DEF Signals
  <2>3. UNCHANGED <<blockedQ_array, notifiers, blocking_sender, alive>>
    BY <2>1 DEF vars
  <2>4. LibTyped'
    BY <1>0, <2>1, <2>2, <2>3 DEF LibTyped
  <2>5. asked[p].recid # NULL
    BY <1>0, <2>1, ConstantsAssumption DEF AskedReady, InReceive, Asked, ConstantsAssumption
  <2>6. /\ Waits(p)' <=> Waits(p)
        /\ Notified(p)' <=> Notified(p)
        /\ KnownSender(p)' <=> KnownSender(p)
    BY <2>3 DEF Waits, Notified, KnownSender
  <2>7. CausesFor(p)'
    BY <1>0, <2>1, <2>2, <2>5, <2>6 DEF CausesFor
  <2>8. EarlyFor(p)'
    BY <2>1, <2>5 DEF EarlyFor, Excepted
  <2> QED
    BY <2>1, <2>2, <2>4, <2>7, <2>8, SilentCauses
<1>2. CASE Suspend(p) \/ StopSpinning(p)
  <2>1. UNCHANGED <<vars, handler, pending, blocking_return, notification_alert, asked>>
        /\ pending[p] = {}
    BY <1>2 DEF Suspend, StopSpinning, At
  <2>2. PICK place \in {"suspended", "asleep", "menu"} :
           /\ pc' = [pc EXCEPT ![p] = place]
           /\ pc[p] \in {"sent", "armed", "spinning"}
           /\ place = "suspended" <=> pc[p] = "sent"
    BY <1>2 DEF Suspend, StopSpinning, At
  <2>3. pc'[p] = place /\ \A q \in Pids \ {p} : pc'[q] = pc[q]
    BY <1>0, <2>2
  <2>4. UNCHANGED <<blockedQ_array, notifiers, blocking_sender, alive>>
    BY <2>1 DEF vars
  <2>5. LibTyped'
    BY <1>0, <2>1, <2>2, <2>3, <2>4 DEF LibTyped
  <2>6. /\ Waits(p)' <=> Waits(p)
        /\ Notified(p)' <=> Notified(p)
        /\ KnownSender(p)' <=> KnownSender(p)
        /\ OneRow(p)' <=> OneRow(p)
    BY <2>4 DEF Waits, Notified, KnownSender, OneRow
  <2>7. CausesFor(p)'
    BY <1>0, <2>1, <2>2, <2>6 DEF CausesFor
  <2>8. EarlyFor(p)'
    <3>1. Excepted(p)' <=> Excepted(p)
      BY <2>1 DEF Excepted
    <3>2. pc[p] \in InSend => pc'[p] \in InSend
      BY <2>2, <2>3 DEF InSend
    <3>3. pc[p] # "dead"
      BY <2>2
    <3> QED
      BY <1>0, <2>1, <2>6, <3>1, <3>2, <3>3 DEF EarlyFor
  <2> QED
    BY <2>1, <2>3, <2>5, <2>7, <2>8, SilentCauses
<1>3. ASSUME NEW sig \in Signals, Handle(p, sig)
      PROVE  CausesInv'
  <2>1. p \in alive /\ sig \in pending[p]
    BY <1>3 DEF Handle
  <2>2. CASE Die(p)
    BY <2>1, <2>2, DeathCauses
  <2>3. CASE /\ handler[p][sig] \in {"ipthandler", "notifyhandler"}
             /\ AfterHandler(p) /\ pending' = Without(p, sig)
             /\ UNCHANGED <<vars, handler, asked>>
             /\ \/ /\ blocking_return' =
                        [blocking_return EXCEPT ![p] = IF sig = "SIGUSR1" THEN 1 ELSE 0]
                   /\ UNCHANGED notification_alert
                \/ /\ notification_alert' = [notification_alert EXCEPT ![p] = 1]
                   /\ UNCHANGED blocking_return
    <3>1. /\ blocking_return' \in [Pids -> {0, 1}]
          /\ notification_alert' \in [Pids -> {0, 1}]
      BY <1>0, <2>3 DEF LibTyped
    <3> QED
      BY <2>1, <2>3, <3>1, HandledCauses
  <2>4. ASSUME handler[p][sig] = "inthandler_rec",
               NEW name \in NamesSeen(p), ReceiveAgain(p, name),
               AfterHandler(p), Raise(Without(p, sig)),
               UNCHANGED <<handler, blocking_return, notification_alert, asked>>
        PROVE  CausesInv'
    BY <2>1, <2>4, ReceivedAgainCauses
  <2> QED
    BY <1>3, <2>2, <2>3, <2>4 DEF Handle
<1> QED
  BY <1>1, <1>2, <1>3 DEF OwnStep

LEMMA CausesInvStep ==
    TypesInv /\ AskedInv /\ CausesInv /\ [ClientsNext]_cvars => CausesInv'
<1> SUFFICES ASSUME TypesInv, AskedInv, CausesInv, [ClientsNext]_cvars
             PROVE  CausesInv'
  OBVIOUS
<1>1. CASE UNCHANGED cvars \/ Time
  <2>1. UNCHANGED <<blockedQ_array, notifiers, blocking_sender, alive>> /\ UNCHANGED libVars
    BY <1>1 DEF cvars, vars, Time, Tick
  <2>2. \A q \in Pids : CausesFor(q)' /\ EarlyFor(q)'
    BY <2>1, Untouched DEF libVars
  <2>3. LibTyped'
    BY <2>1 DEF CausesInv, LibTyped, libVars
  <2> QED
    BY <2>2, <2>3 DEF CausesInv
<1>2. ASSUME NEW p \in Pids, UserStep(p) \/ OwnStep(p)
      PROVE  CausesInv'
  BY <1>2, UserStepCauses, OwnStepCauses
<1> QED
  BY <1>1, <1>2 DEF ClientsNext

LEMMA CausesInvInit == ClientsInit => CausesInv
<1> SUFFICES ASSUME ClientsInit PROVE CausesInv
  OBVIOUS
<1>1. \A q \in Pids : /\ pc[q] = "menu" /\ pending[q] = {} /\ q \in alive
                      /\ \A sig \in Signals : handler[q][sig] = "SIG_DFL"
  BY DEF ClientsInit, Init
<1>2. LibTyped
  BY <1>1 DEF ClientsInit, Init, LibTyped
<1>3. \A q : ~Waits(q) /\ ~Notified(q) /\ ~KnownSender(q)
  <2>1. /\ blockedQ_array = [s \in Slots |-> NULL]
        /\ notifiers = <<>> /\ blocking_sender = <<>>
    BY DEF ClientsInit, Init
  <2>2. DOMAIN notifiers = {} /\ DOMAIN blocking_sender = {}
    BY <2>1
  <2> QED
    BY <2>1, <2>2 DEF Waits, Notified, KnownSender
<1>4. \A q \in Pids : OneRow(q)
  BY <1>3 DEF OneRow, KnownSender
<1>5. \A q \in Pids : CausesFor(q) /\ EarlyFor(q)
  BY <1>1, <1>3, <1>4 DEF CausesFor, EarlyFor, Signals
<1> QED
  BY <1>2, <1>5 DEF CausesInv

LEMMA ClientsInvInit == ClientsInit => TypesInv /\ AskedInv /\ CausesInv
<1>1. ClientsInit => Init
  BY DEF ClientsInit
<1> QED
  BY <1>1, TypesInvInit, AskedInvInit, CausesInvInit

LEMMA ClientsInvStep ==
    TypesInv /\ AskedInv /\ CausesInv /\ [ClientsNext]_cvars
        => TypesInv' /\ AskedInv' /\ CausesInv'
BY TypesInvStep, AskedInvStep, CausesInvStep

\* The library's variables keep their types, only the living are anywhere but
\* dead, and inthandler_rec, whenever it can run, finds in the globals a name and
\* numbers that its own process has asked for.
THEOREM LibraryTypesKept == ClientsSpec => []ClientsTypeOK
<1>1. AskedInv /\ CausesInv => ClientsTypeOK
  <2> SUFFICES ASSUME AskedInv, CausesInv PROVE ClientsTypeOK
    OBVIOUS
  <2>1. ASSUME NEW p \in Pids,
               pc[p] \in InReceive \/ handler[p]["SIGUSR1"] = "inthandler_rec"
        PROVE  asked[p] \in Asked /\ asked[p].recid \in Uses[p]
    BY <2>1 DEF AskedInv, AskedReady, Signals
  <2> QED
    BY <2>1 DEF AskedInv, CausesInv, LibTyped, ClientsTypeOK
<1> QED
  BY <1>1, ClientsInvInit, ClientsInvStep, PTL DEF ClientsSpec

\* Nobody else is told too early that a blocking send is complete: a process that
\* has neither asked for notifications nor to wait for a message, and sends in one
\* way only, has no second reason to get SIGUSR1 while PM has its row.
THEOREM OthersAreNotToldEarly == ClientsSpec => []CompletedEarlyOnlyTo
<1>1. CausesInv => CompletedEarlyOnlyTo
  BY DEF CausesInv, EarlyFor, Excepted, CompletedEarlyOnlyTo, CompletesEarly
<1> QED
  BY <1>1, ClientsInvInit, ClientsInvStep, PTL DEF ClientsSpec

\* Who dies in a step, and how.
DiesFor(p) ==
    \/ pending[p] = {}
    \/ "SIGINT" \in pending[p] /\ handler[p]["SIGINT"] = "SIG_DFL"
    \/ pc[p] = "menu" /\ "send" \in Menu[p]
    \/ pc[p] = "registered"

LEMMA CallsKillNobody ==
    ASSUME TypesInv, NEW p \in Pids,
           \/ Qopen(p) \/ Qclose(p) \/ Qsetattr(p) \/ Qgetattr(p)
           \/ nonblock_send(p) \/ nonblock_receive(p)
           \/ block_receive(p) \/ blocking_send(p) \/ reqnotify(p)
    PROVE  UNCHANGED alive
<1>1. \A name, cap, type : do_open_q(p, name, cap, type) => UNCHANGED alive
  BY DEF do_open_q
<1>2. \A name : do_close_q(p, name) => UNCHANGED alive
  BY DEF do_close_q
<1>3. \A name, cap, type : do_set_attr_q(p, name, cap, type) => UNCHANGED alive
  BY DEF do_set_attr_q
<1>4. \A name : do_get_attr_q(p, name) => UNCHANGED alive
  BY DEF do_get_attr_q
<1>5. \A id : do_mqreqnotify(p, id) => UNCHANGED alive
  BY DEF do_mqreqnotify
<1>6. SendTyped(p) => UNCHANGED alive
  BY SendTypedTraced DEF Traced
<1>7. \A name, recid, expected :
         do_res_mg_q(p, name, recid, expected) => UNCHANGED alive
  BY DEF do_res_mg_q, Receive
<1>8. \A name, recid, expected :
         do_blocking_receive(p, name, recid, expected) => UNCHANGED alive
  BY DEF do_blocking_receive, Receive
<1>9. CASE Qopen(p) \/ Qclose(p) \/ Qsetattr(p) \/ Qgetattr(p)
  BY <1>1, <1>2, <1>3, <1>4, <1>9 DEF Qopen, Qclose, Qsetattr, Qgetattr
<1>10. CASE nonblock_send(p) \/ blocking_send(p) \/ reqnotify(p)
  BY <1>5, <1>6, <1>10 DEF nonblock_send, blocking_send, mq_send, reqnotify, mq_reqnotify
<1>11. CASE nonblock_receive(p) \/ block_receive(p)
  BY <1>7, <1>8, <1>11
     DEF nonblock_receive, async_recieve, block_receive, blocking_recieve
<1> QED
  BY <1>9, <1>10, <1>11

LEMMA DeathsHaveCauses ==
    ASSUME TypesInv, AskedInv, CausesInv, [ClientsNext]_cvars, NEW p \in alive, p \notin alive'
    PROVE  DiesFor(p)
<1>1. PICK q \in Pids : UserStep(q) \/ OwnStep(q)
  BY DEF ClientsNext, cvars, vars, Time, Tick
<1>2. CASE Leave(q)
  BY <1>2 DEF Leave, AtMenu, At, Die, Exit, DiesFor
<1>3. CASE Interrupt(q)
  BY <1>3 DEF Interrupt, vars
<1>4. CASE InstallReceiveHandler(q) \/ Suspend(q) \/ StopSpinning(q)
  BY <1>4 DEF InstallReceiveHandler, Suspend, StopSpinning, vars
<1>5. ASSUME NEW sig \in Signals, Handle(q, sig)
      PROVE  DiesFor(p)
  <2>1. handler[q][sig] = "SIG_DFL" /\ Die(q) /\ sig \in pending[q]
    BY <1>5 DEF Handle, vars, ReceiveAgain, do_blocking_receive, Receive
  <2>2. p = q
    BY <2>1 DEF Die, Exit
  <2>3. CausesFor(q)
    BY DEF CausesInv
  <2>4. AskedReady(q) /\ pc[q] # "dead"
    BY <2>2 DEF AskedInv, CausesInv, LibTyped
  <2> QED
    BY <2>1, <2>2, <2>3, <2>4 DEF CausesFor, DiesFor, Signals
<1> QED
  BY <1>1, <1>2, <1>3, <1>4, <1>5, CallsKillNobody DEF UserStep, OwnStep

\* A signal of PM's ends a process in two places only: at the menu, if it sends
\* without blocking, and between the answer of its first blocking receive and the
\* handler.  Everywhere else a handler is installed by then.
THEOREM HandlersMeetTheirSignals == ClientsSpec => KilledOnlyBy
<1>1. TypesInv /\ AskedInv /\ CausesInv /\ [ClientsNext]_cvars =>
         [ \A p \in alive \ alive' : DiesFor(p) ]_cvars
  BY DeathsHaveCauses
<1> QED
  BY <1>1, ClientsInvInit, ClientsInvStep, PTL DEF ClientsSpec, KilledOnlyBy, DiesFor

-----------------------------------------------------------------------------
(* Why a caller of the library may be stranded.                            *)

\* A purge that drops a message leaves its mark on the queue, whatever is consumed
\* with it.
LEMMA PurgeIsSeen ==
    ASSUME NEW q \in GoodQueue, NEW i \in DOMAIN q.msgs, Expired(q.msgs[i])
    PROVE  /\ PurgeExpired(q) # q
           /\ \A j \in 1 .. Len(PurgeExpired(q).msgs) : Consume(PurgeExpired(q), j) # q
<1> DEFINE Living == {m \in Message : ~Expired(m)}
           live   == LiveMessages(q.msgs)
           left   == PurgeExpired(q)
<1>1. q.msgs \in Seq(Message) /\ q \in Queue /\ Len(q.msgs) \in Nat
  BY LenProperties DEF GoodQueue, Queue
<1>2. live \in Seq(Living)
  <2>1. \A acc \in Seq(Living), k \in 1 .. Len(q.msgs) :
            KeepLive(acc, q.msgs[k]) \in Seq(Living)
    <3> SUFFICES ASSUME NEW acc \in Seq(Living), NEW k \in 1 .. Len(q.msgs)
                 PROVE  KeepLive(acc, q.msgs[k]) \in Seq(Living)
      OBVIOUS
    <3> DEFINE m == q.msgs[k]
    <3>1. m \in Message
      BY <1>1, ElementOfSeq
    <3> HIDE DEF m
    <3>2. CASE Expired(m)
      BY <3>2 DEF KeepLive, m
    <3>3. CASE ~Expired(m)
      <4>1. m \in Living
        BY <3>1, <3>3
      <4> HIDE DEF Living
      <4>2. Append(acc, m) \in Seq(Living)
        BY <4>1, AppendProperties
      <4> QED
        BY <3>3, <4>2 DEF KeepLive, m
    <3> QED
      BY <3>2, <3>3
  <2>2. <<>> \in Seq(Living)
    OBVIOUS
  <2> HIDE DEF Living
  <2> QED
    BY <1>1, <2>1, <2>2, LiveMessagesStays
<1>3. left \in GoodQueue /\ left.msgs = live
  <2>1. left.msgs = live
    BY <1>1 DEF PurgeExpired, Queue
  <2> QED
    BY <2>1, PurgeGood
<1>4. ASSUME NEW r, r.msgs \in Seq(Living)
      PROVE  r # q
  <2>1. i \in 1 .. Len(q.msgs)
    BY <1>1, LenProperties
  <2>2. r = q => q.msgs[i] \in Living
    <3> HIDE DEF Living
    <3> QED
      BY <1>4, <2>1, ElementOfSeq
  <2> QED
    BY <2>2
<1>5. ASSUME NEW j \in 1 .. Len(left.msgs)
      PROVE  Consume(left, j).msgs \in Seq(Living)
  <2>1. left \in Queue /\ j \in 1 .. Len(live)
    BY <1>3, <1>5 DEF GoodQueue
  <2> HIDE DEF left
  <2>2. live[j] \in Living
    <3> HIDE DEF Living, live
    <3> QED
      BY <1>2, <2>1, ElementOfSeq
  <2>3. CASE live[j].pendingreceiverCount = 1
    <3>1. Consume(left, j).msgs = RemoveAt(live, j)
      BY <1>3, <2>1, <2>3 DEF Consume, remove_node, Queue
    <3> HIDE DEF Living, live
    <3> QED
      BY <1>2, <2>1, <3>1, RemoveAtProperties
  <2>4. CASE live[j].pendingreceiverCount # 1
    <3> DEFINE row == [live[j] EXCEPT !.pendingreceiverCount = @ - 1]
               new == [live EXCEPT ![j] = row]
    <3>1. row \in Living
      BY <2>2 DEF Message, Expired
    <3>2. Consume(left, j).msgs = new
      BY <1>3, <2>1, <2>4 DEF Consume, Queue
    <3> HIDE DEF Living, live, row
    <3> QED
      BY <1>2, <2>1, <3>1, <3>2, ExceptSeq
  <2> QED
    BY <2>3, <2>4
<1> QED
  BY <1>2, <1>3, <1>4, <1>5

\* What no call may do to an open queue in secret.
Plain(s) ==
    /\ queue_arr'[s] = NULL => reply'.code = QUEUE_CLOSE_SUCCESS
    /\ queue_arr'[s] # NULL => queue_arr'[s].name = queue_arr[s].name
    /\ (/\ queue_arr'[s] # NULL /\ blockedQ_array'[s] # blockedQ_array[s]
        /\ \E i \in DOMAIN queue_arr[s].msgs : Expired(queue_arr[s].msgs[i]))
            => queue_arr'[s] # queue_arr[s]

LEMMA UnchangedIsPlain ==
    ASSUME TypesInv, UNCHANGED queue_arr,
           UNCHANGED blockedQ_array \/ \A s \in Open : queue_arr[s].msgs = <<>>
    PROVE  \A s \in Open : Plain(s)
<1> SUFFICES ASSUME NEW s \in Open PROVE Plain(s)
  OBVIOUS
<1>1. queue_arr'[s] = queue_arr[s] /\ queue_arr[s] # NULL
  BY DEF Open
<1>2. queue_arr[s].msgs = <<>> => DOMAIN queue_arr[s].msgs = {}
  OBVIOUS
<1> QED
  BY <1>1, <1>2 DEF Plain

LEMMA ChangedIsPlain ==
    ASSUME TypesInv, NEW idx, NEW q, NEW list,
           queue_arr' = [queue_arr EXCEPT ![idx] = q],
           blockedQ_array' = [blockedQ_array EXCEPT ![idx] = list],
           idx \in Open =>
              \/ /\ q # NULL /\ q.name = queue_arr[idx].name
                 /\ \/ q # queue_arr[idx]
                    \/ list = blockedQ_array[idx]
                    \/ \A i \in DOMAIN queue_arr[idx].msgs : ~Expired(queue_arr[idx].msgs[i])
              \/ q = NULL /\ reply'.code = QUEUE_CLOSE_SUCCESS
    PROVE  \A s \in Open : Plain(s)
<1> SUFFICES ASSUME NEW s \in Open PROVE Plain(s)
  OBVIOUS
<1>1. /\ s \in Slots /\ queue_arr[s] # NULL
      /\ queue_arr'[s] = IF s = idx THEN q ELSE queue_arr[s]
      /\ blockedQ_array'[s] = IF s = idx THEN list ELSE blockedQ_array[s]
  BY DEF TypesInv, TablesInv, Open
<1>2. CASE s = idx
  BY <1>1, <1>2 DEF Plain
<1>3. CASE s # idx
  BY <1>1, <1>3 DEF Plain
<1> QED
  BY <1>2, <1>3

LEMMA SendIsPlain ==
    ASSUME TypesInv, NEW p \in Pids, NEW name \in Names, NEW m \in Message,
           do_send_mg_q(p, name, m)
    PROVE  \A s \in Open : Plain(s)
<1> DEFINE idx == check_queue_exist(name)
           old == queue_arr[idx]
           new == add_to_queue(old, m)
           list == WakeReceivers(blockedQ_array[idx], m.recieverIds).list
<1>1. CASE UNCHANGED <<queue_arr, blockedQ_array>>
  BY <1>1, UnchangedIsPlain
<1>2. CASE /\ idx # NULL /\ queue_arr' = [queue_arr EXCEPT ![idx] = new]
           /\ \/ UNCHANGED blockedQ_array
              \/ blockedQ_array' = [blockedQ_array EXCEPT ![idx] = list]
  <2>1. idx \in Open /\ old \in GoodQueue
    BY <1>2, QueueFound DEF TypesInv
  <2>2. new \in GoodQueue /\ new.name = old.name
    BY <2>1, AddGood
  <2>3. new.currentcount = old.currentcount + 1 /\ old.currentcount \in Int
    BY <2>1 DEF add_to_queue, GoodQueue, Queue
  <2>4. new # old /\ new # NULL
    BY <2>2, <2>3, NotNull
  <2>5. PICK l : blockedQ_array' = [blockedQ_array EXCEPT ![idx] = l]
    <3>1. blockedQ_array = [blockedQ_array EXCEPT ![idx] = blockedQ_array[idx]]
      BY DEF TypesInv, TablesInv
    <3> HIDE DEF idx, list
    <3> QED
      BY <1>2, <3>1
  <2> HIDE DEF new, idx
  <2> QED
    BY <1>2, <2>2, <2>4, <2>5, ChangedIsPlain DEF old
<1> QED
  BY <1>1, <1>2 DEF do_send_mg_q

LEMMA ReceiveIsPlain ==
    ASSUME TypesInv, NEW p \in Pids, NEW name \in Names, NEW recid \in Ids,
           NEW expected \in Ids \cup {AnySender}, NEW mayWait,
           Receive(p, name, recid, expected, mayWait)
    PROVE  \A s \in Open : Plain(s)
<1> DEFINE idx  == check_queue_exist(name)
           old  == queue_arr[idx]
           wait == blockedQ_array[idx]
           q    == PurgeExpired(old)
           list == StillWaiting(wait, old.msgs)
           best == BestMessage(q.msgs, recid, expected)
<1>1. CASE UNCHANGED <<queue_arr, blockedQ_array>>
  BY <1>1, UnchangedIsPlain
<1>2. ASSUME idx # NULL
      PROVE  /\ idx \in Open /\ old \in GoodQueue /\ old # NULL
             /\ queue_arr = [queue_arr EXCEPT ![idx] = old]
  BY <1>2, QueueFound, NotNull DEF TypesInv, TablesInv
<1>3. ASSUME NEW l, NoMessage(p, idx, l, recid, expected, mayWait)
      PROVE  \E new : blockedQ_array' = [blockedQ_array EXCEPT ![idx] = new]
  BY <1>3 DEF NoMessage
<1>4. CASE /\ idx # NULL /\ old.currentcount = 0 /\ UNCHANGED queue_arr
           /\ NoMessage(p, idx, wait, recid, expected, mayWait)
  <2>1. PICK new : blockedQ_array' = [blockedQ_array EXCEPT ![idx] = new]
    BY <1>3, <1>4
  <2>2. \A i : i \notin DOMAIN old.msgs
    <3>1. old.msgs \in Seq(Message) /\ Len(old.msgs) = 0
      BY <1>2, <1>4 DEF GoodQueue, Queue
    <3>2. DOMAIN old.msgs = 1 .. 0
      BY <3>1, LenProperties
    <3> QED
      BY <3>2
  <2>3. queue_arr' = [queue_arr EXCEPT ![idx] = old]
    BY <1>2, <1>4
  <2> HIDE DEF idx
  <2> QED
    BY <1>2, <1>4, <2>1, <2>2, <2>3, ChangedIsPlain
<1>5. CASE idx # NULL /\ ReceiveFrom(p, idx, recid, expected, mayWait)
  <2>1. q \in GoodQueue /\ q.name = old.name
    BY <1>2, <1>5, PurgeGood
  <2>2. best \in 0 .. Len(q.msgs)
    <3>1. q.msgs \in Seq(Message)
      BY <2>1 DEF GoodQueue, Queue
    <3>2. Len(q.msgs) \in Nat
      BY <3>1, LenProperties
    <3> HIDE DEF q
    <3> QED
      BY <3>2, BestMessageRange
  <2>3. \A i \in DOMAIN old.msgs : Expired(old.msgs[i]) =>
           /\ q # old
           /\ \A j \in 1 .. Len(q.msgs) : Consume(q, j) # old
    BY <1>2, <1>5, PurgeIsSeen
  <2>4. \/ /\ best # 0
           /\ queue_arr' = [queue_arr EXCEPT ![idx] = Consume(q, best)]
           /\ blockedQ_array' = [blockedQ_array EXCEPT ![idx] = list]
        \/ /\ queue_arr' = [queue_arr EXCEPT ![idx] = q]
           /\ NoMessage(p, idx, list, recid, expected, mayWait)
    BY <1>5 DEF ReceiveFrom
  <2>5. CASE /\ best # 0
             /\ queue_arr' = [queue_arr EXCEPT ![idx] = Consume(q, best)]
             /\ blockedQ_array' = [blockedQ_array EXCEPT ![idx] = list]
    <3> HIDE DEF idx, q, list, best
    <3> DEFINE new == Consume(q, best)
    <3>1. best \in 1 .. Len(q.msgs)
      BY <2>2, <2>5
    <3>2. new \in GoodQueue /\ new.name = q.name /\ new # NULL
      BY <2>1, <3>1, ConsumeGood, NotNull
    <3>3. \A i \in DOMAIN old.msgs : Expired(old.msgs[i]) => new # old
      BY <2>3, <3>1
    <3>4. queue_arr' = [queue_arr EXCEPT ![idx] = new]
      BY <2>5
    <3> HIDE DEF new
    <3> QED
      BY <2>1, <2>5, <3>2, <3>3, <3>4, ChangedIsPlain
  <2>6. CASE /\ queue_arr' = [queue_arr EXCEPT ![idx] = q]
             /\ NoMessage(p, idx, list, recid, expected, mayWait)
    <3>1. PICK l : blockedQ_array' = [blockedQ_array EXCEPT ![idx] = l]
      BY <1>3, <2>6
    <3>2. q # NULL
      BY <2>1, NotNull
    <3> HIDE DEF idx, q, list
    <3> QED
      BY <2>1, <2>3, <2>6, <3>1, <3>2, ChangedIsPlain
  <2> QED
    BY <2>4, <2>5, <2>6
<1> QED
  BY <1>1, <1>4, <1>5 DEF Receive

LEMMA StepIsPlain ==
    ASSUME TypesInv, [Next]_vars
    PROVE  \A s \in Open : Plain(s)
<1>1. CASE UNCHANGED vars \/ Tick \/ \E p \in alive : Exit(p)
  <2>1. UNCHANGED <<queue_arr, blockedQ_array>>
    BY <1>1 DEF vars, Tick, Exit
  <2> QED
    BY <2>1, UnchangedIsPlain
<1>2. ASSUME NEW p \in alive, Call(p)
      PROVE  \A s \in Open : Plain(s)
  <2>0. p \in Pids /\ Uses[p] \subseteq Ids
    BY ConstantsAssumption DEF TypesInv, SendersInv, ConstantsAssumption
  <2>1. ASSUME NEW name, NEW cap, NEW type, do_open_q(p, name, cap, type)
        PROVE  \A s \in Open : Plain(s)
    <3> DEFINE idx == get_empty_q_slot
               q   == [name |-> name, capacity |-> CappedCapacity(cap),
                       currentcount |-> 0, blocking |-> type, msgs |-> <<>>]
    <3>1. CASE UNCHANGED <<queue_arr, blockedQ_array>>
      BY <3>1, UnchangedIsPlain
    <3>2. CASE /\ idx # NULL /\ queue_arr' = [queue_arr EXCEPT ![idx] = q]
               /\ blockedQ_array' = [blockedQ_array EXCEPT ![idx] = <<>>]
      <4>1. idx \notin Open
        BY <3>2, SlotFound DEF Open
      <4> HIDE DEF idx, q
      <4> QED
        BY <3>2, <4>1, ChangedIsPlain
    <3> QED
      BY <2>1, <3>1, <3>2 DEF do_open_q
  <2>2. ASSUME NEW name, do_close_q(p, name)
        PROVE  \A s \in Open : Plain(s)
    <3> DEFINE idx == check_queue_exist(name)
    <3>1. CASE UNCHANGED <<queue_arr, blockedQ_array>>
      BY <3>1, UnchangedIsPlain
    <3>2. CASE /\ queue_arr' = [queue_arr EXCEPT ![idx] = NULL]
               /\ blockedQ_array' = [blockedQ_array EXCEPT ![idx] = NULL]
               /\ Answer(p, QUEUE_CLOSE_SUCCESS)
      <4>1. reply'.code = QUEUE_CLOSE_SUCCESS
        BY <3>2 DEF Answer, Reply
      <4> HIDE DEF idx
      <4> QED
        BY <3>2, <4>1, ChangedIsPlain
    <3> QED
      BY <2>2, <3>1, <3>2 DEF do_close_q
  <2>3. ASSUME NEW name \in Names, NEW cap \in Caps, NEW type \in Types,
               do_set_attr_q(p, name, cap, type)
        PROVE  \A s \in Open : Plain(s)
    <3> DEFINE idx == check_queue_exist(name)
               old == queue_arr[idx]
               q   == [old EXCEPT !.capacity = CappedCapacity(cap), !.blocking = type]
    <3>1. UNCHANGED blockedQ_array
      BY <2>3 DEF do_set_attr_q
    <3>2. CASE UNCHANGED queue_arr
      BY <3>1, <3>2, UnchangedIsPlain
    <3>3. CASE idx # NULL /\ queue_arr' = [queue_arr EXCEPT ![idx] = q]
      <4>1. idx \in Open /\ old \in GoodQueue
        BY <3>3, QueueFound DEF TypesInv
      <4>2. CappedCapacity(cap) \in Int /\ type \in QueueTypes
        BY ConstantsAssumption DEF ConstantsAssumption, CappedCapacity
      <4>3. q \in Queue /\ q.name = old.name
        BY <4>1, <4>2 DEF GoodQueue, Queue
      <4>4. q # NULL
        BY <4>3, NullAssumption DEF NullAssumption
      <4>5. blockedQ_array' = [blockedQ_array EXCEPT ![idx] = blockedQ_array[idx]]
        BY <3>1 DEF TypesInv, TablesInv
      <4> HIDE DEF idx, q
      <4> QED
        BY <3>3, <4>1, <4>3, <4>4, <4>5, ChangedIsPlain
    <3> QED
      BY <2>3, <3>2, <3>3 DEF do_set_attr_q
  <2>4. ASSUME NEW name, do_get_attr_q(p, name)
        PROVE  \A s \in Open : Plain(s)
    BY <2>4, UnchangedIsPlain DEF do_get_attr_q
  <2>5. ASSUME NEW id, do_mqreqnotify(p, id)
        PROVE  \A s \in Open : Plain(s)
    BY <2>5, UnchangedIsPlain DEF do_mqreqnotify
  <2>6. CASE SendCall(p)
    BY <2>0, <2>6, SentMessage, SendIsPlain
  <2>7. ASSUME NEW name \in Names, NEW recid \in Uses[p],
               NEW expected \in Ids \cup {AnySender},
               \/ do_res_mg_q(p, name, recid, expected)
               \/ do_blocking_receive(p, name, recid, expected)
        PROVE  \A s \in Open : Plain(s)
    BY <2>0, <2>7, ReceiveIsPlain DEF do_res_mg_q, do_blocking_receive
  <2> QED
    BY <1>2, <2>1, <2>2, <2>3, <2>4, <2>5, <2>6, <2>7 DEF Call
<1> QED
  BY <1>1, <1>2 DEF Next

\* A message that nobody will get has left a queue.
ByExpiry ==
    \E s \in Open : \E i \in DOMAIN queue_arr[s].msgs :
        Expired(queue_arr[s].msgs[i]) /\ queue_arr'[s] # queue_arr[s]

\* The entry of a waiting process is taken away without a signal.
LEMMA LosesEntry ==
    ASSUME TypesInv, [Next]_vars, NEW p \in Pids, KnownReceiver(p), ~KnownReceiver(p)',
           asked'[p] = asked[p], ~Signalled(p)
    PROVE  reply'.code = QUEUE_CLOSE_SUCCESS \/ ByExpiry
<1> DEFINE e == [pid |-> p, recid |-> asked[p].recid, sendid |-> asked[p].expected]
<1>1. PICK s \in Open : queue_arr[s].name = asked[p].name /\ e \in ToSet(blockedQ_array[s])
  BY DEF KnownReceiver
<1>2. e.pid = p /\ e' = e
  OBVIOUS
<1>3. \A t \in Open' : queue_arr'[t].name = asked[p].name => e \notin ToSet(blockedQ_array'[t])
  BY DEF KnownReceiver
<1> HIDE DEF e
<1>4. Plain(s) /\ s \in Slots
  BY StepIsPlain DEF Open
<1>5. CASE queue_arr'[s] = NULL
  BY <1>4, <1>5 DEF Plain
<1>6. CASE queue_arr'[s] # NULL
  <2>1. s \in Open' /\ queue_arr'[s].name = asked[p].name
    BY <1>1, <1>4, <1>6 DEF Open, Plain
  <2>2. e \notin ToSet(blockedQ_array'[s])
    BY <1>3, <2>1
  <2>3. e \in Leaving(s) /\ blockedQ_array'[s] # blockedQ_array[s]
    BY <1>1, <2>2 DEF Leaving
  <2>4. HasReason(s, e)
    BY <1>6, <2>3, LeaversHaveReasons
  <2>5. \E i \in DOMAIN queue_arr[s].msgs : Expired(queue_arr[s].msgs[i])
    BY <1>2, <2>4 DEF HasReason
  <2> QED
    BY <1>4, <1>6, <2>3, <2>5 DEF Plain, ByExpiry
<1> QED
  BY <1>5, <1>6

\* A step of PM's that is not for p.
LEMMA StrandedByOthers ==
    ASSUME TypesInv, CausesInv, [Next]_vars, NEW p \in Pids, NEW q, q # p,
           NEW waits, NEW sends, NEW notes, TracedFor(p, q, waits, sends, notes),
           pc'[p] = pc[p], asked'[p] = asked[p],
           pending'[p] = pending[p] \cup {sig \in Signals : <<p, sig>> \in signals'},
           ~Stranded(p), Stranded(p)'
    PROVE  reply'.code = QUEUE_CLOSE_SUCCESS \/ ByExpiry
<1>1. pending'[p] = {} /\ \/ pc[p] \in InReceive /\ ~KnownReceiver(p)'
                          \/ pc[p] \in InSend /\ ~KnownSender(p)'
  BY DEF Stranded
<1>2. pending[p] = {} /\ ~Signalled(p)
  BY <1>1 DEF Signalled, Signals
<1>3. CASE pc[p] \in InReceive /\ ~KnownReceiver(p)'
  <2>1. KnownReceiver(p)
    BY <1>2, <1>3 DEF Stranded
  <2> QED
    BY <1>2, <1>3, <2>1, LosesEntry
<1>4. CASE pc[p] \in InSend /\ ~KnownSender(p)'
  <2>1. KnownSender(p) /\ p \in alive
    BY <1>2, <1>4 DEF Stranded, CausesInv, LibTyped, InSend
  <2>2. Signalled(p)
    BY <1>4, <2>1 DEF TracedFor, Signalled
  <2> QED
    BY <1>2, <2>2
<1> QED
  BY <1>1, <1>3, <1>4

\* A step that leaves the tables and the caller alone strands nobody.
LEMMA StrandedAlready ==
    ASSUME NEW p \in Pids, UNCHANGED <<queue_arr, blockedQ_array, blocking_sender>>,
           asked'[p] = asked[p], pending[p] \subseteq pending'[p],
           pc'[p] \in InReceive => pc[p] \in InReceive,
           pc'[p] \in InSend => pc[p] \in InSend,
           Stranded(p)'
    PROVE  Stranded(p)
<1>1. KnownReceiver(p)' <=> KnownReceiver(p)
  BY DEF KnownReceiver, Open
<1>2. KnownSender(p)' <=> KnownSender(p)
  BY DEF KnownSender
<1> QED
  BY <1>1, <1>2 DEF Stranded

Listed(name, e) ==
    \E s \in Open : queue_arr[s].name = name /\ e \in ToSet(blockedQ_array[s])

\* Who is told to wait is in the list.
LEMMA ToldToWait ==
    ASSUME TypesInv, NEW p \in Pids, NEW name \in Names, NEW recid \in Ids,
           NEW expected \in Ids \cup {AnySender},
           Receive(p, name, recid, expected, TRUE), reply'.code = MSG_REC_NO_MSG
    PROVE  Listed(name, [pid |-> p, recid |-> recid, sendid |-> expected])'
<1> DEFINE idx  == check_queue_exist(name)
           old  == queue_arr[idx]
           wait == blockedQ_array[idx]
           list == StillWaiting(wait, old.msgs)
           row  == [pid |-> p, recid |-> recid, sendid |-> expected]
<1>1. idx # NULL /\ \E l \in {wait, list} : NoMessage(p, idx, l, recid, expected, TRUE)
  <2>1. CASE idx = NULL
    BY <2>1 DEF Receive, Answer, Reply, QUEUE_NOT_EXIST, MSG_REC_NO_MSG
  <2>2. CASE idx # NULL /\ ReceiveFrom(p, idx, recid, expected, TRUE)
    <3>1. ~Deliver(p, PurgeExpired(old).msgs[BestMessage(PurgeExpired(old).msgs, recid, expected)],
                   recid, expected)
      BY DEF Deliver, Reply, MSG_REC_SUCCESS, MSG_REC_NO_MSG
    <3> QED
      BY <2>2, <3>1 DEF ReceiveFrom
  <2> QED
    BY <2>1, <2>2 DEF Receive
<1>2. PICK l \in {wait, list} : NoMessage(p, idx, l, recid, expected, TRUE)
  BY <1>1
<1>3. idx \in Open /\ idx \in Slots /\ old.name = name /\ l \in Seq(ProcNode)
  <2>1. idx \in Open /\ old \in GoodQueue /\ old.name = name /\ wait \in Seq(ProcNode)
    BY <1>1, QueueFound DEF TypesInv
  <2>2. old.msgs \in Seq(Message)
    BY <2>1 DEF GoodQueue, Queue
  <2>3. list \in Seq(ProcNode)
    <3> HIDE DEF old, wait
    <3> QED
      BY <2>1, <2>2, StillWaitingTyped
  <2> QED
    BY <2>1, <2>3 DEF Open
<1>4. blockedQ_array' =
        [blockedQ_array EXCEPT ![idx] = add_to_blocked_receiver_list(l, p, expected, recid)]
  BY <1>2 DEF NoMessage, NothingFor, Reply, REC_DLOCKED, MSG_REC_NO_MSG
<1>5. row \in ProcNode /\ add_to_blocked_receiver_list(l, p, expected, recid) = Append(l, row)
  BY DEF ProcNode, add_to_blocked_receiver_list
<1> HIDE DEF idx, row, old
<1>6. row \in ToSet(blockedQ_array'[idx])
  <2>1. blockedQ_array'[idx] = Append(l, row)
    BY <1>3, <1>4, <1>5 DEF TypesInv, TablesInv
  <2> QED
    BY <1>3, <1>5, <2>1, AppendedMembers
<1>7. idx \in Open' /\ queue_arr'[idx].name = name
  <2>1. Plain(idx)
    BY <1>3, ReceiveIsPlain
  <2>2. reply'.code # QUEUE_CLOSE_SUCCESS
    BY DEF QUEUE_CLOSE_SUCCESS, MSG_REC_NO_MSG
  <2> QED
    BY <1>3, <2>1, <2>2 DEF Plain, Open, old
<1> QED
  BY <1>6, <1>7 DEF row, Listed

\* A send that leaves no row and is not refused has gone to a queue that is not
\* blocking.
LEMMA SentWithoutRow ==
    ASSUME TypesInv, NEW p \in Pids, p \in alive, NEW name \in Names, NEW m \in Message,
           do_send_mg_q(p, name, m), ~KnownSender(p)', <<p, "SIGUSR2">> \notin signals'
    PROVE  /\ reply'.code = MSG_ADD_SUCCESS
           /\ \E s \in Open : queue_arr'[s] # queue_arr[s] /\ queue_arr[s].blocking = NON_BLOCKING
<1> DEFINE idx == check_queue_exist(name)
           old == queue_arr[idx]
           new == add_to_queue(old, m)
<1>1. signals' # check_sig({p}, "SIGUSR2")
  <2> DEFINE raised == check_sig({p}, "SIGUSR2")
  <2>1. <<p, "SIGUSR2">> \in raised
    BY CheckSig
  <2> HIDE DEF raised
  <2> QED
    BY <2>1 DEF raised
<1>2. /\ idx # NULL /\ queue_arr' = [queue_arr EXCEPT ![idx] = new]
      /\ Answer(p, MSG_ADD_SUCCESS)
      /\ \/ old.blocking = BLOCKING
            /\ blocking_sender' = blocking_adder_add(p, m.senderId, m.recieverIds)
         \/ old.blocking # BLOCKING
  BY <1>1 DEF do_send_mg_q
<1>3. blocking_sender' # blocking_adder_add(p, m.senderId, m.recieverIds)
  <2>1. m.senderId \in Ids /\ m.recieverIds \in RecvLists
    BY DEF Message
  <2> QED
    BY <2>1, AddedRowTraced DEF TypesInv
<1>4. idx \in Open /\ old \in GoodQueue /\ old.blocking = NON_BLOCKING
  <2>1. idx \in Open /\ old \in GoodQueue
    BY <1>2, QueueFound DEF TypesInv
  <2>2. old.blocking \in QueueTypes
    BY <2>1 DEF GoodQueue, Queue
  <2> QED
    BY <1>2, <1>3, <2>1, <2>2 DEF QueueTypes
<1>5. queue_arr'[idx] = new /\ new # old
  <2>1. new.currentcount = old.currentcount + 1 /\ old.currentcount \in Int
    BY <1>4 DEF add_to_queue, GoodQueue, Queue
  <2> HIDE DEF new, idx
  <2>2. queue_arr'[idx] = new
    BY <1>2, <1>4 DEF TypesInv, TablesInv, Open
  <2> QED
    BY <2>1, <2>2
<1>6. reply'.code = MSG_ADD_SUCCESS
  BY <1>2 DEF Answer, Reply
<1> QED
  BY <1>4, <1>5, <1>6

\* Why p may be stranded by this step, in the words of StrandedOnlyBy.
StrandsFor(p) ==
    \/ pending[p] # {} /\ pc[p] \in {"sent", "registered", "armed"}
    \/ reply'.code = QUEUE_CLOSE_SUCCESS
    \/ ByExpiry
    \/ /\ pc[p] = "menu" /\ pc'[p] = "sent" /\ reply'.code = MSG_ADD_SUCCESS
       /\ \E s \in Open : queue_arr'[s] # queue_arr[s]
                          /\ queue_arr[s].blocking = NON_BLOCKING

\* Whoever calls PM from the menu changes nothing of the other processes.
LEMMA CallsOfOthers ==
    ASSUME TypesInv, AskedInv, NEW u \in Pids,
           \/ Qopen(u) \/ Qclose(u) \/ Qsetattr(u) \/ Qgetattr(u)
           \/ nonblock_send(u) \/ nonblock_receive(u)
           \/ block_receive(u) \/ blocking_send(u) \/ reqnotify(u)
    PROVE  /\ \E waits, sends, notes : Traced(u, waits, sends, notes)
           /\ Raise(pending)
           /\ \A q \in Pids \ {u} : pc'[q] = pc[q] /\ asked'[q] = asked[q]
<1>0. /\ Typed \subseteq Names /\ Uses[u] \subseteq Ids
      /\ pc \in [Pids -> Places] /\ asked \in [Pids -> AskedSoFar]
  BY ClientsAssumption, ConstantsAssumption DEF ConstantsAssumption, AskedInv
<1>1. Raise(pending)
  BY DEF Qopen, Qclose, Qsetattr, Qgetattr, nonblock_send, nonblock_receive,
         block_receive, blocking_send, reqnotify
<1>2. CASE Qopen(u) \/ Qclose(u) \/ Qsetattr(u) \/ Qgetattr(u)
  <2>1. Traced(u, FALSE, FALSE, FALSE)
    BY <1>2, OpenTraced, CloseTraced, AttrTraced DEF Qopen, Qclose, Qsetattr, Qgetattr
  <2>2. UNCHANGED <<pc, asked>>
    BY <1>2 DEF Qopen, Qclose, Qsetattr, Qgetattr
  <2> QED
    BY <1>1, <2>1, <2>2
<1>3. CASE nonblock_send(u) \/ blocking_send(u)
  <2>1. Traced(u, FALSE, TRUE, FALSE)
    BY <1>3, SendTypedTraced DEF nonblock_send, blocking_send, mq_send
  <2>2. UNCHANGED asked /\ (UNCHANGED pc \/ pc' = [pc EXCEPT ![u] = "sent"])
    BY <1>3 DEF nonblock_send, blocking_send
  <2> QED
    BY <1>0, <1>1, <2>1, <2>2
<1>4. CASE reqnotify(u)
  <2>1. Traced(u, FALSE, FALSE, TRUE)
    BY <1>4, NotifyTraced DEF reqnotify, mq_reqnotify
  <2>2. UNCHANGED asked /\ pc' = [pc EXCEPT ![u] = "spinning"]
    BY <1>4 DEF reqnotify
  <2> QED
    BY <1>0, <1>1, <2>1, <2>2
<1>5. CASE nonblock_receive(u) \/ block_receive(u)
  <2>1. PICK name \in Names, recid \in Ids, expected \in Ids \cup {AnySender},
             mayWait \in BOOLEAN :
           /\ Receive(u, name, recid, expected, mayWait)
           /\ \/ asked' = [asked EXCEPT ![u].expected = expected] /\ UNCHANGED pc
              \/ /\ asked' = [asked EXCEPT ![u] =
                        [name |-> name, recid |-> recid, expected |-> expected]]
                 /\ pc' = [pc EXCEPT ![u] =
                        IF MustSleep(reply'.code) THEN "registered" ELSE @]
    BY <1>0, <1>5 DEF nonblock_receive, async_recieve, do_res_mg_q,
                      block_receive, blocking_recieve, do_blocking_receive, Remember
  <2> DEFINE soon == mayWait /\ reply'.code = MSG_REC_NO_MSG
  <2>2. Traced(u, soon, FALSE, FALSE)
    BY <2>1, ReceiveTraced
  <2> HIDE DEF soon
  <2>3. \A q \in Pids \ {u} : pc'[q] = pc[q] /\ asked'[q] = asked[q]
    BY <1>0, <2>1
  <2> QED
    BY <1>1, <2>2, <2>3
<1> QED
  BY <1>2, <1>3, <1>4, <1>5

\* A call that strands its own caller.
LEMMA StrandedByOwnCall ==
    ASSUME TypesInv, AskedInv, NEW p \in Pids,
           \/ Qopen(p) \/ Qclose(p) \/ Qsetattr(p) \/ Qgetattr(p)
           \/ nonblock_send(p) \/ nonblock_receive(p)
           \/ block_receive(p) \/ blocking_send(p) \/ reqnotify(p),
           Stranded(p)'
    PROVE  StrandsFor(p)
<1>0. /\ Typed \subseteq Names /\ Uses[p] \subseteq Ids
      /\ pc \in [Pids -> Places] /\ asked \in [Pids -> AskedSoFar]
  BY ClientsAssumption, ConstantsAssumption DEF ConstantsAssumption, AskedInv
<1>1. /\ pending'[p] = {} /\ pc'[p] \in InSend \cup InReceive
      /\ pc'[p] \in InReceive => ~KnownReceiver(p)'
      /\ pc'[p] \in InSend => ~KnownSender(p)'
  BY DEF Stranded, InSend, InReceive
<1>2. pc[p] = "menu" /\ p \in alive
  BY DEF Qopen, Qclose, Qsetattr, Qgetattr, nonblock_send, nonblock_receive,
         block_receive, blocking_send, reqnotify, AtMenu, At
<1>3. CASE block_receive(p)
  <2>1. PICK name \in Typed, recid \in Uses[p], expected \in Ids \cup {AnySender} :
           blocking_recieve(p, name, recid, expected)
    BY <1>3 DEF block_receive
  <2>2. /\ Receive(p, name, recid, expected, TRUE)
        /\ asked'[p] = [name |-> name, recid |-> recid, expected |-> expected]
        /\ pc'[p] = IF reply'.code = MSG_REC_NO_MSG THEN "registered" ELSE "menu"
    BY <1>0, <1>2, <2>1 DEF blocking_recieve, do_blocking_receive, Remember, MustSleep
  <2>3. reply'.code = MSG_REC_NO_MSG /\ pc'[p] \in InReceive
    BY <1>1, <2>2 DEF InSend, InReceive
  <2> DEFINE e == [pid |-> p, recid |-> recid, sendid |-> expected]
  <2>4. Listed(name, e)'
    BY <1>0, <2>1, <2>2, <2>3, ToldToWait
  <2>5. KnownReceiver(p)'
    BY <2>2, <2>4 DEF KnownReceiver, Listed
  <2> QED
    BY <1>1, <2>3, <2>5
<1>4. CASE blocking_send(p)
  <2>1. SendTyped(p) /\ Raise(pending) /\ pc'[p] = "sent"
    BY <1>0, <1>4 DEF blocking_send, mq_send
  <2>2. SendCall(p)
    BY <2>1, ClientsAssumption DEF SendTyped, SendCall
  <2>3. PICK name \in Names, m \in Message : do_send_mg_q(p, name, m)
    BY <2>2, SentMessage
  <2>4. ~KnownSender(p)' /\ <<p, "SIGUSR2">> \notin signals'
    BY <1>1, <2>1, RaisedTo DEF InSend, Signals
  <2>5. /\ reply'.code = MSG_ADD_SUCCESS
        /\ \E s \in Open : queue_arr'[s] # queue_arr[s] /\ queue_arr[s].blocking = NON_BLOCKING
    BY <1>2, <2>3, <2>4, SentWithoutRow
  <2> QED
    BY <1>2, <2>1, <2>5 DEF StrandsFor
<1>5. CASE Qopen(p) \/ Qclose(p) \/ Qsetattr(p) \/ Qgetattr(p)
             \/ nonblock_send(p) \/ nonblock_receive(p)
  <2>1. pc'[p] = "menu"
    BY <1>2, <1>5 DEF Qopen, Qclose, Qsetattr, Qgetattr, nonblock_send, nonblock_receive
  <2> QED
    BY <1>1, <2>1 DEF InSend, InReceive
<1>6. CASE reqnotify(p)
  <2>1. pc'[p] = "spinning"
    BY <1>0, <1>6 DEF reqnotify
  <2> QED
    BY <1>1, <2>1 DEF InSend, InReceive
<1> QED
  BY <1>3, <1>4, <1>5, <1>6

\* A signal handled: by p itself, or by another process.
LEMMA StrandedByHandler ==
    ASSUME TypesInv, AskedInv, CausesInv, [Next]_vars, NEW p \in Pids,
           NEW u \in Pids, NEW sig \in Signals, Handle(u, sig),
           ~Stranded(p), Stranded(p)'
    PROVE  StrandsFor(p)
<1>0. /\ pc \in [Pids -> Places] /\ pending \in [Pids -> SUBSET Signals]
  BY DEF AskedInv, CausesInv, LibTyped
<1>1. CASE Die(u)
  <2>1. /\ pc' = [pc EXCEPT ![u] = "dead"] /\ pending' = [pending EXCEPT ![u] = {}]
        /\ UNCHANGED <<queue_arr, blockedQ_array, blocking_sender, asked>>
    BY <1>1 DEF Die, Exit
  <2>2. CASE p = u
    BY <1>0, <2>1, <2>2 DEF Stranded, InSend, InReceive
  <2>3. CASE p # u
    <3>1. pc'[p] = pc[p] /\ pending'[p] = pending[p] /\ asked'[p] = asked[p]
      BY <1>0, <2>1, <2>3
    <3> QED
      BY <2>1, <3>1, StrandedAlready
  <2> QED
    BY <2>2, <2>3
<1>2. CASE AfterHandler(u)
  <2>1. pc' = [pc EXCEPT ![u] = IF @ \in InSigsuspend THEN "menu" ELSE @]
    BY <1>2 DEF AfterHandler
  <2>2. CASE p = u
    <3>1. pc'[p] = (IF pc[p] \in InSigsuspend THEN "menu" ELSE pc[p])
          /\ pc'[p] \in InSend \cup InReceive
      BY <1>0, <2>1, <2>2 DEF Stranded
    <3>2. pc[p] \in {"sent", "registered", "armed"}
      BY <3>1 DEF InSigsuspend, InSend, InReceive
    <3>3. pending[p] # {}
      BY <2>2 DEF Handle
    <3> QED
      BY <3>2, <3>3 DEF StrandsFor
  <2>3. CASE p # u
    <3>1. pc'[p] = pc[p]
      BY <1>0, <2>1, <2>3
    <3>2. CASE pending' = Without(u, sig) /\ UNCHANGED <<vars, asked>>
      <4>1. pending'[p] = pending[p] /\ asked'[p] = asked[p]
            /\ UNCHANGED <<queue_arr, blockedQ_array, blocking_sender>>
        BY <1>0, <2>3, <3>2 DEF Without, vars
      <4> QED
        BY <3>1, <4>1, StrandedAlready
    <3>3. ASSUME handler[u][sig] = "inthandler_rec", NEW name \in NamesSeen(u),
                 ReceiveAgain(u, name), Raise(Without(u, sig)), UNCHANGED asked
          PROVE  StrandsFor(p)
      <4>1. asked[u] \in Asked
        BY <3>3 DEF AskedInv, AskedReady
      <4>2. /\ asked[u].recid \in Ids /\ asked[u].expected \in Ids \cup {AnySender}
            /\ name \in Names
        BY <3>3, <4>1 DEF Asked, NamesSeen
      <4> DEFINE soon == TRUE /\ reply'.code = MSG_REC_NO_MSG
      <4>3. Receive(u, name, asked[u].recid, asked[u].expected, TRUE)
        BY <3>3 DEF ReceiveAgain, do_blocking_receive
      <4>4. Traced(u, soon, FALSE, FALSE)
        BY <4>2, <4>3, ReceiveTraced
      <4> HIDE DEF soon
      <4> DEFINE old == Without(u, sig)
      <4>5. old[p] = pending[p]
        BY <1>0, <2>3 DEF Without
      <4>6. pending'[p] = old[p] \cup {s \in Signals : <<p, s>> \in signals'}
        BY <3>3 DEF Raise
      <4> HIDE DEF old
      <4>7. pending'[p] = pending[p] \cup {s \in Signals : <<p, s>> \in signals'}
        BY <4>5, <4>6
      <4>8. TracedFor(p, u, soon, FALSE, FALSE)
        BY <4>4 DEF Traced
      <4> QED
        BY <2>3, <3>1, <3>3, <4>7, <4>8, StrandedByOthers DEF StrandsFor
    <3> QED
      BY <1>1, <3>2, <3>3 DEF Handle
  <2> QED
    BY <2>2, <2>3
<1> QED
  BY <1>1, <1>2 DEF Handle

LEMMA StrandedHasCause ==
    ASSUME TypesInv, AskedInv, CausesInv, [ClientsNext]_cvars, NEW p \in Pids,
           ~Stranded(p), Stranded(p)'
    PROVE  StrandsFor(p)
<1>0. [Next]_vars /\ pc \in [Pids -> Places] /\ pending \in [Pids -> SUBSET Signals]
  BY AskedInvStep DEF AskedInv, CausesInv, LibTyped
<1>1. CASE UNCHANGED cvars \/ Time
  <2>1. UNCHANGED <<queue_arr, blockedQ_array, blocking_sender, pc, pending, asked>>
    BY <1>1 DEF cvars, vars, libVars, Time, Tick
  <2> QED
    BY <2>1, StrandedAlready
<1>2. ASSUME NEW u \in Pids, InstallReceiveHandler(u) \/ Suspend(u) \/ StopSpinning(u)
      PROVE  StrandsFor(p)
  <2>1. UNCHANGED <<queue_arr, blockedQ_array, blocking_sender, pending, asked>>
    BY <1>2 DEF InstallReceiveHandler, Suspend, StopSpinning, vars
  <2>2. PICK place :
           /\ pc' = [pc EXCEPT ![u] = place]
           /\ \/ place = "armed" /\ pc[u] = "registered"
              \/ place = "suspended" /\ pc[u] = "sent"
              \/ place = "asleep" /\ pc[u] = "armed"
              \/ place = "menu"
    BY <1>2 DEF InstallReceiveHandler, Suspend, StopSpinning, At
  <2>3. /\ pc'[p] \in InReceive => pc[p] \in InReceive
        /\ pc'[p] \in InSend => pc[p] \in InSend
    BY <1>0, <2>2 DEF InReceive, InSend
  <2> QED
    BY <2>1, <2>3, StrandedAlready
<1>3. ASSUME NEW u \in Pids, Leave(u) \/ Interrupt(u)
      PROVE  StrandsFor(p)
  <2>1. UNCHANGED <<queue_arr, blockedQ_array, blocking_sender, asked>>
    BY <1>3 DEF Leave, Die, Exit, Interrupt, vars
  <2>2. CASE Leave(u)
    <3>1. pc' = [pc EXCEPT ![u] = "dead"] /\ pending' = [pending EXCEPT ![u] = {}]
      BY <2>2 DEF Leave, Die
    <3>2. p # u
      BY <1>0, <3>1 DEF Stranded, InSend, InReceive
    <3>3. pc'[p] = pc[p] /\ pending'[p] = pending[p]
      BY <1>0, <3>1, <3>2
    <3> QED
      BY <2>1, <3>3, StrandedAlready
  <2>3. CASE Interrupt(u)
    <3>1. pending' = [pending EXCEPT ![u] = @ \cup {"SIGINT"}] /\ UNCHANGED pc
      BY <2>3 DEF Interrupt
    <3>2. pending[p] \subseteq pending'[p]
      BY <1>0, <3>1
    <3> QED
      BY <2>1, <3>1, <3>2, StrandedAlready
  <2> QED
    BY <1>3, <2>2, <2>3
<1>4. ASSUME NEW u \in Pids,
             \/ Qopen(u) \/ Qclose(u) \/ Qsetattr(u) \/ Qgetattr(u)
             \/ nonblock_send(u) \/ nonblock_receive(u)
             \/ block_receive(u) \/ blocking_send(u) \/ reqnotify(u)
      PROVE  StrandsFor(p)
  <2>1. CASE p = u
    BY <1>4, <2>1, StrandedByOwnCall
  <2>2. CASE p # u
    <3>1. /\ \E waits, sends, notes : Traced(u, waits, sends, notes)
          /\ Raise(pending)
          /\ \A q \in Pids \ {u} : pc'[q] = pc[q] /\ asked'[q] = asked[q]
      BY <1>4, CallsOfOthers
    <3>2. PICK waits, sends, notes : TracedFor(p, u, waits, sends, notes)
      BY <3>1 DEF Traced
    <3>3. pending'[p] = pending[p] \cup {sig \in Signals : <<p, sig>> \in signals'}
      BY <3>1, RaisedTo
    <3>4. pc'[p] = pc[p] /\ asked'[p] = asked[p]
      BY <2>2, <3>1
    <3> QED
      BY <1>0, <2>2, <3>2, <3>3, <3>4, StrandedByOthers DEF StrandsFor
  <2> QED
    BY <2>1, <2>2
<1>5. ASSUME NEW u \in Pids, NEW sig \in Signals, Handle(u, sig)
      PROVE  StrandsFor(p)
  BY <1>0, <1>5, StrandedByHandler
<1> QED
  BY <1>1, <1>2, <1>3, <1>4, <1>5 DEF ClientsNext, UserStep, OwnStep

\* The four ways of StrandedOnlyBy are all there are, for any number of processes:
\* every other step of anybody leaves a caller in the library its entry or its row,
\* or a signal to handle.
THEOREM StrandedInFourWays == ClientsSpec => StrandedOnlyBy
<1>1. TypesInv /\ AskedInv /\ CausesInv /\ [ClientsNext]_cvars =>
         [ \A p \in Pids : (~Stranded(p) /\ Stranded(p)') => StrandsFor(p) ]_cvars
  BY StrandedHasCause
<1> QED
  BY <1>1, ClientsInvInit, ClientsInvStep, PTL
     DEF ClientsSpec, StrandedOnlyBy, StrandsFor, ByExpiry

=============================================================================
