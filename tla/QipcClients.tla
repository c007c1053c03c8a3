---------------------------- MODULE QipcClients ----------------------------
(***************************************************************************)
(* The processes that use qIPC: the menu program ipc/user_program/welcome.c*)
(* over the library headers of ipc/include, composed with the server of    *)
(* module Qipc.  A blocked caller is not blocked inside PM: the call       *)
(* returns, the library puts the process to sleep with sigsuspend, and PM  *)
(* wakes it with a signal.  The steps between a call's return and the      *)
(* sleep, and the choice of the handler that meets the signal, are what    *)
(* this module is about.                                                   *)
(*                                                                         *)
(* The handlers are installed with signal(), which is persistent on MINIX. *)
(* A pending signal is handled before the process takes its next step of   *)
(* its own, and a handler with its one system call is a single step: other *)
(* processes run between two calls only.                                   *)
(***************************************************************************)
EXTENDS Qipc

CONSTANTS
    Menu,            \* the menu choices each process's user makes
    Typed,           \* the queue names the users type
    Interrupted      \* the processes whose user may press Ctrl+C

MenuItems == {"open", "close", "setattr", "getattr", "send", "receive",
            "block_receive", "notify", "block_send", "exit"}

OpenCapacity == 5    \* queuelib.h opens every queue so

ASSUME ClientsAssumption ==
    /\ Menu \in [Pids -> SUBSET MenuItems]
    /\ Typed \subseteq Names
    /\ Interrupted \subseteq Pids
    /\ OpenCapacity \in Caps /\ NON_BLOCKING \in Types

VARIABLES
    pc,                 \* where the process is in the program
    handler,            \* what it does on each signal
    pending,            \* the signals it has not handled yet
    blocking_return,    \* of mq_send.h
    notification_alert, \* of mq_reqnotify.h
    asked               \* Qname, receiverid and senId of breceivelib.h

libVars == <<pc, handler, pending, blocking_return, notification_alert, asked>>
cvars == <<vars, libVars>>

Signals == {"SIGUSR1", "SIGUSR2", "SIGINT"}
Handlers == {"SIG_DFL", "ipthandler", "inthandler_rec", "notifyhandler"}

\* Where a process can be.  In mq_send: "sent" when the call has returned,
\* "suspended" in sigsuspend.  In blocking_recieve: "registered" when the call
\* has answered that there is no message, "armed" when the handler is
\* installed, "asleep" in sigsuspend.  In reqnotify: "spinning" in the loop on
\* notification_alert.
InSend    == {"sent", "suspended"}
InReceive == {"registered", "armed", "asleep"}
InSigsuspend == {"suspended", "asleep"}
Places == {"menu", "spinning", "dead"} \cup InSend \cup InReceive

Asked == [name : Names, recid : Ids, expected : Ids \cup {AnySender}]

-----------------------------------------------------------------------------
(* Signals.                                                                *)

\* What PM's step has raised becomes pending.
Raise(old) == pending' = [q \in Pids |->
    old[q] \cup {sig \in Signals : <<q, sig>> \in signals'}]

\* The process executes its own program when no signal is waiting for it.
At(p, place) == p \in alive /\ pc[p] = place /\ pending[p] = {}
AtMenu(p, choice) == At(p, "menu") /\ choice \in Menu[p]

-----------------------------------------------------------------------------
(* The menu: welcome.c with queuelib.h, nonblok_all.h and mq_receive.h.    *)

Qopen(p) ==
    /\ AtMenu(p, "open")
    /\ \E name \in Typed : do_open_q(p, name, OpenCapacity, NON_BLOCKING)
    /\ Raise(pending)
    /\ UNCHANGED <<pc, handler, blocking_return, notification_alert, asked>>

Qclose(p) ==
    /\ AtMenu(p, "close")
    /\ \E name \in Typed : do_close_q(p, name)
    /\ Raise(pending)
    /\ UNCHANGED <<pc, handler, blocking_return, notification_alert, asked>>

Qsetattr(p) ==
    /\ AtMenu(p, "setattr")
    /\ \E name \in Typed, cap \in Caps, type \in Types : do_set_attr_q(p, name, cap, type)
    /\ Raise(pending)
    /\ UNCHANGED <<pc, handler, blocking_return, notification_alert, asked>>

\* getattr_queue turns every answer but one into -1, and Qgetattr compares what
\* it gets with QUEUE_NOT_EXIST.
getattr_queue(code) == IF code # QUEUE_UPDATE_SUCCESS THEN "MINUS_ONE" ELSE "ZERO"

Qgetattr(p) ==
    /\ AtMenu(p, "getattr")
    /\ \E name \in Typed : do_get_attr_q(p, name)
    /\ Raise(pending)
    /\ UNCHANGED <<pc, handler, blocking_return, notification_alert, asked>>

\* The send that the user describes; the menu does not send to nobody.
SendTyped(p) ==
    \E name \in Typed, sNo \in Uses[p], rs \in RecvLists \ {<<>>},
       prio \in Prios, exp \in Expiries :
          do_send_mg_q(p, name, get_qipc_msg(sNo, rs, prio, exp))

\* async_send installs no handler.
nonblock_send(p) ==
    /\ AtMenu(p, "send")
    /\ SendTyped(p)
    /\ Raise(pending)
    /\ UNCHANGED <<pc, handler, blocking_return, notification_alert, asked>>

\* The senId that inthandler_rec will use is overwritten, the other two are not.
async_recieve(p, name, recid, expected) ==
    /\ do_res_mg_q(p, name, recid, expected)
    /\ asked' = [asked EXCEPT ![p].expected = expected]

nonblock_receive(p) ==
    /\ AtMenu(p, "receive")
    /\ \E name \in Typed, recid \in Uses[p], expected \in Ids \cup {AnySender} :
          async_recieve(p, name, recid, expected)
    /\ Raise(pending)
    /\ UNCHANGED <<pc, handler, blocking_return, notification_alert>>

-----------------------------------------------------------------------------
(* mq_send.h and breceivelib.h.                                            *)

\* The two handlers, then the call.  Its result is not looked at.
mq_send(p) ==
    /\ handler' = [handler EXCEPT ![p]["SIGUSR1"] = "ipthandler",
                                  ![p]["SIGUSR2"] = "ipthandler"]
    /\ SendTyped(p)

blocking_send(p) ==
    /\ AtMenu(p, "block_send")
    /\ mq_send(p)
    /\ Raise(pending)
    /\ pc' = [pc EXCEPT ![p] = "sent"]
    /\ UNCHANGED <<blocking_return, notification_alert, asked>>

\* MUTANT: the caller's number is not kept for the handler.
Remember_NotTheReceiver(p, name, recid, expected) ==
    asked' = [asked EXCEPT ![p].name = name, ![p].expected = expected]

Remember(p, name, recid, expected) ==
    asked' = [asked EXCEPT ![p] =
        [name |-> name, recid |-> recid, expected |-> expected]]

\* MUTANT: whatever is not a message puts the process to sleep.
MustSleep_Always(code) == code # MSG_REC_SUCCESS

MustSleep(code) == code = MSG_REC_NO_MSG

\* The process sleeps only if PM answered that there is no message, and installs
\* its handler after PM has listed it as waiting.
blocking_recieve(p, name, recid, expected) ==
    /\ do_blocking_receive(p, name, recid, expected)
    /\ Remember(p, name, recid, expected)
    /\ pc' = [pc EXCEPT ![p] = IF MustSleep(reply'.code) THEN "registered" ELSE @]

block_receive(p) ==
    /\ AtMenu(p, "block_receive")
    /\ \E name \in Typed, recid \in Uses[p], expected \in Ids \cup {AnySender} :
          blocking_recieve(p, name, recid, expected)
    /\ Raise(pending)
    /\ UNCHANGED <<handler, blocking_return, notification_alert>>

InstallReceiveHandler(p) ==
    /\ At(p, "registered")
    /\ handler' = [handler EXCEPT ![p]["SIGUSR1"] = "inthandler_rec"]
    /\ pc' = [pc EXCEPT ![p] = "armed"]
    /\ UNCHANGED <<vars, pending, blocking_return, notification_alert, asked>>

\* sigsuspend.  Between the SIG_BLOCK of blocking_recieve and its sigsuspend a
\* signal waits and is met by sigsuspend, so the two are one step.
Suspend(p) ==
    /\ \/ /\ At(p, "sent")
          /\ pc' = [pc EXCEPT ![p] = "suspended"]
       \/ /\ At(p, "armed")
          /\ pc' = [pc EXCEPT ![p] = "asleep"]
    /\ UNCHANGED <<vars, handler, pending, blocking_return, notification_alert, asked>>

-----------------------------------------------------------------------------
(* mq_reqnotify.h and reqnotify of welcome.c.                              *)

\* MUTANT: only SIGINT is given the handler.
mq_reqnotify_NoHandler(p, id) ==
    /\ handler' = [handler EXCEPT ![p]["SIGINT"] = "notifyhandler"]
    /\ do_mqreqnotify(p, id)

mq_reqnotify(p, id) ==
    /\ handler' = [handler EXCEPT ![p]["SIGUSR1"] = "notifyhandler",
                                  ![p]["SIGINT"] = "notifyhandler"]
    /\ do_mqreqnotify(p, id)

\* The loop is entered whatever PM answered.
reqnotify(p) ==
    /\ AtMenu(p, "notify")
    /\ \E id \in Ids : mq_reqnotify(p, id)
    /\ Raise(pending)
    /\ pc' = [pc EXCEPT ![p] = "spinning"]
    /\ UNCHANGED <<blocking_return, notification_alert, asked>>

\* Nothing ever resets notification_alert.
StopSpinning(p) ==
    /\ At(p, "spinning")
    /\ notification_alert[p] = 1
    /\ pc' = [pc EXCEPT ![p] = "menu"]
    /\ UNCHANGED <<vars, handler, pending, blocking_return, notification_alert, asked>>

-----------------------------------------------------------------------------
(* The handlers.                                                           *)

\* MUTANT: the handler of breceivelib.h asks for the sender's number.
ReceiveAgain_Swapped(p, name) ==
    do_blocking_receive(p, name, asked[p].expected, asked[p].recid)

\* inthandler_rec repeats the call with the three globals, and may enter the
\* waiting list again.
ReceiveAgain(p, name) ==
    do_blocking_receive(p, name, asked[p].recid, asked[p].expected)

\* Qname points into the frame of block_receive: once that has returned, any
\* name may be found there.
NamesSeen(p) == IF pc[p] \in InReceive THEN {asked[p].name} ELSE Names

\* MUTANT: sigsuspend is restarted after the handler.
AfterHandler_Restarted(p) == pc' = pc

\* A handler that ran inside sigsuspend makes it return, and the library
\* function with it.
AfterHandler(p) ==
    pc' = [pc EXCEPT ![p] = IF @ \in InSigsuspend THEN "menu" ELSE @]

Without(p, sig) == [pending EXCEPT ![p] = @ \ {sig}]

Die(p) ==
    /\ Exit(p)
    /\ pc' = [pc EXCEPT ![p] = "dead"]
    /\ pending' = [pending EXCEPT ![p] = {}]
    /\ UNCHANGED <<handler, blocking_return, notification_alert, asked>>

Handle(p, sig) ==
    LET h == handler[p][sig] IN
    /\ p \in alive /\ sig \in pending[p]
    /\ \/ /\ h = "SIG_DFL"
          /\ Die(p)
       \/ /\ h = "ipthandler"
          /\ blocking_return' =
                [blocking_return EXCEPT ![p] = IF sig = "SIGUSR1" THEN 1 ELSE 0]
          /\ AfterHandler(p)
          /\ pending' = Without(p, sig)
          /\ UNCHANGED <<vars, handler, notification_alert, asked>>
       \/ /\ h = "notifyhandler"
          /\ notification_alert' = [notification_alert EXCEPT ![p] = 1]
          /\ AfterHandler(p)
          /\ pending' = Without(p, sig)
          /\ UNCHANGED <<vars, handler, blocking_return, asked>>
       \/ /\ h = "inthandler_rec"
          /\ \E name \in NamesSeen(p) : ReceiveAgain(p, name)
          /\ AfterHandler(p)
          /\ Raise(Without(p, sig))
          /\ UNCHANGED <<handler, blocking_return, notification_alert, asked>>

-----------------------------------------------------------------------------
(* The system.                                                             *)

Interrupt(p) ==
    /\ p \in Interrupted \cap alive
    /\ pending' = [pending EXCEPT ![p] = @ \cup {"SIGINT"}]
    /\ UNCHANGED <<vars, pc, handler, blocking_return, notification_alert, asked>>

Leave(p) == AtMenu(p, "exit") /\ Die(p)

Time == Tick /\ UNCHANGED libVars

ClientsInit ==
    /\ Init
    /\ pc = [p \in Pids |-> "menu"]
    /\ handler = [p \in Pids |-> [sig \in Signals |-> "SIG_DFL"]]
    /\ pending = [p \in Pids |-> {}]
    /\ blocking_return = [p \in Pids |-> 0]
    /\ notification_alert = [p \in Pids |-> 0]
    /\ asked = [p \in Pids |-> [name |-> NULL, recid |-> NULL, expected |-> NULL]]

\* What the user of process p does.
UserStep(p) ==
    \/ Qopen(p) \/ Qclose(p) \/ Qsetattr(p) \/ Qgetattr(p)
    \/ nonblock_send(p) \/ nonblock_receive(p)
    \/ block_receive(p) \/ blocking_send(p) \/ reqnotify(p)
    \/ Leave(p) \/ Interrupt(p)

\* What process p does without its user.
OwnStep(p) ==
    \/ InstallReceiveHandler(p) \/ Suspend(p) \/ StopSpinning(p)
    \/ \E sig \in Signals : Handle(p, sig)

ClientsNext == (\E p \in Pids : UserStep(p) \/ OwnStep(p)) \/ Time

ClientsSpec == ClientsInit /\ [][ClientsNext]_cvars

\* MINIX schedules every runnable process; no user has to do anything.
FairClients == ClientsSpec /\ \A p \in Pids : WF_cvars(OwnStep(p))

-----------------------------------------------------------------------------
(* What the composition promises.                                          *)

\* The library's variables keep their types, and what inthandler_rec will ask
\* PM for is something this process asked for before.
ClientsTypeOK ==
    /\ pc \in [Pids -> Places]
    /\ handler \in [Pids -> [Signals -> Handlers]]
    /\ pending \in [Pids -> SUBSET Signals]
    /\ blocking_return \in [Pids -> {0, 1}]
    /\ notification_alert \in [Pids -> {0, 1}]
    /\ \A p \in Pids :
          pc[p] \in InReceive \/ handler[p]["SIGUSR1"] = "inthandler_rec"
              => asked[p] \in Asked /\ asked[p].recid \in Uses[p]
    /\ \A p \in Pids : p \in alive <=> pc[p] # "dead"

\* The composition implements the server's specification, whose callers may
\* call anything at any time: what Qipc promises holds of the whole system.
ClientsImplementServer == Spec

\* PM still has the entry that the receive of p left, or the row of its send.
KnownReceiver(p) ==
    \E s \in Open : /\ queue_arr[s].name = asked[p].name
                    /\ [pid |-> p, recid |-> asked[p].recid, sendid |-> asked[p].expected]
                          \in ToSet(blockedQ_array[s])
KnownSender(p) == \E i \in DOMAIN blocking_sender : blocking_sender[i].pid = p

\* The process will sleep, or sleeps, and neither a signal nor PM will answer.
Stranded(p) ==
    /\ pending[p] = {}
    /\ \/ pc[p] \in InReceive /\ ~KnownReceiver(p)
       \/ pc[p] \in InSend /\ ~KnownSender(p)

\* A caller is stranded in four ways only: its wake-up is handled before it is
\* in sigsuspend; the queue it waits on is closed; an expired message is purged
\* with the waiting entries of its receivers; or it made a blocking send on a
\* queue that is not blocking.
StrandedOnlyBy ==
    [][ \A p \in Pids : (~Stranded(p) /\ Stranded(p)') =>
          \/ pending[p] # {} /\ pc[p] \in {"sent", "registered", "armed"}
          \/ reply'.code = QUEUE_CLOSE_SUCCESS
          \/ \E s \in Open : \E i \in DOMAIN queue_arr[s].msgs :
                Expired(queue_arr[s].msgs[i]) /\ queue_arr'[s] # queue_arr[s]
          \/ /\ pc[p] = "menu" /\ pc'[p] = "sent" /\ reply'.code = MSG_ADD_SUCCESS
             /\ \E s \in Open : queue_arr'[s] # queue_arr[s]
                                /\ queue_arr[s].blocking = NON_BLOCKING ]_cvars

\* A signal of qIPC kills a process only if it never had a handler for it:
\* SIGUSR2 after a refused non-blocking send, SIGUSR1 between the two steps of
\* its first blocking receive, or for a non-blocking send to a blocking queue.
\* Ctrl+C kills it until it has asked for a notification.
KilledOnlyBy ==
    [][ \A p \in alive \ alive' :
          \/ pending[p] = {}
          \/ "SIGINT" \in pending[p] /\ handler[p]["SIGINT"] = "SIG_DFL"
          \/ pc[p] = "menu" /\ "send" \in Menu[p]
          \/ pc[p] = "registered" ]_cvars

\* ipthandler is about to report "Blocking send completed" of a send that PM still
\* has waiting for its readers.
CompletesEarly(p) ==
    /\ pc[p] \in InSend /\ handler[p]["SIGUSR1"] = "ipthandler"
    /\ "SIGUSR1" \in pending[p] /\ KnownSender(p)

\* SIGUSR1 means several things to a process, and a blocking send is reported as
\* completed too early to those only who have asked for notifications (granted or
\* not: Ctrl+C then ends their sends), who have asked to wait for a message, or who
\* send without blocking too.
CompletedEarlyOnlyTo ==
    \A p \in Pids : CompletesEarly(p) =>
        \/ handler[p]["SIGINT"] = "notifyhandler"
        \/ asked[p].recid # NULL
        \/ "send" \in Menu[p]

\* Whoever waits in the library with a signal to handle gets back to the menu,
\* or is ended by the signal.
WakeUpsEndWaits ==
    \A p \in Pids :
        (pending[p] # {} /\ pc[p] \in InSigsuspend \cup {"spinning"})
            ~> (pc[p] \in {"menu", "dead"})
=============================================================================
