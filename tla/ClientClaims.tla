---------------------------- MODULE ClientClaims ----------------------------
(***************************************************************************)
(* What the library headers, the menu program and qIPC_TestCases.doc say   *)
(* of the processes that use the queues, and the code does not do.  Each   *)
(* run of this module shows one of these statements violated.              *)
(***************************************************************************)
EXTENDS MCClients

\* p1 sends without waiting, p2 waits for messages.
OneSendsOneReceives ==
       (p1 :> {"open", "send"})
    @@ (p2 :> {"block_receive"})

\* A receiver sleeps "until message arrives" (breceivelib.h:67).  The handler is
\* installed after PM has listed the receiver, and a wake-up handled before
\* sigsuspend is not remembered.
SleepsUntilMessageArrives ==
    \A p \in Pids :
        (/\ pc[p] = "asleep"
         /\ \E s \in Open : /\ queue_arr[s].name = asked[p].name
                            /\ \E i \in DOMAIN queue_arr[s].msgs :
                                  Matches(queue_arr[s].msgs[i], asked[p].recid,
                                          asked[p].expected))
            ~> pc[p] # "asleep"

=============================================================================
