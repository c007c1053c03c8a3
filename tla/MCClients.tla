----------------------------- MODULE MCClients -----------------------------
(***************************************************************************)
(* Instances of QipcClients for TLC: who is at the keyboard of each        *)
(* process, and what they choose from the menu.                            *)
(***************************************************************************)
EXTENDS QipcClients

CONSTANTS p1, p2, p3

ToEither  == {<<1>>, <<2>>}
ToSecond  == {<<2>>}
Own2      == (p1 :> {1}) @@ (p2 :> {2})
Own3      == (p1 :> {1}) @@ (p2 :> {2}) @@ (p3 :> {3})

\* One process configures the queue and sends, the other receives, asks for
\* notifications and is interrupted.
SenderAndReceiver ==
       (p1 :> {"open", "close", "setattr", "getattr", "send", "block_send"})
    @@ (p2 :> {"receive", "block_receive", "notify"})

\* Both processes wait, each in its own ways: p1 in sigsuspend, p2 in a loop too.
BothWait ==
       (p1 :> {"open", "setattr", "block_send", "block_receive"})
    @@ (p2 :> {"block_send", "receive", "notify", "exit"})

\* See MCQipc: what the server answered last need not be told apart.
ClientState == <<queue_arr, queue_count, blockedQ_array, blocking_sender,
                 notifiers, clock, alive, libVars>>
=============================================================================
