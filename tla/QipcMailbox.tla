----------------------------- MODULE QipcMailbox -----------------------------
(***************************************************************************)
(* qipc.c keeps mailboxes: the server of Qipc, seen through what its       *)
(* callers can tell, is the Mailbox.                                       *)
(***************************************************************************)
EXTENDS Qipc

\* The mailbox under a name: the messages that have not expired, wherever the
\* queue has its slot and whether or not the dead ones have been purged.
BoxOf(n) ==
    IF check_queue_exist(n) = NULL THEN NULL
    ELSE LiveMessages(queue_arr[check_queue_exist(n)].msgs)

Boxes == [n \in Names |-> BoxOf(n)]

\* What the caller can tell from the reply.
Told(kind, letter, req) ==
    [kind |-> kind, letter |-> letter, reader |-> req.recid, from |-> req.expected]

Telling ==
    CASE reply.code = MSG_REC_SUCCESS -> Told("letter", reply.msg, reply.req)
      [] reply.code \in {MSG_REC_NO_MSG, REC_DLOCKED} ->
            Told("nothing", reply.req.name, reply.req)
      [] OTHER -> Told("other", NULL, [recid |-> NULL, expected |-> NULL])

Mail == INSTANCE Mailbox WITH box <- Boxes, now <- clock, answer <- Telling

\* Every history of the server is one of mailboxes: no reply of do_res_mg_q and
\* do_blocking_receive depends on what the callers cannot see.
KeepsMailboxes == Mail!MailSpec
=============================================================================
