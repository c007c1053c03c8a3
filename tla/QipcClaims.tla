----------------------------- MODULE QipcClaims -----------------------------
(***************************************************************************)
(* What qipc.h, the messages of the code and qIPC_TestCases.doc say of the *)
(* queues, and the code does not do.  Each run of this module shows one of *)
(* these statements violated.                                              *)
(***************************************************************************)
EXTENDS Qipc

CONSTANTS p1, p2, p3

ToOne      == {<<1>>}
ToOther    == {<<1>>, <<2>>}
OwnNumber2 == [p \in {p1, p2} |-> IF p = p1 THEN {1} ELSE {2}]
OwnNumber3 == [p \in {p1, p2, p3} |-> IF p = p1 THEN {1} ELSE IF p = p2 THEN {2} ELSE {3}]

\* A send that is answered with MSG_ADD_FAIL, "Failed to add message to queue"
\* (qipc.c:319), adds nothing.  The code has added the message by then.
RefusedSendAddsNothing ==
    [][reply'.code = MSG_ADD_FAIL => queue_arr' = queue_arr]_vars

\* The readings that blocked senders wait for.
ReadingsAwaited(table) == ForEach(LAMBDA n, e : n + e.cnt, 0, table)

\* A blocked sender comes closer to its release only when one of its receivers
\* consumes a message of that sender (qIPC_TestCases.doc: "Block the sender
\* process until its receivers consume the message").  The code counts any
\* receive that looks at a live message, whoever that message is for.
ReleasedByItsReaders ==
    [][ReadingsAwaited(blocking_sender') < ReadingsAwaited(blocking_sender) =>
          reply'.code = MSG_REC_SUCCESS]_vars

\* Receivers do not end up waiting for each other (qIPC_TestCases.doc: "The qIPC
\* uses deadlock prevention mechanism"): some receiver of any group waits for
\* none of the others.  check_for_deadlock looks no further than two receivers.
NoReceiverDeadlock ==
    \A s \in Open : \A S \in SUBSET DOMAIN blockedQ_array[s] :
        LET list == blockedQ_array[s] IN
        S # {} => \E i \in S : \A j \in S :
            list[j].recid # list[i].recid => list[j].recid # list[i].sendid

=============================================================================
