------------------------------- MODULE Mailbox -------------------------------
(***************************************************************************)
(* What a user of qIPC may rely on, without slots, waiting lists, blocked  *)
(* senders or capacities.  Under a name there is a mailbox, or none.  A    *)
(* letter lies in it from the moment it is posted until its last reading   *)
(* has been taken or its time is over, whichever is first; a reader gets   *)
(* the oldest of the most urgent letters for it, and is told that there is *)
(* nothing only if there is nothing.  The server expires messages when it  *)
(* next looks at them; here they are gone at once.                         *)
(***************************************************************************)
EXTENDS Integers, Sequences, SequencesExt

CONSTANTS Names, Ids, RecvLists, Prios, Expiries, AnySender, NULL

VARIABLES
    box,       \* name -> NULL or the letters in order of arrival
    now,
    answer     \* what the last caller was told

mvars == <<box, now, answer>>

Told(kind, letter, reader, from) ==
    [kind |-> kind, letter |-> letter, reader |-> reader, from |-> from]
Other == Told("other", NULL, NULL, NULL)

Letter == [senderId : Ids, recieverIds : RecvLists, priority : Prios,
           expiryts : Expiries, pendingreceiverCount : Nat]

Over(m, time) == m.expiryts < time

\* The letters whose time is not over.
Remaining(letters, time) ==
    LET kept[i \in 0 .. Len(letters)] ==
            IF i = 0 THEN <<>>
            ELSE IF Over(letters[i], time) THEN kept[i - 1]
            ELSE Append(kept[i - 1], letters[i])
    IN  kept[Len(letters)]

\* The letters a reader may have, from this sender or from AnySender.
For(n, reader, from) ==
    {i \in DOMAIN box[n] : /\ reader \in ToSet(box[n][i].recieverIds)
                           /\ from \in {AnySender, box[n][i].senderId}}

\* The letter that comes before every other one.
Foremost(n, S) ==
    CHOOSE i \in S : \A j \in S \ {i} :
        LET m == box[n][i]  o == box[n][j]
        IN  m.priority < o.priority \/ (m.priority = o.priority /\ i < j)

Open(n) ==
    /\ answer' = Other
    /\ box[n] = NULL
    /\ box' = [box EXCEPT ![n] = <<>>]
    /\ UNCHANGED now

Close(n) ==
    /\ answer' = Other
    /\ box[n] # NULL
    /\ box' = [box EXCEPT ![n] = NULL]
    /\ UNCHANGED now

\* The letter posted is the last one afterwards.
Post(n) ==
    /\ answer' = Other
    /\ box[n] # NULL /\ box'[n] \notin {NULL, <<>>}
    /\ LET m == Last(box'[n])
       IN  /\ m \in Letter /\ ~Over(m, now)
           /\ m.pendingreceiverCount = Len(m.recieverIds)
           /\ box' = [box EXCEPT ![n] = Append(@, m)]
    /\ UNCHANGED now

\* m with one reading fewer to come.
Read(m) == [m EXCEPT !.pendingreceiverCount = @ - 1]

\* A reading: the letter stays for those who have not read it yet.
Take(n, reader, from) ==
    /\ answer' = Told("letter", answer'.letter, reader, from)
    /\ box[n] # NULL /\ For(n, reader, from) # {}
    /\ LET i == Foremost(n, For(n, reader, from))
           m == box[n][i]
       IN  /\ answer'.letter = m
           /\ box' = [box EXCEPT ![n] =
                 IF m.pendingreceiverCount = 1 THEN RemoveAt(@, i)
                 ELSE [@ EXCEPT ![i] = Read(m)]]
    /\ UNCHANGED now

Nothing(n, reader, from) ==
    /\ answer' = Told("nothing", n, reader, from)
    /\ box[n] # NULL /\ For(n, reader, from) = {}
    /\ UNCHANGED <<box, now>>

\* Calls that do not touch the mailboxes, and refusals.
Else ==
    /\ answer' = Other
    /\ UNCHANGED <<box, now>>

Pass ==
    /\ now' = now + 1
    /\ box' = [n \in Names |->
          IF box[n] = NULL THEN NULL ELSE Remaining(box[n], now')]
    /\ answer' = Other

MailInit ==
    /\ box = [n \in Names |-> NULL]
    /\ now = 0
    /\ answer = Other

MailNext ==
    \/ Else
    \/ \E n \in Names : Open(n) \/ Close(n) \/ Post(n)
    \/ \E n \in Names, reader \in Ids, from \in Ids \cup {AnySender} :
          Take(n, reader, from) \/ Nothing(n, reader, from)
    \/ Pass

MailSpec == MailInit /\ [][MailNext]_mvars
=============================================================================
