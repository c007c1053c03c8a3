------------------------------- MODULE MCQipc -------------------------------
(***************************************************************************)
(* Instances of Qipc for TLC.  Each cfg picks the constants that make one  *)
(* part of the server interesting and keeps the others small.              *)
(***************************************************************************)
EXTENDS QipcMailbox

CONSTANTS p1, p2, p3

\* Participant numbers, and receiver lists over them.
ToOne       == {<<1>>}
OneToOne    == {<<1>>, <<2>>}
OneOrBoth   == {<<1>>, <<2>>, <<1, 2>>}
OneOrPair   == {<<1>>, <<1, 2>>}
UpToPairs   == {<<1>>, <<2>>, <<3>>, <<1, 2>>, <<2, 3>>, <<3, 1>>}
Singles     == {<<1>>, <<2>>, <<3>>}

\* Which number each process gives as its own.
OwnNumber3  == (p1 :> {1}) @@ (p2 :> {2}) @@ (p3 :> {3})
OwnNumber1  == p1 :> {1}
AnyNumber1  == p1 :> {1, 2}
OwnNumber2  == (p1 :> {1}) @@ (p2 :> {2})
AnyNumber2  == (p1 :> {1, 2}) @@ (p2 :> {1, 2})

NoExpiry    == {1}

\* No handler reads "reply" or "signals", and the properties read them only in
\* the step that sets them: TLC need not tell apart states that differ in them.
ServerState == <<queue_arr, queue_count, blockedQ_array, blocking_sender,
                 notifiers, clock, alive>>
=============================================================================
