--------------------------- MODULE MailboxProofs ---------------------------
(***************************************************************************)
(* The messages in the queues of Qipc, for every value of its constants:   *)
(* the order they are delivered in, the readings that are still to come,   *)
(* and the refinement of Mailbox, step by step.                            *)
(***************************************************************************)
EXTENDS QipcMailbox, QipcWaiters

-----------------------------------------------------------------------------
(* The loop that drops expired messages.                                   *)

Over(m, time) == m.expiryts < time

\* What LiveMessages computes at a given time, and Remaining of Mailbox.
Living(seq, time) ==
    LET kept[i \in 0 .. Len(seq)] ==
            IF i = 0 THEN <<>>
            ELSE IF Over(seq[i], time) THEN kept[i - 1]
            ELSE Append(kept[i - 1], seq[i])
    IN  kept[Len(seq)]

LEMMA LiveIsLiving ==
    ASSUME NEW seq
    PROVE  LiveMessages(seq) = Living(seq, clock)
BY DEF LiveMessages, ForEach, KeepLive, Expired, Living, Over

LEMMA RemainingIsLiving ==
    ASSUME NEW seq, NEW time
    PROVE  Mail!Remaining(seq, time) = Living(seq, time)
BY DEF Mail!Remaining, Mail!Over, Living, Over

\* run holds what is kept after each turn.
Keeps(run, seq, time) ==
    /\ run[0] = <<>>
    /\ \A i \in 1 .. Len(seq) :
          run[i] = IF Over(seq[i], time) THEN run[i - 1] ELSE Append(run[i - 1], seq[i])

\* The turns of the loop, one by one.
LEMMA LivingRun ==
    ASSUME NEW T, NEW seq \in Seq(T), NEW time
    PROVE  \E run : /\ Keeps(run, seq, time)
                    /\ \A i \in 0 .. Len(seq) : run[i] \in Seq(T)
                    /\ Living(seq, time) = run[Len(seq)]
<1> DEFINE n       == Len(seq)
           S       == Seq(T)
           turn(acc, i) == IF Over(seq[i], time) THEN acc ELSE Append(acc, seq[i])
           step(f) == [i \in 0 .. n |-> IF i = 0 THEN <<>> ELSE turn(f[i - 1], i)]
           g       == [i \in 1 .. n |-> [acc \in S |-> turn(acc, i)]]
           run     == CHOOSE f : f = step(f)
<1>1. n \in Nat /\ <<>> \in S
  BY LenProperties
<1>2. ASSUME NEW acc \in S, NEW i \in 1 .. n PROVE turn(acc, i) \in S
  <2>1. seq[i] \in T
    BY ElementOfSeq
  <2> QED
    BY <2>1, AppendProperties
<1>3. Living(seq, time) = run[n]
  BY DEF Living
<1>4. \A i \in 1 .. n : \A acc : turn(acc, i) =
          IF Over(seq[i], time) THEN acc ELSE Append(acc, seq[i])
  OBVIOUS
<1> HIDE DEF S, turn
<1>5. g \in [1 .. n -> [S -> S]] /\ \A i \in 1 .. n, x \in S : g[i][x] = turn(x, i)
  BY <1>2
<1> HIDE DEF g, n
<1>6. PICK f : IsRun(f, S, n, <<>>, g)
  BY <1>1, <1>5, RunExists
<1>7. \A i \in 1 .. n : i - 1 \in 0 .. n /\ i \in 0 .. n /\ i # 0
  BY <1>1, SMT
<1>8. f = step(f)
  <2>1. f \in [0 .. n -> S] /\ f[0] = <<>>
    BY <1>6 DEF IsRun
  <2>2. ASSUME NEW i \in 0 .. n, i # 0
        PROVE  f[i] = turn(f[i - 1], i)
    <3>1. i \in 1 .. n
      BY <1>1, <2>2
    <3>2. f[i - 1] \in S
      BY <1>7, <2>1, <3>1
    <3> QED
      BY <1>5, <1>6, <3>1, <3>2 DEF IsRun
  <2> QED
    BY <2>1, <2>2
<1>9. run = step(run)
  <2> HIDE DEF step
  <2> QED
    BY <1>8
<1> HIDE DEF run
<1>10. run[0] = <<>> /\ \A i \in 1 .. n : run[i] = turn(run[i - 1], i)
  BY <1>1, <1>7, <1>9
<1>11. Keeps(run, seq, time)
  BY <1>4, <1>10 DEF Keeps, n
<1> DEFINE P == {i \in 0 .. n : \A j \in 0 .. n : j <= i => run[j] \in S}
<1>12. 0 \in P
  BY <1>1, <1>10
<1>13. ASSUME NEW i \in 1 .. n, i - 1 \in P PROVE i \in P
  <2>1. run[i] \in S
    BY <1>1, <1>2, <1>7, <1>10, <1>13
  <2>2. \A j \in 0 .. n : j <= i => j <= i - 1 \/ j = i
    BY <1>1
  <2> QED
    BY <1>7, <1>13, <2>1, <2>2
<1> HIDE DEF P
<1>14. n \in P
  BY <1>1, <1>12, <1>13, TurnInduction
<1>15. \A i \in 0 .. n : run[i] \in S
  BY <1>1, <1>14 DEF P
<1> QED
  BY <1>3, <1>11, <1>15 DEF n, S

\* There is only one way to run the loop.
LEMMA LivingIs ==
    ASSUME NEW T, NEW seq \in Seq(T), NEW time, NEW run, Keeps(run, seq, time)
    PROVE  Living(seq, time) = run[Len(seq)]
<1>1. PICK f : Keeps(f, seq, time) /\ Living(seq, time) = f[Len(seq)]
  BY LivingRun
<1> DEFINE P == {i \in 0 .. Len(seq) : f[i] = run[i]}
<1>2. Len(seq) \in Nat
  BY LenProperties
<1>3. 0 \in P
  BY <1>1, <1>2 DEF Keeps
<1>4. ASSUME NEW i \in 1 .. Len(seq), i - 1 \in P PROVE i \in P
  BY <1>1, <1>2, <1>4 DEF Keeps
<1> HIDE DEF P
<1>5. Len(seq) \in P
  BY <1>2, <1>3, <1>4, TurnInduction
<1> QED
  BY <1>1, <1>5 DEF P

\* A message that arrives is the last one, if its time is not over.
LEMMA LivingAppend ==
    ASSUME NEW T, NEW seq \in Seq(T), NEW m \in T, NEW time
    PROVE  Living(Append(seq, m), time) =
               IF Over(m, time) THEN Living(seq, time) ELSE Append(Living(seq, time), m)
<1> DEFINE longer == Append(seq, m)
<1>1. /\ longer \in Seq(T) /\ Len(longer) = Len(seq) + 1 /\ Len(seq) \in Nat
      /\ \A i \in 1 .. Len(seq) : longer[i] = seq[i]
      /\ longer[Len(seq) + 1] = m
  BY LenProperties, AppendProperties
<1> HIDE DEF longer
<1>2. PICK run : Keeps(run, longer, time) /\ Living(longer, time) = run[Len(longer)]
  BY <1>1, LivingRun
<1>3. Keeps(run, seq, time)
  BY <1>1, <1>2 DEF Keeps
<1>4. Living(seq, time) = run[Len(seq)]
  BY <1>3, LivingIs
<1>5. run[Len(seq) + 1] = IF Over(m, time) THEN run[Len(seq)]
                                           ELSE Append(run[Len(seq)], m)
  <2>1. Len(seq) + 1 \in 1 .. Len(longer) /\ (Len(seq) + 1) - 1 = Len(seq)
    BY <1>1
  <2> DEFINE k == Len(seq) + 1
  <2>2. k \in 1 .. Len(longer) /\ k - 1 = Len(seq) /\ longer[k] = m
    BY <1>1, <2>1
  <2> HIDE DEF k
  <2>3. run[k] = IF Over(m, time) THEN run[Len(seq)] ELSE Append(run[Len(seq)], m)
    BY <1>2, <2>2 DEF Keeps
  <2> QED
    BY <2>3 DEF k
<1> QED
  BY <1>1, <1>2, <1>4, <1>5 DEF longer

AllLive(seq, time) == \A i \in 1 .. Len(seq) : ~Over(seq[i], time)

\* Where the time of no message is over, they all stay.
LEMMA LivingOfLive ==
    ASSUME NEW T, NEW seq \in Seq(T), NEW time, AllLive(seq, time)
    PROVE  Living(seq, time) = seq
<1> DEFINE run == [i \in 0 .. Len(seq) |-> SubSeq(seq, 1, i)]
<1>1. Len(seq) \in Nat
  BY LenProperties
<1>2. run[0] = <<>>
  BY <1>1, SubSeqEmpty
<1>3. ASSUME NEW i \in 1 .. Len(seq)
      PROVE  run[i] = Append(run[i - 1], seq[i])
  <2>1. 1 \in Int /\ i \in Int /\ i - 1 \in Int /\ i - 1 \in 0 .. Len(seq) /\ i \in 0 .. Len(seq)
    BY <1>1
  <2>2. \A k \in 1 .. i : seq[k] \in T
    BY <1>1, ElementOfSeq
  <2> DEFINE a == SubSeq(seq, 1, i)
             b == SubSeq(seq, 1, i - 1)
  <2>3. a \in Seq(T) /\ Len(a) = i /\ \A k \in 1 .. i : a[k] = seq[k]
    <3>1. /\ a \in Seq(T) /\ Len(a) = IF 1 <= i THEN i - 1 + 1 ELSE 0
          /\ \A k \in 1 .. i - 1 + 1 : a[k] = seq[1 + k - 1]
      BY <2>1, <2>2, SubSeqProperties
    <3> HIDE DEF a
    <3> QED
      BY <2>1, <3>1
  <2>4. b \in Seq(T) /\ Len(b) = i - 1 /\ \A k \in 1 .. i - 1 : b[k] = seq[k]
    <3>1. \A k \in 1 .. i - 1 : seq[k] \in T
      BY <2>2
    <3>2. /\ b \in Seq(T) /\ Len(b) = IF 1 <= i - 1 THEN (i - 1) - 1 + 1 ELSE 0
          /\ \A k \in 1 .. (i - 1) - 1 + 1 : b[k] = seq[1 + k - 1]
      BY <2>1, <3>1, SubSeqProperties
    <3> HIDE DEF b
    <3> QED
      BY <2>1, <3>2
  <2> HIDE DEF a, b
  <2> DEFINE c == Append(b, seq[i])
  <2>5. /\ c \in Seq(T) /\ Len(c) = Len(b) + 1
        /\ \A k \in 1 .. Len(b) : c[k] = b[k]
        /\ c[Len(b) + 1] = seq[i]
    BY <2>2, <2>4, AppendProperties
  <2> HIDE DEF c
  <2>6. Len(a) = Len(c) /\ \A k \in 1 .. Len(a) : a[k] = c[k]
    BY <2>1, <2>3, <2>4, <2>5
  <2>7. a = c
    BY <2>3, <2>5, <2>6, SeqEqual
  <2> QED
    BY <2>1, <2>7 DEF a, b, c
<1>4. run[Len(seq)] = seq
  BY <1>1, SubSeqFull
<1> HIDE DEF run
<1>5. Keeps(run, seq, time)
  BY <1>2, <1>3 DEF Keeps, AllLive
<1> QED
  BY <1>4, <1>5, LivingIs

\* f tells where the messages of live stood in seq: they are those whose time
\* is not over, in the same order.
Picks(f, live, seq, time) ==
    /\ From(live, seq, f)
    /\ \A j \in 1 .. Len(seq) :
          ~Over(seq[j], time) <=> \E a \in 1 .. Len(live) : f[a] = j

LEMMA LivingPicks ==
    ASSUME NEW T, NEW seq \in Seq(T), NEW time
    PROVE  /\ Living(seq, time) \in Seq(T)
           /\ Len(Living(seq, time)) <= Len(seq)
           /\ \E f : Picks(f, Living(seq, time), seq, time)
<1>1. PICK run : /\ Keeps(run, seq, time)
                 /\ \A i \in 0 .. Len(seq) : run[i] \in Seq(T)
                 /\ Living(seq, time) = run[Len(seq)]
  BY LivingRun
<1>2. Len(seq) \in Nat
  BY LenProperties
<1> DEFINE n == Len(seq)
           Sofar(i, f) ==
               /\ Len(run[i]) <= i
               /\ f \in [1 .. Len(run[i]) -> 1 .. i]
               /\ \A a, b \in 1 .. Len(run[i]) : a < b => f[a] < f[b]
               /\ \A a \in 1 .. Len(run[i]) : run[i][a] = seq[f[a]]
               /\ \A j \in 1 .. i : ~Over(seq[j], time) <=>
                                       \E a \in 1 .. Len(run[i]) : f[a] = j
           P == {i \in 0 .. n : \E f : Sofar(i, f)}
<1>3. 0 \in P
  <2>1. run[0] = <<>> /\ Len(run[0]) = 0
    BY <1>1 DEF Keeps
  <2>2. Sofar(0, [a \in 1 .. Len(run[0]) |-> a])
    BY <2>1
  <2>3. \E f : Sofar(0, f)
    BY <2>2
  <2> HIDE DEF Sofar
  <2> QED
    BY <1>2, <2>3
<1>4. ASSUME NEW i \in 1 .. n, i - 1 \in P PROVE i \in P
  <2>1. PICK f : Sofar(i - 1, f)
    BY <1>4
  <2>2. i - 1 \in 0 .. n /\ i \in 0 .. n
    BY <1>2
  <2> DEFINE old == run[i - 1]
             new == run[i]
  <2>3. /\ old \in Seq(T) /\ new \in Seq(T) /\ Len(old) \in Nat /\ seq[i] \in T
        /\ new = IF Over(seq[i], time) THEN old ELSE Append(old, seq[i])
    <3>1. old \in Seq(T) /\ new \in Seq(T) /\ seq[i] \in T
      BY <1>1, <2>2, ElementOfSeq
    <3> QED
      BY <1>1, <3>1, LenProperties DEF Keeps
  <2>4. /\ Len(old) <= i - 1
        /\ f \in [1 .. Len(old) -> 1 .. i - 1]
        /\ \A a, b \in 1 .. Len(old) : a < b => f[a] < f[b]
        /\ \A a \in 1 .. Len(old) : old[a] = seq[f[a]]
        /\ \A j \in 1 .. i - 1 : ~Over(seq[j], time) <=>
                                 \E a \in 1 .. Len(old) : f[a] = j
    BY <2>1
  <2>5. CASE Over(seq[i], time)
    <3>1. new = old
      BY <2>3, <2>5
    <3>2. f \in [1 .. Len(new) -> 1 .. i]
      BY <1>2, <2>2, <2>4, <3>1
    <3>3. ~\E a \in 1 .. Len(old) : f[a] = i
      BY <1>2, <2>2, <2>3, <2>4
    <3>4. ASSUME NEW j \in 1 .. i
          PROVE  ~Over(seq[j], time) <=> \E a \in 1 .. Len(new) : f[a] = j
      <4>1. j \in 1 .. i - 1 \/ j = i
        BY <1>2
      <4> QED
        BY <2>4, <2>5, <3>1, <3>3, <4>1
    <3>5. Len(new) <= i
      BY <1>2, <2>2, <2>3, <2>4, <3>1
    <3>6. Sofar(i, f)
      BY <2>4, <3>1, <3>2, <3>4, <3>5
    <3> QED
      BY <2>2, <3>6
  <2>6. CASE ~Over(seq[i], time)
    <3>1. /\ new = Append(old, seq[i]) /\ Len(new) = Len(old) + 1
          /\ \A a \in 1 .. Len(old) : new[a] = old[a]
          /\ new[Len(old) + 1] = seq[i]
      BY <2>3, <2>6, AppendProperties
    <3> DEFINE k == Len(old) + 1
               h == [a \in 1 .. k |-> IF a = k THEN i ELSE f[a]]
    <3> HIDE DEF old, new
    <3>2. \A a \in 1 .. k : a = k \/ a \in 1 .. Len(old)
      BY <2>3
    <3>3. k \in 1 .. k /\ \A a \in 1 .. Len(old) : a \in 1 .. k /\ a # k
      BY <2>3
    <3>4. Len(new) = k /\ new[k] = seq[i] /\ k \in Nat
      BY <2>3, <3>1
    <3> HIDE DEF k
    <3>5. h[k] = i /\ \A a \in 1 .. Len(old) : h[a] = f[a]
      BY <3>3
    <3>6. h \in [1 .. k -> 1 .. i]
      <4>1. \A a \in 1 .. Len(old) : f[a] \in 1 .. i
        BY <1>2, <2>4
      <4>2. i \in 1 .. i
        BY <1>2
      <4> QED
        BY <3>2, <4>1, <4>2
    <3> HIDE DEF h
    <3>7. \A a, b \in 1 .. k : a < b => h[a] < h[b]
      <4>1. ASSUME NEW a \in 1 .. k, NEW b \in 1 .. k, a < b PROVE h[a] < h[b]
        <5>1. a \in 1 .. Len(old)
          BY <2>3, <4>1 DEF k
        <5>2. f[a] < i
          <6>1. f[a] \in 1 .. i - 1
            BY <2>4, <5>1
          <6> QED
            BY <1>2, <6>1
        <5> QED
          BY <2>4, <3>2, <3>5, <4>1, <5>1, <5>2
      <4> QED
        BY <4>1
    <3>8. \A a \in 1 .. k : new[a] = seq[h[a]]
      BY <2>4, <3>1, <3>2, <3>4, <3>5
    <3>9. ASSUME NEW j \in 1 .. i
          PROVE  ~Over(seq[j], time) <=> \E a \in 1 .. k : h[a] = j
      <4>1. j \in 1 .. i - 1 \/ j = i
        BY <1>2
      <4>2. CASE j = i
        BY <2>6, <3>3, <3>5, <4>2
      <4>3. CASE j \in 1 .. i - 1
        <5>1. j # i
          BY <1>2, <4>3
        <5>2. (\E a \in 1 .. k : h[a] = j) <=> \E a \in 1 .. Len(old) : f[a] = j
          BY <3>2, <3>3, <3>5, <5>1
        <5> QED
          BY <2>4, <4>3, <5>2
      <4> QED
        BY <4>1, <4>2, <4>3
    <3>10. Len(new) <= i
      BY <1>2, <2>3, <2>4, <3>1
    <3>11. Sofar(i, h)
      BY <3>4, <3>6, <3>7, <3>8, <3>9, <3>10 DEF new
    <3> QED
      BY <2>2, <3>11
  <2> QED
    BY <2>5, <2>6
<1> HIDE DEF P
<1>5. n \in P
  BY <1>2, <1>3, <1>4, TurnInduction
<1>6. PICK f : Sofar(n, f)
  BY <1>5 DEF P
<1>7. Picks(f, Living(seq, time), seq, time)
  BY <1>1, <1>6 DEF Picks, From
<1>8. n \in 0 .. n
  BY <1>2
<1> QED
  BY <1>1, <1>6, <1>7, <1>8

\* Nothing that stays is expired, and everything in it was there.
LEMMA LivingIsLive ==
    ASSUME NEW T, NEW seq \in Seq(T), NEW time
    PROVE  /\ AllLive(Living(seq, time), time)
           /\ \A a \in 1 .. Len(Living(seq, time)) :
                 \E j \in 1 .. Len(seq) : Living(seq, time)[a] = seq[j]
<1>1. PICK f : Picks(f, Living(seq, time), seq, time)
  BY LivingPicks
<1> DEFINE live == Living(seq, time)
<1> HIDE DEF live
<1>2. Picks(f, live, seq, time)
  BY <1>1 DEF live
<1>3. AllLive(live, time) /\ \A a \in 1 .. Len(live) :
                 \E j \in 1 .. Len(seq) : live[a] = seq[j]
  BY <1>2 DEF Picks, From, AllLive
<1> QED
  BY <1>3 DEF live

\* A message that is gone stays gone: looking twice finds what the second look
\* finds.
LEMMA LivingTwice ==
    ASSUME NEW T, NEW seq \in Seq(T), NEW t1, NEW t2,
           \A i \in 1 .. Len(seq) : Over(seq[i], t1) => Over(seq[i], t2)
    PROVE  Living(Living(seq, t1), t2) = Living(seq, t2)
<1>1. PICK run : /\ Keeps(run, seq, t1)
                 /\ \A i \in 0 .. Len(seq) : run[i] \in Seq(T)
                 /\ Living(seq, t1) = run[Len(seq)]
  BY LivingRun
<1>2. Len(seq) \in Nat
  BY LenProperties
<1> DEFINE late == [i \in 0 .. Len(seq) |-> Living(run[i], t2)]
<1>3. late[0] = <<>>
  <2>1. <<>> \in Seq(T) /\ AllLive(<<>>, t2) /\ run[0] = <<>>
    BY <1>1 DEF AllLive, Keeps
  <2>2. Living(<<>>, t2) = <<>>
    BY <2>1, LivingOfLive
  <2> QED
    BY <1>2, <2>1, <2>2
<1>4. ASSUME NEW i \in 1 .. Len(seq)
      PROVE  late[i] = IF Over(seq[i], t2) THEN late[i - 1] ELSE Append(late[i - 1], seq[i])
  <2>1. i \in 0 .. Len(seq) /\ i - 1 \in 0 .. Len(seq)
    BY <1>2
  <2>2. run[i - 1] \in Seq(T) /\ seq[i] \in T
    BY <1>1, <2>1, ElementOfSeq
  <2>3. late[i] = Living(run[i], t2) /\ late[i - 1] = Living(run[i - 1], t2)
    BY <2>1
  <2> HIDE DEF late
  <2>4. CASE Over(seq[i], t1)
    BY <1>1, <2>3, <2>4 DEF Keeps
  <2>5. CASE ~Over(seq[i], t1)
    <3>1. run[i] = Append(run[i - 1], seq[i])
      BY <1>1, <2>5 DEF Keeps
    <3>2. Living(Append(run[i - 1], seq[i]), t2) =
              IF Over(seq[i], t2) THEN Living(run[i - 1], t2)
              ELSE Append(Living(run[i - 1], t2), seq[i])
      BY <2>2, LivingAppend
    <3> QED
      BY <2>3, <2>5, <3>1, <3>2
  <2> QED
    BY <2>4, <2>5
<1>5. late[Len(seq)] = Living(Living(seq, t1), t2)
  BY <1>1, <1>2
<1> HIDE DEF late
<1>6. Keeps(late, seq, t2)
  BY <1>3, <1>4 DEF Keeps
<1> QED
  BY <1>5, <1>6, LivingIs

-----------------------------------------------------------------------------
(* The loop that chooses the message a receiver gets.                      *)

Better(best, i, msgs, recid, expected) ==
    IF /\ Matches(msgs[i], recid, expected)
       /\ best # 0 => msgs[best].priority > msgs[i].priority
    THEN i ELSE best

\* The turns of the loop, one by one.
LEMMA BestMessageRun ==
    ASSUME NEW msgs, NEW n \in Nat, Len(msgs) = n, NEW recid, NEW expected
    PROVE  \E run : /\ run[0] = 0
                    /\ \A i \in 0 .. n : run[i] \in 0 .. n
                    /\ \A i \in 1 .. n :
                          run[i] = Better(run[i - 1], i, msgs, recid, expected)
                    /\ BestMessage(msgs, recid, expected) = run[n]
<1> DEFINE S    == 0 .. n
           seq  == [i \in 1 .. n |-> i]
           turn(best, i) ==
               IF /\ Matches(msgs[i], recid, expected)
                  /\ best # 0 => msgs[best].priority > msgs[i].priority
               THEN i ELSE best
           step(f) == [i \in 0 .. n |->
                          IF i = 0 THEN 0 ELSE turn(f[i - 1], seq[i])]
           g    == [i \in 1 .. n |-> [best \in S |-> turn(best, i)]]
           run  == CHOOSE f : f = step(f)
<1>0. Len(seq) = n /\ 0 \in S /\ \A i \in 1 .. n : seq[i] = i
  OBVIOUS
<1>1. \A best \in S, i \in 1 .. n : turn(best, i) \in S
  OBVIOUS
<1>2. BestMessage(msgs, recid, expected) = run[n]
  <2>1. BestMessage(msgs, recid, expected) =
            LET acc[i \in 0 .. Len(seq)] ==
                    IF i = 0 THEN 0 ELSE turn(acc[i - 1], seq[i])
            IN  acc[Len(seq)]
    BY DEF BestMessage, ForEach
  <2> HIDE DEF seq, turn
  <2> QED
    BY <1>0, <2>1
<1>3. \A i : \A best : turn(best, i) = Better(best, i, msgs, recid, expected)
  BY DEF Better
<1> HIDE DEF seq, turn, S
<1>4. g \in [1 .. n -> [S -> S]] /\ \A i \in 1 .. n, best \in S : g[i][best] = turn(best, i)
  BY <1>1
<1> HIDE DEF g
<1>5. PICK f : IsRun(f, S, n, 0, g)
  BY <1>0, <1>4, RunExists
<1>6. \A i \in 1 .. n : i - 1 \in 0 .. n /\ i \in 0 .. n /\ i # 0
  BY SMT
<1>7. f = step(f)
  <2>1. f \in [0 .. n -> S] /\ f[0] = 0
    BY <1>5 DEF IsRun
  <2>2. ASSUME NEW i \in 0 .. n, i # 0
        PROVE  f[i] = turn(f[i - 1], seq[i])
    <3>1. i \in 1 .. n
      BY <2>2
    <3>2. f[i - 1] \in S
      BY <1>6, <2>1, <3>1
    <3> QED
      BY <1>0, <1>4, <1>5, <3>1, <3>2 DEF IsRun
  <2> QED
    BY <2>1, <2>2
<1>8. run = step(run)
  <2> HIDE DEF step
  <2> QED
    BY <1>7
<1> HIDE DEF run
<1>9. run[0] = 0 /\ \A i \in 1 .. n : run[i] = turn(run[i - 1], i)
  BY <1>0, <1>6, <1>8
<1> DEFINE P == {i \in 0 .. n : \A j \in 0 .. n : j <= i => run[j] \in S}
<1>10. 0 \in P
  BY <1>0, <1>9
<1>11. ASSUME NEW i \in 1 .. n, i - 1 \in P PROVE i \in P
  <2>1. run[i] \in S
    BY <1>1, <1>6, <1>9, <1>11
  <2>2. \A j \in 0 .. n : j <= i => j <= i - 1 \/ j = i
    OBVIOUS
  <2> QED
    BY <1>6, <1>11, <2>1, <2>2
<1> HIDE DEF P
<1>12. n \in P
  BY <1>10, <1>11, TurnInduction
<1>13. \A i \in 0 .. n : run[i] \in S
  BY <1>12 DEF P
<1> QED
  BY <1>2, <1>3, <1>9, <1>13 DEF S

Before(m, i, o, j) ==
    m.priority < o.priority \/ (m.priority = o.priority /\ i < j)

\* The i-th message is for this receiver, and comes before every other one that is.
First(i, msgs, recid, expected) ==
    /\ i \in 1 .. Len(msgs) /\ Matches(msgs[i], recid, expected)
    /\ \A j \in 1 .. Len(msgs) :
          j # i /\ Matches(msgs[j], recid, expected) => Before(msgs[i], i, msgs[j], j)

\* The loop finds the first message for this receiver, and 0 only if there is none.
LEMMA BestMessageFinds ==
    ASSUME NEW msgs \in Seq(Message), NEW recid, NEW expected
    PROVE  LET best == BestMessage(msgs, recid, expected)
           IN  IF best = 0
               THEN \A j \in 1 .. Len(msgs) : ~Matches(msgs[j], recid, expected)
               ELSE First(best, msgs, recid, expected)
<1> DEFINE n == Len(msgs)
           For(j) == Matches(msgs[j], recid, expected)
           prio(j) == msgs[j].priority
<1>1. n \in Nat
  BY LenProperties
<1>2. \A j \in 1 .. n : prio(j) \in Int
  <2>1. \A j \in 1 .. n : msgs[j] \in Message
    BY ElementOfSeq
  <2> QED
    BY <2>1, ConstantsAssumption DEF Message, ConstantsAssumption
<1>3. PICK run : /\ run[0] = 0
                 /\ \A i \in 0 .. n : run[i] \in 0 .. n
                 /\ \A i \in 1 .. n : run[i] = Better(run[i - 1], i, msgs, recid, expected)
                 /\ BestMessage(msgs, recid, expected) = run[n]
  BY <1>1, BestMessageRun
<1>4. \A i \in 1 .. n : run[i] = IF For(i) /\ (run[i - 1] # 0 => prio(run[i - 1]) > prio(i))
                                 THEN i ELSE run[i - 1]
  BY <1>3 DEF Better
<1>5. \A i, j : Before(msgs[i], i, msgs[j], j)
                   <=> (prio(i) < prio(j) \/ (prio(i) = prio(j) /\ i < j))
  BY DEF Before
<1> HIDE DEF For, prio
<1> DEFINE Found(i, b) ==
               IF b = 0 THEN \A j \in 1 .. i : ~For(j)
               ELSE /\ b \in 1 .. i /\ For(b)
                    /\ \A j \in 1 .. i : j # b /\ For(j) =>
                          (prio(b) < prio(j) \/ (prio(b) = prio(j) /\ b < j))
           P == {i \in 0 .. n : Found(i, run[i])}
<1> HIDE DEF n
<1>6. 0 \in P
  BY <1>1, <1>3
<1>7. ASSUME NEW i \in 1 .. n, i - 1 \in P PROVE i \in P
  <2> DEFINE b == run[i - 1]
  <2>1. i - 1 \in 0 .. n /\ i \in 0 .. n /\ b \in 0 .. n
    BY <1>1, <1>3
  <2>2. Found(i - 1, b)
    BY <1>7
  <2>3. run[i] = IF For(i) /\ (b # 0 => prio(b) > prio(i)) THEN i ELSE b
    BY <1>4
  <2> HIDE DEF b
  <2>4. Found(i, run[i])
    <3>1. \A j \in 1 .. i : j \in 1 .. i - 1 \/ j = i
      BY <1>1
    <3>2. CASE b = 0
      <4>1. \A j \in 1 .. i - 1 : ~For(j)
        BY <2>2, <3>2
      <4>2. CASE For(i)
        <5>1. run[i] = i /\ i # 0 /\ i \in 1 .. i
          BY <1>1, <2>3, <3>2, <4>2
        <5>2. \A j \in 1 .. i : j # i => ~For(j)
          BY <3>1, <4>1
        <5> QED
          BY <4>2, <5>1, <5>2
      <4>3. CASE ~For(i)
        <5>1. run[i] = 0
          BY <2>3, <3>2, <4>3
        <5> QED
          BY <3>1, <4>1, <4>3, <5>1
      <4> QED
        BY <4>2, <4>3
    <3>3. CASE b # 0
      <4>1. /\ b \in 1 .. i - 1 /\ For(b)
            /\ \A j \in 1 .. i - 1 : j # b /\ For(j) =>
                  (prio(b) < prio(j) \/ (prio(b) = prio(j) /\ b < j))
        BY <2>2, <3>3
      <4>2. b \in 1 .. n /\ i \in 1 .. n /\ prio(b) \in Int /\ prio(i) \in Int
            /\ \A j \in 1 .. i - 1 : prio(j) \in Int
        BY <1>1, <1>2, <2>1, <3>3
      <4>3. CASE For(i) /\ prio(b) > prio(i)
        <5>1. run[i] = i /\ i # 0 /\ i \in 1 .. i
          BY <1>1, <2>3, <4>3
        <5>2. ASSUME NEW j \in 1 .. i, j # i, For(j)
              PROVE  prio(i) < prio(j)
          <6>1. j \in 1 .. i - 1
            BY <3>1, <5>2
          <6>2. j = b \/ prio(b) < prio(j) \/ prio(b) = prio(j)
            BY <4>1, <5>2, <6>1
          <6> QED
            BY <4>2, <4>3, <6>1, <6>2
        <5> QED
          BY <4>3, <5>1, <5>2
      <4>4. CASE ~(For(i) /\ prio(b) > prio(i))
        <5>1. run[i] = b
          BY <2>3, <3>3, <4>4
        <5>2. For(i) => prio(b) < prio(i) \/ (prio(b) = prio(i) /\ b < i)
          BY <1>1, <4>1, <4>2, <4>4
        <5>3. b \in 1 .. i
          BY <1>1, <4>1
        <5> QED
          BY <3>1, <3>3, <4>1, <5>1, <5>2, <5>3
      <4> QED
        BY <3>3, <4>3, <4>4
    <3> QED
      BY <3>2, <3>3
  <2> HIDE DEF Found
  <2> QED
    BY <2>1, <2>4
<1> HIDE DEF P
<1>8. n \in P
  BY <1>1, <1>6, <1>7, TurnInduction
<1>9. Found(n, run[n])
  BY <1>8 DEF P
<1>10. BestMessage(msgs, recid, expected) = run[n]
  BY <1>3
<1> DEFINE best == BestMessage(msgs, recid, expected)
<1> HIDE DEF best
<1>11. IF best = 0 THEN \A j \in 1 .. Len(msgs) : ~Matches(msgs[j], recid, expected)
       ELSE First(best, msgs, recid, expected)
  BY <1>5, <1>9, <1>10 DEF First, For, n, best
<1> QED
  BY <1>11 DEF best

-----------------------------------------------------------------------------
(* What a call does to the messages.                                       *)

\* The purge leaves what is still living.
LEMMA PurgeLiving ==
    ASSUME NEW q \in GoodQueue
    PROVE  /\ PurgeExpired(q) \in GoodQueue
           /\ PurgeExpired(q).name = q.name /\ PurgeExpired(q).capacity = q.capacity
           /\ PurgeExpired(q).msgs = Living(q.msgs, clock)
           /\ q.msgs \in Seq(Message) /\ Living(q.msgs, clock) \in Seq(Message)
           /\ q.currentcount = 0 => PurgeExpired(q) = q
<1> DEFINE live == Living(q.msgs, clock)
           n    == q.currentcount - (Len(q.msgs) - Len(live))
<1>1. q \in Queue /\ q.msgs \in Seq(Message) /\ q.currentcount = Len(q.msgs)
  BY DEF GoodQueue, Queue
<1>2. live \in Seq(Message)
  BY <1>1, LivingPicks
<1>3. PurgeExpired(q) = [q EXCEPT !.msgs = live, !.currentcount = n]
  BY LiveIsLiving DEF PurgeExpired
<1>4. ASSUME q.currentcount = 0
      PROVE  live = q.msgs /\ n = q.currentcount
  <2>1. AllLive(q.msgs, clock)
    BY <1>1, <1>4 DEF AllLive
  <2>2. live = q.msgs
    BY <1>1, <2>1, LivingOfLive
  <2>3. Len(q.msgs) \in Nat
    BY <1>1, LenProperties
  <2> HIDE DEF live
  <2>4. n = q.currentcount - (Len(q.msgs) - Len(q.msgs))
    BY <2>2
  <2> HIDE DEF n
  <2> QED
    BY <1>4, <2>2, <2>3, <2>4
<1>5. PurgeExpired(q) \in GoodQueue /\ PurgeExpired(q).name = q.name
  BY PurgeGood
<1> HIDE DEF live, n
<1>6. PurgeExpired(q).capacity = q.capacity /\ PurgeExpired(q).msgs = live
  BY <1>1, <1>3 DEF Queue
<1>7. q.currentcount = 0 => PurgeExpired(q) = q
  BY <1>1, <1>3, <1>4 DEF Queue
<1> QED
  BY <1>1, <1>2, <1>5, <1>6, <1>7 DEF live

\* The reply is not that of a receive that looked into a queue.
Quiet == reply'.code \notin {MSG_REC_SUCCESS, MSG_REC_NO_MSG, REC_DLOCKED}

Replaced(s, q) == queue_arr' = [queue_arr EXCEPT ![s] = q]

\* A queue is opened empty, closed, or configured.
Begun(s, q) ==
    /\ queue_arr[s] = NULL /\ q.msgs = <<>>
    /\ \A t \in Open : queue_arr[t].name # q.name
    /\ Replaced(s, q)
    /\ Quiet /\ reply'.code \notin {MSG_ADD_SUCCESS, MSG_ADD_FAIL}

Ended(s) ==
    /\ Replaced(s, NULL)
    /\ Quiet /\ reply'.code \notin {MSG_ADD_SUCCESS, MSG_ADD_FAIL}

Configured(s, q) ==
    /\ q.msgs = queue_arr[s].msgs /\ q.name = queue_arr[s].name
    /\ Replaced(s, q)
    /\ reply'.code = QUEUE_UPDATE_SUCCESS

\* m is sent to the queue of slot s.
Sent(s, m) ==
    /\ ~QueueFull(queue_arr[s])
    /\ m.pendingreceiverCount = Len(m.recieverIds)
    /\ Replaced(s, add_to_queue(queue_arr[s], m))
    /\ reply'.code \in {MSG_ADD_SUCCESS, MSG_ADD_FAIL}

\* reader is told that there is nothing for it in the queue of slot s.
ToldNothing(s, reader, from) ==
    /\ \A j \in 1 .. Len(Living(queue_arr[s].msgs, clock)) :
          ~Matches(Living(queue_arr[s].msgs, clock)[j], reader, from)
    /\ Replaced(s, PurgeExpired(queue_arr[s]))
    /\ reply'.code \in {MSG_REC_NO_MSG, REC_DLOCKED}
    /\ reply'.req = [name |-> queue_arr[s].name, recid |-> reader, expected |-> from]

\* reader takes the i-th living message of the queue of slot s.
Taken(s, reader, from, i) ==
    /\ First(i, Living(queue_arr[s].msgs, clock), reader, from)
    /\ Replaced(s, Consume(PurgeExpired(queue_arr[s]), i))
    /\ reply'.code = MSG_REC_SUCCESS
    /\ reply'.msg = Living(queue_arr[s].msgs, clock)[i]
    /\ reply'.req = [recid |-> reader, expected |-> from]

MessagesStep ==
    \/ UNCHANGED queue_arr /\ Quiet
    \/ \E s \in Slots, q \in GoodQueue : Begun(s, q)
    \/ \E s \in Open : Ended(s)
    \/ \E s \in Open, q \in GoodQueue : Configured(s, q)
    \/ \E s \in Open, m \in Message : Sent(s, m)
    \/ \E s \in Open, reader \in Ids, from \in Ids \cup {AnySender} :
          \/ ToldNothing(s, reader, from)
          \/ \E i \in Nat : Taken(s, reader, from, i)

LEMMA OpenMessages ==
    ASSUME TypesInv, NEW p, NEW name \in Names, NEW cap \in Caps, NEW type \in Types,
           do_open_q(p, name, cap, type)
    PROVE  MessagesStep
<1> DEFINE idx == get_empty_q_slot
           q   == [name |-> name, capacity |-> CappedCapacity(cap),
                   currentcount |-> 0, blocking |-> type, msgs |-> <<>>]
<1>1. reply'.code \in {QUEUE_OPEN_FAIL, QUEUE_ALREADY_EXIST, QUEUE_OPEN_SUCCESS}
  BY DEF do_open_q, Answer, Reply
<1>2. Quiet /\ reply'.code \notin {MSG_ADD_SUCCESS, MSG_ADD_FAIL}
  BY <1>1 DEF Quiet, QUEUE_OPEN_FAIL, QUEUE_ALREADY_EXIST, QUEUE_OPEN_SUCCESS,
         MSG_REC_SUCCESS, MSG_REC_NO_MSG, REC_DLOCKED, MSG_ADD_SUCCESS, MSG_ADD_FAIL
<1>3. CASE UNCHANGED queue_arr
  BY <1>2, <1>3 DEF MessagesStep
<1>4. CASE /\ idx # NULL /\ check_queue_exist(name) = NULL
           /\ queue_arr' = [queue_arr EXCEPT ![idx] = q]
  <2>1. idx \in Slots /\ queue_arr[idx] = NULL
    BY <1>4, SlotFound
  <2>2. q \in GoodQueue /\ q.name = name /\ q.msgs = <<>>
    <3>1. CappedCapacity(cap) \in Int /\ type \in QueueTypes
      BY ConstantsAssumption DEF ConstantsAssumption, CappedCapacity
    <3>2. <<>> \in Seq(Message) /\ Len(<<>>) = 0
      OBVIOUS
    <3> QED
      BY <3>1, <3>2 DEF GoodQueue, Queue
  <2>3. \A t \in Open : queue_arr[t].name # name
    BY <1>4, QueueFound DEF TypesInv
  <2> HIDE DEF idx, q
  <2>4. Begun(idx, q)
    BY <1>2, <1>4, <2>1, <2>2, <2>3 DEF Begun, Replaced
  <2> QED
    BY <2>1, <2>2, <2>4 DEF MessagesStep
<1> QED
  BY <1>3, <1>4 DEF do_open_q

LEMMA CloseMessages ==
    ASSUME TypesInv, NEW p, NEW name, do_close_q(p, name)
    PROVE  MessagesStep
<1> DEFINE idx == check_queue_exist(name)
<1>1. reply'.code \in {QUEUE_NOT_EXIST, QUEUE_CLOSE_SUCCESS}
  BY DEF do_close_q, Answer, Reply
<1>2. Quiet /\ reply'.code \notin {MSG_ADD_SUCCESS, MSG_ADD_FAIL}
  BY <1>1 DEF Quiet, QUEUE_NOT_EXIST, QUEUE_CLOSE_SUCCESS,
         MSG_REC_SUCCESS, MSG_REC_NO_MSG, REC_DLOCKED, MSG_ADD_SUCCESS, MSG_ADD_FAIL
<1>3. CASE UNCHANGED queue_arr
  BY <1>2, <1>3 DEF MessagesStep
<1>4. CASE idx # NULL /\ Replaced(idx, NULL)
  <2>1. idx \in Open
    BY <1>4, QueueFound DEF TypesInv
  <2> QED
    BY <1>2, <1>4, <2>1 DEF MessagesStep, Ended
<1> QED
  BY <1>3, <1>4 DEF do_close_q, Replaced

LEMMA SetAttrMessages ==
    ASSUME TypesInv, NEW p, NEW name, NEW cap \in Caps, NEW type \in Types,
           do_set_attr_q(p, name, cap, type)
    PROVE  MessagesStep
<1> DEFINE idx == check_queue_exist(name)
           old == queue_arr[idx]
           q   == [old EXCEPT !.capacity = CappedCapacity(cap), !.blocking = type]
<1>1. CASE UNCHANGED queue_arr /\ Answer(p, QUEUE_NOT_EXIST)
  BY <1>1 DEF MessagesStep, Quiet, Answer, Reply, QUEUE_NOT_EXIST,
              MSG_REC_SUCCESS, MSG_REC_NO_MSG, REC_DLOCKED
<1>2. CASE idx # NULL /\ Replaced(idx, q) /\ Answer(p, QUEUE_UPDATE_SUCCESS)
  <2>1. idx \in Open /\ old \in GoodQueue
    BY <1>2, QueueFound DEF TypesInv
  <2>2. CappedCapacity(cap) \in Int /\ type \in QueueTypes
    BY ConstantsAssumption DEF ConstantsAssumption, CappedCapacity
  <2>3. q \in Queue /\ q.currentcount = old.currentcount /\ q.msgs = old.msgs
                    /\ q.name = old.name
    BY <2>1, <2>2 DEF GoodQueue, Queue
  <2> HIDE DEF idx, q
  <2>4. q \in GoodQueue
    BY <2>1, <2>3 DEF GoodQueue
  <2>5. Configured(idx, q)
    BY <1>2, <2>3 DEF Configured, Answer, Reply
  <2> QED
    BY <2>1, <2>4, <2>5 DEF MessagesStep
<1> QED
  BY <1>1, <1>2 DEF do_set_attr_q, Replaced

LEMMA SendMessages ==
    ASSUME TypesInv, NEW p, NEW name, NEW m \in Message,
           m.pendingreceiverCount = Len(m.recieverIds), do_send_mg_q(p, name, m)
    PROVE  MessagesStep
<1> DEFINE idx == check_queue_exist(name)
<1>1. CASE /\ UNCHANGED queue_arr
           /\ Answer(p, QUEUE_NOT_EXIST) \/ Answer(p, MSG_ADD_QUEUE_FULL)
  BY <1>1 DEF MessagesStep, Quiet, Answer, Reply, QUEUE_NOT_EXIST, MSG_ADD_QUEUE_FULL,
              MSG_REC_SUCCESS, MSG_REC_NO_MSG, REC_DLOCKED
<1>2. CASE /\ idx # NULL /\ ~QueueFull(queue_arr[idx])
           /\ queue_arr' = [queue_arr EXCEPT ![idx] = add_to_queue(@, m)]
           /\ Answer(p, MSG_ADD_FAIL) \/ Answer(p, MSG_ADD_SUCCESS)
  <2>1. idx \in Open
    BY <1>2, QueueFound DEF TypesInv
  <2> HIDE DEF idx
  <2>2. Sent(idx, m)
    BY <1>2 DEF Sent, Replaced, Answer, Reply
  <2> QED
    BY <2>1, <2>2 DEF MessagesStep
<1> QED
  BY <1>1, <1>2 DEF do_send_mg_q

LEMMA ReceiveMessages ==
    ASSUME TypesInv, NEW p, NEW name, NEW recid \in Ids,
           NEW expected \in Ids \cup {AnySender}, NEW mayWait,
           Receive(p, name, recid, expected, mayWait)
    PROVE  MessagesStep
<1> DEFINE idx  == check_queue_exist(name)
           old  == queue_arr[idx]
           q    == PurgeExpired(old)
           live == Living(old.msgs, clock)
           best == BestMessage(q.msgs, recid, expected)
<1>1. CASE UNCHANGED queue_arr /\ Answer(p, QUEUE_NOT_EXIST)
  BY <1>1 DEF MessagesStep, Quiet, Answer, Reply, QUEUE_NOT_EXIST,
              MSG_REC_SUCCESS, MSG_REC_NO_MSG, REC_DLOCKED
<1>2. ASSUME idx # NULL
      PROVE  /\ idx \in Open /\ old \in GoodQueue
             /\ queue_arr = [queue_arr EXCEPT ![idx] = old]
             /\ q.msgs = live /\ live \in Seq(Message)
             /\ old.currentcount = 0 => q = old /\ live = <<>>
  <2>1. idx \in Open /\ old \in GoodQueue
    BY <1>2, QueueFound DEF TypesInv
  <2>2. /\ q.msgs = live /\ live \in Seq(Message)
        /\ old.currentcount = 0 => q = old
    BY <2>1, PurgeLiving
  <2>3. old.currentcount = 0 => old.msgs = <<>>
    <3>1. old.msgs \in Seq(Message) /\ old.currentcount = Len(old.msgs)
      BY <2>1 DEF GoodQueue, Queue
    <3> QED
      BY <3>1, EmptySeq
  <2>4. queue_arr = [queue_arr EXCEPT ![idx] = old]
    BY DEF TypesInv, TablesInv
  <2> QED
    BY <2>1, <2>2, <2>3, <2>4
<1>3. ASSUME NEW list, idx # NULL, NoMessage(p, idx, list, recid, expected, mayWait),
             Replaced(idx, q), \A j \in 1 .. Len(live) : ~Matches(live[j], recid, expected)
      PROVE  MessagesStep
  <2>1. /\ reply'.code \in {MSG_REC_NO_MSG, REC_DLOCKED}
        /\ reply'.req = [name |-> old.name, recid |-> recid, expected |-> expected]
    BY <1>3 DEF NoMessage, NothingFor, Reply
  <2>2. idx \in Open
    BY <1>2, <1>3
  <2> HIDE DEF idx
  <2>3. ToldNothing(idx, recid, expected)
    BY <1>3, <2>1 DEF ToldNothing
  <2> QED
    BY <2>2, <2>3 DEF MessagesStep
<1>4. CASE /\ idx # NULL /\ old.currentcount = 0
           /\ NoMessage(p, idx, blockedQ_array[idx], recid, expected, mayWait)
           /\ UNCHANGED queue_arr
  <2>1. Replaced(idx, q) /\ \A j \in 1 .. Len(live) : ~Matches(live[j], recid, expected)
    <3>1. live = <<>> /\ q = old /\ queue_arr' = [queue_arr EXCEPT ![idx] = old]
      BY <1>2, <1>4
    <3>2. Len(live) = 0
      BY <3>1
    <3> HIDE DEF live, q, idx, old
    <3> QED
      BY <3>1, <3>2 DEF Replaced
  <2> HIDE DEF idx, q, live, old
  <2> QED
    BY <1>3, <1>4, <2>1
<1>5. CASE idx # NULL /\ ReceiveFrom(p, idx, recid, expected, mayWait)
  <2>1. IF best = 0 THEN \A j \in 1 .. Len(live) : ~Matches(live[j], recid, expected)
        ELSE First(best, live, recid, expected)
    <3>1. q.msgs \in Seq(Message) /\ q.msgs = live
      BY <1>2, <1>5
    <3> HIDE DEF q, live
    <3> QED
      BY <3>1, BestMessageFinds
  <2>2. CASE /\ best = 0 /\ Replaced(idx, q)
             /\ NoMessage(p, idx, StillWaiting(blockedQ_array[idx], old.msgs),
                          recid, expected, mayWait)
    <3>1. \A j \in 1 .. Len(live) : ~Matches(live[j], recid, expected)
      BY <2>1, <2>2
    <3> HIDE DEF idx, q, live, old, best
    <3> QED
      BY <1>3, <1>5, <2>2, <3>1
  <2>3. CASE /\ best # 0 /\ Replaced(idx, Consume(q, best))
             /\ Deliver(p, q.msgs[best], recid, expected)
    <3>1. First(best, live, recid, expected) /\ q.msgs = live /\ idx \in Open
      BY <1>2, <1>5, <2>1, <2>3
    <3>2. /\ reply'.code = MSG_REC_SUCCESS /\ reply'.msg = q.msgs[best]
          /\ reply'.req = [recid |-> recid, expected |-> expected]
      BY <2>3 DEF Deliver, Reply
    <3>3. best \in Nat
      <4>1. Len(live) \in Nat
        <5>1. live \in Seq(Message)
          BY <1>2, <1>5
        <5> QED
          BY <5>1, LenProperties
      <4> HIDE DEF live, best
      <4> QED
        BY <3>1, <4>1 DEF First
    <3> HIDE DEF best, idx
    <3>4. Taken(idx, recid, expected, best)
      BY <2>3, <3>1, <3>2 DEF Taken
    <3> QED
      BY <3>1, <3>3, <3>4 DEF MessagesStep
  <2> QED
    BY <1>5, <2>2, <2>3 DEF ReceiveFrom, Replaced
<1> QED
  BY <1>1, <1>4, <1>5 DEF Receive

LEMMA CallMessages ==
    ASSUME TypesInv, NEW p \in alive, Call(p)
    PROVE  MessagesStep /\ UNCHANGED clock
<1>0. p \in Pids /\ Uses[p] \subseteq Ids
  BY ConstantsAssumption DEF TypesInv, SendersInv, ConstantsAssumption
<1>1. ASSUME NEW name \in Names, NEW cap \in Caps, NEW type \in Types,
             do_open_q(p, name, cap, type)
      PROVE  MessagesStep /\ UNCHANGED clock
  BY <1>1, OpenMessages DEF do_open_q
<1>2. ASSUME NEW name \in Names, do_close_q(p, name)
      PROVE  MessagesStep /\ UNCHANGED clock
  BY <1>2, CloseMessages DEF do_close_q
<1>3. ASSUME NEW name \in Names, NEW cap \in Caps, NEW type \in Types,
             do_set_attr_q(p, name, cap, type)
      PROVE  MessagesStep /\ UNCHANGED clock
  BY <1>3, SetAttrMessages DEF do_set_attr_q
<1>4. ASSUME NEW name \in Names, do_get_attr_q(p, name)
      PROVE  MessagesStep /\ UNCHANGED clock
  BY <1>4 DEF do_get_attr_q, Answer, Reply, MessagesStep, Quiet, QUEUE_NOT_EXIST,
              QUEUE_UPDATE_SUCCESS, MSG_REC_SUCCESS, MSG_REC_NO_MSG, REC_DLOCKED
<1>5. ASSUME NEW id \in Ids, do_mqreqnotify(p, id)
      PROVE  MessagesStep /\ UNCHANGED clock
  BY <1>5 DEF do_mqreqnotify, Answer, Reply, MessagesStep, Quiet, NOTIFY_FULL,
              NOTIFY_OK, MSG_REC_SUCCESS, MSG_REC_NO_MSG, REC_DLOCKED
<1>6. ASSUME SendCall(p)
      PROVE  MessagesStep /\ UNCHANGED clock
  <2>1. PICK name \in Names, m \in Message :
            do_send_mg_q(p, name, m) /\ m.pendingreceiverCount = Len(m.recieverIds)
    BY <1>0, <1>6, SentMessage
  <2> QED
    BY <2>1, SendMessages DEF do_send_mg_q
<1>7. ASSUME NEW name \in Names, NEW recid \in Uses[p],
             NEW expected \in Ids \cup {AnySender},
             \/ do_res_mg_q(p, name, recid, expected)
             \/ do_blocking_receive(p, name, recid, expected)
      PROVE  MessagesStep /\ UNCHANGED clock
  <2>1. PICK mayWait : Receive(p, name, recid, expected, mayWait)
    BY <1>7 DEF do_res_mg_q, do_blocking_receive
  <2>2. UNCHANGED clock
    BY <2>1 DEF Receive
  <2> QED
    BY <1>0, <2>1, <2>2, ReceiveMessages
<1> QED
  BY <1>1, <1>2, <1>3, <1>4, <1>5, <1>6, <1>7 DEF Call

LEMMA NextMessages ==
    ASSUME TypesInv, Next
    PROVE  MessagesStep
<1>1. ASSUME UNCHANGED queue_arr, reply' = NoReply
      PROVE  MessagesStep
  BY <1>1 DEF MessagesStep, Quiet, NoReply, Reply, MSG_REC_SUCCESS, MSG_REC_NO_MSG,
              REC_DLOCKED
<1> QED
  BY <1>1, CallMessages DEF Next, Exit, Tick

\* The slots of MessagesStep hold queues, and a change of one is a change of none
\* of the others.
LEMMA OneSlot ==
    ASSUME TypesInv, NEW s \in Slots, NEW q, Replaced(s, q)
    PROVE  queue_arr'[s] = q /\ \A t \in Slots : t # s => queue_arr'[t] = queue_arr[t]
BY DEF TypesInv, TablesInv, Replaced

LEMMA OpenQueue ==
    ASSUME TypesInv, NEW s \in Open
    PROVE  s \in Slots /\ queue_arr[s] \in GoodQueue /\ queue_arr[s].msgs \in Seq(Message)
BY DEF TypesInv, TablesInv, Open, GoodQueue, Queue

-----------------------------------------------------------------------------
(* The order of delivery.                                                  *)

\* In the words of DeliveryOrder.
InOrder(s) ==
    (reply'.code = MSG_REC_SUCCESS /\ queue_arr'[s] # queue_arr[s]) =>
      LET msgs == queue_arr[s].msgs
          mine == {i \in DOMAIN msgs :
                     /\ msgs[i].expiryts >= clock
                     /\ reply'.req.recid \in ToSet(msgs[i].recieverIds)
                     /\ reply'.req.expected \in {AnySender, msgs[i].senderId}}
      IN  \E i \in mine :
            /\ reply'.msg = msgs[i]
            /\ \A j \in mine \ {i} :
                 \/ msgs[i].priority < msgs[j].priority
                 \/ msgs[i].priority = msgs[j].priority /\ i < j

\* The first living message for a receiver is the first of all those in the
\* queue whose time is not over.
LEMMA FirstOfAll ==
    ASSUME NEW msgs \in Seq(Message), NEW time \in Int, NEW reader, NEW from, NEW k,
           First(k, Living(msgs, time), reader, from)
    PROVE  \E i \in 1 .. Len(msgs) :
              /\ Living(msgs, time)[k] = msgs[i]
              /\ msgs[i].expiryts >= time /\ Matches(msgs[i], reader, from)
              /\ \A j \in 1 .. Len(msgs) :
                    j # i /\ msgs[j].expiryts >= time /\ Matches(msgs[j], reader, from)
                       => Before(msgs[i], i, msgs[j], j)
<1> DEFINE live == Living(msgs, time)
<1>1. PICK f : Picks(f, live, msgs, time)
  BY LivingPicks
<1>2. live \in Seq(Message)
  BY LivingPicks
<1>3. Len(live) \in Nat /\ Len(msgs) \in Nat
  BY <1>2, LenProperties
<1>4. \A j \in 1 .. Len(msgs) : ~Over(msgs[j], time) <=> msgs[j].expiryts >= time
  <2>1. \A j \in 1 .. Len(msgs) : msgs[j] \in Message
    BY ElementOfSeq
  <2>2. \A j \in 1 .. Len(msgs) : msgs[j].expiryts \in Int
    BY <2>1, ConstantsAssumption DEF Message, ConstantsAssumption
  <2> QED
    BY <2>2 DEF Over
<1> HIDE DEF live
<1>5. /\ f \in [1 .. Len(live) -> 1 .. Len(msgs)]
      /\ \A a, b \in 1 .. Len(live) : a < b => f[a] < f[b]
      /\ \A a \in 1 .. Len(live) : live[a] = msgs[f[a]]
      /\ \A j \in 1 .. Len(msgs) :
            msgs[j].expiryts >= time <=> \E a \in 1 .. Len(live) : f[a] = j
  BY <1>1, <1>4 DEF Picks, From
<1>6. /\ k \in 1 .. Len(live) /\ Matches(live[k], reader, from)
      /\ \A b \in 1 .. Len(live) :
            b # k /\ Matches(live[b], reader, from) => Before(live[k], k, live[b], b)
  BY DEF First, live
<1> DEFINE i == f[k]
<1>7. /\ i \in 1 .. Len(msgs) /\ live[k] = msgs[i]
      /\ msgs[i].expiryts >= time /\ Matches(msgs[i], reader, from)
  BY <1>5, <1>6
<1>8. ASSUME NEW j \in 1 .. Len(msgs), j # i, msgs[j].expiryts >= time,
             Matches(msgs[j], reader, from)
      PROVE  Before(msgs[i], i, msgs[j], j)
  <2>1. PICK b \in 1 .. Len(live) : f[b] = j
    BY <1>5, <1>8
  <2>2. b # k /\ live[b] = msgs[j]
    BY <1>5, <1>8, <2>1
  <2>3. Before(live[k], k, live[b], b)
    BY <1>6, <1>8, <2>2
  <2>4. k < b => i < j
    BY <1>5, <1>6, <2>1
  <2> HIDE DEF i
  <2> QED
    BY <1>7, <2>2, <2>3, <2>4 DEF Before
<1> HIDE DEF i
<1> QED
  BY <1>7, <1>8 DEF live

LEMMA StepInOrder ==
    ASSUME TypesInv, MessagesStep, NEW s \in Open
    PROVE  InOrder(s)
<1> SUFFICES ASSUME reply'.code = MSG_REC_SUCCESS, queue_arr'[s] # queue_arr[s]
             PROVE  InOrder(s)
  BY DEF InOrder
<1>1. PICK t \in Open, reader \in Ids, from \in Ids \cup {AnySender}, k \in Nat :
          Taken(t, reader, from, k)
  <2>1. ~Quiet /\ \A q, t : ~Configured(t, q) /\ ~Begun(t, q) /\ ~Ended(t)
    BY DEF Quiet, Configured, Begun, Ended, QUEUE_UPDATE_SUCCESS, MSG_REC_SUCCESS
  <2>2. \A t, m : ~Sent(t, m)
    BY DEF Sent, MSG_ADD_SUCCESS, MSG_ADD_FAIL, MSG_REC_SUCCESS
  <2>3. \A t, reader, from : ~ToldNothing(t, reader, from)
    BY DEF ToldNothing, MSG_REC_NO_MSG, REC_DLOCKED, MSG_REC_SUCCESS
  <2> QED
    BY <2>1, <2>2, <2>3 DEF MessagesStep
<1>2. t = s
  BY <1>1, OneSlot, OpenQueue DEF Taken
<1> DEFINE msgs == queue_arr[s].msgs
<1>3. /\ First(k, Living(msgs, clock), reader, from)
      /\ reply'.msg = Living(msgs, clock)[k]
      /\ reply'.req = [recid |-> reader, expected |-> from]
  BY <1>1, <1>2 DEF Taken
<1>4. msgs \in Seq(Message) /\ clock \in Int /\ DOMAIN msgs = 1 .. Len(msgs)
  <2>1. msgs \in Seq(Message) /\ clock \in Int
    BY OpenQueue DEF TypesInv, RestOK
  <2> QED
    BY <2>1, LenProperties
<1> HIDE DEF msgs
<1>5. PICK i \in 1 .. Len(msgs) :
          /\ Living(msgs, clock)[k] = msgs[i]
          /\ msgs[i].expiryts >= clock /\ Matches(msgs[i], reader, from)
          /\ \A j \in 1 .. Len(msgs) :
                j # i /\ msgs[j].expiryts >= clock /\ Matches(msgs[j], reader, from)
                   => Before(msgs[i], i, msgs[j], j)
  BY <1>3, <1>4, FirstOfAll
<1> DEFINE mine == {j \in DOMAIN msgs :
                      /\ msgs[j].expiryts >= clock
                      /\ reply'.req.recid \in ToSet(msgs[j].recieverIds)
                      /\ reply'.req.expected \in {AnySender, msgs[j].senderId}}
<1>6. mine = {j \in 1 .. Len(msgs) : msgs[j].expiryts >= clock
                                     /\ Matches(msgs[j], reader, from)}
  BY <1>3, <1>4 DEF Matches
<1> HIDE DEF mine
<1>7. /\ i \in mine /\ reply'.msg = msgs[i]
      /\ \A j \in mine \ {i} :
            \/ msgs[i].priority < msgs[j].priority
            \/ msgs[i].priority = msgs[j].priority /\ i < j
  BY <1>3, <1>5, <1>6 DEF Before
<1> QED
  BY <1>7 DEF InOrder, mine, msgs

\* A receiver gets, of the messages it asked for whose time is not over, the
\* first of the most urgent ones, however many messages there are and whoever
\* sent them.
THEOREM DeliveriesInOrder == Spec => DeliveryOrder
<1>1. TypesInv /\ [Next]_vars => [ \A s \in Open : InOrder(s) ]_vars
  BY NextMessages, StepInOrder
<1> QED
  BY <1>1, TypesInvInit, TypesInvStep, PTL DEF Spec, DeliveryOrder, InOrder

-----------------------------------------------------------------------------
(* The capacity of a queue.                                                *)

LEMMA Uncounted ==
    ASSUME NEW q \in GoodQueue, NEW i \in 1 .. Len(q.msgs)
    PROVE  /\ Consume(q, i).currentcount <= q.currentcount
           /\ Consume(q, i).capacity = q.capacity
<1> DEFINE rest == RemoveAt(q.msgs, i)
           row  == [q.msgs[i] EXCEPT !.pendingreceiverCount = @ - 1]
           new  == [q.msgs EXCEPT ![i] = row]
           n    == q.currentcount - 1
<1>1. q \in Queue /\ q.currentcount \in Int /\ n <= q.currentcount
  BY DEF GoodQueue, Queue
<1>2. \/ Consume(q, i) = Relisted(q, rest, n)
      \/ Consume(q, i) = [q EXCEPT !.msgs = new]
  BY DEF Consume, remove_node, Relisted
<1> HIDE DEF rest, new, n
<1>3. Relisted(q, rest, n).currentcount = n /\ Relisted(q, rest, n).capacity = q.capacity
  BY <1>1 DEF Queue, Relisted
<1>4. /\ [q EXCEPT !.msgs = new].currentcount = q.currentcount
      /\ [q EXCEPT !.msgs = new].capacity = q.capacity
      /\ q.currentcount <= q.currentcount
  BY <1>1 DEF Queue
<1> QED
  BY <1>1, <1>2, <1>3, <1>4

LEMMA StepFills ==
    ASSUME TypesInv, MessagesStep, NEW s \in Open, queue_arr'[s] # NULL,
           ~Overfull(queue_arr[s]), Overfull(queue_arr'[s])
    PROVE  reply'.code = QUEUE_UPDATE_SUCCESS
<1> DEFINE q == queue_arr[s]
<1>0. /\ s \in Slots /\ q \in GoodQueue /\ q \in Queue
      /\ q.currentcount = Len(q.msgs) /\ q.msgs \in Seq(Message)
      /\ q.currentcount \in Int /\ q.capacity \in Int
  BY OpenQueue DEF GoodQueue, Queue
<1>1. queue_arr'[s] # q
  OBVIOUS
<1>2. ASSUME NEW r, Replaced(s, r)
      PROVE  r.currentcount > r.capacity
  BY <1>0, <1>2, OneSlot DEF Overfull
<1>3. \A t \in Slots : \A r : Replaced(t, r) => t = s
  BY <1>0, <1>1, OneSlot
<1> HIDE DEF q
<1>4. CASE UNCHANGED queue_arr
  BY <1>1, <1>4 DEF q
<1>5. ASSUME NEW t \in Slots, NEW r \in GoodQueue, Begun(t, r)
      PROVE  FALSE
  BY <1>3, <1>5 DEF Begun, Open
<1>6. ASSUME NEW t \in Open, Ended(t)
      PROVE  FALSE
  <2>1. t = s
    BY <1>3, <1>6, OpenQueue DEF Ended
  <2> QED
    BY <1>0, <1>6, <2>1, OneSlot DEF Ended
<1>7. ASSUME NEW t, NEW r, Configured(t, r)
      PROVE  reply'.code = QUEUE_UPDATE_SUCCESS
  BY <1>7 DEF Configured
<1>8. ASSUME NEW t \in Open, NEW m \in Message, Sent(t, m)
      PROVE  FALSE
  <2>1. t = s
    BY <1>3, <1>8, OpenQueue DEF Sent
  <2>2. Replaced(s, add_to_queue(q, m)) /\ q.currentcount # q.capacity
    BY <1>8, <2>1 DEF Sent, QueueFull, q
  <2>3. add_to_queue(q, m).currentcount = q.currentcount + 1
        /\ add_to_queue(q, m).capacity = q.capacity
    BY <1>0 DEF add_to_queue, Queue
  <2>4. ~(q.currentcount > q.capacity)
    BY DEF Overfull, q
  <2>5. add_to_queue(q, m).currentcount > add_to_queue(q, m).capacity
    BY <1>2, <2>2
  <2> QED
    BY <1>0, <2>2, <2>3, <2>4, <2>5
<1>9. ASSUME NEW t \in Open, NEW reader, NEW from,
             ToldNothing(t, reader, from) \/ \E i \in Nat : Taken(t, reader, from, i)
      PROVE  FALSE
  <2>1. t = s
    BY <1>3, <1>9, OpenQueue DEF ToldNothing, Taken
  <2> DEFINE purged == PurgeExpired(q)
             live == Living(q.msgs, clock)
  <2>2. /\ purged \in GoodQueue /\ purged.capacity = q.capacity
        /\ purged.msgs = live /\ Len(live) <= Len(q.msgs)
    BY <1>0, PurgeLiving, LivingPicks
  <2>3. purged.currentcount = Len(live) /\ Len(live) \in Nat
    <3>1. purged.msgs \in Seq(Message) /\ purged.currentcount = Len(purged.msgs)
      BY <2>2 DEF GoodQueue, Queue
    <3> QED
      BY <2>2, <3>1, LenProperties
  <2>4. \/ Replaced(s, purged)
        \/ \E i \in 1 .. Len(live) : Replaced(s, Consume(purged, i))
    BY <1>9, <2>1 DEF ToldNothing, Taken, First, q
  <2>5. ~(q.currentcount > q.capacity)
    BY DEF Overfull, q
  <2> HIDE DEF purged, live
  <2>6. \A i \in 1 .. Len(live) : /\ Consume(purged, i).currentcount <= purged.currentcount
                                  /\ Consume(purged, i).capacity = purged.capacity
                                  /\ Consume(purged, i) \in GoodQueue
    BY <2>2, Uncounted, ConsumeGood
  <2>7. PICK r \in GoodQueue : /\ Replaced(s, r) /\ r.capacity = q.capacity
                               /\ r.currentcount <= purged.currentcount
    <3>1. purged.currentcount <= purged.currentcount
      BY <2>3
    <3> QED
      BY <2>2, <2>4, <2>6, <3>1
  <2>8. r.currentcount > r.capacity /\ r.currentcount \in Int
    BY <1>2, <2>7 DEF GoodQueue, Queue
  <2> QED
    BY <1>0, <2>2, <2>3, <2>5, <2>7, <2>8
<1> QED
  BY <1>4, <1>5, <1>6, <1>7, <1>8, <1>9 DEF MessagesStep

\* A queue within its capacity is taken beyond it by do_set_attr_q alone; the
\* equality that do_send_mg_q tests is enough for that.
THEOREM SendsRespectCapacity == Spec => OnlySetAttrOverfills
<1>1. TypesInv /\ [Next]_vars =>
         [ \A s \in Open :
             (queue_arr'[s] # NULL /\ ~Overfull(queue_arr[s]) /\ Overfull(queue_arr'[s]))
               => reply'.code = QUEUE_UPDATE_SUCCESS ]_vars
  BY NextMessages, StepFills
<1> QED
  BY <1>1, TypesInvInit, TypesInvStep, PTL DEF Spec, OnlySetAttrOverfills

-----------------------------------------------------------------------------
(* The readers that messages wait for.                                     *)

\* The messages after a reading of the i-th.
Less(msgs, i) ==
    IF msgs[i].pendingreceiverCount = 1 THEN RemoveAt(msgs, i)
    ELSE [msgs EXCEPT ![i].pendingreceiverCount = @ - 1]

Reread(m) == [m EXCEPT !.pendingreceiverCount = @ - 1]

LEMMA LessList ==
    ASSUME NEW msgs \in Seq(Message), NEW i \in 1 .. Len(msgs)
    PROVE  /\ Less(msgs, i) \in Seq(Message)
           /\ Reread(msgs[i]) \in Message
           /\ msgs[i].pendingreceiverCount = 1 =>
                 /\ Len(Less(msgs, i)) = Len(msgs) - 1
                 /\ \A k \in 1 .. Len(msgs) - 1 :
                       Less(msgs, i)[k] = IF k < i THEN msgs[k] ELSE msgs[k + 1]
           /\ msgs[i].pendingreceiverCount # 1 =>
                 /\ Len(Less(msgs, i)) = Len(msgs)
                 /\ \A k \in 1 .. Len(msgs) :
                       Less(msgs, i)[k] = IF k = i THEN Reread(msgs[i]) ELSE msgs[k]
<1>1. msgs[i] \in Message
  BY ElementOfSeq
<1>2. Reread(msgs[i]) \in Message
  BY <1>1 DEF Message, Reread
<1>3. CASE msgs[i].pendingreceiverCount = 1
  <2>1. Less(msgs, i) = RemoveAt(msgs, i)
    BY <1>3 DEF Less
  <2> QED
    BY <1>2, <1>3, <2>1, RemoveAtProperties
<1>4. CASE msgs[i].pendingreceiverCount # 1
  <2> DEFINE row == Reread(msgs[i])
  <2>1. Less(msgs, i) = [msgs EXCEPT ![i] = row]
    BY <1>4 DEF Less, Reread
  <2>2. row \in Message
    BY <1>2
  <2> HIDE DEF row
  <2> DEFINE new == [msgs EXCEPT ![i] = row]
  <2>3. /\ new \in Seq(Message) /\ Len(new) = Len(msgs)
        /\ \A k \in 1 .. Len(msgs) : new[k] = IF k = i THEN row ELSE msgs[k]
    BY <2>2, ExceptSeq
  <2> HIDE DEF new
  <2>4. Less(msgs, i) = new
    BY <2>1 DEF new
  <2> QED
    BY <1>2, <1>4, <2>3, <2>4 DEF row
<1> QED
  BY <1>3, <1>4

LEMMA RereadFields ==
    ASSUME NEW m \in Message
    PROVE  /\ Reread(m).pendingreceiverCount = m.pendingreceiverCount - 1
           /\ Reread(m).expiryts = m.expiryts /\ Reread(m).recieverIds = m.recieverIds
           /\ m.pendingreceiverCount \in Int
BY DEF Message, Reread

LEMMA ConsumeLess ==
    ASSUME NEW q \in GoodQueue, NEW i \in 1 .. Len(q.msgs)
    PROVE  Consume(q, i).msgs = Less(q.msgs, i)
<1> DEFINE rest == RemoveAt(q.msgs, i)
           n    == q.currentcount - 1
           new  == [q.msgs EXCEPT ![i].pendingreceiverCount = @ - 1]
<1>1. q \in Queue
  BY DEF GoodQueue
<1>2. Consume(q, i) = IF q.msgs[i].pendingreceiverCount = 1
                      THEN Relisted(q, rest, n) ELSE [q EXCEPT !.msgs = new]
  BY DEF Consume, remove_node, Relisted
<1>3. Less(q.msgs, i) = IF q.msgs[i].pendingreceiverCount = 1 THEN rest ELSE new
  BY DEF Less
<1> HIDE DEF rest, n, new
<1>4. Relisted(q, rest, n).msgs = rest
  BY <1>1 DEF Queue, Relisted
<1>5. [q EXCEPT !.msgs = new].msgs = new
  BY <1>1 DEF Queue
<1> QED
  BY <1>2, <1>3, <1>4, <1>5

LEMMA AddAppends ==
    ASSUME NEW q \in GoodQueue, NEW m
    PROVE  add_to_queue(q, m).msgs = Append(q.msgs, m)
<1> DEFINE new == Append(q.msgs, m)
           n   == q.currentcount + 1
<1>1. q \in Queue /\ add_to_queue(q, m) = Relisted(q, new, n)
  BY DEF GoodQueue, add_to_queue, Relisted
<1> HIDE DEF new, n
<1>2. Relisted(q, new, n).msgs = new
  BY <1>1 DEF Queue, Relisted
<1> QED
  BY <1>1, <1>2 DEF new

Awaited(m) == m.pendingreceiverCount \in 1 .. Len(m.recieverIds)

AllAwaited(msgs) == \A i \in 1 .. Len(msgs) : Awaited(msgs[i])

\* A reading leaves the others to be awaited.
LEMMA LessAwaited ==
    ASSUME NEW msgs \in Seq(Message), AllAwaited(msgs), NEW i \in 1 .. Len(msgs)
    PROVE  AllAwaited(Less(msgs, i))
<1>1. msgs[i] \in Message /\ Len(msgs) \in Nat
  BY ElementOfSeq, LenProperties
<1>2. CASE msgs[i].pendingreceiverCount = 1
  <2>1. /\ Len(Less(msgs, i)) = Len(msgs) - 1
        /\ \A k \in 1 .. Len(msgs) - 1 :
              Less(msgs, i)[k] = IF k < i THEN msgs[k] ELSE msgs[k + 1]
    BY <1>2, LessList
  <2>2. \A k \in 1 .. Len(msgs) - 1 : k \in 1 .. Len(msgs) /\ k + 1 \in 1 .. Len(msgs)
    BY <1>1
  <2> QED
    BY <2>1, <2>2 DEF AllAwaited
<1>3. CASE msgs[i].pendingreceiverCount # 1
  <2>1. /\ Len(Less(msgs, i)) = Len(msgs)
        /\ \A k \in 1 .. Len(msgs) :
              Less(msgs, i)[k] = IF k = i THEN Reread(msgs[i]) ELSE msgs[k]
    BY <1>3, LessList
  <2>2. Awaited(Reread(msgs[i]))
    <3>1. Len(msgs[i].recieverIds) \in Nat
      <4>1. msgs[i].recieverIds \in Seq(Ids)
        BY <1>1, ConstantsAssumption DEF Message, ConstantsAssumption
      <4> QED
        BY <4>1, LenProperties
    <3> QED
      BY <1>1, <1>3, <3>1, RereadFields DEF AllAwaited, Awaited
  <2> QED
    BY <2>1, <2>2 DEF AllAwaited
<1> QED
  BY <1>2, <1>3

LEMMA LivingAwaited ==
    ASSUME NEW msgs \in Seq(Message), AllAwaited(msgs), NEW time
    PROVE  AllAwaited(Living(msgs, time))
<1> DEFINE live == Living(msgs, time)
<1>1. \A a \in 1 .. Len(live) : \E j \in 1 .. Len(msgs) : live[a] = msgs[j]
  BY LivingIsLive
<1> HIDE DEF live
<1>2. AllAwaited(live)
  BY <1>1 DEF AllAwaited
<1> QED
  BY <1>2 DEF live

LEMMA AppendAwaited ==
    ASSUME NEW msgs \in Seq(Message), AllAwaited(msgs), NEW m \in Message, Awaited(m)
    PROVE  AllAwaited(Append(msgs, m))
<1> DEFINE new == Append(msgs, m)
<1>1. /\ Len(msgs) \in Nat /\ Len(new) = Len(msgs) + 1
      /\ \A i \in 1 .. Len(msgs) : new[i] = msgs[i]
      /\ new[Len(msgs) + 1] = m
  BY LenProperties, AppendProperties
<1> HIDE DEF new
<1>2. \A i \in 1 .. Len(new) : i \in 1 .. Len(msgs) \/ i = Len(msgs) + 1
  BY <1>1
<1>3. AllAwaited(new)
  BY <1>1, <1>2 DEF AllAwaited
<1> QED
  BY <1>3 DEF new

QueuesAwaited == \A s \in Open : AllAwaited(queue_arr[s].msgs)

LEMMA AwaitedIsAwaitReaders == TypesInv => (QueuesAwaited <=> MessagesAwaitReaders)
<1> SUFFICES ASSUME TypesInv PROVE QueuesAwaited <=> MessagesAwaitReaders
  OBVIOUS
<1>1. \A s \in Open : DOMAIN queue_arr[s].msgs = 1 .. Len(queue_arr[s].msgs)
  BY OpenQueue, LenProperties
<1> QED
  BY <1>1 DEF QueuesAwaited, AllAwaited, Awaited, MessagesAwaitReaders

LEMMA StepAwaited ==
    ASSUME <<>> \notin RecvLists, TypesInv, QueuesAwaited, MessagesStep
    PROVE  QueuesAwaited'
<1>1. CASE UNCHANGED queue_arr
  BY <1>1 DEF QueuesAwaited, Open
<1>2. ASSUME NEW s \in Slots, NEW q, Replaced(s, q), q = NULL \/ AllAwaited(q.msgs)
      PROVE  QueuesAwaited'
  <2>1. queue_arr'[s] = q /\ \A t \in Slots : t # s => queue_arr'[t] = queue_arr[t]
    BY <1>2, OneSlot
  <2> QED
    BY <1>2, <2>1 DEF QueuesAwaited, Open
<1>3. ASSUME NEW s \in Slots, NEW q, Begun(s, q)
      PROVE  QueuesAwaited'
  <2>1. q.msgs = <<>>
    BY <1>3 DEF Begun
  <2>2. AllAwaited(q.msgs)
    BY <2>1 DEF AllAwaited
  <2> QED
    BY <1>2, <1>3, <2>2 DEF Begun
<1>4. ASSUME NEW s \in Open
      PROVE  /\ s \in Slots /\ queue_arr[s] \in GoodQueue
             /\ queue_arr[s].msgs \in Seq(Message) /\ AllAwaited(queue_arr[s].msgs)
  BY OpenQueue DEF QueuesAwaited
<1>5. ASSUME NEW s \in Open, Ended(s)
      PROVE  QueuesAwaited'
  BY <1>2, <1>4, <1>5 DEF Ended
<1>6. ASSUME NEW s \in Open, NEW q, Configured(s, q)
      PROVE  QueuesAwaited'
  <2>1. AllAwaited(q.msgs)
    BY <1>4, <1>6 DEF Configured
  <2> QED
    BY <1>2, <1>4, <1>6, <2>1 DEF Configured
<1>7. ASSUME NEW s \in Open, NEW m \in Message, Sent(s, m)
      PROVE  QueuesAwaited'
  <2>1. Awaited(m)
    <3>1. m.recieverIds \in Seq(Ids) /\ m.recieverIds # <<>>
      BY ConstantsAssumption DEF Message, ConstantsAssumption
    <3>2. Len(m.recieverIds) \in Nat \ {0}
      BY <3>1, EmptySeq
    <3> QED
      BY <1>7, <3>2 DEF Sent, Awaited
  <2>2. AllAwaited(add_to_queue(queue_arr[s], m).msgs)
    BY <1>4, <2>1, AppendAwaited, AddAppends
  <2> QED
    BY <1>2, <1>4, <1>7, <2>2 DEF Sent
<1>8. ASSUME NEW s \in Open
      PROVE  /\ PurgeExpired(queue_arr[s]) \in GoodQueue
             /\ PurgeExpired(queue_arr[s]).msgs = Living(queue_arr[s].msgs, clock)
             /\ Living(queue_arr[s].msgs, clock) \in Seq(Message)
             /\ AllAwaited(Living(queue_arr[s].msgs, clock))
  BY <1>4, PurgeLiving, LivingAwaited
<1>9. ASSUME NEW s \in Open, NEW reader, NEW from, ToldNothing(s, reader, from)
      PROVE  QueuesAwaited'
  BY <1>2, <1>4, <1>8, <1>9 DEF ToldNothing
<1>10. ASSUME NEW s \in Open, NEW reader, NEW from, NEW i, Taken(s, reader, from, i)
       PROVE  QueuesAwaited'
  <2> DEFINE live == Living(queue_arr[s].msgs, clock)
             purged == PurgeExpired(queue_arr[s])
  <2>1. i \in 1 .. Len(live)
    BY <1>10 DEF Taken, First
  <2>2. purged \in GoodQueue /\ purged.msgs = live /\ live \in Seq(Message) /\ AllAwaited(live)
    BY <1>8
  <2>3. Replaced(s, Consume(purged, i))
    BY <1>10 DEF Taken
  <2> HIDE DEF live, purged
  <2>4. AllAwaited(Consume(purged, i).msgs)
    BY <2>1, <2>2, LessAwaited, ConsumeLess
  <2> QED
    BY <1>2, <1>4, <2>3, <2>4
<1> QED
  BY <1>1, <1>3, <1>5, <1>6, <1>7, <1>9, <1>10 DEF MessagesStep

\* A queued message still has a reader to come, and never more readers than it
\* was sent to, as long as nothing is sent to nobody.
THEOREM MessagesAlwaysAwait ==
    ASSUME <<>> \notin RecvLists
    PROVE  Spec => []MessagesAwaitReaders
<1>1. Init => QueuesAwaited
  BY DEF Init, QueuesAwaited, Open
<1>2. TypesInv /\ QueuesAwaited /\ [Next]_vars => QueuesAwaited'
  <2>1. UNCHANGED vars /\ QueuesAwaited => QueuesAwaited'
    BY DEF vars, QueuesAwaited, Open
  <2> QED
    BY <2>1, NextMessages, StepAwaited
<1>3. TypesInv /\ QueuesAwaited => MessagesAwaitReaders
  BY AwaitedIsAwaitReaders
<1> QED
  BY <1>1, <1>2, <1>3, TypesInvInit, TypesInvStep, PTL DEF Spec

-----------------------------------------------------------------------------
(* The readings that are still to come.                                    *)

\* What PendingReadings computes at a given time.
Pending(seq, time) ==
    LET sum[i \in 0 .. Len(seq)] ==
            IF i = 0 THEN 0
            ELSE IF Over(seq[i], time) THEN sum[i - 1]
            ELSE sum[i - 1] + seq[i].pendingreceiverCount
    IN  sum[Len(seq)]

LEMMA ReadingsArePending ==
    ASSUME NEW seq
    PROVE  PendingReadings(seq) = Pending(seq, clock)
BY DEF PendingReadings, ForEach, Expired, Pending, Over

\* run holds the sum after each turn.
Sums(run, seq, time) ==
    /\ run[0] = 0
    /\ \A i \in 1 .. Len(seq) :
          run[i] = IF Over(seq[i], time) THEN run[i - 1]
                   ELSE run[i - 1] + seq[i].pendingreceiverCount

LEMMA PendingRun ==
    ASSUME NEW seq \in Seq(Message), NEW time
    PROVE  \E run : /\ Sums(run, seq, time)
                    /\ \A i \in 0 .. Len(seq) : run[i] \in Int
                    /\ Pending(seq, time) = run[Len(seq)]
<1> DEFINE n       == Len(seq)
           turn(acc, i) == IF Over(seq[i], time) THEN acc
                           ELSE acc + seq[i].pendingreceiverCount
           step(f) == [i \in 0 .. n |-> IF i = 0 THEN 0 ELSE turn(f[i - 1], i)]
           g       == [i \in 1 .. n |-> [acc \in Int |-> turn(acc, i)]]
           run     == CHOOSE f : f = step(f)
<1>1. n \in Nat /\ 0 \in Int
  BY LenProperties
<1>2. ASSUME NEW acc \in Int, NEW i \in 1 .. n PROVE turn(acc, i) \in Int
  <2>1. seq[i] \in Message
    BY ElementOfSeq
  <2>2. seq[i].pendingreceiverCount \in Int
    BY <2>1 DEF Message
  <2> QED
    BY <2>2
<1>3. Pending(seq, time) = run[n]
  BY DEF Pending
<1>4. \A i \in 1 .. n : \A acc : turn(acc, i) =
          IF Over(seq[i], time) THEN acc ELSE acc + seq[i].pendingreceiverCount
  OBVIOUS
<1> HIDE DEF turn
<1>5. g \in [1 .. n -> [Int -> Int]] /\ \A i \in 1 .. n, x \in Int : g[i][x] = turn(x, i)
  BY <1>2
<1> HIDE DEF g, n
<1>6. PICK f : IsRun(f, Int, n, 0, g)
  BY <1>1, <1>5, RunExists
<1>7. \A i \in 1 .. n : i - 1 \in 0 .. n /\ i \in 0 .. n /\ i # 0
  BY <1>1, SMT
<1>8. f = step(f)
  <2>1. f \in [0 .. n -> Int] /\ f[0] = 0
    BY <1>6 DEF IsRun
  <2>2. ASSUME NEW i \in 0 .. n, i # 0
        PROVE  f[i] = turn(f[i - 1], i)
    <3>1. i \in 1 .. n
      BY <1>1, <2>2
    <3>2. f[i - 1] \in Int
      BY <1>7, <2>1, <3>1
    <3> QED
      BY <1>5, <1>6, <3>1, <3>2 DEF IsRun
  <2> QED
    BY <2>1, <2>2
<1>9. run = step(run)
  <2> HIDE DEF step
  <2> QED
    BY <1>8
<1> HIDE DEF run
<1>10. run[0] = 0 /\ \A i \in 1 .. n : run[i] = turn(run[i - 1], i)
  BY <1>1, <1>7, <1>9
<1>11. Sums(run, seq, time)
  BY <1>4, <1>10 DEF Sums, n
<1> DEFINE P == {i \in 0 .. n : \A j \in 0 .. n : j <= i => run[j] \in Int}
<1>12. 0 \in P
  BY <1>1, <1>10
<1>13. ASSUME NEW i \in 1 .. n, i - 1 \in P PROVE i \in P
  <2>0. run[i - 1] \in Int
    <3>1. i - 1 <= i - 1 /\ i - 1 \in 0 .. n
      BY <1>1, <1>7
    <3> QED
      BY <1>13, <3>1
  <2>1. run[i] \in Int
    BY <1>2, <1>10, <2>0
  <2>2. \A j \in 0 .. n : j <= i => j <= i - 1 \/ j = i
    BY <1>1
  <2> QED
    BY <1>7, <1>13, <2>1, <2>2
<1> HIDE DEF P
<1>14. n \in P
  BY <1>1, <1>12, <1>13, TurnInduction
<1>15. \A i \in 0 .. n : run[i] \in Int
  BY <1>1, <1>14 DEF P
<1> QED
  BY <1>3, <1>11, <1>15 DEF n

LEMMA PendingIs ==
    ASSUME NEW seq \in Seq(Message), NEW time, NEW run, Sums(run, seq, time)
    PROVE  Pending(seq, time) = run[Len(seq)] /\ Pending(seq, time) \in Int
<1>1. PICK f : /\ Sums(f, seq, time)
               /\ \A i \in 0 .. Len(seq) : f[i] \in Int
               /\ Pending(seq, time) = f[Len(seq)]
  BY PendingRun
<1> DEFINE P == {i \in 0 .. Len(seq) : f[i] = run[i]}
<1>2. Len(seq) \in Nat /\ Len(seq) \in 0 .. Len(seq)
  BY LenProperties
<1>3. 0 \in P
  BY <1>1, <1>2 DEF Sums
<1>4. ASSUME NEW i \in 1 .. Len(seq), i - 1 \in P PROVE i \in P
  BY <1>1, <1>2, <1>4 DEF Sums
<1> HIDE DEF P
<1>5. Len(seq) \in P
  BY <1>2, <1>3, <1>4, TurnInduction
<1> QED
  BY <1>1, <1>2, <1>5 DEF P

\* A message that arrives brings its readings along, if its time is not over.
LEMMA PendingAppend ==
    ASSUME NEW seq \in Seq(Message), NEW m \in Message, NEW time
    PROVE  Pending(Append(seq, m), time) =
               IF Over(m, time) THEN Pending(seq, time)
               ELSE Pending(seq, time) + m.pendingreceiverCount
<1> DEFINE longer == Append(seq, m)
<1>1. /\ longer \in Seq(Message) /\ Len(longer) = Len(seq) + 1 /\ Len(seq) \in Nat
      /\ \A i \in 1 .. Len(seq) : longer[i] = seq[i]
      /\ longer[Len(seq) + 1] = m
  BY LenProperties, AppendProperties
<1> HIDE DEF longer
<1>2. PICK run : Sums(run, longer, time) /\ Pending(longer, time) = run[Len(longer)]
  BY <1>1, PendingRun
<1>3. Sums(run, seq, time)
  BY <1>1, <1>2 DEF Sums
<1>4. Pending(seq, time) = run[Len(seq)]
  BY <1>3, PendingIs
<1> DEFINE k == Len(seq) + 1
<1>5. k \in 1 .. Len(longer) /\ k - 1 = Len(seq) /\ longer[k] = m
  BY <1>1
<1> HIDE DEF k
<1>6. run[k] = IF Over(m, time) THEN run[Len(seq)]
               ELSE run[Len(seq)] + m.pendingreceiverCount
  BY <1>2, <1>5 DEF Sums
<1> QED
  BY <1>1, <1>2, <1>4, <1>6 DEF longer, k

\* Dropping what is expired drops no reading.
LEMMA PendingOfLiving ==
    ASSUME NEW seq \in Seq(Message), NEW time
    PROVE  Pending(Living(seq, time), time) = Pending(seq, time)
<1>1. PICK run : /\ Keeps(run, seq, time)
                 /\ \A i \in 0 .. Len(seq) : run[i] \in Seq(Message)
                 /\ Living(seq, time) = run[Len(seq)]
  BY LivingRun
<1>2. Len(seq) \in Nat
  BY LenProperties
<1> DEFINE sum == [i \in 0 .. Len(seq) |-> Pending(run[i], time)]
<1>3. sum[0] = 0
  <2>1. run[0] = <<>> /\ <<>> \in Seq(Message) /\ Len(<<>>) = 0
    BY <1>1 DEF Keeps
  <2>2. Sums([i \in 0 .. 0 |-> 0], <<>>, time)
    BY <2>1 DEF Sums
  <2>3. Pending(<<>>, time) = [i \in 0 .. 0 |-> 0][Len(<<>>)]
    BY <2>1, <2>2, PendingIs
  <2> QED
    BY <1>2, <2>1, <2>3
<1>4. ASSUME NEW i \in 1 .. Len(seq)
      PROVE  sum[i] = IF Over(seq[i], time) THEN sum[i - 1]
                      ELSE sum[i - 1] + seq[i].pendingreceiverCount
  <2>1. i \in 0 .. Len(seq) /\ i - 1 \in 0 .. Len(seq)
    BY <1>2
  <2>2. run[i - 1] \in Seq(Message) /\ seq[i] \in Message
    BY <1>1, <2>1, ElementOfSeq
  <2>3. sum[i] = Pending(run[i], time) /\ sum[i - 1] = Pending(run[i - 1], time)
    BY <2>1
  <2>4. run[i] = IF Over(seq[i], time) THEN run[i - 1] ELSE Append(run[i - 1], seq[i])
    BY <1>1 DEF Keeps
  <2>5. Pending(Append(run[i - 1], seq[i]), time) =
            IF Over(seq[i], time) THEN Pending(run[i - 1], time)
            ELSE Pending(run[i - 1], time) + seq[i].pendingreceiverCount
    BY <2>2, PendingAppend
  <2> HIDE DEF sum
  <2> QED
    BY <2>3, <2>4, <2>5
<1>5. sum[Len(seq)] = Pending(Living(seq, time), time)
  BY <1>1, <1>2
<1> HIDE DEF sum
<1>6. Sums(sum, seq, time)
  BY <1>3, <1>4 DEF Sums
<1> QED
  BY <1>5, <1>6, PendingIs

\* A reading takes one away.
LEMMA PendingLess ==
    ASSUME NEW seq \in Seq(Message), NEW time, AllLive(seq, time), NEW i \in 1 .. Len(seq)
    PROVE  Pending(Less(seq, i), time) = Pending(seq, time) - 1
<1>1. PICK run : /\ Sums(run, seq, time)
                 /\ \A k \in 0 .. Len(seq) : run[k] \in Int
                 /\ Pending(seq, time) = run[Len(seq)]
  BY PendingRun
<1> DEFINE cnt(k) == seq[k].pendingreceiverCount
           less   == Less(seq, i)
<1>2. Len(seq) \in Nat /\ i \in Nat /\ 1 <= i /\ i <= Len(seq)
  BY LenProperties
<1>3. \A k \in 1 .. Len(seq) : seq[k] \in Message /\ cnt(k) \in Int
  <2>1. \A k \in 1 .. Len(seq) : seq[k] \in Message
    BY ElementOfSeq
  <2> QED
    BY <2>1, RereadFields
<1>4. run[0] = 0 /\ \A k \in 1 .. Len(seq) : run[k] = run[k - 1] + cnt(k)
  BY <1>1 DEF Sums, AllLive
<1>5. less \in Seq(Message)
  BY LessList
<1>6. CASE cnt(i) = 1
  <2> DEFINE h == [k \in 0 .. Len(seq) - 1 |-> IF k < i THEN run[k] ELSE run[k + 1] - 1]
  <2>1. /\ Len(less) = Len(seq) - 1
        /\ \A k \in 1 .. Len(seq) - 1 : less[k] = IF k < i THEN seq[k] ELSE seq[k + 1]
    BY <1>6, LessList
  <2>2. \A k \in 0 .. Len(seq) - 1 : h[k] = IF k < i THEN run[k] ELSE run[k + 1] - 1
    OBVIOUS
  <2> HIDE DEF h, less
  <2>3. h[0] = 0
    <3>1. 0 \in 0 .. Len(seq) - 1 /\ 0 < i
      BY <1>2
    <3> QED
      BY <1>4, <2>2, <3>1
  <2>4. ASSUME NEW k \in 1 .. Len(less)
        PROVE  ~Over(less[k], time) /\ h[k] = h[k - 1] + less[k].pendingreceiverCount
    <3>1. /\ k \in 1 .. Len(seq) - 1 /\ k \in 0 .. Len(seq) - 1 /\ k - 1 \in 0 .. Len(seq) - 1
          /\ k \in 1 .. Len(seq) /\ k + 1 \in 1 .. Len(seq) /\ (k + 1) - 1 = k
          /\ (k - 1) + 1 = k
          /\ k \in 0 .. Len(seq) /\ k - 1 \in 0 .. Len(seq) /\ k + 1 \in 0 .. Len(seq)
      BY <1>2, <2>1
    <3>2. run[k - 1] \in Int /\ run[k] \in Int /\ run[k + 1] \in Int
      BY <1>1, <3>1
    <3>3. run[k] = run[k - 1] + cnt(k) /\ run[k + 1] = run[k] + cnt(k + 1)
      BY <1>4, <3>1
    <3>4. cnt(k) \in Int /\ cnt(k + 1) \in Int
      BY <1>3, <3>1
    <3>5. ~Over(less[k], time) /\ less[k].pendingreceiverCount =
                                     IF k < i THEN cnt(k) ELSE cnt(k + 1)
      BY <2>1, <3>1 DEF AllLive
    <3>6. h[k] = IF k < i THEN run[k] ELSE run[k + 1] - 1
      BY <2>2, <3>1
    <3>7. h[k - 1] = IF k - 1 < i THEN run[k - 1] ELSE run[k] - 1
      BY <2>2, <3>1
    <3>8. k = i => cnt(k) = 1
      BY <1>6
    <3> HIDE DEF cnt
    <3>9. k < i \/ k = i \/ (k > i /\ ~(k < i) /\ ~(k - 1 < i))
      BY <1>2, <3>1
    <3>10. CASE k < i
      <4>1. k - 1 < i
        BY <1>2, <3>1, <3>10
      <4> QED
        BY <3>3, <3>5, <3>6, <3>7, <3>10, <4>1
    <3>11. CASE k = i
      <4>1. k - 1 < i /\ ~(k < i)
        BY <1>2, <3>11
      <4> QED
        BY <3>2, <3>3, <3>4, <3>5, <3>6, <3>7, <3>8, <3>11, <4>1
    <3>12. CASE k > i /\ ~(k < i) /\ ~(k - 1 < i)
      BY <3>2, <3>3, <3>4, <3>5, <3>6, <3>7, <3>12
    <3> QED
      BY <3>9, <3>10, <3>11, <3>12
  <2>5. Sums(h, less, time)
    BY <2>3, <2>4 DEF Sums
  <2>6. Pending(less, time) = h[Len(less)]
    BY <1>5, <2>5, PendingIs
  <2>7. h[Len(seq) - 1] = run[Len(seq)] - 1
    <3> DEFINE k == Len(seq) - 1
    <3>1. /\ k \in 0 .. Len(seq) - 1 /\ k + 1 = Len(seq) /\ Len(seq) \in 1 .. Len(seq)
          /\ Len(seq) - 1 = k /\ k \in 0 .. Len(seq)
      BY <1>2
    <3>2. h[k] = IF k < i THEN run[k] ELSE run[Len(seq)] - 1
      BY <2>2, <3>1
    <3>3. k < i => i = Len(seq)
      BY <1>2
    <3>4. run[Len(seq)] = run[k] + cnt(Len(seq)) /\ run[k] \in Int
      BY <1>1, <1>4, <3>1
    <3> HIDE DEF k
    <3>5. CASE k < i
      <4>1. run[Len(seq)] = run[k] + 1 /\ h[k] = run[k]
        BY <1>6, <3>2, <3>3, <3>4, <3>5
      <4>2. run[k] = (run[k] + 1) - 1
        BY <3>4
      <4> QED
        BY <4>1, <4>2 DEF k
    <3> QED
      BY <3>2, <3>5 DEF k
  <2> QED
    BY <1>1, <2>1, <2>6, <2>7 DEF less
<1>7. CASE cnt(i) # 1
  <2> DEFINE h == [k \in 0 .. Len(seq) |-> IF k < i THEN run[k] ELSE run[k] - 1]
  <2>1. /\ Len(less) = Len(seq)
        /\ \A k \in 1 .. Len(seq) : less[k] = IF k = i THEN Reread(seq[i]) ELSE seq[k]
    BY <1>7, LessList
  <2>2. \A k \in 0 .. Len(seq) : h[k] = IF k < i THEN run[k] ELSE run[k] - 1
    OBVIOUS
  <2> HIDE DEF h, less
  <2>3. h[0] = 0
    <3>1. 0 \in 0 .. Len(seq) /\ 0 < i
      BY <1>2
    <3> QED
      BY <1>4, <2>2, <3>1
  <2>4. ASSUME NEW k \in 1 .. Len(less)
        PROVE  ~Over(less[k], time) /\ h[k] = h[k - 1] + less[k].pendingreceiverCount
    <3>1. k \in 1 .. Len(seq) /\ k \in 0 .. Len(seq) /\ k - 1 \in 0 .. Len(seq)
      BY <1>2, <2>1
    <3>2. run[k - 1] \in Int /\ run[k] \in Int
      BY <1>1, <3>1
    <3>3. run[k] = run[k - 1] + cnt(k)
      BY <1>4, <3>1
    <3>4. cnt(k) \in Int
      BY <1>3, <3>1
    <3>5. ~Over(less[k], time) /\ less[k].pendingreceiverCount =
                                     IF k = i THEN cnt(k) - 1 ELSE cnt(k)
      <4>1. seq[k] \in Message /\ ~Over(seq[k], time)
        BY <1>3, <3>1 DEF AllLive
      <4>2. /\ Reread(seq[k]).pendingreceiverCount = cnt(k) - 1
            /\ ~Over(Reread(seq[k]), time)
        BY <4>1, RereadFields DEF Over
      <4> QED
        BY <2>1, <3>1, <4>1, <4>2
    <3>6. h[k] = IF k < i THEN run[k] ELSE run[k] - 1
      BY <2>2, <3>1
    <3>7. h[k - 1] = IF k - 1 < i THEN run[k - 1] ELSE run[k - 1] - 1
      BY <2>2, <3>1
    <3> HIDE DEF cnt
    <3>8. \/ k < i /\ k - 1 < i /\ k # i
          \/ k = i /\ k - 1 < i /\ ~(k < i)
          \/ k # i /\ ~(k < i) /\ ~(k - 1 < i)
      BY <1>2, <3>1
    <3> QED
      BY <3>2, <3>3, <3>4, <3>5, <3>6, <3>7, <3>8
  <2>5. Sums(h, less, time)
    BY <2>3, <2>4 DEF Sums
  <2>6. Pending(less, time) = h[Len(less)]
    BY <1>5, <2>5, PendingIs
  <2>7. h[Len(seq)] = run[Len(seq)] - 1
    <3>1. Len(seq) \in 0 .. Len(seq) /\ ~(Len(seq) < i)
      BY <1>2
    <3> QED
      BY <2>2, <3>1
  <2> QED
    BY <1>1, <2>1, <2>6, <2>7 DEF less
<1> QED
  BY <1>6, <1>7

\* In the words of ReadingsConserved.
Conserved(s) ==
    queue_arr'[s] # NULL =>
      LET before == PendingReadings(queue_arr[s].msgs)
          after  == PendingReadings(queue_arr'[s].msgs)
      IN  CASE reply'.code = MSG_REC_SUCCESS /\ queue_arr'[s] # queue_arr[s] ->
                 after = before - 1
            [] reply'.code \in {MSG_ADD_SUCCESS, MSG_ADD_FAIL} -> after >= before
            [] OTHER -> after = before

\* What a step has to do to the sum of the readings, by its reply.
LEMMA ConservedIf ==
    ASSUME NEW s,
           LET before == Pending(queue_arr[s].msgs, clock)
               after  == Pending(queue_arr'[s].msgs, clock)
           IN  /\ before \in Int
               /\ \/ /\ after = before - 1
                     /\ reply'.code = MSG_REC_SUCCESS /\ queue_arr'[s] # queue_arr[s]
                  \/ /\ after >= before
                     /\ reply'.code \in {MSG_ADD_SUCCESS, MSG_ADD_FAIL}
                  \/ /\ after = before
                     /\ reply'.code # MSG_REC_SUCCESS \/ queue_arr'[s] = queue_arr[s]
    PROVE  Conserved(s)
<1> DEFINE before == Pending(queue_arr[s].msgs, clock)
           after  == Pending(queue_arr'[s].msgs, clock)
           taken  == reply'.code = MSG_REC_SUCCESS /\ queue_arr'[s] # queue_arr[s]
           added  == reply'.code \in {MSG_ADD_SUCCESS, MSG_ADD_FAIL}
<1>1. /\ before \in Int
      /\ \/ after = before - 1 /\ taken
         \/ after >= before /\ added
         \/ after = before /\ ~taken
  OBVIOUS
<1>2. ~(taken /\ added)
  BY DEF MSG_ADD_SUCCESS, MSG_ADD_FAIL, MSG_REC_SUCCESS
<1>3. Conserved(s) <=> (queue_arr'[s] # NULL =>
                           CASE taken -> after = before - 1
                             [] added -> after >= before
                             [] OTHER -> after = before)
  BY ReadingsArePending DEF Conserved
<1> HIDE DEF before, after, taken, added
<1>4. CASE taken
  BY <1>1, <1>2, <1>3, <1>4
<1>5. CASE ~taken /\ added
  <2>1. after >= before
    BY <1>1, <1>5
  <2> QED
    BY <1>3, <1>5, <2>1
<1>6. CASE ~taken /\ ~added
  BY <1>1, <1>3, <1>6
<1> QED
  BY <1>4, <1>5, <1>6

LEMMA StepConserves ==
    ASSUME TypesInv, MessagesStep, NEW s \in Open
    PROVE  Conserved(s)
<1> DEFINE q      == queue_arr[s]
           msgs   == q.msgs
           before == Pending(msgs, clock)
           after  == Pending(queue_arr'[s].msgs, clock)
<1>0. s \in Slots /\ q \in GoodQueue /\ msgs \in Seq(Message) /\ before \in Int
  <2>1. s \in Slots /\ q \in GoodQueue /\ msgs \in Seq(Message)
    BY OpenQueue
  <2> HIDE DEF msgs
  <2>2. PICK run : Sums(run, msgs, clock)
    BY <2>1, PendingRun
  <2> QED
    BY <2>1, <2>2, PendingIs
<1>1. CASE queue_arr'[s] = q
  BY <1>0, <1>1, ConservedIf
<1>2. ASSUME NEW t \in Slots, NEW r, Replaced(t, r), queue_arr'[s] # q
      PROVE  t = s /\ queue_arr'[s] = r
  BY <1>0, <1>2, OneSlot
<1>3. CASE UNCHANGED queue_arr
  BY <1>1, <1>3
<1>4. ASSUME NEW t \in Slots, NEW r, Begun(t, r)
      PROVE  Conserved(s)
  <2>1. queue_arr[t] = NULL /\ Replaced(t, r) /\ q # NULL
    BY <1>4 DEF Begun, Open
  <2> QED
    BY <1>1, <1>2, <2>1
<1>5. ASSUME NEW t \in Open, Ended(t)
      PROVE  Conserved(s)
  <2>1. t \in Slots /\ Replaced(t, NULL)
    BY <1>5, OpenQueue DEF Ended
  <2>2. CASE queue_arr'[s] = NULL
    BY <2>2 DEF Conserved
  <2> QED
    BY <1>1, <1>2, <2>1, <2>2
<1>6. ASSUME NEW t \in Open, NEW r, Configured(t, r)
      PROVE  Conserved(s)
  <2>1. t \in Slots /\ Replaced(t, r)
    BY <1>6, OpenQueue DEF Configured
  <2>2. reply'.code # MSG_REC_SUCCESS
    BY <1>6 DEF Configured, QUEUE_UPDATE_SUCCESS, MSG_REC_SUCCESS
  <2>3. CASE t = s /\ queue_arr'[s] = r
    <3>1. after = before
      BY <1>6, <2>3 DEF Configured
    <3> QED
      BY <1>0, <2>2, <3>1, ConservedIf
  <2> QED
    BY <1>1, <1>2, <2>1, <2>3
<1>7. ASSUME NEW t \in Open, NEW m \in Message, Sent(t, m)
      PROVE  Conserved(s)
  <2>1. t \in Slots /\ Replaced(t, add_to_queue(queue_arr[t], m))
    BY <1>7, OpenQueue DEF Sent
  <2>2. reply'.code \in {MSG_ADD_SUCCESS, MSG_ADD_FAIL}
    BY <1>7 DEF Sent
  <2>3. CASE t = s /\ queue_arr'[s] = add_to_queue(q, m)
    <3>1. queue_arr'[s].msgs = Append(msgs, m)
      BY <1>0, <2>3, AddAppends
    <3>2. after = IF Over(m, clock) THEN before ELSE before + m.pendingreceiverCount
      BY <1>0, <3>1, PendingAppend
    <3>3. m.pendingreceiverCount \in Nat
      <4>1. m.recieverIds \in Seq(Ids)
        BY ConstantsAssumption DEF Message, ConstantsAssumption
      <4>2. Len(m.recieverIds) \in Nat
        BY <4>1, LenProperties
      <4> QED
        BY <1>7, <4>2 DEF Sent
    <3>4. after >= before
      <4> HIDE DEF after, before
      <4> QED
        BY <1>0, <3>2, <3>3
    <3> QED
      BY <1>0, <2>2, <3>4, ConservedIf
  <2> QED
    BY <1>1, <1>2, <2>1, <2>3
<1> DEFINE live   == Living(msgs, clock)
           purged == PurgeExpired(q)
<1>8. /\ purged \in GoodQueue /\ purged.msgs = live /\ live \in Seq(Message)
      /\ AllLive(live, clock) /\ Pending(live, clock) = before
  <2>1. purged \in GoodQueue /\ purged.msgs = live /\ live \in Seq(Message)
    BY <1>0, PurgeLiving
  <2>2. AllLive(live, clock)
    BY <1>0, LivingIsLive
  <2> QED
    BY <1>0, <2>1, <2>2, PendingOfLiving
<1>9. ASSUME NEW t \in Open, NEW reader, NEW from, ToldNothing(t, reader, from)
      PROVE  Conserved(s)
  <2>1. t \in Slots /\ Replaced(t, PurgeExpired(queue_arr[t]))
    BY <1>9, OpenQueue DEF ToldNothing
  <2>2. reply'.code # MSG_REC_SUCCESS
    BY <1>9 DEF ToldNothing, MSG_REC_SUCCESS, MSG_REC_NO_MSG, REC_DLOCKED
  <2>3. CASE t = s /\ queue_arr'[s] = purged
    <3>1. after = before
      BY <1>8, <2>3
    <3> QED
      BY <1>0, <2>2, <3>1, ConservedIf
  <2> QED
    BY <1>1, <1>2, <2>1, <2>3
<1>10. ASSUME NEW t \in Open, NEW reader, NEW from, NEW i, Taken(t, reader, from, i)
       PROVE  Conserved(s)
  <2>1. /\ t \in Slots /\ Replaced(t, Consume(PurgeExpired(queue_arr[t]), i))
        /\ reply'.code = MSG_REC_SUCCESS
    BY <1>10, OpenQueue DEF Taken
  <2>2. CASE t = s /\ queue_arr'[s] = Consume(purged, i) /\ queue_arr'[s] # q
    <3>1. i \in 1 .. Len(live)
      BY <1>10, <2>2 DEF Taken, First
    <3> HIDE DEF live, purged
    <3>2. queue_arr'[s].msgs = Less(live, i)
      BY <1>8, <2>2, <3>1, ConsumeLess
    <3>3. after = before - 1
      BY <1>8, <3>1, <3>2, PendingLess
    <3> QED
      BY <1>0, <2>1, <2>2, <3>3, ConservedIf
  <2> QED
    BY <1>1, <1>2, <2>1, <2>2
<1> QED
  BY <1>3, <1>4, <1>5, <1>6, <1>7, <1>9, <1>10 DEF MessagesStep

\* No reading is lost or made up while a queue stays open: a receive takes one,
\* from the message it returns, a send only adds, and nothing else changes what
\* is still to come.
THEOREM ReadingsAreConserved == Spec => ReadingsConserved
<1>1. TypesInv /\ [Next]_vars => [ \A s \in Open : Conserved(s) ]_vars
  BY NextMessages, StepConserves
<1> QED
  BY <1>1, TypesInvInit, TypesInvStep, PTL DEF Spec, ReadingsConserved, Conserved

-----------------------------------------------------------------------------
(* The mailboxes.  Every step of the server is a step of Mailbox, or none. *)

\* What Boxes holds, slot by slot.
BoxesAre ==
    /\ Boxes = [n \in Names |-> Boxes[n]]
    /\ \A s \in Open : /\ queue_arr[s].name \in Names
                       /\ Boxes[queue_arr[s].name] = Living(queue_arr[s].msgs, clock)
    /\ \A n \in Names : (\A s \in Open : queue_arr[s].name # n) => Boxes[n] = NULL

LEMMA BoxesFound == TypesInv => BoxesAre
<1> SUFFICES ASSUME TypesInv PROVE BoxesAre
  OBVIOUS
<1>1. Boxes = [n \in Names |-> Boxes[n]] /\ \A n \in Names : Boxes[n] = BoxOf(n)
  BY DEF Boxes
<1>2. ASSUME NEW s \in Open
      PROVE  /\ queue_arr[s].name \in Names
             /\ Boxes[queue_arr[s].name] = Living(queue_arr[s].msgs, clock)
  <2> DEFINE n   == queue_arr[s].name
             idx == check_queue_exist(n)
  <2>1. n \in Names
    BY OpenQueue DEF GoodQueue, Queue
  <2>2. idx # NULL
    BY QueueFound DEF TypesInv
  <2>3. idx \in Open /\ queue_arr[idx].name = n
    BY <2>2, QueueFound DEF TypesInv
  <2>4. idx = s
    BY <2>3 DEF TypesInv, TablesInv
  <2>5. BoxOf(n) = LiveMessages(queue_arr[idx].msgs)
    BY <2>2 DEF BoxOf
  <2> HIDE DEF idx
  <2> QED
    BY <1>1, <2>1, <2>4, <2>5, LiveIsLiving
<1>3. ASSUME NEW n \in Names, \A s \in Open : queue_arr[s].name # n
      PROVE  Boxes[n] = NULL
  <2>1. check_queue_exist(n) = NULL
    BY <1>3, QueueFound DEF TypesInv
  <2> QED
    BY <1>1, <2>1 DEF BoxOf
<1> QED
  BY <1>1, <1>2, <1>3 DEF BoxesAre

LEMMA BoxesFoundNext == TypesInv' => BoxesAre'
BY BoxesFound, PTL

LEMMA LivingIsNotNull ==
    ASSUME NEW msgs \in Seq(Message), NEW time
    PROVE  Living(msgs, time) \in Seq(Message) /\ Living(msgs, time) # NULL
BY LivingPicks, NullAssumption DEF NullAssumption

\* A queue changed in place is a mailbox changed in place.
LEMMA ReplacedBox ==
    ASSUME TypesInv, TypesInv', NEW s \in Open, NEW q \in GoodQueue, Replaced(s, q),
           q.name = queue_arr[s].name, UNCHANGED clock
    PROVE  Boxes' = [Boxes EXCEPT ![q.name] = Living(q.msgs, clock)]
<1>1. BoxesAre /\ BoxesAre'
  BY BoxesFound, BoxesFoundNext
<1>2. /\ s \in Slots /\ queue_arr'[s] = q
      /\ \A t \in Slots : t # s => queue_arr'[t] = queue_arr[t]
  BY OpenQueue, OneSlot
<1>3. Open' = Open
  BY <1>2, NotNull DEF Open
<1> DEFINE new == [Boxes EXCEPT ![q.name] = Living(q.msgs, clock)]
<1>4. new = [n \in Names |-> IF n = q.name THEN Living(q.msgs, clock) ELSE Boxes[n]]
  BY <1>1 DEF BoxesAre
<1>5. Boxes' = [n \in Names |-> Boxes'[n]]
  BY <1>1 DEF BoxesAre
<1>6. ASSUME NEW n \in Names
      PROVE  Boxes'[n] = IF n = q.name THEN Living(q.msgs, clock) ELSE Boxes[n]
  <2>1. CASE n = q.name
    <3>1. Boxes'[queue_arr'[s].name] = Living(queue_arr'[s].msgs, clock')
      BY <1>1, <1>3 DEF BoxesAre
    <3> QED
      BY <1>2, <2>1, <3>1
  <2>2. ASSUME n # q.name, NEW t \in Open, queue_arr[t].name = n
        PROVE  Boxes'[n] = Boxes[n]
    <3>1. t # s /\ t \in Slots
      BY <2>2, OpenQueue
    <3>2. queue_arr'[t] = queue_arr[t]
      BY <1>2, <3>1
    <3>3. Boxes'[queue_arr'[t].name] = Living(queue_arr'[t].msgs, clock')
          /\ Boxes[queue_arr[t].name] = Living(queue_arr[t].msgs, clock)
      BY <1>1, <1>3 DEF BoxesAre
    <3> QED
      BY <2>2, <3>2, <3>3
  <2>3. CASE n # q.name /\ \A t \in Open : queue_arr[t].name # n
    <3>1. \A t \in Open' : queue_arr'[t].name # n
      <4>1. ASSUME NEW t \in Open PROVE queue_arr'[t].name # n
        BY <1>2, <2>3, OpenQueue
      <4> QED
        BY <1>3, <4>1
    <3> QED
      BY <1>1, <2>3, <3>1 DEF BoxesAre
  <2> QED
    BY <2>1, <2>2, <2>3
<1> HIDE DEF new
<1>7. Boxes' = new
  BY <1>4, <1>5, <1>6
<1> QED
  BY <1>7 DEF new

\* Mailboxes are where they were when the queues are.
LEMMA SameBoxes ==
    ASSUME TypesInv, TypesInv', UNCHANGED <<queue_arr, clock>>
    PROVE  Boxes' = Boxes
<1>1. BoxesAre /\ BoxesAre'
  BY BoxesFound, BoxesFoundNext
<1>2. Open' = Open
  BY DEF Open
<1>3. ASSUME NEW n \in Names
      PROVE  Boxes'[n] = Boxes[n]
  BY <1>1, <1>2 DEF BoxesAre
<1> QED
  BY <1>1, <1>3 DEF BoxesAre

\* A new queue is a new mailbox.
LEMMA BegunBox ==
    ASSUME TypesInv, TypesInv', NEW s \in Slots, NEW q \in GoodQueue, Begun(s, q),
           UNCHANGED clock
    PROVE  /\ q.name \in Names /\ Boxes[q.name] = NULL
           /\ Boxes' = [Boxes EXCEPT ![q.name] = <<>>]
<1>1. BoxesAre /\ BoxesAre'
  BY BoxesFound, BoxesFoundNext
<1>2. /\ queue_arr'[s] = q /\ \A t \in Slots : t # s => queue_arr'[t] = queue_arr[t]
      /\ queue_arr[s] = NULL /\ q.msgs = <<>>
      /\ \A t \in Open : queue_arr[t].name # q.name
  BY OneSlot DEF Begun
<1>3. Open' = Open \cup {s} /\ s \notin Open
  BY <1>2, NotNull DEF Open
<1>4. q.name \in Names
  BY DEF GoodQueue, Queue
<1>5. Boxes[q.name] = NULL
  BY <1>1, <1>2, <1>4 DEF BoxesAre
<1> DEFINE new == [Boxes EXCEPT ![q.name] = <<>>]
<1>6. new = [n \in Names |-> IF n = q.name THEN <<>> ELSE Boxes[n]]
  BY <1>1 DEF BoxesAre
<1>7. Boxes' = [n \in Names |-> Boxes'[n]]
  BY <1>1 DEF BoxesAre
<1>8. Living(<<>>, clock') = <<>>
  <2>1. <<>> \in Seq(Message) /\ AllLive(<<>>, clock')
    BY DEF AllLive
  <2> QED
    BY <2>1, LivingOfLive
<1>9. ASSUME NEW n \in Names
      PROVE  Boxes'[n] = IF n = q.name THEN <<>> ELSE Boxes[n]
  <2>1. CASE n = q.name
    <3>1. Boxes'[queue_arr'[s].name] = Living(queue_arr'[s].msgs, clock')
      BY <1>1, <1>3 DEF BoxesAre
    <3> QED
      BY <1>2, <1>8, <2>1, <3>1
  <2>2. ASSUME n # q.name, NEW t \in Open, queue_arr[t].name = n
        PROVE  Boxes'[n] = Boxes[n]
    <3>1. queue_arr'[t] = queue_arr[t]
      BY <1>2, <1>3, OpenQueue
    <3>2. Boxes'[queue_arr'[t].name] = Living(queue_arr'[t].msgs, clock')
          /\ Boxes[queue_arr[t].name] = Living(queue_arr[t].msgs, clock)
      BY <1>1, <1>3 DEF BoxesAre
    <3> QED
      BY <2>2, <3>1, <3>2
  <2>3. CASE n # q.name /\ \A t \in Open : queue_arr[t].name # n
    <3>1. \A t \in Open' : queue_arr'[t].name # n
      <4>1. ASSUME NEW t \in Open PROVE queue_arr'[t].name # n
        BY <1>2, <1>3, <2>3, OpenQueue
      <4> QED
        BY <1>2, <1>3, <2>3, <4>1
    <3> QED
      BY <1>1, <2>3, <3>1 DEF BoxesAre
  <2> QED
    BY <2>1, <2>2, <2>3
<1> HIDE DEF new
<1>10. Boxes' = new
  BY <1>6, <1>7, <1>9
<1> QED
  BY <1>4, <1>5, <1>10 DEF new

\* A queue closed is a mailbox taken away.
LEMMA EndedBox ==
    ASSUME TypesInv, TypesInv', NEW s \in Open, Ended(s), UNCHANGED clock
    PROVE  /\ queue_arr[s].name \in Names /\ Boxes[queue_arr[s].name] # NULL
           /\ Boxes' = [Boxes EXCEPT ![queue_arr[s].name] = NULL]
<1>1. BoxesAre /\ BoxesAre'
  BY BoxesFound, BoxesFoundNext
<1>2. /\ s \in Slots /\ queue_arr'[s] = NULL
      /\ \A t \in Slots : t # s => queue_arr'[t] = queue_arr[t]
  BY OpenQueue, OneSlot DEF Ended
<1>3. Open' = Open \ {s}
  BY <1>2 DEF Open
<1> DEFINE gone == queue_arr[s].name
           new  == [Boxes EXCEPT ![gone] = NULL]
<1>4. gone \in Names /\ Boxes[gone] # NULL
  BY <1>1, OpenQueue, LivingIsNotNull DEF BoxesAre
<1>5. new = [n \in Names |-> IF n = gone THEN NULL ELSE Boxes[n]]
  BY <1>1 DEF BoxesAre
<1>6. Boxes' = [n \in Names |-> Boxes'[n]]
  BY <1>1 DEF BoxesAre
<1>7. \A t \in Open' : t \in Open /\ queue_arr'[t] = queue_arr[t]
                       /\ queue_arr'[t].name # gone
  <2>1. \A t \in Open' : t \in Open /\ t # s /\ t \in Slots
    BY <1>3, OpenQueue
  <2>2. \A t \in Open : queue_arr[t].name = gone => t = s
    BY DEF TypesInv, TablesInv
  <2> HIDE DEF gone
  <2> QED
    BY <1>2, <2>1, <2>2
<1> HIDE DEF gone
<1>8. ASSUME NEW n \in Names
      PROVE  Boxes'[n] = IF n = gone THEN NULL ELSE Boxes[n]
  <2>1. CASE n = gone
    BY <1>1, <1>7, <2>1 DEF BoxesAre
  <2>2. ASSUME n # gone, NEW t \in Open, queue_arr[t].name = n
        PROVE  Boxes'[n] = Boxes[n]
    <3>1. t \in Open' /\ queue_arr'[t] = queue_arr[t]
      BY <1>2, <1>3, <2>2, OpenQueue DEF gone
    <3>2. Boxes'[queue_arr'[t].name] = Living(queue_arr'[t].msgs, clock')
          /\ Boxes[queue_arr[t].name] = Living(queue_arr[t].msgs, clock)
      BY <1>1, <3>1 DEF BoxesAre
    <3> QED
      BY <2>2, <3>1, <3>2
  <2>3. CASE n # gone /\ \A t \in Open : queue_arr[t].name # n
    <3>1. \A t \in Open' : queue_arr'[t].name # n
      BY <1>7, <2>3
    <3> QED
      BY <1>1, <2>3, <3>1 DEF BoxesAre
  <2> QED
    BY <2>1, <2>2, <2>3
<1> HIDE DEF new
<1>9. Boxes' = new
  BY <1>5, <1>6, <1>8
<1> QED
  BY <1>4, <1>9 DEF gone, new

\* What the callers are told.
LEMMA TellingOther == reply.code \notin {MSG_REC_SUCCESS, MSG_REC_NO_MSG, REC_DLOCKED}
                          => Telling = Mail!Other
BY DEF Telling, Mail!Other, Mail!Told, Told

LEMMA TellingNothing == reply.code \in {MSG_REC_NO_MSG, REC_DLOCKED}
    => Telling = Mail!Told("nothing", reply.req.name, reply.req.recid, reply.req.expected)
BY DEF Telling, Mail!Told, Told, MSG_REC_SUCCESS, MSG_REC_NO_MSG, REC_DLOCKED

LEMMA TellingLetter == reply.code = MSG_REC_SUCCESS
    => Telling = Mail!Told("letter", reply.msg, reply.req.recid, reply.req.expected)
BY DEF Telling, Mail!Told, Told, MSG_REC_SUCCESS, MSG_REC_NO_MSG, REC_DLOCKED

LEMMA QuietIsOther == Quiet => Telling' = Mail!Other
<1>1. (reply.code \notin {MSG_REC_SUCCESS, MSG_REC_NO_MSG, REC_DLOCKED}
          => Telling = Mail!Other)'
  BY TellingOther, PTL
<1> QED
  BY <1>1 DEF Quiet, Mail!Other, Mail!Told

LEMMA NothingIsTold == reply'.code \in {MSG_REC_NO_MSG, REC_DLOCKED}
    => Telling' = Mail!Told("nothing", reply'.req.name, reply'.req.recid, reply'.req.expected)
<1>1. (reply.code \in {MSG_REC_NO_MSG, REC_DLOCKED}
          => Telling = Mail!Told("nothing", reply.req.name, reply.req.recid, reply.req.expected))'
  BY TellingNothing, PTL
<1> QED
  BY <1>1 DEF Mail!Told

LEMMA LetterIsTold == reply'.code = MSG_REC_SUCCESS
    => Telling' = Mail!Told("letter", reply'.msg, reply'.req.recid, reply'.req.expected)
<1>1. (reply.code = MSG_REC_SUCCESS
          => Telling = Mail!Told("letter", reply.msg, reply.req.recid, reply.req.expected))'
  BY TellingLetter, PTL
<1> QED
  BY <1>1 DEF Mail!Told

\* A message sent is a letter posted, unless its time is over already.
LEMMA SentPosts ==
    ASSUME TypesInv, TypesInv', NEW s \in Open, NEW m \in Message, Sent(s, m),
           UNCHANGED clock
    PROVE  Mail!MailNext
<1> DEFINE q   == queue_arr[s]
           n   == q.name
           box == Living(q.msgs, clock)
           add == add_to_queue(q, m)
<1>0. BoxesAre
  BY BoxesFound
<1>1. /\ q \in GoodQueue /\ q.msgs \in Seq(Message) /\ n \in Names
      /\ Boxes[n] = box /\ box \in Seq(Message) /\ box # NULL
  BY <1>0, OpenQueue, LivingIsNotNull DEF BoxesAre
<1>2. add \in GoodQueue /\ add.name = n /\ add.msgs = Append(q.msgs, m)
  BY <1>1, AddGood, AddAppends
<1>3. Boxes' = [Boxes EXCEPT ![n] = Living(add.msgs, clock)]
  <2>1. Replaced(s, add)
    BY DEF Sent
  <2> HIDE DEF add
  <2> QED
    BY <1>2, <2>1, ReplacedBox
<1>4. Living(add.msgs, clock) = IF Over(m, clock) THEN box ELSE Append(box, m)
  BY <1>1, <1>2, LivingAppend
<1>5. Telling' = Mail!Other
  <2>1. reply'.code \in {MSG_ADD_SUCCESS, MSG_ADD_FAIL}
    BY DEF Sent
  <2>2. Quiet
    BY <2>1 DEF Quiet, MSG_ADD_SUCCESS, MSG_ADD_FAIL, MSG_REC_SUCCESS, MSG_REC_NO_MSG,
                REC_DLOCKED
  <2> QED
    BY <2>2, QuietIsOther
<1> HIDE DEF q, n, box, add
<1>6. CASE Over(m, clock)
  <2>1. Boxes' = Boxes
    BY <1>0, <1>1, <1>3, <1>4, <1>6 DEF BoxesAre
  <2>2. Mail!Else
    BY <1>5, <2>1 DEF Mail!Else
  <2> QED
    BY <2>2 DEF Mail!MailNext
<1>7. CASE ~Over(m, clock)
  <2> DEFINE new == Append(box, m)
  <2>1. /\ new # <<>> /\ new # NULL /\ Last(new) = m
    <3>1. /\ new \in Seq(Message) /\ new # <<>> /\ Len(new) = Len(box) + 1
          /\ new[Len(box) + 1] = m
      BY <1>1, AppendProperties
    <3> HIDE DEF new
    <3> QED
      BY <3>1, NullAssumption DEF NullAssumption, Last
  <2>2. Boxes' = [Boxes EXCEPT ![n] = new]
    BY <1>3, <1>4, <1>7
  <2> HIDE DEF new
  <2>3. Boxes'[n] = new
    BY <1>0, <1>1, <2>2 DEF BoxesAre
  <2>4. m \in Mail!Letter /\ m.pendingreceiverCount = Len(m.recieverIds)
    <3>1. m.recieverIds \in Seq(Ids) /\ m.pendingreceiverCount = Len(m.recieverIds)
      BY ConstantsAssumption DEF Message, ConstantsAssumption, Sent
    <3>2. m.pendingreceiverCount \in Nat
      BY <3>1, LenProperties
    <3> QED
      BY <3>1, <3>2 DEF Message, Mail!Letter
  <2>5. ~Mail!Over(m, clock)
    BY <1>7 DEF Over, Mail!Over
  <2>6. Boxes' = [Boxes EXCEPT ![n] = Append(Boxes[n], m)]
    BY <1>1, <2>2 DEF new
  <2>7. Mail!Post(n)
    <3>1. Mail!Last(Boxes'[n]) = m
      BY <2>1, <2>3 DEF Last, Mail!Last
    <3> QED
      BY <1>1, <1>5, <2>1, <2>3, <2>4, <2>5, <2>6, <3>1, Zenon DEF Mail!Post
  <2> QED
    BY <1>1, <2>7 DEF Mail!MailNext
<1> QED
  BY <1>6, <1>7

\* The letters for a reader are the living messages for it.
LEMMA LettersFor ==
    ASSUME NEW n, NEW live \in Seq(Message), Boxes[n] = live, NEW reader, NEW from
    PROVE  Mail!For(n, reader, from) = {i \in 1 .. Len(live) : Matches(live[i], reader, from)}
<1>1. DOMAIN live = 1 .. Len(live)
  BY LenProperties
<1> QED
  BY <1>1 DEF Mail!For, Mail!ToSet, Matches, ToSet

\* A receive that finds nothing for its reader changes no mailbox.
LEMMA ToldNothingIsNothing ==
    ASSUME TypesInv, TypesInv', NEW s \in Open, NEW reader \in Ids,
           NEW from \in Ids \cup {AnySender}, ToldNothing(s, reader, from), UNCHANGED clock
    PROVE  Mail!MailNext
<1> DEFINE q      == queue_arr[s]
           n      == q.name
           live   == Living(q.msgs, clock)
           purged == PurgeExpired(q)
<1>0. BoxesAre
  BY BoxesFound
<1>1. /\ q \in GoodQueue /\ q.msgs \in Seq(Message) /\ n \in Names
      /\ Boxes[n] = live /\ live \in Seq(Message) /\ live # NULL
  BY <1>0, OpenQueue, LivingIsNotNull DEF BoxesAre
<1>2. purged \in GoodQueue /\ purged.name = n /\ purged.msgs = live
  BY <1>1, PurgeLiving
<1>3. Boxes' = [Boxes EXCEPT ![n] = Living(purged.msgs, clock)]
  <2>1. Replaced(s, purged)
    BY DEF ToldNothing
  <2> HIDE DEF purged
  <2> QED
    BY <1>2, <2>1, ReplacedBox
<1>4. Living(purged.msgs, clock) = live
  BY <1>1, <1>2, LivingTwice
<1>5. /\ \A j \in 1 .. Len(live) : ~Matches(live[j], reader, from)
      /\ reply'.code \in {MSG_REC_NO_MSG, REC_DLOCKED}
      /\ reply'.req = [name |-> n, recid |-> reader, expected |-> from]
  BY DEF ToldNothing
<1> HIDE DEF q, n, live, purged
<1>6. Boxes' = Boxes
  BY <1>0, <1>1, <1>3, <1>4 DEF BoxesAre
<1>7. Mail!For(n, reader, from) = {}
  BY <1>1, <1>5, LettersFor
<1>8. Telling' = Mail!Told("nothing", n, reader, from)
  BY <1>5, NothingIsTold
<1>9. Mail!Nothing(n, reader, from)
  BY <1>1, <1>6, <1>7, <1>8 DEF Mail!Nothing
<1> QED
  BY <1>1, <1>9 DEF Mail!MailNext

\* There is one first message.
LEMMA ForemostIsFirst ==
    ASSUME NEW n, NEW live \in Seq(Message), Boxes[n] = live, NEW reader, NEW from,
           NEW k, First(k, live, reader, from)
    PROVE  Mail!Foremost(n, Mail!For(n, reader, from)) = k
<1> DEFINE S == Mail!For(n, reader, from)
           Best(i) == \A j \in S \ {i} :
               LET m == Boxes[n][i]  o == Boxes[n][j]
               IN  m.priority < o.priority \/ (m.priority = o.priority /\ i < j)
<1>1. S = {i \in 1 .. Len(live) : Matches(live[i], reader, from)}
  BY LettersFor
<1>2. Mail!Foremost(n, S) = CHOOSE i \in S : Best(i)
  BY DEF Mail!Foremost
<1> HIDE DEF S
<1>3. \A i, j : Before(live[i], i, live[j], j) <=>
          (live[i].priority < live[j].priority
             \/ (live[i].priority = live[j].priority /\ i < j))
  BY DEF Before
<1>4. \A i : Best(i) <=> \A j \in S \ {i} : Before(live[i], i, live[j], j)
  BY <1>3
<1> HIDE DEF Best
<1>5. k \in S /\ Best(k)
  BY <1>1, <1>4 DEF First
<1>6. ASSUME NEW i \in S, Best(i)
      PROVE  i = k
  <2> SUFFICES ASSUME i # k PROVE FALSE
    OBVIOUS
  <2>1. Before(live[i], i, live[k], k) /\ Before(live[k], k, live[i], i)
    BY <1>4, <1>5, <1>6
  <2>2. i \in Int /\ k \in Int /\ live[i].priority \in Int /\ live[k].priority \in Int
    <3>1. i \in 1 .. Len(live) /\ k \in 1 .. Len(live)
      BY <1>1, <1>5
    <3>2. live[i] \in Message /\ live[k] \in Message
      BY <3>1, ElementOfSeq
    <3>3. live[i].priority \in Prios /\ live[k].priority \in Prios
      BY <3>2 DEF Message
    <3>4. Len(live) \in Nat /\ Prios \subseteq Int
      BY LenProperties, ConstantsAssumption DEF ConstantsAssumption
    <3>5. i \in Int /\ k \in Int
      BY <3>1, <3>4
    <3> QED
      BY <3>3, <3>4, <3>5
  <2> QED
    BY <2>1, <2>2 DEF Before
<1>7. (CHOOSE i \in S : Best(i)) = k
  BY <1>5, <1>6
<1> QED
  BY <1>2, <1>7 DEF S

\* A reading makes no message older.
LEMMA LessLive ==
    ASSUME NEW msgs \in Seq(Message), NEW time, AllLive(msgs, time), NEW i \in 1 .. Len(msgs)
    PROVE  AllLive(Less(msgs, i), time)
<1>1. msgs[i] \in Message /\ Len(msgs) \in Nat
  BY ElementOfSeq, LenProperties
<1>2. CASE msgs[i].pendingreceiverCount = 1
  <2>1. /\ Len(Less(msgs, i)) = Len(msgs) - 1
        /\ \A k \in 1 .. Len(msgs) - 1 :
              Less(msgs, i)[k] = IF k < i THEN msgs[k] ELSE msgs[k + 1]
    BY <1>2, LessList
  <2>2. \A k \in 1 .. Len(msgs) - 1 : k \in 1 .. Len(msgs) /\ k + 1 \in 1 .. Len(msgs)
    BY <1>1
  <2> QED
    BY <2>1, <2>2 DEF AllLive
<1>3. CASE msgs[i].pendingreceiverCount # 1
  <2>1. /\ Len(Less(msgs, i)) = Len(msgs)
        /\ \A k \in 1 .. Len(msgs) :
              Less(msgs, i)[k] = IF k = i THEN Reread(msgs[i]) ELSE msgs[k]
    BY <1>3, LessList
  <2>2. ~Over(Reread(msgs[i]), time)
    BY <1>1, RereadFields DEF AllLive, Over
  <2> QED
    BY <2>1, <2>2 DEF AllLive
<1> QED
  BY <1>2, <1>3

\* A message received is a letter taken.
LEMMA TakenIsTake ==
    ASSUME TypesInv, TypesInv', NEW s \in Open, NEW reader \in Ids,
           NEW from \in Ids \cup {AnySender}, NEW k, Taken(s, reader, from, k),
           UNCHANGED clock
    PROVE  Mail!MailNext
<1> DEFINE q      == queue_arr[s]
           n      == q.name
           live   == Living(q.msgs, clock)
           purged == PurgeExpired(q)
           left   == Consume(purged, k)
<1>0. BoxesAre
  BY BoxesFound
<1>1. /\ q \in GoodQueue /\ q.msgs \in Seq(Message) /\ n \in Names
      /\ Boxes[n] = live /\ live \in Seq(Message) /\ live # NULL
  BY <1>0, OpenQueue, LivingIsNotNull DEF BoxesAre
<1>2. purged \in GoodQueue /\ purged.name = n /\ purged.msgs = live
  BY <1>1, PurgeLiving
<1>3. /\ First(k, live, reader, from) /\ k \in 1 .. Len(live)
      /\ Matches(live[k], reader, from)
      /\ reply'.code = MSG_REC_SUCCESS /\ reply'.msg = live[k]
      /\ reply'.req = [recid |-> reader, expected |-> from]
      /\ Replaced(s, left)
  BY DEF Taken, First
<1>4. AllLive(live, clock)
  BY <1>1, LivingIsLive
<1> HIDE DEF q, n, live, purged
<1>5. left \in GoodQueue /\ left.name = n /\ left.msgs = Less(live, k)
  BY <1>2, <1>3, ConsumeGood, ConsumeLess
<1> HIDE DEF left
<1>6. Living(left.msgs, clock) = Less(live, k)
  <2>1. AllLive(Less(live, k), clock) /\ Less(live, k) \in Seq(Message)
    BY <1>1, <1>3, <1>4, LessLive, LessList
  <2> QED
    BY <1>5, <2>1, LivingOfLive
<1>7. Boxes' = [Boxes EXCEPT ![n] = Less(live, k)]
  <2>1. n = queue_arr[s].name
    BY DEF n, q
  <2>2. Boxes' = [Boxes EXCEPT ![left.name] = Living(left.msgs, clock)]
    BY <1>3, <1>5, <2>1, ReplacedBox
  <2> QED
    BY <1>5, <1>6, <2>2
<1>8. /\ Mail!Foremost(n, Mail!For(n, reader, from)) = k
      /\ Mail!For(n, reader, from) # {}
  <2>1. Mail!For(n, reader, from)
            = {i \in 1 .. Len(live) : Matches(live[i], reader, from)}
    BY <1>1, LettersFor
  <2>2. k \in Mail!For(n, reader, from)
    BY <1>3, <2>1
  <2>3. Mail!Foremost(n, Mail!For(n, reader, from)) = k
    BY <1>1, <1>3, ForemostIsFirst
  <2> QED
    BY <2>2, <2>3
<1>9. Telling' = Mail!Told("letter", live[k], reader, from)
  BY <1>3, LetterIsTold
<1>10. Telling'.letter = live[k]
  BY <1>9 DEF Mail!Told
<1>11. Boxes' = [Boxes EXCEPT ![n] =
                    IF live[k].pendingreceiverCount = 1 THEN RemoveAt(Boxes[n], k)
                    ELSE [Boxes[n] EXCEPT ![k] = Mail!Read(live[k])]]
  <2>1. [live EXCEPT ![k].pendingreceiverCount = @ - 1] = [live EXCEPT ![k] = Mail!Read(live[k])]
    BY DEF Mail!Read
  <2>2. Less(live, k) = IF live[k].pendingreceiverCount = 1 THEN RemoveAt(live, k)
                        ELSE [live EXCEPT ![k] = Mail!Read(live[k])]
    BY <2>1 DEF Less
  <2> QED
    BY <1>1, <1>7, <2>2
<1>12. Mail!Take(n, reader, from)
  <2>1. Mail!RemoveAt(Boxes[n], k) = RemoveAt(Boxes[n], k)
    BY DEF Mail!RemoveAt, RemoveAt
  <2>2. Boxes[n][k] = live[k]
    BY <1>1
  <2> QED
    BY <1>1, <1>8, <1>9, <1>10, <1>11, <2>1, <2>2, Zenon DEF Mail!Take
<1> QED
  BY <1>1, <1>12 DEF Mail!MailNext

\* A queue opened is a mailbox opened.
LEMMA BegunOpens ==
    ASSUME TypesInv, TypesInv', NEW s \in Slots, NEW q \in GoodQueue, Begun(s, q),
           UNCHANGED clock
    PROVE  Mail!MailNext
<1>1. /\ q.name \in Names /\ Boxes[q.name] = NULL
      /\ Boxes' = [Boxes EXCEPT ![q.name] = <<>>]
  BY BegunBox
<1>2. Telling' = Mail!Other
  BY QuietIsOther DEF Begun
<1>3. Mail!Open(q.name)
  BY <1>1, <1>2 DEF Mail!Open
<1> QED
  BY <1>1, <1>3 DEF Mail!MailNext

\* A queue closed is a mailbox closed, whatever lay in it.
LEMMA EndedCloses ==
    ASSUME TypesInv, TypesInv', NEW s \in Open, Ended(s), UNCHANGED clock
    PROVE  Mail!MailNext
<1> DEFINE n == queue_arr[s].name
<1>1. n \in Names /\ Boxes[n] # NULL /\ Boxes' = [Boxes EXCEPT ![n] = NULL]
  BY EndedBox
<1>2. Telling' = Mail!Other
  BY QuietIsOther DEF Ended
<1> HIDE DEF n
<1>3. Mail!Close(n)
  BY <1>1, <1>2 DEF Mail!Close
<1> QED
  BY <1>1, <1>3 DEF Mail!MailNext

\* A mailbox has neither a capacity nor a blocking type.
LEMMA ConfiguredIsElse ==
    ASSUME TypesInv, TypesInv', NEW s \in Open, NEW q \in GoodQueue, Configured(s, q),
           UNCHANGED clock
    PROVE  Mail!MailNext
<1>0. BoxesAre
  BY BoxesFound
<1>1. Replaced(s, q) /\ q.name = queue_arr[s].name /\ q.msgs = queue_arr[s].msgs
  BY DEF Configured
<1>2. Boxes' = [Boxes EXCEPT ![q.name] = Living(q.msgs, clock)]
  BY <1>1, ReplacedBox
<1>3. Boxes[q.name] = Living(q.msgs, clock) /\ q.name \in Names
  BY <1>0, <1>1 DEF BoxesAre
<1>4. Boxes' = Boxes
  BY <1>0, <1>2, <1>3 DEF BoxesAre
<1>5. Quiet
  BY DEF Configured, Quiet, QUEUE_UPDATE_SUCCESS, MSG_REC_SUCCESS, MSG_REC_NO_MSG,
         REC_DLOCKED
<1>6. Mail!Else
  BY <1>4, <1>5, QuietIsOther DEF Mail!Else
<1> QED
  BY <1>6 DEF Mail!MailNext

\* Every call, and the end of a process, is a step of the mailboxes.
LEMMA MessagesStepMaps ==
    ASSUME TypesInv, TypesInv', MessagesStep, UNCHANGED clock
    PROVE  Mail!MailNext
<1>1. CASE UNCHANGED queue_arr /\ Quiet
  <2>1. Mail!Else
    BY <1>1, SameBoxes, QuietIsOther DEF Mail!Else
  <2> QED
    BY <2>1 DEF Mail!MailNext
<1>2. CASE \E s \in Slots, q \in GoodQueue : Begun(s, q)
  BY <1>2, BegunOpens
<1>3. CASE \E s \in Open : Ended(s)
  BY <1>3, EndedCloses
<1>4. CASE \E s \in Open, q \in GoodQueue : Configured(s, q)
  BY <1>4, ConfiguredIsElse
<1>5. CASE \E s \in Open, m \in Message : Sent(s, m)
  BY <1>5, SentPosts
<1>6. ASSUME NEW s \in Open, NEW reader \in Ids, NEW from \in Ids \cup {AnySender},
             ToldNothing(s, reader, from)
      PROVE  Mail!MailNext
  BY <1>6, ToldNothingIsNothing
<1>7. ASSUME NEW s \in Open, NEW reader \in Ids, NEW from \in Ids \cup {AnySender},
             NEW i \in Nat, Taken(s, reader, from, i)
      PROVE  Mail!MailNext
  BY <1>7, TakenIsTake
<1> QED
  BY <1>1, <1>2, <1>3, <1>4, <1>5, <1>6, <1>7 DEF MessagesStep

\* Time takes the same letters from the mailbox as it kills in the queue.
LEMMA TickPasses ==
    ASSUME TypesInv, TypesInv', Tick
    PROVE  Mail!MailNext
<1>0. BoxesAre /\ BoxesAre'
  BY BoxesFound, BoxesFoundNext
<1>1. UNCHANGED queue_arr /\ clock' = clock + 1 /\ Open' = Open
  BY DEF Tick, Open
<1>2. Telling' = Mail!Other
  <2>1. Quiet
    BY DEF Tick, Quiet, NoReply, Reply, MSG_REC_SUCCESS, MSG_REC_NO_MSG, REC_DLOCKED
  <2> QED
    BY <2>1, QuietIsOther
<1>3. ASSUME NEW s \in Open
      PROVE  Living(Living(queue_arr[s].msgs, clock), clock') = Living(queue_arr[s].msgs, clock')
  <2> DEFINE msgs == queue_arr[s].msgs
  <2>1. msgs \in Seq(Message) /\ clock \in Int /\ Expiries \subseteq Int
    <3>1. clock \in 0 .. MaxTime
      BY DEF TypesInv, RestOK
    <3>2. msgs \in Seq(Message)
      BY OpenQueue
    <3> HIDE DEF msgs
    <3> QED
      BY <3>1, <3>2, ConstantsAssumption DEF ConstantsAssumption
  <2> HIDE DEF msgs
  <2>2. ASSUME NEW i \in 1 .. Len(msgs)
        PROVE  Over(msgs[i], clock) => Over(msgs[i], clock')
    <3>1. msgs[i] \in Message
      BY <2>1, ElementOfSeq
    <3>2. msgs[i].expiryts \in Int
      BY <2>1, <3>1 DEF Message
    <3> QED
      BY <1>1, <2>1, <3>2 DEF Over
  <2>3. Living(Living(msgs, clock), clock') = Living(msgs, clock')
    BY <2>1, <2>2, LivingTwice
  <2> QED
    BY <2>3 DEF msgs
<1>4. ASSUME NEW n \in Names
      PROVE  Boxes'[n] = IF Boxes[n] = NULL THEN NULL ELSE Mail!Remaining(Boxes[n], clock')
  <2>1. CASE \A s \in Open : queue_arr[s].name # n
    <3>1. Boxes[n] = NULL /\ Boxes'[n] = NULL
      BY <1>0, <1>1, <2>1 DEF BoxesAre
    <3> QED
      BY <3>1
  <2>2. ASSUME NEW s \in Open, queue_arr[s].name = n
        PROVE  Boxes'[n] = IF Boxes[n] = NULL THEN NULL ELSE Mail!Remaining(Boxes[n], clock')
    <3>1. /\ Boxes[n] = Living(queue_arr[s].msgs, clock)
          /\ Boxes'[n] = Living(queue_arr[s].msgs, clock')
      BY <1>0, <1>1, <2>2 DEF BoxesAre
    <3>2. Boxes[n] # NULL
      BY <3>1, OpenQueue, LivingIsNotNull
    <3>3. Mail!Remaining(Boxes[n], clock') = Living(Boxes[n], clock')
      BY RemainingIsLiving
    <3> QED
      BY <1>3, <3>1, <3>2, <3>3
  <2> QED
    BY <2>1, <2>2
<1>5. Boxes' = [n \in Names |-> Boxes'[n]]
  BY <1>0 DEF BoxesAre
<1>6. Boxes' = [n \in Names |->
                   IF Boxes[n] = NULL THEN NULL ELSE Mail!Remaining(Boxes[n], clock')]
  BY <1>4, <1>5
<1>7. Mail!Pass
  BY <1>1, <1>2, <1>6 DEF Mail!Pass
<1> QED
  BY <1>7 DEF Mail!MailNext

\* The step simulation: whatever the server does, its mailboxes make a step of
\* their own or stay as they are.
LEMMA MailStep == TypesInv /\ TypesInv' /\ [Next]_vars => [Mail!MailNext]_(Mail!mvars)
<1> SUFFICES ASSUME TypesInv, TypesInv', [Next]_vars
             PROVE  [Mail!MailNext]_(Mail!mvars)
  OBVIOUS
<1>1. CASE UNCHANGED vars
  <2>1. UNCHANGED <<queue_arr, clock, reply>>
    BY <1>1 DEF vars
  <2>2. Boxes' = Boxes
    BY <2>1, SameBoxes
  <2>3. Telling' = Telling
    BY <2>1 DEF Telling
  <2> QED
    BY <2>1, <2>2, <2>3 DEF Mail!mvars
<1>2. ASSUME NEW p \in alive, Call(p)
      PROVE  Mail!MailNext
  BY <1>2, CallMessages, MessagesStepMaps
<1>3. ASSUME NEW p \in alive, Exit(p)
      PROVE  Mail!MailNext
  <2>1. UNCHANGED clock
    BY <1>3 DEF Exit
  <2>2. MessagesStep
    BY <1>3, NextMessages DEF Next
  <2> QED
    BY <2>1, <2>2, MessagesStepMaps
<1>4. CASE Tick
  BY <1>4, TickPasses
<1> QED
  BY <1>1, <1>2, <1>3, <1>4 DEF Next

\* No queue is open at first, so no mailbox is.
LEMMA MailBegins == Init => Mail!MailInit
<1> SUFFICES ASSUME Init PROVE Mail!MailInit
  OBVIOUS
<1>0. BoxesAre
  BY TypesInvInit, BoxesFound
<1>1. Open = {}
  BY DEF Init, Open
<1>2. Boxes = [n \in Names |-> Boxes[n]] /\ \A n \in Names : Boxes[n] = NULL
  BY <1>0, <1>1 DEF BoxesAre
<1>3. Boxes = [n \in Names |-> NULL]
  BY <1>2
<1>4. Telling = Mail!Other
  <2>1. reply.code \notin {MSG_REC_SUCCESS, MSG_REC_NO_MSG, REC_DLOCKED}
    BY DEF Init, NoReply, Reply, MSG_REC_SUCCESS, MSG_REC_NO_MSG, REC_DLOCKED
  <2> QED
    BY <2>1, TellingOther
<1> QED
  BY <1>3, <1>4 DEF Init, Mail!MailInit

\* Whatever the constants are, the server of qipc.c implements mailboxes: slots,
\* waiting lists, blocked senders, capacities and the late purge of expired
\* messages are of no consequence for what is delivered to whom.
THEOREM ServerKeepsMailboxes == Spec => KeepsMailboxes
<1>1. Init => Mail!MailInit
  BY MailBegins
<1>2. TypesInv /\ TypesInv' /\ [Next]_vars => [Mail!MailNext]_(Mail!mvars)
  BY MailStep
<1> QED
  BY <1>1, <1>2, TypesInvInit, TypesInvStep, PTL DEF Spec, KeepsMailboxes, Mail!MailSpec

=============================================================================
