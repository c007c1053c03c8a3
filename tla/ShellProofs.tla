---------------------------- MODULE ShellProofs ----------------------------
(***************************************************************************)
(* What ShellJobs promises of the job table, for any number of jobs.  Then *)
(* that a shell running command lines is a shell as ShellJobs describes    *)
(* it, and that a list of commands is cut where its separators say, for    *)
(* any lines and whatever breaks off the waits.                            *)
(***************************************************************************)
EXTENDS ShellCommands, QipcLemmas, FiniteSetTheorems

\* The shape of the data that the handlers move about.
JobsShape ==
    /\ g_intNoRunProc \in Int
    /\ g_intRunProc = [i \in Entries |-> g_intRunProc[i]]
    /\ proc = [p \in Jobs |-> proc[p]]

LEMMA EntriesAreIntegers == Cardinality(Jobs) \in Nat /\ Entries \subseteq Int
<1>1. Cardinality(Jobs) \in Nat
  BY JobsAssumption, FS_CardinalityType
<1> QED
  BY <1>1 DEF Entries

\* The end of alarmhandler takes the oldest job off the table, and no other.
LEMMA DropOldestKeepsOthers ==
    ASSUME JobsShape, DropOldest, NEW p \in Listed, p # Oldest
    PROVE  p \in Listed'
<1>1. PICK j \in Entries : j < g_intNoRunProc /\ g_intRunProc[j] = p
  BY DEF Listed, Table
<1>2. j \in Int /\ j # 0 /\ Cardinality(Jobs) \in Nat
  BY <1>1, EntriesAreIntegers DEF Oldest
<1>3. j - 1 \in Entries
  BY <1>1, <1>2 DEF Entries
<1>4. j - 1 < g_intNoRunProc - 1 /\ j - 1 < g_intNoRunProc
  BY <1>1, <1>2 DEF JobsShape
<1>5. g_intRunProc'[j - 1] = g_intRunProc[(j - 1) + 1]
  BY <1>3, <1>4 DEF DropOldest
<1>6. (j - 1) + 1 = j
  BY <1>2
<1>7. g_intRunProc'[j - 1] = p
  BY <1>1, <1>5, <1>6
<1>8. j - 1 < g_intNoRunProc'
  BY <1>4 DEF DropOldest
<1>9. Entries' = Entries
  BY DEF Entries
<1> QED
  BY <1>3, <1>7, <1>8, <1>9 DEF Listed, Table

LEMMA DropOldestShape ==
    ASSUME JobsShape, DropOldest
    PROVE  /\ g_intNoRunProc' \in Int
           /\ g_intRunProc' = [i \in Entries |-> g_intRunProc'[i]]
BY DEF JobsShape, DropOldest

\* A step that leaves the counted entries alone takes no job off the table.
LEMMA TableStays ==
    ASSUME JobsShape,
           \A i \in Table : g_intRunProc'[i] = g_intRunProc[i],
           g_intNoRunProc' \in Int, g_intNoRunProc <= g_intNoRunProc'
    PROVE  Listed \subseteq Listed'
<1>1. Table \subseteq Table'
  <2>1. Entries' = Entries
    BY DEF Entries
  <2>2. \A i \in Entries : i < g_intNoRunProc => i < g_intNoRunProc'
    BY EntriesAreIntegers DEF JobsShape
  <2> QED
    BY <2>1, <2>2 DEF Table
<1> QED
  BY <1>1 DEF Listed

\* One job leaves, if any, and how.
LeavesUnreaped ==
    \A p \in Jobs :
        (p \in Listed /\ p \notin Listed' /\ proc'[p] \in {"running", "zombie"})
            => handler = "reaping" \/ (handler = "asking" /\ proc'[p] = "zombie")

LEMMA DroppedIsOver ==
    ASSUME JobsShape, DropOldest,
           Oldest \in Jobs =>
              \/ proc'[Oldest] \notin {"running", "zombie"}
              \/ handler = "reaping"
              \/ handler = "asking" /\ proc'[Oldest] = "zombie"
    PROVE  LeavesUnreaped
BY DropOldestKeepsOthers DEF LeavesUnreaped

LEMMA JobsShapeInit == JobsInit => JobsShape
BY DEF JobsInit, JobsShape

LEMMA JobsStep ==
    ASSUME JobsShape, [JobsNext]_jvars
    PROVE  JobsShape' /\ LeavesUnreaped
<1> USE DEF JobsShape
<1>0. Entries' = Entries
  BY DEF Entries
<1>1. ASSUME UNCHANGED <<g_intRunProc, g_intNoRunProc>>
      PROVE  LeavesUnreaped /\ g_intNoRunProc' \in Int
             /\ g_intRunProc' = [i \in Entries |-> g_intRunProc'[i]]
  BY <1>1 DEF LeavesUnreaped, Listed, Table, Entries
<1>2. CASE Fork
  BY <1>0, <1>1, <1>2 DEF Fork
<1>3. CASE StartList \/ ForkFails \/ SetAlarm \/ NextLine \/ SwitchAlarm \/ SayBye \/ AnswerNo
  BY <1>0, <1>1, <1>3 DEF StartList, ForkFails, SetAlarm, NextLine, SwitchAlarm, SayBye, AnswerNo
<1>4. CASE WriteEntry
  <2>1. \A i \in Table : i # g_intNoRunProc
    BY EntriesAreIntegers DEF Table
  <2>2. \A i \in Table : g_intRunProc'[i] = g_intRunProc[i]
    BY <1>4, <2>1 DEF WriteEntry, Table
  <2>3. g_intNoRunProc' = g_intNoRunProc /\ proc' = proc
    BY <1>4 DEF WriteEntry
  <2>4. Listed \subseteq Listed'
    BY <2>2, <2>3, TableStays
  <2>5. g_intRunProc' = [i \in Entries |-> g_intRunProc'[i]]
    BY <1>4 DEF WriteEntry
  <2> QED
    BY <1>0, <2>3, <2>4, <2>5 DEF LeavesUnreaped
<1>5. CASE CountEntry
  <2>1. g_intNoRunProc' = g_intNoRunProc + 1 /\ g_intRunProc' = g_intRunProc /\ proc' = proc
    BY <1>5 DEF CountEntry
  <2>2. Listed \subseteq Listed'
    BY <2>1, TableStays
  <2> QED
    BY <1>0, <2>1, <2>2 DEF LeavesUnreaped
<1>6. CASE Reap
  BY <1>0, <1>1, <1>6 DEF Reap
<1>7. CASE Ring
  <2>1. proc' = proc
    BY <1>7 DEF Ring
  <2>2. CASE ~Exists(Oldest) /\ EndHandler
    <3>1. DropOldest
      BY <2>2 DEF EndHandler
    <3>2. LeavesUnreaped
      BY <2>1, <2>2, <3>1, DroppedIsOver DEF Exists
    <3> QED
      BY <1>0, <2>1, <3>1, <3>2, DropOldestShape
  <2>3. CASE UNCHANGED <<g_intRunProc, g_intNoRunProc>>
    BY <1>0, <1>1, <2>1, <2>3
  <2> QED
    BY <1>7, <2>2, <2>3 DEF Ring
<1>8. CASE AnswerYes
  <2>1. DropOldest /\ proc' = [proc EXCEPT ![Oldest] = "zombie"] /\ handler = "asking"
    BY <1>8 DEF AnswerYes, EndHandler
  <2>2. Oldest \in Jobs => proc'[Oldest] = "zombie"
    BY <2>1
  <2> QED
    BY <1>0, <2>1, <2>2, DroppedIsOver, DropOldestShape
<1>9. CASE ReapOldest
  <2>1. DropOldest /\ handler = "reaping"
    BY <1>9 DEF ReapOldest, EndHandler
  <2>2. proc' = [p \in Jobs |-> proc'[p]]
    BY <1>9 DEF ReapOldest
  <2> QED
    BY <1>0, <2>1, <2>2, DroppedIsOver, DropOldestShape
<1>10. CASE CtrlC
  <2>1. proc' = [p \in Jobs |-> proc'[p]]
    BY <1>10 DEF CtrlC
  <2>2. CASE handler = "reaping" /\ EndHandler
    BY <1>0, <2>1, <2>2, DroppedIsOver, DropOldestShape DEF EndHandler
  <2>3. CASE UNCHANGED <<g_intRunProc, g_intNoRunProc>>
    BY <1>0, <1>1, <2>1, <2>3
  <2> QED
    BY <1>10, <2>2, <2>3 DEF CtrlC
<1>11. CASE \E p \in Jobs : JobEnds(p) \/ Age(p)
  BY <1>0, <1>1, <1>11 DEF JobEnds, Age
<1>12. CASE UNCHANGED jvars
  BY <1>0, <1>1, <1>12 DEF jvars
<1> QED
  BY <1>2, <1>3, <1>4, <1>5, <1>6, <1>7, <1>8, <1>9, <1>10, <1>11, <1>12
     DEF JobsNext, ShellStep, HandlerStep

\* A job leaves the table unreaped only when the user has it killed or the wait
\* that alarmhandler makes for it is broken off: for any number of jobs and any
\* order of alarms, answers and interrupts.
THEOREM JobsLeaveTheTableReaped == JobsSpec => UnreapedOnlyBy
<1>1. JobsShape /\ [JobsNext]_jvars => JobsShape' /\ [LeavesUnreaped]_jvars
  BY JobsStep
<1>2. JobsInit => JobsShape
  BY JobsShapeInit
<1> QED
  BY <1>1, <1>2, PTL DEF JobsSpec, UnreapedOnlyBy, LeavesUnreaped

-----------------------------------------------------------------------------
(* The alarm that watches the table.                                       *)

AlarmLost ==
    (AlarmCovers /\ ~AlarmCovers' /\ place' # "exited") =>
          \/ place = "tested" /\ g_intNoRunProc = 0
          \/ handler' = "none" /\ Oldest' \in old

LEMMA AlarmStep ==
    ASSUME JobsShape, JobsShape', [JobsNext]_jvars
    PROVE  AlarmLost
<1>1. (Table # {} <=> g_intNoRunProc > 0) /\ (Table' # {} <=> g_intNoRunProc' > 0)
  <2>1. 0 \in Entries /\ (\A i \in Entries : i \in Int /\ i >= 0) /\ Entries' = Entries
    BY EntriesAreIntegers DEF Entries
  <2>2. Table # {} <=> g_intNoRunProc > 0
    BY <2>1 DEF Table, JobsShape
  <2>3. Table' # {} <=> g_intNoRunProc' > 0
    BY <2>1 DEF Table, JobsShape
  <2> QED
    BY <2>2, <2>3
<1>2. CASE UNCHANGED <<g_intNoRunProc, armed, handler>>
  BY <1>1, <1>2 DEF AlarmLost, AlarmCovers
<1>3. CASE SetAlarm
  BY <1>1, <1>3 DEF AlarmLost, AlarmCovers, SetAlarm, At
<1>4. CASE CountEntry
  BY <1>1, <1>4 DEF AlarmLost, AlarmCovers, CountEntry, At, JobsShape
<1>5. CASE EndHandler /\ UNCHANGED old
  BY <1>1, <1>5 DEF AlarmLost, AlarmCovers, EndHandler, DropOldest, Oldest
<1>6. CASE handler' # "none" \/ place' = "exited"
  BY <1>6 DEF AlarmLost, AlarmCovers
<1> QED
  BY <1>2, <1>3, <1>4, <1>5, <1>6
     DEF JobsNext, ShellStep, HandlerStep, StartList, Fork, ForkFails, SwitchAlarm, CtrlC, SayBye,
         WriteEntry, Reap, NextLine, Ring, AnswerYes, AnswerNo, ReapOldest, JobEnds, Age, jvars

\* Jobs are left without an alarm only in the two known ways.
THEOREM AlarmIsLostOnlySo == JobsSpec => AlarmLostOnlyBy
<1>1. JobsShape /\ [JobsNext]_jvars => JobsShape' /\ [AlarmLost]_jvars
  BY JobsStep, AlarmStep
<1> QED
  BY <1>1, JobsShapeInit, PTL DEF JobsSpec, AlarmLostOnlyBy, AlarmLost

-----------------------------------------------------------------------------
(* The job table keeps its shape: JobsTypeOK, strengthened.                *)

Within == {"forked", "written", "tested", "waiting"}

\* The handler takes a job that is listed, unless it comes between the setting of
\* the alarm and the counting of the first entry.
CountInv ==
    /\ g_intNoRunProc \in -1 .. Cardinality(Jobs)
    /\ g_intNoRunProc < 0 => place \in {"tested", "exited"} /\ ~armed /\ handler = "none"
    /\ armed \/ handler # "none" => g_intNoRunProc > 0 \/ place \in {"tested", "exited"}

\* The new job's entry is the one after those in use, until it is counted.
EntryInv ==
    /\ place \in {"forked", "written", "tested"} => pid \in Jobs \ Listed
    /\ place \in {"written", "tested"} /\ g_intNoRunProc >= 0 =>
          g_intRunProc[g_intNoRunProc] = pid

Distinct ==
    \A i \in Table : /\ g_intRunProc[i] \in Jobs
                     /\ proc[g_intRunProc[i]] # "unborn"
                     /\ \A j \in Table : g_intRunProc[i] = g_intRunProc[j] => i = j

PlainTypes ==
    /\ place \in Places /\ handler \in {"none", "asking", "reaping"}
    /\ g_intRunProc \in [Entries -> Jobs \cup {NoProc}]
    /\ proc \in [Jobs -> {"unborn", "running", "zombie", "gone"}]
    /\ old \subseteq Jobs
    /\ place \in Within => pid \in Jobs /\ proc[pid] # "unborn"

TableInv == PlainTypes /\ CountInv /\ EntryInv /\ Distinct

LEMMA TableInvInit == JobsInit => TableInv
<1> SUFFICES ASSUME JobsInit PROVE TableInv
  OBVIOUS
<1>1. Cardinality(Jobs) \in Nat /\ Entries \subseteq Int /\ 0 \in -1 .. Cardinality(Jobs)
  BY EntriesAreIntegers
<1>2. Table = {}
  BY <1>1 DEF JobsInit, Table, Entries
<1> QED
  BY <1>1, <1>2
     DEF JobsInit, TableInv, PlainTypes, CountInv, EntryInv, Distinct, Places, Within

\* The table is not full when a new job is to be counted.
LEMMA RoomForOne ==
    ASSUME TableInv, g_intNoRunProc >= 0,
           pid \in Jobs \ Listed, g_intRunProc[g_intNoRunProc] = pid
    PROVE  g_intNoRunProc + 1 <= Cardinality(Jobs)
<1> DEFINE n == g_intNoRunProc
           S == 0 .. n
           f == [i \in S |-> g_intRunProc[i]]
<1>1. n \in Nat /\ Cardinality(Jobs) \in Nat /\ n <= Cardinality(Jobs) /\ S \subseteq Entries
  BY EntriesAreIntegers DEF TableInv, CountInv, Entries
<1>2. \A i \in S : i = n \/ i \in Table
  BY <1>1 DEF Table
<1>3. f \in [S -> Jobs]
  BY <1>2 DEF TableInv, Distinct
<1>4. \A i, j \in S : f[i] = f[j] => i = j
  BY <1>2 DEF TableInv, Distinct, Listed
<1>5. f \in Injection(S, Jobs)
  BY <1>3, <1>4 DEF Injection, IsInjective
<1>6. Cardinality(S) <= Cardinality(Jobs)
  BY <1>5, FS_Injection, JobsAssumption
<1>7. Cardinality(S) = n + 1
  BY <1>1, FS_Interval
<1> QED
  BY <1>6, <1>7

\* The end of alarmhandler, which any step that runs it completes so.
LEMMA DropOldestTyped ==
    ASSUME TableInv, EndHandler, armed \/ handler # "none", place # "exited", UNCHANGED <<pid, old>>,
           proc' \in [Jobs -> {"unborn", "running", "zombie", "gone"}],
           \A p \in Jobs : proc[p] # "unborn" => proc'[p] # "unborn"
    PROVE  TableInv'
<1> DEFINE n == g_intNoRunProc
<1>0. Cardinality(Jobs) \in Nat /\ Entries = 0 .. Cardinality(Jobs) /\ Entries' = Entries
  BY EntriesAreIntegers DEF Entries
<1>1. n \in 0 .. Cardinality(Jobs) /\ (n = 0 => place = "tested")
  BY <1>0 DEF TableInv, CountInv
<1>2. /\ DropOldest /\ handler' = "none"
      /\ place' = IF place = "waiting" THEN "between" ELSE place
  BY DEF EndHandler, Interrupted
<1>3. /\ g_intRunProc' = [i \in Entries |->
             IF i < n THEN g_intRunProc[i + 1] ELSE g_intRunProc[i]]
      /\ g_intNoRunProc' = n - 1
      /\ armed' => n - 1 > 0
  BY <1>2 DEF DropOldest
<1>4. \A i \in Entries : i < n => i + 1 \in Entries
  BY <1>0, <1>1
<1>5. g_intRunProc \in [Entries -> Jobs \cup {NoProc}]
  BY DEF TableInv, PlainTypes
<1>6. PlainTypes'
  <2>1. g_intRunProc' \in [Entries -> Jobs \cup {NoProc}]
    BY <1>3, <1>4, <1>5
  <2> QED
    BY <1>0, <1>2, <2>1 DEF TableInv, PlainTypes, Places, Within
<1>7. CountInv'
  <2>1. n - 1 \in -1 .. Cardinality(Jobs) /\ (n - 1 < 0 => n = 0)
    BY <1>0, <1>1
  <2>2. n - 1 < 0 => ~(n - 1 > 0)
    BY <1>1
  <2> QED
    BY <1>1, <1>2, <1>3, <2>1, <2>2 DEF CountInv
<1>8. \A i \in Table' : i \in Table /\ i + 1 \in Table /\ g_intRunProc'[i] = g_intRunProc[i + 1]
  <2>1. \A i \in Entries : i < n - 1 => i < n /\ i + 1 < n
    BY <1>0, <1>1
  <2> QED
    BY <1>0, <1>3, <1>4, <2>1 DEF Table
<1>9. Distinct'
  <2>1. ASSUME NEW i \in Table', NEW j \in Table', g_intRunProc'[i] = g_intRunProc'[j]
        PROVE  i = j
    <3>1. i + 1 = j + 1
      BY <1>8, <2>1 DEF TableInv, Distinct
    <3> QED
      BY <1>0, <1>8, <3>1 DEF Table
  <2> QED
    BY <1>8, <2>1 DEF TableInv, Distinct
<1>10. EntryInv'
  <2>1. Listed' \subseteq Listed
    BY <1>8 DEF Listed
  <2>2. ASSUME place' \in {"written", "tested"}, n - 1 >= 0
        PROVE  g_intRunProc'[n - 1] = pid
    <3>1. g_intRunProc[n] = pid
      BY <1>1, <1>2, <2>2 DEF TableInv, EntryInv
    <3>2. n - 1 \in Entries /\ n - 1 < n /\ (n - 1) + 1 = n
      BY <1>0, <1>1, <2>2
    <3> QED
      BY <1>3, <3>1, <3>2
  <2> QED
    BY <1>2, <1>3, <2>1, <2>2 DEF TableInv, EntryInv
<1> QED
  BY <1>6, <1>7, <1>9, <1>10 DEF TableInv

\* A step that leaves the table alone.
LEMMA TableUntouched ==
    ASSUME TableInv, PlainTypes',
           UNCHANGED <<g_intRunProc, g_intNoRunProc, pid>>,
           armed' \/ handler' # "none" =>
              armed \/ handler # "none" \/ g_intNoRunProc > 0 \/ place' \in {"tested", "exited"},
           place' # place =>
              \/ /\ place' \notin {"forked", "written", "tested"}
                 /\ place \notin {"tested", "exited"}
              \/ place' = "exited",
           g_intNoRunProc < 0 => ~armed' /\ handler' = "none",
           \A p \in Jobs : proc[p] # "unborn" => proc'[p] # "unborn"
    PROVE  TableInv'
<1>1. Entries' = Entries /\ Table' = Table /\ Listed' = Listed
  BY DEF Entries, Table, Listed
<1>2. CountInv'
  BY DEF TableInv, CountInv, PlainTypes
<1>3. EntryInv' /\ Distinct'
  BY <1>1 DEF TableInv, EntryInv, Distinct
<1> QED
  BY <1>2, <1>3 DEF TableInv

LEMMA TableInvStep ==
    ASSUME TableInv, [JobsNext]_jvars
    PROVE  TableInv'
<1>0. Cardinality(Jobs) \in Nat /\ Entries = 0 .. Cardinality(Jobs) /\ Entries' = Entries
  BY EntriesAreIntegers DEF Entries
<1>1. CASE StartList
  <2>1. PlainTypes'
    BY <1>0, <1>1 DEF StartList, At, TableInv, PlainTypes, Places, Within
  <2> QED
    BY <1>1, <2>1, TableUntouched DEF StartList, At, TableInv, CountInv
<1>2. CASE Fork
  <2>1. PICK p \in Jobs : proc[p] = "unborn" /\ pid' = p /\ proc' = [proc EXCEPT ![p] = "running"]
    BY <1>2 DEF Fork, Unborn
  <2>2. Table' = Table /\ Listed' = Listed
    BY <1>2 DEF Fork, Table, Listed, Entries
  <2>3. p \notin Listed
    BY <2>1 DEF TableInv, Distinct, Listed
  <2>4. place' = "forked" /\ place = "between" /\ UNCHANGED <<g_intRunProc, g_intNoRunProc, armed, handler, old>>
    BY <1>2 DEF Fork, At
  <2>5. PlainTypes'
    BY <1>0, <2>1, <2>4 DEF TableInv, PlainTypes, Places
  <2>6. CountInv'
    BY <2>4 DEF TableInv, CountInv
  <2>7. EntryInv'
    BY <2>1, <2>2, <2>3, <2>4 DEF EntryInv
  <2>8. Distinct'
    <3>1. \A q \in Jobs : proc[q] # "unborn" => proc'[q] # "unborn"
      BY <2>1 DEF TableInv, PlainTypes
    <3> QED
      BY <2>2, <2>4, <3>1 DEF TableInv, Distinct
  <2> QED
    BY <2>5, <2>6, <2>7, <2>8 DEF TableInv
<1>3. CASE ForkFails \/ NextLine \/ SayBye
  <2>1. PlainTypes'
    BY <1>0, <1>3 DEF ForkFails, NextLine, SayBye, At, TableInv, PlainTypes, Places, Within
  <2> QED
    BY <1>3, <2>1, TableUntouched DEF ForkFails, NextLine, SayBye, At, TableInv, CountInv
<1>4. CASE SwitchAlarm
  <2>1. PlainTypes'
    BY <1>0, <1>4 DEF SwitchAlarm, TableInv, PlainTypes
  <2> QED
    BY <1>4, <2>1, TableUntouched DEF SwitchAlarm, At, TableInv, CountInv
<1>5. CASE WriteEntry
  <2>1. /\ place = "forked" /\ place' = "written" /\ g_intNoRunProc \in Entries
        /\ g_intRunProc' = [g_intRunProc EXCEPT ![g_intNoRunProc] = pid]
        /\ pid \in Jobs \ Listed
        /\ UNCHANGED <<pid, g_intNoRunProc, armed, handler, proc, old>>
    BY <1>0, <1>5 DEF WriteEntry, At, TableInv, CountInv, EntryInv
  <2>2. Table' = Table /\ (\A i \in Table : g_intRunProc'[i] = g_intRunProc[i])
    BY <1>0, <2>1 DEF Table, TableInv, PlainTypes
  <2>3. Listed' = Listed
    BY <2>2 DEF Listed
  <2>4. PlainTypes'
    BY <1>0, <2>1 DEF TableInv, PlainTypes, Places, Within
  <2>5. CountInv' /\ Distinct'
    BY <2>1, <2>2 DEF TableInv, CountInv, Distinct
  <2>6. g_intRunProc'[g_intNoRunProc] = pid
    BY <2>1 DEF TableInv, PlainTypes
  <2>7. EntryInv'
    BY <2>1, <2>3, <2>6 DEF EntryInv
  <2> QED
    BY <2>4, <2>5, <2>7 DEF TableInv
<1>6. CASE SetAlarm
  <2>1. /\ place = "written" /\ place' = "tested" /\ handler = "none"
        /\ UNCHANGED <<pid, g_intRunProc, g_intNoRunProc, handler, proc, old>>
    BY <1>6 DEF SetAlarm, At
  <2>2. Table' = Table /\ Listed' = Listed /\ g_intNoRunProc >= 0
    BY <2>1 DEF Table, Listed, Entries, TableInv, CountInv
  <2>3. PlainTypes'
    BY <1>0, <2>1 DEF TableInv, PlainTypes, Places, Within
  <2>4. CountInv' /\ EntryInv' /\ Distinct'
    BY <2>1, <2>2 DEF TableInv, CountInv, EntryInv, Distinct
  <2> QED
    BY <2>3, <2>4 DEF TableInv
<1>7. CASE CountEntry
  <2>1. /\ place = "tested" /\ place' \in {"between", "waiting"} /\ handler = "none"
        /\ g_intNoRunProc' = g_intNoRunProc + 1 /\ pid \in Jobs \ Listed
        /\ UNCHANGED <<pid, g_intRunProc, armed, handler, proc, old>>
    BY <1>7 DEF CountEntry, At, TableInv, EntryInv
  <2>2. g_intNoRunProc + 1 \in 0 .. Cardinality(Jobs)
    <3>1. CASE g_intNoRunProc >= 0
      <4>1. g_intRunProc[g_intNoRunProc] = pid
        BY <2>1, <3>1 DEF TableInv, EntryInv
      <4> QED
        BY <1>0, <2>1, <3>1, <4>1, RoomForOne DEF TableInv, CountInv
    <3> QED
      BY <1>0, <3>1 DEF TableInv, CountInv
  <2>3. PlainTypes'
    BY <1>0, <2>1 DEF TableInv, PlainTypes, Places, Within
  <2>4. CountInv'
    BY <1>0, <2>1, <2>2 DEF TableInv, CountInv
  <2>5. \A i \in Table' : i \in Table \/ (i = g_intNoRunProc /\ g_intRunProc[i] = pid)
    BY <1>0, <2>1 DEF Table, TableInv, CountInv, EntryInv
  <2>6. proc[pid] # "unborn"
    BY <2>1 DEF TableInv, PlainTypes, Within
  <2>7. Distinct'
    BY <2>1, <2>5, <2>6 DEF TableInv, Distinct, Listed
  <2>8. EntryInv'
    BY <2>1 DEF EntryInv
  <2> QED
    BY <2>3, <2>4, <2>7, <2>8 DEF TableInv
<1>8. CASE Reap
  <2>1. PlainTypes'
    BY <1>0, <1>8 DEF Reap, At, TableInv, PlainTypes, Places, Within
  <2>2. \A p \in Jobs : proc[p] # "unborn" => proc'[p] # "unborn"
    BY <1>8 DEF Reap, TableInv, PlainTypes
  <2> QED
    BY <1>8, <2>1, <2>2, TableUntouched DEF Reap, At, TableInv, CountInv
<1>9. ASSUME armed \/ handler # "none", place # "exited", UNCHANGED <<pid, old>>,
             EndHandler \/ UNCHANGED <<place, g_intRunProc, g_intNoRunProc>>,
             proc' \in [Jobs -> {"unborn", "running", "zombie", "gone"}],
             \A p \in Jobs : proc[p] # "unborn" => proc'[p] # "unborn",
             handler' \in {"none", "asking", "reaping"}, armed' => armed \/ EndHandler
      PROVE  TableInv'
  <2>1. CASE EndHandler
    BY <1>9, <2>1, DropOldestTyped
  <2>2. CASE UNCHANGED <<place, g_intRunProc, g_intNoRunProc>>
    <3>1. PlainTypes'
      BY <1>0, <1>9, <2>2 DEF TableInv, PlainTypes
    <3>2. g_intNoRunProc >= 0
      BY <1>9 DEF TableInv, CountInv
    <3> QED
      BY <1>0, <1>9, <2>1, <2>2, <3>1, <3>2, TableUntouched DEF TableInv, CountInv
  <2> QED
    BY <1>9, <2>1, <2>2
<1>10. CASE Ring
  <2>1. proc' \in [Jobs -> {"unborn", "running", "zombie", "gone"}]
    BY <1>10 DEF Ring, TableInv, PlainTypes
  <2> QED
    BY <1>9, <1>10, <2>1 DEF Ring, EndHandler
<1>11. CASE AnswerYes \/ AnswerNo \/ ReapOldest
  <2>1. /\ proc' \in [Jobs -> {"unborn", "running", "zombie", "gone"}]
        /\ \A p \in Jobs : proc[p] # "unborn" => proc'[p] # "unborn"
    BY <1>11 DEF AnswerYes, AnswerNo, ReapOldest, TableInv, PlainTypes
  <2> QED
    BY <1>9, <1>11, <2>1 DEF AnswerYes, AnswerNo, ReapOldest, EndHandler
<1>12. CASE CtrlC
  <2>1. /\ proc' \in [Jobs -> {"unborn", "running", "zombie", "gone"}]
        /\ \A p \in Jobs : proc[p] # "unborn" => proc'[p] # "unborn"
        /\ place # "exited" /\ UNCHANGED <<pid, old>>
    BY <1>12 DEF CtrlC, TableInv, PlainTypes
  <2>2. CASE handler = "reaping" /\ EndHandler
    BY <2>1, <2>2, DropOldestTyped
  <2>3. ASSUME place' = "exited", handler' = "none",
               UNCHANGED <<g_intRunProc, g_intNoRunProc, armed>>
        PROVE  TableInv'
    <3>1. PlainTypes'
      BY <1>0, <2>1, <2>3 DEF TableInv, PlainTypes, Places, Within
    <3> QED
      BY <2>1, <2>3, <3>1, TableUntouched DEF TableInv, CountInv
  <2>4. CASE UNCHANGED <<place, g_intRunProc, g_intNoRunProc, armed, handler>>
    <3>1. PlainTypes'
      BY <1>0, <2>1, <2>4 DEF TableInv, PlainTypes
    <3> QED
      BY <2>1, <2>4, <3>1, TableUntouched DEF TableInv, CountInv
  <2>5. CASE handler = "none" /\ Interrupted /\ UNCHANGED <<g_intRunProc, g_intNoRunProc, armed, handler>>
    <3>1. PlainTypes'
      BY <1>0, <2>1, <2>5 DEF Interrupted, TableInv, PlainTypes, Places, Within
    <3> QED
      BY <2>1, <2>5, <3>1, TableUntouched DEF Interrupted, TableInv, CountInv
  <2> QED
    BY <1>12, <2>2, <2>3, <2>4, <2>5 DEF CtrlC
<1>13. CASE \E p \in Jobs : JobEnds(p) \/ Age(p)
  <2>1. /\ PlainTypes'
        /\ \A p \in Jobs : proc[p] # "unborn" => proc'[p] # "unborn"
    BY <1>0, <1>13 DEF JobEnds, Age, TableInv, PlainTypes
  <2> QED
    BY <1>13, <2>1, TableUntouched DEF JobEnds, Age, TableInv, CountInv
<1>14. CASE UNCHANGED jvars
  <2>1. PlainTypes'
    BY <1>0, <1>14 DEF jvars, TableInv, PlainTypes
  <2> QED
    BY <1>14, <2>1, TableUntouched DEF jvars, TableInv, CountInv
<1> QED
  BY <1>1, <1>2, <1>3, <1>4, <1>5, <1>6, <1>7, <1>8, <1>10, <1>11, <1>12, <1>13, <1>14
     DEF JobsNext, ShellStep, HandlerStep

\* However alarms, answers and interrupts fall into the starting of jobs, the
\* table holds distinct jobs that were started and has room for one more, and
\* its length is negative only for the moment before a job is counted.
THEOREM JobTableKeepsShape == JobsSpec => []JobsTypeOK
<1>1. TableInv => JobsTypeOK
  BY DEF TableInv, PlainTypes, CountInv, Distinct, JobsTypeOK
<1>2. TableInv /\ [JobsNext]_jvars => TableInv'
  BY TableInvStep
<1> QED
  BY <1>1, <1>2, TableInvInit, PTL DEF JobsSpec

-----------------------------------------------------------------------------
(* The refinement.                                                         *)

LEMMA BeginStartsList ==
    ASSUME NEW tokens, NEW which, Begin(tokens, which)
    PROVE  StartList
BY DEF Begin

LEMMA CommandsStepJobs ==
    ASSUME [CommandsNext]_<<jvars, cvars>>
    PROVE  [JobsNext]_jvars
<1>1. CASE PlainLine \/ ConditionalLine \/ Then \/ Else
  BY <1>1, BeginStartsList DEF PlainLine, ConditionalLine, Then, Else, JobsNext
<1>2. CASE Cd \/ NotFound \/ Evaluate
  BY <1>2 DEF Cd, NotFound, Evaluate
<1>3. CASE RunCommand
  BY <1>3 DEF RunCommand, JobsNext
<1>4. CASE NoProcess
  BY <1>4 DEF NoProcess, JobsNext
<1>5. CASE Status
  BY <1>5 DEF Status, JobsNext, ShellStep
<1>6. CASE LineDone
  BY <1>6 DEF LineDone, JobsNext, ShellStep
<1>7. CASE ExecStep \/ HandlerRuns \/ UserStep
  BY <1>7 DEF ExecStep, HandlerRuns, UserStep, JobsNext, ShellStep
<1>8. CASE \E p \in Jobs : JobStep(p)
  BY <1>8 DEF JobStep, JobsNext
<1>9. CASE UNCHANGED <<jvars, cvars>>
  BY <1>9
<1> QED
  BY <1>1, <1>2, <1>3, <1>4, <1>5, <1>6, <1>7, <1>8, <1>9 DEF CommandsNext, LineStep

\* Every behaviour of the shell with its command lines is a behaviour of the jobs:
\* what is proved of the job table holds whatever lines are typed.
THEOREM CommandsRefineJobs == CommandsSpec => CommandsImplementJobs
<1>1. CommandsInit => JobsInit
  BY DEF CommandsInit
<1>2. [CommandsNext]_<<jvars, cvars>> => [JobsNext]_jvars
  BY CommandsStepJobs
<1> QED
  BY <1>1, <1>2, PTL DEF CommandsSpec, CommandsImplementJobs, JobsSpec

-----------------------------------------------------------------------------
(* What a list of commands has done and what ret remembers of it.          *)

\* done is a sequence, of whatever elements.
Sequential(s) == s \in Seq({s[i] : i \in DOMAIN s})

LEMMA EmptySequential == Sequential(<<>>) /\ Len(<<>>) = 0 /\ DOMAIN <<>> = {}
BY DEF Sequential

LEMMA AppendSequential ==
    ASSUME NEW s, NEW e, Sequential(s)
    PROVE  /\ Len(s) \in Nat /\ DOMAIN s = 1 .. Len(s)
           /\ Sequential(Append(s, e))
           /\ Len(Append(s, e)) = Len(s) + 1
           /\ DOMAIN Append(s, e) = 1 .. Len(s) + 1
           /\ \A i \in 1 .. Len(s) : Append(s, e)[i] = s[i]
           /\ Append(s, e)[Len(s) + 1] = e
<1> DEFINE S == {s[i] : i \in DOMAIN s} \cup {e}
           a == Append(s, e)
<1>1. Len(s) \in Nat /\ DOMAIN s = 1 .. Len(s) /\ s = [i \in 1 .. Len(s) |-> s[i]]
  BY DEF Sequential
<1>2. s \in Seq(S)
  <2>1. {s[i] : i \in DOMAIN s} \subseteq S
    OBVIOUS
  <2> QED
    BY <2>1, SeqMonotonic DEF Sequential
<1> HIDE DEF S
<1>3. e \in S
  BY DEF S
<1>4. a \in Seq(S) /\ Len(a) = Len(s) + 1 /\ DOMAIN a = 1 .. Len(s) + 1
      /\ (\A i \in 1 .. Len(s) : a[i] = s[i]) /\ a[Len(s) + 1] = e
  BY <1>2, <1>3, AppendProperties
<1> HIDE DEF a
<1>5. a \in Seq({a[i] : i \in DOMAIN a})
  <2> DEFINE T == {a[i] : i \in DOMAIN a}
  <2>1. a = [i \in 1 .. Len(a) |-> a[i]] /\ Len(a) \in Nat /\ DOMAIN a = 1 .. Len(a)
    BY <1>1, <1>4
  <2>2. \A i \in 1 .. Len(a) : a[i] \in T
    BY <2>1
  <2> HIDE DEF T
  <2>3. a \in [1 .. Len(a) -> T]
    BY <2>1, <2>2
  <2>4. a \in UNION {[1 .. n -> T] : n \in Nat}
    BY <2>1, <2>3
  <2>5. a \in Seq(T)
    BY <2>4, SeqDef
  <2> QED
    BY <2>5 DEF T
<1> QED
  BY <1>1, <1>4, <1>5 DEF a, Sequential

\* The command that has changed its fate is the last one.
LEMMA SettleSequential ==
    ASSUME NEW s, NEW e, Sequential(s), s # <<>>
    PROVE  LET r == [s EXCEPT ![Len(s)] = e] IN
           /\ Sequential(r) /\ Len(r) = Len(s)
           /\ Len(s) \in 1 .. Len(s) /\ DOMAIN s = 1 .. Len(s) /\ DOMAIN r = 1 .. Len(s)
           /\ \A i \in 1 .. Len(s) : i # Len(s) => r[i] = s[i]
           /\ r[Len(s)] = e
<1> DEFINE S == {s[i] : i \in DOMAIN s} \cup {e}
           r == [s EXCEPT ![Len(s)] = e]
<1>1. s \in Seq(S)
  <2>1. {s[i] : i \in DOMAIN s} \subseteq S
    OBVIOUS
  <2> QED
    BY <2>1, SeqMonotonic DEF Sequential
<1>2. e \in S
  OBVIOUS
<1> HIDE DEF S
<1>3. Len(s) \in Nat /\ DOMAIN s = 1 .. Len(s) /\ Len(s) # 0
  BY <1>1, EmptySeq
<1>4. Len(s) \in 1 .. Len(s)
  BY <1>3
<1>5. r \in Seq(S) /\ Len(r) = Len(s)
      /\ \A j \in 1 .. Len(s) : r[j] = IF j = Len(s) THEN e ELSE s[j]
  BY <1>1, <1>2, <1>4, ExceptSeq
<1>6. DOMAIN r = 1 .. Len(s)
  BY <1>3
<1> HIDE DEF r
<1>7. r \in Seq({r[i] : i \in DOMAIN r})
  <2> DEFINE T == {r[i] : i \in DOMAIN r}
  <2>1. r = [i \in 1 .. Len(r) |-> r[i]]
    BY <1>5
  <2>2. \A i \in 1 .. Len(r) : r[i] \in T
    BY <1>5, <1>6
  <2> HIDE DEF T
  <2>3. r \in [1 .. Len(r) -> T] /\ Len(r) \in Nat
    BY <1>3, <1>5, <2>1, <2>2
  <2>4. r \in UNION {[1 .. n -> T] : n \in Nat}
    BY <2>3
  <2>5. r \in Seq(T)
    BY <2>4, SeqDef
  <2> QED
    BY <2>5 DEF T
<1> QED
  BY <1>3, <1>4, <1>5, <1>6, <1>7 DEF r, Sequential

\* The command being run, and what its value says of its fate.
RunningInv ==
    /\ value \in {"none", "any", "zero", "nonzero"}
    /\ place \in {"forked", "written", "tested", "waiting"} => value = "any"
    /\ value # "none" =>
          /\ done # <<>>
          /\ done[Len(done)].part = part
          /\ done[Len(done)].separator = Head(tmp).separator
          /\ value = "zero" => Succeeded(Len(done))
          /\ value = "nonzero" => Failed(Len(done))
          /\ value = "any" => ~Failed(Len(done)) /\ ~Succeeded(Len(done))

\* The lists of a line come one after the other.
PartsInv ==
    /\ Sequential(done)
    /\ part = "none" => done = <<>> /\ tmp = <<>>
    /\ \A i \in DOMAIN done :
          done[i].part = part \/ (done[i].part = "if" /\ part \in {"then", "else"})

\* The commands of the list whose return value ret has taken in.
Evaluated == {k \in DOMAIN done : done[k].part = part /\ (value # "none" => k # Len(done))}

RetInv ==
    /\ ret \in BOOLEAN
    /\ ~ret => \A k \in Evaluated : ~Failed(k)
    /\ ret => \E k \in Evaluated : ~Succeeded(k)

\* The list goes on only as the separator of its last command allows.
GoOnInv ==
    (value = "none" /\ tmp # <<>> /\ done # <<>>) =>
        LET last == done[Len(done)] IN
        (last.part = part /\ last.fate # "cd") =>
            (last.separator = "&&" => ~ret) /\ (last.separator = "||" => ret)

LineInv == RunningInv /\ PartsInv /\ RetInv /\ GoOnInv /\ SeparatorsObeyed /\ ThenOrElse

LEMMA LineInvInit == CommandsInit => LineInv
BY EmptySequential
   DEF CommandsInit, JobsInit, LineInv, RunningInv, PartsInv, RetInv, GoOnInv, Evaluated,
       SeparatorsObeyed, ThenOrElse

\* Steps of the jobs and the handlers.
LEMMA LineUndisturbed ==
    ASSUME LineInv, UNCHANGED cvars,
           place' \in {"forked", "written", "tested", "waiting"} =>
              place \in {"forked", "written", "tested", "waiting"}
    PROVE  LineInv'
<1> USE DEF cvars
<1>1. RunningInv'
  BY DEF LineInv, RunningInv, Succeeded, Failed
<1>2. PartsInv' /\ RetInv' /\ GoOnInv'
  BY DEF LineInv, PartsInv, RetInv, GoOnInv, Evaluated, Succeeded, Failed, Sequential
<1>3. SeparatorsObeyed' /\ ThenOrElse'
  BY DEF LineInv, SeparatorsObeyed, ThenOrElse, Before, Succeeded, Failed
<1> QED
  BY <1>1, <1>2, <1>3 DEF LineInv

\* A command joins the list: nothing is known of it yet but its fate.
LEMMA CommandJoins ==
    ASSUME LineInv, value = "none", tmp # <<>>,
           NEW fate, done' = Append(done, Fate(fate)),
           UNCHANGED <<ret, part>>,
           \/ /\ value' = "none" /\ fate = "cd"
           \/ /\ value' = "nonzero" /\ fate = "missing" /\ tmp' = tmp
           \/ /\ value' = "any" /\ fate \in {"background", "unknown"} /\ tmp' = tmp,
           place' \in {"forked", "written", "tested", "waiting"} => value' = "any"
    PROVE  LineInv'
<1>0. PICK n \in Nat : n = Len(done)
  BY AppendSequential DEF LineInv, PartsInv
<1>1. /\ n \in Nat /\ DOMAIN done = 1 .. n /\ DOMAIN done' = 1 .. n + 1 /\ Len(done') = n + 1
      /\ Sequential(done') /\ (\A i \in 1 .. n : done'[i] = done[i])
      /\ done'[n + 1] = Fate(fate) /\ done' # <<>>
  BY <1>0, AppendSequential, EmptySequential DEF LineInv, PartsInv
<1>2. /\ done'[n + 1].part = part /\ done'[n + 1].fate = fate
      /\ done'[n + 1].separator = Head(tmp).separator
  BY <1>1 DEF Fate
<1>3. \A k \in 1 .. n : /\ Failed(k)' <=> Failed(k)
                        /\ Succeeded(k)' <=> Succeeded(k)
                        /\ Before(k)' = Before(k)
  BY <1>1 DEF Failed, Succeeded, Before
<1>4. RunningInv'
  BY <1>1, <1>2 DEF RunningInv, Failed, Succeeded
<1>5. PartsInv'
  BY <1>1, <1>2 DEF LineInv, PartsInv
<1>6. RetInv'
  <2>1. Evaluated \subseteq Evaluated' /\ Evaluated \subseteq 1 .. n
    BY <1>1 DEF Evaluated
  <2>2. \A k \in Evaluated' : k \in Evaluated \/ (k = n + 1 /\ fate = "cd")
    BY <1>1 DEF Evaluated
  <2>3. fate = "cd" => ~Failed(n + 1)'
    BY <1>2 DEF Failed
  <2> QED
    BY <1>1, <2>1, <2>2, <2>3 DEF LineInv, RetInv, Failed, Succeeded
<1>7. GoOnInv'
  BY <1>1, <1>2 DEF GoOnInv
<1>8. SeparatorsObeyed'
  <2>1. \A k \in 1 .. n : k \in Before(n + 1)' <=> k \in Evaluated
    BY <1>1, <1>2 DEF Before, Evaluated
  <2>2. Before(n + 1)' \subseteq 1 .. n
    BY <1>1 DEF Before
  <2>3. ASSUME n \in Before(n + 1)', done'[n].fate # "cd"
        PROVE  /\ done'[n].separator = "&&" => \A k \in Before(n + 1)' : ~Failed(k)'
               /\ done'[n].separator = "||" => \E k \in Before(n + 1)' : ~Succeeded(k)'
    <3>1. n \in 1 .. n /\ done'[n] = done[n] /\ done[n].part = part /\ done # <<>>
      BY <1>1, <2>1, <2>2, <2>3, EmptySequential DEF Evaluated
    <3>2. (done[n].separator = "&&" => ~ret) /\ (done[n].separator = "||" => ret)
      BY <1>0, <2>3, <3>1 DEF LineInv, GoOnInv
    <3>3. Evaluated \subseteq 1 .. n
      BY <1>1 DEF Evaluated
    <3>4. done'[n].separator = "&&" => \A k \in Evaluated : ~Failed(k)
      BY <3>1, <3>2 DEF LineInv, RetInv
    <3>5. done'[n].separator = "||" => \E k \in Evaluated : ~Succeeded(k)
      BY <3>1, <3>2 DEF LineInv, RetInv
    <3> QED
      BY <1>1, <2>1, <2>2, <3>3, <3>4, <3>5 DEF Failed, Succeeded
  <2>4. ASSUME NEW i \in 1 .. n, i - 1 \in Before(i)', done'[i - 1].fate # "cd"
        PROVE  /\ done'[i - 1].separator = "&&" => \A k \in Before(i)' : ~Failed(k)'
               /\ done'[i - 1].separator = "||" => \E k \in Before(i)' : ~Succeeded(k)'
    <3>1. Before(i)' = Before(i) /\ Before(i) \subseteq 1 .. n
      BY <1>1, <1>3, <2>4 DEF Before
    <3>2. done'[i - 1] = done[i - 1]
      BY <1>1, <2>4, <3>1
    <3>3. /\ done[i - 1].separator = "&&" => \A k \in Before(i) : ~Failed(k)
          /\ done[i - 1].separator = "||" => \E k \in Before(i) : ~Succeeded(k)
      BY <1>1, <2>4, <3>1, <3>2 DEF LineInv, SeparatorsObeyed
    <3> QED
      BY <1>1, <3>1, <3>2, <3>3 DEF Failed, Succeeded
  <2>5. (n + 1) - 1 = n
    BY <1>1
  <2> QED
    BY <1>1, <2>3, <2>4, <2>5 DEF SeparatorsObeyed, Before, Failed, Succeeded
<1>9. ThenOrElse'
  <2>1. \A k \in 1 .. n : done[k].part = "if" /\ part # "if" =>
            (k \in DOMAIN done' /\ done'[k].part = "if")
    BY <1>1
  <2> QED
    BY <1>1, <1>2, <2>1 DEF LineInv, ThenOrElse, PartsInv, Failed, Succeeded
<1> QED
  BY <1>4, <1>5, <1>6, <1>7, <1>8, <1>9 DEF LineInv

\* The status of the last command becomes known.
LEMMA StatusLearned ==
    ASSUME LineInv, Status
    PROVE  LineInv'
<1>1. value = "any" /\ place' = "between" /\ UNCHANGED <<tmp, ret, part>>
  BY DEF Status, Reap, At, LineInv, RunningInv
<1>2. done # <<>> /\ Head(tmp).separator = done[Len(done)].separator
      /\ done[Len(done)].part = part
  BY <1>1 DEF LineInv, RunningInv
<1>3. CASE UNCHANGED <<value, done>>
  BY <1>1, <1>3, LineUndisturbed DEF Status, cvars
<1>4. ASSUME NEW fate, done' = [done EXCEPT ![Len(done)] = Fate(fate)],
             \/ value' = "zero" /\ fate = "ok"
             \/ value' = "nonzero" /\ fate = "failed"
      PROVE  LineInv'
  <2>0. PICK n \in Nat : n = Len(done)
    BY AppendSequential DEF LineInv, PartsInv
  <2>1. /\ DOMAIN done = 1 .. n /\ DOMAIN done' = 1 .. n /\ Len(done') = n /\ n \in 1 .. n
        /\ Sequential(done') /\ (\A i \in 1 .. n : i # n => done'[i] = done[i])
        /\ done'[n] = Fate(fate)
    BY <1>2, <1>4, <2>0, SettleSequential DEF LineInv, PartsInv
  <2>2. /\ done'[n].part = done[n].part /\ done'[n].separator = done[n].separator
        /\ done'[n].fate = fate /\ done[n].part = part /\ done' # <<>>
    BY <1>2, <2>0, <2>1, EmptySequential DEF Fate
  <2>3. \A i \in 1 .. n : /\ done'[i].part = done[i].part
                          /\ done'[i].separator = done[i].separator
    BY <2>1, <2>2
  <2>4. RunningInv'
    BY <1>1, <1>2, <1>4, <2>0, <2>1, <2>2 DEF RunningInv, Failed, Succeeded
  <2>5. PartsInv'
    BY <1>1, <1>2, <2>1, <2>3 DEF LineInv, PartsInv
  <2>6. RetInv'
    <3>1. Evaluated' = Evaluated /\ Evaluated \subseteq 1 .. n /\ n \notin Evaluated
      BY <1>1, <1>4, <2>0, <2>1, <2>3 DEF Evaluated
    <3> QED
      BY <1>1, <2>1, <3>1 DEF LineInv, RetInv, Failed, Succeeded
  <2>7. GoOnInv'
    BY <1>4 DEF GoOnInv
  <2>8. SeparatorsObeyed'
    <3>1. ASSUME NEW i \in 1 .. n, i - 1 \in Before(i)', done'[i - 1].fate # "cd"
          PROVE  /\ done'[i - 1].separator = "&&" => \A k \in Before(i)' : ~Failed(k)'
                 /\ done'[i - 1].separator = "||" => \E k \in Before(i)' : ~Succeeded(k)'
      <4>1. Before(i)' = Before(i) /\ Before(i) \subseteq 1 .. n /\ n \notin Before(i)
        BY <2>1, <2>3 DEF Before
      <4>2. done'[i - 1] = done[i - 1]
        BY <2>1, <3>1, <4>1
      <4>3. /\ done[i - 1].separator = "&&" => \A k \in Before(i) : ~Failed(k)
            /\ done[i - 1].separator = "||" => \E k \in Before(i) : ~Succeeded(k)
        BY <2>1, <3>1, <4>1, <4>2 DEF LineInv, SeparatorsObeyed
      <4> QED
        BY <2>1, <4>1, <4>2, <4>3 DEF Failed, Succeeded
    <3> QED
      BY <2>1, <3>1 DEF SeparatorsObeyed, Before, Failed, Succeeded
  <2>9. ThenOrElse'
    <3>1. \A k \in 1 .. n : (done[k].part = "if" /\ part # "if") => done'[k] = done[k]
      BY <2>1, <2>2
    <3> QED
      BY <1>1, <2>1, <2>3, <3>1 DEF LineInv, ThenOrElse, Failed, Succeeded
  <2> QED
    BY <2>4, <2>5, <2>6, <2>7, <2>8, <2>9 DEF LineInv
<1> QED
  BY <1>3, <1>4 DEF Status

\* ret takes in the return value, and the list goes on or is left.
LEMMA ValueEvaluated ==
    ASSUME LineInv, Evaluate
    PROVE  LineInv'
<1>1. /\ At("between") /\ value # "none" /\ value' = "none"
      /\ UNCHANGED <<part, done, place>>
  BY DEF Evaluate, jvars
<1>2. PICK returned \in (IF value = "any" THEN BOOLEAN ELSE {value = "nonzero"}) :
          /\ ret' = (ret \/ returned)
          /\ tmp' = IF BreaksAfter(Head(tmp).separator, ret, returned) THEN <<>> ELSE Tail(tmp)
  BY DEF Evaluate
<1>3. PICK n \in Nat : n = Len(done)
  BY AppendSequential DEF LineInv, PartsInv
<1>4. n \in DOMAIN done /\ done[n].part = part /\ done[n].separator = Head(tmp).separator
      /\ DOMAIN done = 1 .. n
  BY <1>1, <1>3, SettleSequential DEF LineInv, RunningInv, PartsInv
<1>5. returned \in BOOLEAN /\ ret \in BOOLEAN
  BY <1>2 DEF LineInv, RetInv
<1>6. (returned => ~Succeeded(n)) /\ (~returned => ~Failed(n))
  BY <1>1, <1>2, <1>3, <1>4, <1>5 DEF LineInv, RunningInv, Failed, Succeeded
<1>7. RunningInv'
  BY <1>1 DEF RunningInv, At
<1>8. PartsInv'
  BY <1>1, <1>4 DEF LineInv, PartsInv, Sequential
<1>9. RetInv'
  <2>1. Evaluated' = Evaluated \cup {n}
    BY <1>1, <1>3, <1>4 DEF Evaluated
  <2> QED
    BY <1>1, <1>2, <1>5, <1>6, <2>1 DEF LineInv, RetInv, Failed, Succeeded
<1>10. GoOnInv'
  BY <1>1, <1>2, <1>3, <1>4, <1>5 DEF GoOnInv, BreaksAfter
<1>11. SeparatorsObeyed' /\ ThenOrElse'
  BY <1>1 DEF LineInv, SeparatorsObeyed, ThenOrElse, Before, Failed, Succeeded
<1> QED
  BY <1>7, <1>8, <1>9, <1>10, <1>11 DEF LineInv

\* A line begins or ends.
LEMMA LineFresh ==
    ASSUME done' = <<>>, value' = "none", ret' = FALSE,
           place' \notin {"forked", "written", "tested", "waiting"},
           part' \in {"plain", "if"} \/ (part' = "none" /\ tmp' = <<>>)
    PROVE  LineInv'
<1>1. DOMAIN done' = {} /\ Sequential(done')
  BY EmptySequential
<1>2. RunningInv' /\ PartsInv' /\ GoOnInv'
  BY <1>1 DEF RunningInv, PartsInv, GoOnInv
<1>3. RetInv'
  BY <1>1 DEF RetInv, Evaluated
<1>4. SeparatorsObeyed' /\ ThenOrElse'
  BY <1>1 DEF SeparatorsObeyed, ThenOrElse
<1> QED
  BY <1>2, <1>3, <1>4 DEF LineInv

\* The then-list or the else-list begins, as the condition has turned out.
LEMMA BranchBegins ==
    ASSUME LineInv, part = "if", value = "none",
           value' = "none", ret' = FALSE, place' = "between", UNCHANGED done,
           \/ part' = "then" /\ ~ret
           \/ part' = "else" /\ ret
    PROVE  LineInv'
<1>1. \A i \in DOMAIN done : done[i].part = "if"
  BY DEF LineInv, PartsInv
<1>2. RunningInv' /\ PartsInv'
  BY <1>1 DEF LineInv, RunningInv, PartsInv, Sequential
<1>3. Evaluated = DOMAIN done /\ Evaluated' = {}
  BY <1>1 DEF Evaluated
<1>4. RetInv' /\ SeparatorsObeyed'
  BY <1>3 DEF LineInv, RetInv, SeparatorsObeyed, Before, Failed, Succeeded
<1>5. GoOnInv'
  <2>1. done # <<>> => Len(done) \in DOMAIN done
    BY SettleSequential DEF LineInv, PartsInv
  <2> QED
    BY <1>1, <2>1 DEF GoOnInv
<1>6. ThenOrElse'
  BY <1>1, <1>3 DEF LineInv, RetInv, ThenOrElse, Failed, Succeeded
<1> QED
  BY <1>2, <1>4, <1>5, <1>6 DEF LineInv

LEMMA LineInvStep ==
    ASSUME LineInv, [CommandsNext]_<<jvars, cvars>>
    PROVE  LineInv'
<1>1. CASE PlainLine \/ ConditionalLine
  <2>1. /\ done' = <<>> /\ value' = "none" /\ ret' = FALSE /\ part' \in {"plain", "if"}
        /\ place' = "between"
    BY <1>1 DEF PlainLine, ConditionalLine, Begin, StartList
  <2> QED
    BY <2>1, LineFresh
<1>2. CASE Then \/ Else
  <2>1. /\ part = "if" /\ value = "none" /\ value' = "none" /\ ret' = FALSE
        /\ place' = "between" /\ UNCHANGED done
        /\ (part' = "then" /\ ~ret) \/ (part' = "else" /\ ret)
    BY <1>2 DEF Then, Else, Begin, StartList, Ready
  <2> QED
    BY <2>1, BranchBegins
<1>3. CASE LineDone
  <2>1. /\ done' = <<>> /\ value' = "none" /\ ret' = FALSE /\ tmp' = <<>>
        /\ place' = "prompt" /\ part' = "none"
    BY <1>3 DEF LineDone, NextLine, Ready
  <2> QED
    BY <2>1, LineFresh
<1>4. CASE Cd
  <2>1. /\ value = "none" /\ tmp # <<>> /\ value' = "none" /\ UNCHANGED <<ret, part>>
        /\ done' = Append(done, Fate("cd")) /\ place' = "between"
    BY <1>4 DEF Cd, Ready, At, jvars
  <2> QED
    BY <2>1, CommandJoins
<1>5. CASE NotFound
  <2>1. /\ value = "none" /\ tmp # <<>> /\ value' = "nonzero" /\ UNCHANGED <<ret, part, tmp>>
        /\ done' = Append(done, Fate("missing")) /\ place' = "between"
    BY <1>5 DEF NotFound, IsCommand, Ready, At, jvars
  <2> QED
    BY <2>1, CommandJoins
<1>6. CASE RunCommand
  <2>1. /\ value = "none" /\ tmp # <<>> /\ value' = "any" /\ UNCHANGED <<ret, part, tmp>>
        /\ \E fate \in {"background", "unknown"} : done' = Append(done, Fate(fate))
    BY <1>6 DEF RunCommand, IsCommand, Ready
  <2> QED
    BY <2>1, CommandJoins
<1>7. CASE Status
  BY <1>7, StatusLearned
<1>8. CASE Evaluate
  BY <1>8, ValueEvaluated
<1>9. CASE NoProcess \/ ExecStep \/ HandlerRuns \/ UserStep \/ (\E p \in Jobs : JobStep(p))
           \/ UNCHANGED <<jvars, cvars>>
  <2>1. UNCHANGED cvars
    BY <1>9 DEF NoProcess, ExecStep, HandlerRuns, UserStep, JobStep
  <2>2. place' \in {"forked", "written", "tested", "waiting"} =>
            place \in {"forked", "written", "tested", "waiting"}
    BY <1>9 DEF NoProcess, ForkFails, ExecStep, WriteEntry, SetAlarm, CountEntry, At,
                HandlerRuns, HandlerStep, Ring, AnswerYes, AnswerNo, ReapOldest, EndHandler,
                Interrupted, UserStep, SwitchAlarm, CtrlC, SayBye, JobStep, JobEnds, Age, jvars
  <2> QED
    BY <2>1, <2>2, LineUndisturbed
<1> QED
  BY <1>1, <1>2, <1>3, <1>4, <1>5, <1>6, <1>7, <1>8, <1>9 DEF CommandsNext, LineStep

LEMMA LineInvAlways == CommandsSpec => []LineInv
<1>1. LineInv /\ [CommandsNext]_<<jvars, cvars>> => LineInv'
  BY LineInvStep
<1> QED
  BY <1>1, LineInvInit, PTL DEF CommandsSpec

\* A command after && or || is run only if those before it allow it, for every
\* line, whatever signals break off the waits for their status.
THEOREM CommandsObeySeparators == CommandsSpec => []SeparatorsObeyed
<1>1. LineInv => SeparatorsObeyed
  BY DEF LineInv
<1> QED
  BY <1>1, LineInvAlways, PTL

\* Of every if-then-else only the list is run that its condition allows.
THEOREM CommandsThenOrElse == CommandsSpec => []ThenOrElse
<1>1. LineInv => ThenOrElse
  BY DEF LineInv
<1> QED
  BY <1>1, LineInvAlways, PTL

-----------------------------------------------------------------------------
(* The list of commands that a line is parsed to, and what is left of it.  *)

Command(T) == [name : T, args : Seq(T), separator : Separators \cup {"none"}]

\* The states of the loop of initCmdLL: after the first token there is a command.
ParseStates(T) ==
    {acc \in [nodes : Seq(Command(T)), next : {"name", "file", "any"}] :
        acc.next # "name" => acc.nodes # <<>>}

LEMMA ParseTokenStays ==
    ASSUME NEW T, NEW acc \in ParseStates(T), NEW t \in T
    PROVE  ParseToken(acc, t) \in ParseStates(T)
<1> DEFINE C    == Command(T)
           last == Len(acc.nodes)
<1>1. /\ acc = [nodes |-> acc.nodes, next |-> acc.next]
      /\ acc.nodes \in Seq(C) /\ acc.next \in {"name", "file", "any"}
      /\ acc.next # "name" => acc.nodes # <<>>
  BY DEF ParseStates
<1>2. ASSUME NEW nodes \in Seq(C), NEW next \in {"name", "file", "any"}, nodes # <<>>
      PROVE  [nodes |-> nodes, next |-> next] \in ParseStates(T)
  BY <1>2 DEF ParseStates
<1>3. CASE acc.next = "name"
  <2>1. Node(t) \in C
    <3>1. <<>> \in Seq(T)
      OBVIOUS
    <3> QED
      BY <3>1 DEF Node, Command
  <2> HIDE DEF C
  <2>2. Append(acc.nodes, Node(t)) \in Seq(C) /\ Append(acc.nodes, Node(t)) # <<>>
    BY <1>1, <2>1, AppendProperties
  <2>3. ParseToken(acc, t) = [nodes |-> Append(acc.nodes, Node(t)), next |-> "any"]
    BY <1>3 DEF ParseToken
  <2> QED
    BY <1>2, <2>2, <2>3
<1>4. CASE acc.next = "file"
  <2>1. ParseToken(acc, t) = [nodes |-> acc.nodes, next |-> "any"]
    BY <1>1, <1>4 DEF ParseToken
  <2> HIDE DEF C
  <2> QED
    BY <1>1, <1>2, <1>4, <2>1
<1>5. CASE acc.next = "any"
  <2>0. acc.nodes # <<>> /\ last \in 1 .. Len(acc.nodes)
    <3> HIDE DEF C
    <3>1. Len(acc.nodes) \in Nat /\ Len(acc.nodes) # 0
      BY <1>1, <1>5, LenProperties, EmptySeq
    <3> QED
      BY <1>1, <1>5, <3>1
  <2>1. acc.nodes[last] \in C
    <3> HIDE DEF C
    <3> QED
      BY <1>1, <2>0, ElementOfSeq
  <2>2. ASSUME NEW c \in C
        PROVE  [acc.nodes EXCEPT ![last] = c] \in Seq(C) /\ [acc.nodes EXCEPT ![last] = c] # <<>>
    <3> DEFINE r == [acc.nodes EXCEPT ![last] = c]
    <3> HIDE DEF C
    <3>1. r \in Seq(C) /\ Len(r) = Len(acc.nodes)
      BY <1>1, <2>0, ExceptSeq
    <3>2. Len(acc.nodes) # 0
      BY <1>1, <2>0, EmptySeq
    <3> HIDE DEF r
    <3>3. r # <<>>
      BY <3>1, <3>2
    <3> QED
      BY <3>1, <3>3 DEF r
  <2>7. ParseToken(acc, t) = TakeToken(acc, t)
    BY <1>5 DEF ParseToken
  <2>3. CASE t \in Separators
    <3> DEFINE c == [acc.nodes[last] EXCEPT !.separator = t]
    <3>1. c \in C
      BY <2>1, <2>3 DEF Command
    <3>0. t \notin Redirections /\ t # "&"
      BY <2>3 DEF Redirections, Separators
    <3>2. TakeToken(acc, t) = [nodes |-> [acc.nodes EXCEPT ![last] = c], next |-> "name"]
      BY <2>3, <3>0 DEF TakeToken
    <3> HIDE DEF C, c
    <3>3. [acc.nodes EXCEPT ![last] = c] \in Seq(C) /\ [acc.nodes EXCEPT ![last] = c] # <<>>
      BY <2>2, <3>1
    <3> QED
      BY <1>2, <2>7, <3>2, <3>3
  <2>4. CASE t \in Redirections
    <3>1. t \notin Separators /\ t # "&"
      BY <2>4 DEF Redirections, Separators
    <3>2. TakeToken(acc, t) = [nodes |-> acc.nodes, next |-> "file"]
      BY <1>1, <2>4, <3>1 DEF TakeToken
    <3> HIDE DEF C
    <3> QED
      BY <1>1, <1>2, <2>0, <2>7, <3>2
  <2>5. CASE t = "&"
    <3>1. t \notin Separators /\ t \notin Redirections
      BY <2>5 DEF Redirections, Separators
    <3>2. TakeToken(acc, t) = acc
      BY <2>5, <3>1 DEF TakeToken
    <3> QED
      BY <2>7, <3>2
  <2>6. CASE t \notin Separators /\ t \notin Redirections /\ t # "&"
    <3> DEFINE c == [acc.nodes[last] EXCEPT !.args = Append(@, t)]
    <3>1. c \in C
      <4>1. acc.nodes[last].args \in Seq(T)
        BY <2>1 DEF Command
      <4>2. Append(acc.nodes[last].args, t) \in Seq(T)
        BY <4>1, AppendProperties
      <4> QED
        BY <2>1, <4>2 DEF Command
    <3>2. TakeToken(acc, t) = [nodes |-> [acc.nodes EXCEPT ![last] = c], next |-> "any"]
      BY <2>6 DEF TakeToken
    <3> HIDE DEF C, c
    <3>3. [acc.nodes EXCEPT ![last] = c] \in Seq(C) /\ [acc.nodes EXCEPT ![last] = c] # <<>>
      BY <2>2, <3>1
    <3> QED
      BY <1>2, <2>7, <3>2, <3>3
  <2> QED
    BY <2>3, <2>4, <2>5, <2>6
<1> QED
  BY <1>1, <1>3, <1>4, <1>5

\* Whatever its tokens are, a line is parsed to a list of commands.
LEMMA LinesAreParsed ==
    ASSUME NEW T, NEW tokens \in Seq(T)
    PROVE  initCmdLL(tokens) \in Seq(Command(T))
<1> DEFINE S       == ParseStates(T)
           n       == Len(tokens)
           base    == [nodes |-> <<>>, next |-> "name"]
           step(f) == [i \in 0 .. n |->
                          IF i = 0 THEN base ELSE ParseToken(f[i - 1], tokens[i])]
           g       == [i \in 1 .. n |-> [acc \in S |-> ParseToken(acc, tokens[i])]]
           turn    == CHOOSE f : f = step(f)
<1>0. n \in Nat /\ \A i \in 1 .. n : tokens[i] \in T
  BY ElementOfSeq, LenProperties
<1>1. base \in S
  BY DEF ParseStates
<1>2. g \in [1 .. n -> [S -> S]]
  <2>1. \A i \in 1 .. n, acc \in S : ParseToken(acc, tokens[i]) \in S
    BY <1>0, ParseTokenStays
  <2> HIDE DEF S, n
  <2> QED
    BY <2>1
<1>3. \A i \in 1 .. n, acc \in S : g[i][acc] = ParseToken(acc, tokens[i])
  OBVIOUS
<1> HIDE DEF g, S, base
<1>4. PICK f : IsRun(f, S, n, base, g)
  BY <1>0, <1>1, <1>2, RunExists
<1>5. f = step(f)
  <2>1. f \in [0 .. n -> S] /\ f[0] = base
    BY <1>4 DEF IsRun
  <2>2. ASSUME NEW i \in 0 .. n, i # 0
        PROVE  f[i] = ParseToken(f[i - 1], tokens[i])
    <3>1. i \in 1 .. n /\ i - 1 \in 0 .. n
      BY <1>0, <2>2, SMT
    <3>2. f[i - 1] \in S
      BY <2>1, <3>1
    <3> QED
      BY <1>3, <1>4, <3>1, <3>2 DEF IsRun
  <2> QED
    BY <2>1, <2>2
<1>6. turn = step(turn)
  <2> HIDE DEF step
  <2> QED
    BY <1>5
<1>7. initCmdLL(tokens) = turn[n].nodes
  BY DEF initCmdLL, base
<1> HIDE DEF turn
<1>8. turn[0] = base
  BY <1>0, <1>6
<1>9. ASSUME NEW i \in 1 .. n, turn[i - 1] \in S
      PROVE  turn[i] = g[i][turn[i - 1]]
  <2>1. i \in 0 .. n /\ i # 0
    BY <1>0
  <2>2. turn[i] = ParseToken(turn[i - 1], tokens[i])
    BY <1>6, <2>1
  <2> QED
    BY <1>3, <1>9, <2>2
<1> HIDE DEF n
<1>10. turn[n] \in S
  BY <1>0, <1>1, <1>2, <1>8, <1>9, LoopStays
<1> QED
  BY <1>7, <1>10 DEF S, ParseStates

Commands == Command(STRING)

\* What is left of the list is a list, and nothing is left at the prompt.
TmpInv ==
    /\ tmp \in Seq(Commands)
    /\ thenTokens \in Seq(STRING) /\ elsefiTokens \in Seq(STRING)
    /\ place = "prompt" => tmp = <<>>
    /\ value # "none" => tmp # <<>>

LEMMA TmpInvInit == CommandsInit => TmpInv
BY DEF CommandsInit, TmpInv

LEMMA TmpInvStep ==
    ASSUME LineInv, TmpInv, [CommandsNext]_<<jvars, cvars>>
    PROVE  TmpInv'
<1> USE DEF TmpInv
<1> HIDE DEF Commands
<1>0. ASSUME NEW tokens \in Seq(STRING), NEW which, Begin(tokens, which)
      PROVE  tmp' \in Seq(Commands) /\ place' = "between" /\ value' = "none"
  BY <1>0, LinesAreParsed DEF Begin, StartList, At, Commands
<1>1. CASE PlainLine
  BY <1>0, <1>1, LinesAssumption DEF PlainLine
<1>2. CASE ConditionalLine
  <2>1. PICK parts \in Conditional :
            /\ ThenOK(parts) /\ Begin(parts[1], "if") /\ thenTokens' = Tail(parts[2])
            /\ \/ elsefiTokens' = <<>>
               \/ Len(parts[3]) >= 2 /\ elsefiTokens' = Tail(parts[3])
    BY <1>2 DEF ConditionalLine
  <2> DEFINE L == Seq(STRING)
  <2>2. parts \in Seq(L) /\ Len(parts) >= 3
    BY <2>1, LinesAssumption DEF ThenOK
  <2>3. parts[1] \in L /\ parts[2] \in L /\ parts[3] \in L /\ Len(parts[2]) >= 2
    <3> HIDE DEF L
    <3>1. 1 \in 1 .. Len(parts) /\ 2 \in 1 .. Len(parts) /\ 3 \in 1 .. Len(parts)
      BY <2>2, LenProperties
    <3> QED
      BY <2>1, <2>2, <3>1, ElementOfSeq DEF ThenOK
  <2>4. thenTokens' \in L /\ elsefiTokens' \in L
    <3>1. ASSUME NEW s \in L, Len(s) >= 2
          PROVE  Tail(s) \in L
      BY <3>1
    <3> HIDE DEF L
    <3>2. Tail(parts[2]) \in L
      BY <2>3, <3>1
    <3>3. <<>> \in L
      BY DEF L
    <3>4. Len(parts[3]) >= 2 => Tail(parts[3]) \in L
      BY <2>3, <3>1
    <3> QED
      BY <2>1, <3>2, <3>3, <3>4
  <2> QED
    BY <1>0, <2>1, <2>3, <2>4
<1>3. CASE Then \/ Else
  BY <1>0, <1>3 DEF Then, Else
<1>4. CASE LineDone
  BY <1>4 DEF LineDone, Ready
<1>5. CASE Cd \/ Evaluate
  <2>1. tmp # <<>> /\ (tmp' = <<>> \/ tmp' = Tail(tmp))
    BY <1>5 DEF Cd, Evaluate
  <2>2. place' = "between" /\ value' = "none" /\ UNCHANGED <<thenTokens, elsefiTokens>>
    BY <1>5 DEF Cd, Evaluate, Ready, At, jvars
  <2>3. tmp' \in Seq(Commands)
    <3>1. tmp \in Seq(Commands) /\ <<>> \in Seq(Commands)
      OBVIOUS
    <3>2. Tail(tmp) \in Seq(Commands)
      BY <2>1, <3>1, HeadTailProperties
    <3> QED
      BY <2>1, <3>1, <3>2
  <2> QED
    BY <2>2, <2>3
<1>6. CASE NotFound \/ RunCommand \/ NoProcess \/ Status
  <2>1. Status => value # "none"
    BY DEF Status, Reap, At, LineInv, RunningInv
  <2>2. tmp # <<>> /\ UNCHANGED <<tmp, thenTokens, elsefiTokens>>
    BY <1>6, <2>1 DEF NotFound, RunCommand, NoProcess, Status, IsCommand, cvars
  <2>3. place' # "prompt"
    BY <1>6 DEF NotFound, RunCommand, Fork, NoProcess, ForkFails, Status, Reap, Ready, At, jvars
  <2> QED
    BY <2>2, <2>3
<1>7. CASE ExecStep \/ HandlerRuns \/ UserStep \/ (\E p \in Jobs : JobStep(p))
           \/ UNCHANGED <<jvars, cvars>>
  <2>1. UNCHANGED cvars
    BY <1>7 DEF ExecStep, HandlerRuns, UserStep, JobStep
  <2>2. place' = "prompt" => place = "prompt"
    BY <1>7 DEF ExecStep, WriteEntry, SetAlarm, CountEntry, At,
                HandlerRuns, HandlerStep, Ring, AnswerYes, AnswerNo, ReapOldest, EndHandler,
                Interrupted, UserStep, SwitchAlarm, CtrlC, SayBye, JobStep, JobEnds, Age, jvars
  <2> QED
    BY <2>1, <2>2 DEF cvars
<1> QED
  BY <1>1, <1>2, <1>3, <1>4, <1>5, <1>6, <1>7 DEF CommandsNext, LineStep

\* A list is cut short after its last command only if its commands so far allow it.
LEMMA ListCutShort ==
    ASSUME LineInv, TmpInv, [CommandsNext]_<<jvars, cvars>>, Len(tmp) > 1, tmp' = <<>>
    PROVE  LET last == done[Len(done)]
               list == Before(Len(done)) \cup {Len(done)}
           IN  \/ last.separator = "&&" /\ \E k \in list : ~Succeeded(k)
               \/ last.separator = "||" /\ \A k \in list : ~Failed(k)
<1> HIDE DEF Commands
<1>0. tmp # <<>> /\ tmp \in Seq(Commands) /\ place # "prompt" /\ Tail(tmp) # <<>>
  <2>1. tmp \in Seq(Commands) /\ Len(tmp) \in Nat
    BY LenProperties DEF TmpInv
  <2>2. tmp # <<>>
    BY <2>1, EmptySequential
  <2> DEFINE r == Tail(tmp)
  <2>3. Len(r) = Len(tmp) - 1
    BY <2>1, <2>2, HeadTailProperties
  <2> HIDE DEF r
  <2>4. r # <<>>
    <3>1. Len(r) # 0
      BY <2>1, <2>3
    <3> QED
      BY <3>1, EmptySequential
  <2> QED
    BY <2>1, <2>2, <2>4 DEF TmpInv, r
<1>1. Evaluate
  <2>1. ~(UNCHANGED tmp)
    BY <1>0
  <2>2. ~(PlainLine \/ ConditionalLine)
    BY <1>0 DEF PlainLine, ConditionalLine, At
  <2>3. ~(Then \/ Else \/ LineDone \/ Cd)
    BY <1>0 DEF Then, Else, LineDone, Cd
  <2>4. ~(NotFound \/ RunCommand \/ NoProcess \/ Status)
    BY <2>1 DEF NotFound, RunCommand, NoProcess, Status, cvars
  <2>5. ~(ExecStep \/ HandlerRuns \/ UserStep \/ (\E p \in Jobs : JobStep(p)))
    BY <2>1 DEF ExecStep, HandlerRuns, UserStep, JobStep, cvars
  <2> QED
    BY <2>1, <2>2, <2>3, <2>4, <2>5 DEF CommandsNext, LineStep, cvars
<1>2. value # "none"
  BY <1>1 DEF Evaluate
<1>3. PICK returned \in (IF value = "any" THEN BOOLEAN ELSE {value = "nonzero"}) :
          BreaksAfter(Head(tmp).separator, ret, returned)
  BY <1>0, <1>1 DEF Evaluate
<1>4. PICK n \in Nat : n = Len(done)
  BY AppendSequential DEF LineInv, PartsInv
<1>5. n \in DOMAIN done /\ done[n].part = part /\ done[n].separator = Head(tmp).separator
      /\ DOMAIN done = 1 .. n
  BY <1>2, <1>4, SettleSequential DEF LineInv, RunningInv, PartsInv
<1>6. returned \in BOOLEAN /\ ret \in BOOLEAN
  BY <1>3 DEF LineInv, RetInv
<1>7. (returned => ~Succeeded(n)) /\ (~returned => ~Failed(n))
  BY <1>2, <1>3, <1>4, <1>5, <1>6 DEF LineInv, RunningInv, Failed, Succeeded
<1>8. Before(n) = Evaluated
  BY <1>2, <1>4, <1>5 DEF Before, Evaluated
<1>9. /\ ret => \E k \in Before(n) : ~Succeeded(k)
      /\ ~ret => \A k \in Before(n) : ~Failed(k)
  BY <1>8 DEF LineInv, RetInv
<1>10. CASE done[n].separator = "&&" /\ (ret \/ returned)
  BY <1>4, <1>7, <1>9, <1>10
<1>11. CASE done[n].separator = "||" /\ ~ret /\ ~returned
  BY <1>4, <1>7, <1>9, <1>11
<1> QED
  BY <1>3, <1>5, <1>6, <1>10, <1>11 DEF BreaksAfter

\* A command is left out only after && and a command before it that has not
\* succeeded, or after || and none before it that has failed, for every line and
\* whatever breaks off the waits.
THEOREM CommandsLeftOut == CommandsSpec => LeftOutFor
<1>1. LineInv /\ TmpInv /\ [CommandsNext]_<<jvars, cvars>> => TmpInv'
  BY TmpInvStep
<1>2. LineInv /\ TmpInv /\ [CommandsNext]_<<jvars, cvars>> =>
          [ (Len(tmp) > 1 /\ tmp' = <<>>) =>
              LET last == done[Len(done)]
                  list == Before(Len(done)) \cup {Len(done)}
              IN  \/ last.separator = "&&" /\ \E k \in list : ~Succeeded(k)
                  \/ last.separator = "||" /\ \A k \in list : ~Failed(k) ]_<<jvars, cvars>>
  BY ListCutShort
<1> QED
  BY <1>1, <1>2, TmpInvInit, LineInvAlways, PTL DEF CommandsSpec, LeftOutFor

\* The job table keeps its shape in the shell that runs command lines.
THEOREM CommandsKeepTable == CommandsSpec => []JobsTypeOK
BY CommandsRefineJobs, JobTableKeepsShape, PTL DEF CommandsImplementJobs
=============================================================================
