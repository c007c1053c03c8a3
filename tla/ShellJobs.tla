----------------------------- MODULE ShellJobs -----------------------------
(***************************************************************************)
(* The jobs of qShell: executeSingleCmd of Exec.c starts them and keeps    *)
(* them in g_intRunProc; alarmhandler of Handler.c asks, every five        *)
(* seconds, whether the oldest one should go on; inthandler meets Ctrl+C.  *)
(* Both handlers run in the middle of the shell's own code and share its   *)
(* global variables, so that code is cut where a signal matters.           *)
(*                                                                         *)
(* A command line is a sequence of commands that are run one after the     *)
(* other, all in the background or all in the foreground; which of them    *)
(* run is not this module's concern.  Time is abstracted: an alarm that is *)
(* set may ring at any later moment, and of alarmprocess, the table of the *)
(* starting times, remains which jobs have become old: alarmhandler counts *)
(* 5000 seconds from the start of a job and sets the alarm to a thousandth *)
(* of what is left, which is none after 4000 seconds.  The shell runs on   *)
(* MINIX 3, where a waitpid that a handler has interrupted is not resumed. *)
(***************************************************************************)
EXTENDS Integers, FiniteSets

CONSTANTS
    Jobs,            \* the pids that fork returns, in this order (a bound)
    NoProc           \* the -1 of runningProc, and an unused table entry

ASSUME JobsAssumption ==
    Jobs \subseteq Nat /\ IsFiniteSet(Jobs) /\ NoProc \notin Jobs

VARIABLES
    place,           \* where the shell is in executeSingleCmd
    pid,             \* the process it forked last
    bg,              \* the line ends with &
    runningProc,     \* whom Ctrl+C is passed on to
    g_intRunProc,    \* the table of jobs, oldest first
    g_intNoRunProc,  \* how many of its entries are in use
    armed,           \* an alarm is set
    ALARM,           \* what alarmoff and alarmon switch
    handler,         \* where alarmhandler is, "none" if it is not running
    proc,            \* the state of each process
    old              \* the jobs started more than 4000 seconds ago

jvars == <<place, pid, bg, runningProc, g_intRunProc, g_intNoRunProc, armed,
           ALARM, handler, proc, old>>

\* "between" is the loop of executeCmds, between two calls of executeSingleCmd.
Places == {"prompt", "between", "forked", "written", "tested", "waiting", "exited"}

Entries == 0 .. Cardinality(Jobs)

Oldest == g_intRunProc[0]

\* The shell's own code runs when no handler does.
At(where) == place = where /\ handler = "none"

-----------------------------------------------------------------------------
(* Lines of commands, and executeSingleCmd for a command that getCmdPath    *)
(* has found.                                                              *)

\* executeCmds begins, with the list of a new line or with the next list of an
\* if-then-else, which can set bg but never resets it.
StartList ==
    /\ At("prompt") \/ At("between")
    /\ bg' \in {bg, TRUE}
    /\ runningProc' = NoProc
    /\ place' = "between"
    /\ UNCHANGED <<pid, g_intRunProc, g_intNoRunProc, armed, ALARM, handler, proc, old>>

Unborn == {p \in Jobs : proc[p] = "unborn"}

Fork ==
    /\ At("between")
    /\ \E p \in Unborn :
          /\ \A q \in Unborn : p <= q
          /\ pid' = p
          /\ proc' = [proc EXCEPT ![p] = "running"]
    /\ place' = "forked"
    /\ UNCHANGED <<bg, runningProc, g_intRunProc, g_intNoRunProc, armed, ALARM,
                   handler, old>>

\* Every attempt to fork has failed.
ForkFails ==
    /\ At("between")
    /\ place' = "exited"
    /\ UNCHANGED <<pid, bg, runningProc, g_intRunProc, g_intNoRunProc, armed,
                   ALARM, handler, proc, old>>

\* The entry is written at the end of the table, before it is counted.
WriteEntry ==
    /\ At("forked")
    /\ runningProc' = IF bg THEN runningProc ELSE pid
    /\ g_intRunProc' = [g_intRunProc EXCEPT ![g_intNoRunProc] = pid]
    /\ place' = "written"
    /\ UNCHANGED <<pid, bg, g_intNoRunProc, armed, ALARM, handler, proc, old>>

\* if (g_intNoRunProc == 0) alarm(5)
SetAlarm ==
    /\ At("written")
    /\ armed' = (armed \/ g_intNoRunProc = 0)
    /\ place' = "tested"
    /\ UNCHANGED <<pid, bg, runningProc, g_intRunProc, g_intNoRunProc, ALARM,
                   handler, proc, old>>

CountEntry ==
    /\ At("tested")
    /\ g_intNoRunProc' = g_intNoRunProc + 1
    /\ place' = IF bg THEN "between" ELSE "waiting"
    /\ UNCHANGED <<pid, bg, runningProc, g_intRunProc, armed, ALARM, handler, proc, old>>

\* waitpid returns the job, or an error if alarmhandler has waited for it.  The
\* job stays in the table.
Reap ==
    /\ At("waiting") /\ proc[pid] # "running"
    /\ proc' = [proc EXCEPT ![pid] = "gone"]
    /\ place' = "between"
    /\ UNCHANGED <<pid, bg, runningProc, g_intRunProc, g_intNoRunProc, armed,
                   ALARM, handler, old>>

\* executeCmds returns, and main prompts for a line.
NextLine ==
    /\ At("between")
    /\ runningProc' = NoProc
    /\ bg' = FALSE
    /\ place' = "prompt"
    /\ UNCHANGED <<pid, g_intRunProc, g_intNoRunProc, armed, ALARM, handler, proc, old>>

SwitchAlarm ==
    /\ At("prompt")
    /\ ALARM' \in {"ENABLED", "DISABLED"}
    /\ UNCHANGED <<place, pid, bg, runningProc, g_intRunProc, g_intNoRunProc,
                   armed, handler, proc, old>>

-----------------------------------------------------------------------------
(* alarmhandler.                                                           *)

\* MUTANT: the alarm for the remaining jobs is forgotten.
DropOldest_NoAlarm ==
    /\ g_intRunProc' = [i \in Entries |->
          IF i < g_intNoRunProc THEN g_intRunProc[i + 1] ELSE g_intRunProc[i]]
    /\ g_intNoRunProc' = g_intNoRunProc - 1
    /\ armed' = FALSE

\* MUTANT: the loop stops one entry early.
DropOldest_ShortLoop ==
    /\ g_intRunProc' = [i \in Entries |->
          IF i < g_intNoRunProc - 1 THEN g_intRunProc[i + 1] ELSE g_intRunProc[i]]
    /\ g_intNoRunProc' = g_intNoRunProc - 1
    /\ armed' = (g_intNoRunProc - 1 > 0 /\ g_intRunProc'[0] \notin old)

\* The end of the handler: the table moves down by one entry, one more than are
\* counted, and the next alarm is set if a job is left, unless it is old.
DropOldest ==
    /\ g_intRunProc' = [i \in Entries |->
          IF i < g_intNoRunProc THEN g_intRunProc[i + 1] ELSE g_intRunProc[i]]
    /\ g_intNoRunProc' = g_intNoRunProc - 1
    /\ armed' = (g_intNoRunProc - 1 > 0 /\ g_intRunProc'[0] \notin old)

\* A waitpid of the shell that a handler has interrupted returns with an error,
\* which executeSingleCmd does not look at.
Interrupted == place' = IF place = "waiting" THEN "between" ELSE place

EndHandler ==
    /\ DropOldest
    /\ Interrupted
    /\ handler' = "none"

Exists(p) == p \in Jobs /\ proc[p] \in {"running", "zombie"}

\* The alarm rings.  With ALARM enabled the user is asked if the oldest job
\* exists; with ALARM disabled the shell waits for that job.
Ring ==
    /\ armed /\ handler = "none" /\ place # "exited"
    /\ \/ /\ ALARM = "ENABLED" /\ Exists(Oldest)
          /\ handler' = "asking"
          /\ armed' = FALSE
          /\ UNCHANGED <<place, g_intRunProc, g_intNoRunProc>>
       \/ /\ ALARM = "ENABLED" /\ ~Exists(Oldest)
          /\ EndHandler
       \/ /\ ALARM = "DISABLED"
          /\ handler' = "reaping"
          /\ armed' = FALSE
          /\ UNCHANGED <<place, g_intRunProc, g_intNoRunProc>>
    /\ UNCHANGED <<pid, bg, runningProc, ALARM, proc, old>>

\* "y", or what happens to be in the uninitialised g_chrAlarmIn.
AnswerYes ==
    /\ handler = "asking" /\ place # "exited"
    /\ proc' = [proc EXCEPT ![Oldest] = "zombie"]
    /\ EndHandler
    /\ UNCHANGED <<pid, bg, runningProc, ALARM, old>>

\* MUTANT: the job is let go, without waiting for it.
AnswerNo_NoWait ==
    /\ handler = "asking" /\ place # "exited"
    /\ EndHandler
    /\ UNCHANGED <<pid, bg, runningProc, ALARM, proc, old>>

\* "n": the handler waits for the job itself.
AnswerNo ==
    /\ handler = "asking" /\ place # "exited"
    /\ handler' = "reaping"
    /\ UNCHANGED <<place, pid, bg, runningProc, g_intRunProc, g_intNoRunProc,
                   armed, ALARM, proc, old>>

\* MUTANT: the handler waits for a job that the shell has waited for already.
ReapOldest_Blocks ==
    /\ handler = "reaping" /\ place # "exited"
    /\ proc[Oldest] = "zombie"
    /\ proc' = [proc EXCEPT ![Oldest] = "gone"]
    /\ EndHandler
    /\ UNCHANGED <<pid, bg, runningProc, ALARM, old>>

\* waitpid returns the oldest job, or an error if it is no child any more.
ReapOldest ==
    /\ handler = "reaping" /\ place # "exited"
    /\ \/ /\ ~Exists(Oldest)
          /\ UNCHANGED proc
       \/ /\ Exists(Oldest) /\ proc[Oldest] = "zombie"
          /\ proc' = [proc EXCEPT ![Oldest] = "gone"]
    /\ EndHandler
    /\ UNCHANGED <<pid, bg, runningProc, ALARM, old>>

-----------------------------------------------------------------------------
(* Ctrl+C and the processes.                                               *)

\* The terminal interrupts every process of the shell's group, and inthandler
\* passes the signal on to runningProc.  Which of the running jobs it ends is
\* theirs to say.  Without a runningProc sayBye asks whether to exit.  Else a
\* waitpid is interrupted, which in alarmhandler is followed by its end.
CtrlC ==
    /\ place # "exited"
    /\ \E ended \in SUBSET {p \in Jobs : proc[p] = "running"} :
          proc' = [p \in Jobs |-> IF p \in ended THEN "zombie" ELSE proc[p]]
    /\ \/ /\ runningProc = NoProc
          /\ place' = "exited" /\ handler' = "none"
          /\ UNCHANGED <<g_intRunProc, g_intNoRunProc, armed>>
       \/ /\ handler = "reaping"
          /\ EndHandler
       \/ /\ handler = "none"
          /\ Interrupted
          /\ UNCHANGED <<g_intRunProc, g_intNoRunProc, armed, handler>>
       \/ /\ handler = "asking"
          /\ UNCHANGED <<place, g_intRunProc, g_intNoRunProc, armed, handler>>
    /\ UNCHANGED <<pid, bg, runningProc, ALARM, old>>

\* The command exit, confirmed.
SayBye ==
    /\ At("prompt")
    /\ place' = "exited"
    /\ UNCHANGED <<pid, bg, runningProc, g_intRunProc, g_intNoRunProc, armed,
                   ALARM, handler, proc, old>>

JobEnds(p) ==
    /\ proc[p] = "running" /\ place # "exited"
    /\ proc' = [proc EXCEPT ![p] = "zombie"]
    /\ UNCHANGED <<place, pid, bg, runningProc, g_intRunProc, g_intNoRunProc,
                   armed, ALARM, handler, old>>

\* 4000 seconds have passed since p was entered in the table; the shell was
\* waiting meanwhile.
Age(p) ==
    /\ p \notin old /\ proc[p] # "unborn" /\ place \in {"prompt", "waiting"}
    /\ old' = old \cup {p}
    /\ UNCHANGED <<place, pid, bg, runningProc, g_intRunProc, g_intNoRunProc,
                   armed, ALARM, handler, proc>>

JobsInit ==
    /\ place = "prompt"
    /\ pid = NoProc
    /\ bg = FALSE
    /\ runningProc = NoProc
    /\ g_intRunProc = [i \in Entries |-> NoProc]
    /\ g_intNoRunProc = 0
    /\ armed = FALSE
    /\ ALARM \in {"ENABLED", "DISABLED"}      \* the profile's, ENABLED by default
    /\ handler = "none"
    /\ proc = [p \in Jobs |-> "unborn"]
    /\ old = {}

\* The shell's own steps within a command, and those of its alarm handler.
ShellStep == WriteEntry \/ SetAlarm \/ CountEntry \/ Reap \/ NextLine
HandlerStep == Ring \/ AnswerYes \/ AnswerNo \/ ReapOldest

JobsNext ==
    \/ StartList \/ Fork \/ ForkFails \/ SwitchAlarm \/ CtrlC \/ SayBye
    \/ ShellStep \/ HandlerStep
    \/ \E p \in Jobs : JobEnds(p) \/ Age(p)

JobsSpec == JobsInit /\ [][JobsNext]_jvars

-----------------------------------------------------------------------------
(* What the shell does about its jobs.                                     *)

\* The entries in use.
Table == {i \in Entries : i < g_intNoRunProc}
Listed == {g_intRunProc[i] : i \in Table}

\* The table holds distinct jobs that have been started, and its length goes
\* below zero only inside executeSingleCmd.
JobsTypeOK ==
    /\ place \in Places /\ handler \in {"none", "asking", "reaping"}
    /\ g_intRunProc \in [Entries -> Jobs \cup {NoProc}]
    /\ g_intNoRunProc \in -1 .. Cardinality(Jobs)
    /\ g_intNoRunProc < 0 => place \in {"tested", "exited"}
    /\ old \subseteq Jobs
    /\ \A i \in Table : /\ g_intRunProc[i] \in Jobs
                        /\ proc[g_intRunProc[i]] # "unborn"
                        /\ \A j \in Table : g_intRunProc[i] = g_intRunProc[j] => i = j

\* A job drops out of the table with nobody left to wait for it in two ways: the
\* user has had it killed, or Ctrl+C breaks off the wait that the user has asked
\* for (or alarmoff stands for).  Only the second leaves it running.
UnreapedOnlyBy ==
    [][ \A p \in Jobs :
          (p \in Listed /\ p \notin Listed' /\ proc'[p] \in {"running", "zombie"})
              => handler = "reaping" \/ (handler = "asking" /\ proc'[p] = "zombie") ]_jvars

\* As long as jobs are listed an alarm is set or being handled.
AlarmCovers == Table # {} => armed \/ handler # "none"

\* The alarm that watches the table is lost in two ways: the handler comes
\* between the test of the table's length and the counting of the new entry
\* and empties the table, or the job it comes to next is old.
AlarmLostOnlyBy ==
    [][ (AlarmCovers /\ ~AlarmCovers' /\ place' # "exited") =>
          \/ place = "tested" /\ g_intNoRunProc = 0
          \/ handler' = "none" /\ Oldest' \in old ]_jvars

\* Whatever rings, is asked or is interrupted meanwhile, a command comes to an
\* end and the shell to its prompt, if programs end.
CommandsEnd == (place # "prompt") ~> (place \in {"prompt", "exited"} /\ handler = "none")
=============================================================================
