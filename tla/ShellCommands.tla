---------------------------- MODULE ShellCommands ----------------------------
(***************************************************************************)
(* The command lines of qShell: initCmdLL of Util.c makes a list of        *)
(* commands of a line, executeCmds and conditionalExec of Exec.c run it.   *)
(* Their control flow hangs on what executeSingleCmd returns, and that is  *)
(* the exit status of a job only if nothing has broken off the wait for    *)
(* it; so this module is composed with the jobs, the alarm and Ctrl+C of   *)
(* ShellJobs, whose actions it extends.                                    *)
(*                                                                         *)
(* A line is given by its tokens.  Aliases are resolved before (see        *)
(* ShellSession), and where cd leads is no concern of this module: it      *)
(* runs inside the shell, and executeCmds looks at neither its success nor *)
(* its separator.                                                          *)
(***************************************************************************)
EXTENDS ShellJobs, Sequences, SequencesExt

CONSTANTS
    Plain,           \* lines: sequences of tokens, not ending in a separator
    Conditional,     \* if-then-else lines: their parts between semicolons
    InPath           \* the commands that getCmdPath finds

\* A line is a string that strtok has cut into tokens.
ASSUME LinesAssumption ==
    Plain \subseteq Seq(STRING) /\ Conditional \subseteq Seq(Seq(STRING))

Separators   == {"&&", "||", ";", "|"}
Redirections == {">", "<", ">>"}

VARIABLES
    tmp,             \* what is left of the list, with the command being run
    value,           \* what executeSingleCmd returns, "none" if it is not running
    ret,             \* whether executeCmds has accumulated a non-zero code
    part,            \* which list of the line this is
    thenTokens, elsefiTokens,
    done             \* auxiliary: the fates of the line's commands so far

cvars == <<tmp, value, ret, part, thenTokens, elsefiTokens, done>>

-----------------------------------------------------------------------------
(* Parsing.                                                                *)

Node(name) == [name |-> name, args |-> <<>>, separator |-> "none"]

\* What a token is to the command at the end of the list.
TakeToken(acc, t) ==
    LET c           == acc.nodes[Len(acc.nodes)]
        With(d, next) == [nodes |-> [acc.nodes EXCEPT ![Len(acc.nodes)] = d], next |-> next]
    IN  CASE t \in Separators   -> With([c EXCEPT !.separator = t], "name")
          [] t \in Redirections -> [acc EXCEPT !.next = "file"]
          [] t = "&"            -> acc
          [] OTHER              -> With([c EXCEPT !.args = Append(c.args, t)], "any")

\* One turn of the loop of initCmdLL.  "next" tells what the loop takes the token
\* for whatever it is: the name of a command, or the file of a redirection.
ParseToken(acc, t) ==
    CASE acc.next = "name" -> [nodes |-> Append(acc.nodes, Node(t)), next |-> "any"]
      [] acc.next = "file" -> [acc EXCEPT !.next = "any"]
      [] acc.next = "any"  -> TakeToken(acc, t)

initCmdLL(tokens) ==
    LET turn[i \in 0 .. Len(tokens)] ==
            IF i = 0 THEN [nodes |-> <<>>, next |-> "name"]
            ELSE ParseToken(turn[i - 1], tokens[i])
    IN  turn[Len(tokens)].nodes

SetsBg(tokens) == Last(tokens) = "&"

\* conditionalExec takes a line whose second part begins with "then" and a
\* command.  The third is "fi", or "else" and a command followed by the part "fi".
\* If there is no fourth part, cmdTokens[3] is read uninitialised.
FiFound(parts) == IF Len(parts) = 3 THEN BOOLEAN ELSE {parts[4] = <<"fi">>}

ThenOK(parts) ==
    Len(parts) >= 3 /\ Head(parts[2]) = "then" /\ Len(parts[2]) >= 2

-----------------------------------------------------------------------------
(* Running a line.                                                         *)

\* Between two commands of a list.
Ready == At("between") /\ value = "none"

Begin(tokens, which) ==
    /\ StartList
    /\ bg' = (bg \/ SetsBg(tokens))
    /\ tmp' = initCmdLL(tokens)
    /\ value' = "none"
    /\ ret' = FALSE
    /\ part' = which

PlainLine ==
    /\ At("prompt")
    /\ \E tokens \in Plain : Begin(tokens, "plain")
    /\ done' = <<>>
    /\ UNCHANGED <<thenTokens, elsefiTokens>>

\* With a syntax error the shell prompts again: no step.
ConditionalLine ==
    /\ At("prompt")
    /\ \E parts \in Conditional :
          /\ ThenOK(parts)
          /\ thenTokens' = Tail(parts[2])
          /\ \/ /\ Head(parts[3]) = "fi"
                /\ elsefiTokens' = <<>>
             \/ /\ Head(parts[3]) = "else" /\ Len(parts[3]) >= 2
                /\ TRUE \in FiFound(parts)
                /\ elsefiTokens' = Tail(parts[3])
          /\ Begin(parts[1], "if")
    /\ done' = <<>>

\* What has become of a command, for the properties.
Fate(fate) == [part |-> part, separator |-> Head(tmp).separator, fate |-> fate]

Cd ==
    /\ Ready /\ tmp # <<>> /\ Head(tmp).name = "cd"
    /\ tmp' = Tail(tmp)
    /\ done' = Append(done, Fate("cd"))
    /\ UNCHANGED jvars
    /\ UNCHANGED <<value, ret, part, thenTokens, elsefiTokens>>

IsCommand == tmp # <<>> /\ Head(tmp).name # "cd"

NotFound ==
    /\ Ready /\ IsCommand /\ Head(tmp).name \notin InPath
    /\ value' = "nonzero"
    /\ done' = Append(done, Fate("missing"))
    /\ UNCHANGED jvars
    /\ UNCHANGED <<tmp, ret, part, thenTokens, elsefiTokens>>

\* Until its status is known a command may return anything: in the background
\* executeSingleCmd has no return statement, and after a broken-off wait the
\* status is uninitialised.
RunCommand ==
    /\ Ready /\ IsCommand /\ Head(tmp).name \in InPath
    /\ Fork
    /\ value' = "any"
    /\ done' = Append(done, Fate(IF bg THEN "background" ELSE "unknown"))
    /\ UNCHANGED <<tmp, ret, part, thenTokens, elsefiTokens>>

NoProcess ==
    /\ Ready /\ IsCommand /\ Head(tmp).name \in InPath
    /\ ForkFails
    /\ UNCHANGED cvars

\* waitpid returns: the status of the job, unless the handler had it.
Status ==
    /\ Reap
    /\ \/ /\ proc[pid] = "zombie"
          /\ \/ /\ value' = "zero"
                /\ done' = [done EXCEPT ![Len(done)] = Fate("ok")]
             \/ /\ value' = "nonzero"
                /\ done' = [done EXCEPT ![Len(done)] = Fate("failed")]
       \/ /\ proc[pid] = "gone"
          /\ UNCHANGED <<value, done>>
    /\ UNCHANGED <<tmp, ret, part, thenTokens, elsefiTokens>>

\* MUTANT: || looks at its own command alone.
BreaksAfter_OrAlone(separator, before, returned) ==
    \/ separator = "&&" /\ (before \/ returned)
    \/ separator = "||" /\ ~returned

\* MUTANT: no break after || either.
BreaksAfter_AndOnly(separator, before, returned) ==
    separator = "&&" /\ (before \/ returned)

\* ret is not reset between the commands of a list: both tests look at it.
BreaksAfter(separator, before, returned) ==
    \/ separator = "&&" /\ (before \/ returned)
    \/ separator = "||" /\ ~(before \/ returned)

\* executeCmds looks at what executeSingleCmd has returned.  The separator of the
\* last command is uninitialised, and without effect.
Evaluate ==
    /\ At("between") /\ value # "none"
    /\ \E returned \in (IF value = "any" THEN BOOLEAN ELSE {value = "nonzero"}) :
          /\ ret' = (ret \/ returned)
          /\ tmp' = IF BreaksAfter(Head(tmp).separator, ret, returned) THEN <<>> ELSE Tail(tmp)
    /\ value' = "none"
    /\ UNCHANGED jvars
    /\ UNCHANGED <<part, thenTokens, elsefiTokens, done>>

\* "then", if the condition has returned zero.
Then ==
    /\ Ready /\ tmp = <<>> /\ part = "if" /\ ~ret
    /\ Begin(thenTokens, "then")
    /\ UNCHANGED <<thenTokens, elsefiTokens, done>>

\* MUTANT: the test of the then-list once more, for the else-list.
Else_SameTest ==
    /\ Ready /\ tmp = <<>> /\ part = "if" /\ ~ret /\ elsefiTokens # <<>>
    /\ Begin(elsefiTokens, "else")
    /\ UNCHANGED <<thenTokens, elsefiTokens, done>>

\* "else", if there is one and the condition has not.
Else ==
    /\ Ready /\ tmp = <<>> /\ part = "if" /\ ret /\ elsefiTokens # <<>>
    /\ Begin(elsefiTokens, "else")
    /\ UNCHANGED <<thenTokens, elsefiTokens, done>>

\* MUTANT: bg keeps its value into the next line.
LineDone_KeepsBg ==
    /\ Ready /\ tmp = <<>>
    /\ part = "if" => ret /\ elsefiTokens = <<>>
    /\ runningProc' = NoProc /\ place' = "prompt"
    /\ ret' = FALSE /\ part' = "none"
    /\ thenTokens' = <<>> /\ elsefiTokens' = <<>> /\ done' = <<>>
    /\ UNCHANGED <<tmp, value, pid, bg, g_intRunProc, g_intNoRunProc, armed, ALARM,
                   handler, proc, old>>

\* The line is done, and main prompts for the next.
LineDone ==
    /\ Ready /\ tmp = <<>>
    /\ part = "if" => ret /\ elsefiTokens = <<>>
    /\ NextLine
    /\ ret' = FALSE /\ part' = "none"
    /\ thenTokens' = <<>> /\ elsefiTokens' = <<>> /\ done' = <<>>
    /\ UNCHANGED <<tmp, value>>

\* What goes on without regard to the line.
ExecStep == (WriteEntry \/ SetAlarm \/ CountEntry) /\ UNCHANGED cvars

HandlerRuns == HandlerStep /\ UNCHANGED cvars

UserStep == (SwitchAlarm \/ CtrlC \/ SayBye) /\ UNCHANGED cvars

JobStep(p) == (JobEnds(p) \/ Age(p)) /\ UNCHANGED cvars

CommandsInit ==
    /\ JobsInit
    /\ tmp = <<>> /\ value = "none" /\ ret = FALSE /\ part = "none"
    /\ thenTokens = <<>> /\ elsefiTokens = <<>> /\ done = <<>>

LineStep == Cd \/ NotFound \/ RunCommand \/ NoProcess \/ Status \/ Evaluate
            \/ Then \/ Else \/ LineDone

CommandsNext ==
    \/ PlainLine \/ ConditionalLine \/ LineStep
    \/ ExecStep \/ HandlerRuns \/ UserStep
    \/ \E p \in Jobs : JobStep(p)

CommandsSpec == CommandsInit /\ [][CommandsNext]_<<jvars, cvars>>

\* The shell is scheduled, its alarms ring, its user answers the handler,
\* and programs end.
FairCommands ==
    /\ CommandsSpec
    /\ WF_<<jvars, cvars>>(LineStep \/ ExecStep) /\ WF_<<jvars, cvars>>(HandlerRuns)
    /\ \A p \in Jobs : WF_<<jvars, cvars>>(JobEnds(p) /\ UNCHANGED cvars)

-----------------------------------------------------------------------------
(* What the operators of a command line mean.                              *)

\* The shell with its command lines is a shell as ShellJobs describes it.
CommandsImplementJobs == JobsSpec

\* The commands that ran before the i-th in the same list.
Before(i) == {k \in 1 .. i - 1 : done[k].part = done[i].part}

Failed(k)    == done[k].fate \in {"failed", "missing"}
Succeeded(k) == done[k].fate \in {"ok", "cd"}

\* Whatever breaks off waits: a command that follows another with && is run only
\* if none before it in the list has failed, and one that follows with || only
\* if not all before it have succeeded.
SeparatorsObeyed ==
    \A i \in DOMAIN done : i - 1 \in Before(i) /\ done[i - 1].fate # "cd" =>
        /\ done[i - 1].separator = "&&" => \A k \in Before(i) : ~Failed(k)
        /\ done[i - 1].separator = "||" => \E k \in Before(i) : ~Succeeded(k)

\* A command that is left out has && before it and a command that may have failed
\* before that, or || and none that has failed.
LeftOutFor ==
    [][ (Len(tmp) > 1 /\ tmp' = <<>>) =>
          LET last == done[Len(done)]
              list == Before(Len(done)) \cup {Len(done)}
          IN  \/ last.separator = "&&" /\ \E k \in list : ~Succeeded(k)
              \/ last.separator = "||" /\ \A k \in list : ~Failed(k) ]_<<jvars, cvars>>

\* Of an if-then-else the then-list is run only if no command of the condition
\* has failed, the else-list only if not all of them have succeeded, and never
\* both.
ThenOrElse ==
    LET condition == {k \in DOMAIN done : done[k].part = "if"} IN
    /\ part = "then" => \A k \in condition : ~Failed(k)
    /\ part = "else" => \E k \in condition : ~Succeeded(k)
    /\ ~\E i, j \in DOMAIN done : done[i].part = "then" /\ done[j].part = "else"
=============================================================================
