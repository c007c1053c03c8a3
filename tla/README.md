# qIPC and qShell in TLA+

This directory models and verifies the two programs of the repository:

* **qIPC** (`src/ipc`): message queues added to the process manager (PM) of MINIX 3, the user
  library that reaches them by system calls and signals, and the menu program over that library.
* **qShell** (`src/Custom_Shell/qShell-src`): a small shell with background jobs, an alarm that
  asks whether a job should go on, Ctrl+C, aliases and if-then-else.

`Qipc` and `QipcClients` are the centre: the server, and the processes composed with it; `Mailbox`
is what their users may rely on. `ShellJobs` models the part of the shell that signals interrupt,
`ShellCommands` the interpretation of command lines on top of it, `ShellSession` several shells
that share the user's files.

## Inventory

### The server: `ipc/pm/qipc.c`, `qipc.h`

State, all of it global in PM: `queue_arr` (four slots, each a queue with capacity, type and a
doubly linked list of messages), `queue_count`, `blockedQ_array` (per slot, the receivers that wait,
in order of arrival), `blocking_sender` (one row per blocked sender: process, readers still to come,
participant number), `g_arrNotificationPID` (two requests for notification).

| call | handler | what it does |
|---|---|---|
| 44, 45 | `do_open_q`, `do_close_q` | takes or frees a slot and its waiting list |
| 56, 57 | `do_set_attr_q`, `do_get_attr_q` | capacity and type (a *blocking* queue blocks its senders) |
| 69 | `do_send_mg_q` | registers a blocked sender, appends, notifies, wakes waiting receivers |
| 70 | `do_res_mg_q` | purges expired messages, returns the best one for this receiver or nothing |
| 110 | `do_blocking_receive` | the same, but a caller for whom there is nothing is listed as waiting |
| REQNOTIFY | `do_mqreqnotify` | asks for a SIGUSR1 at every message to a receiver |

Correct means: the parallel tables agree; messages come by priority and then by age; every message
is read as often as it has receivers and goes with the last reading; whoever waits is told; neither
senders nor receivers wait for each other.

### The process manager: `ipc/pm/main.c`, `table.c`, headers

One loop receives a call, runs its handler to the end and replies. qIPC added `qipc_init` and the
table entries; the rest is MINIX. Its part in the model: one call at a time, signals reach living
processes, processes exit.

### The library: `ipc/include/*.h`

No call ever blocks inside PM. `blocking_recieve` (call 110) that is told "no message" installs
`inthandler_rec` and sleeps in `sigsuspend`; `mq_send` installs `ipthandler`, calls, and sleeps
until SIGUSR1 (read by all) or SIGUSR2 (refused); `mq_reqnotify` installs `notifyhandler`. The
handlers and the program share globals: `receiverid`, `Qname`, `senId`, `blocking_return`,
`notification_alert`. The hard part is what happens between a call's return and the sleep, and which
handler meets which signal. Correct means: a wake-up ends a wait; nobody sleeps whom nobody will
wake; no signal of qIPC kills a process. `areceivelib.h` is dead code.

### The menu program: `ipc/user_program/welcome.c`

Reads a choice, calls the library, prints. Participants have numbers from the file `CONFIG`; the
process does not own a number, its user types it.

### The shell: `Main.c`, `Exec.c`, `Util.c`, `Handler.c`

`main` reads a line, resolves an alias, parses it to a list of commands and runs them
(`executeCmds`, `executeSingleCmd`). Every command that is run, in the foreground or not, is entered
in `g_intRunProc` and watched by one alarm: `alarmhandler` takes up the *oldest* entry, asks whether
it should be killed or waited for, removes it and sets the next alarm. `inthandler` passes Ctrl+C on
to `runningProc` or asks whether to exit. The handlers run between any two steps of the shell and
share the table, its counter and `ALARM`. Correct means: the table lists distinct jobs that were
started, running jobs stay in it, an alarm watches it, and commands come to an end.

`Main.c` and `Exec.c` interpret a line: `initCmdLL` makes a list of commands of it, `executeCmds` runs
the list and decides after each command, by its separator and the accumulated return code, whether
to go on; `conditionalExec` runs the lists of an if-then-else. What `executeSingleCmd` returns is the
status of a job only if nothing has broken off the wait for it. Correct means: `&&` and `||` are
obeyed, and of `then` and `else` the right one is run.

`loadProfile` sets home, path, prompt and alarm; `performCd` moves the shell and its prompt;
`f_addalias` and `alias_retrieve` keep the aliases in a file of the home directory, which all shells
share. Correct means: a prompt says where the shell is; an alias means one thing, and is no system
command.

Build files: no behaviour.

## Modules

| module | what it is |
|---|---|
| `Qipc` | the server: one operator per function of `qipc.c`, one action per call |
| `Mailbox` | the abstract specification: mailboxes under names, readings of letters |
| `QipcMailbox` | the refinement mapping from `Qipc` to `Mailbox` |
| `MCQipc` | instances of the server for TLC |
| `QipcClaims` | what comments, messages and the test document say of it and the code does not do |
| `QipcLemmas`, `QipcProofs`, `QipcTypes` | theorems about `Qipc`: lemmas on sequences and loops; the blocked senders; types and tables |
| `QipcWaiters` | theorems about `Qipc`: the waiting lists |
| `MailboxProofs` | theorems about `Qipc`: the messages, and the refinement of `Mailbox` |
| `QipcClients` | library and menu program, composed with `Qipc` (EXTENDS) |
| `MCClients`, `ClientClaims`, `ClientProofs` | the same for `QipcClients` |
| `ShellJobs` | the shell's jobs, alarm and Ctrl+C |
| `ShellCommands` | command lines, composed with `ShellJobs` (EXTENDS) |
| `MCShell`, `ShellProofs` | instances and theorems for both |
| `ShellSession` | several shells: profile, cd, prompt, aliases |
| `MCSession`, `SessionProofs` | instances and theorems for it |

**Qipc.** Queues are records with a sequence of messages, linked lists are sequences, loops over a
list are one fold (`ForEach`). A handler is one atomic action with every change it makes, since PM's
loop runs it to the end. `reply` and `signals` are the interface: what the last handler answered and
which signals it raised; they have no influence on the next step. `to` in a row of
`blocking_sender` is auxiliary. Two things of the code are kept exactly although they look like
slips, because behaviour depends on them: the send adds its message before it looks whether the
sender was refused (line 296), and a receive counts a reader off the sender that the loop looked at
last, found or not (line 541). `rmv_yes` and `sNo` are uninitialised if no message was live: then
any sender, or none, may be counted.

**Mailbox, QipcMailbox.** A mailbox knows nothing of slots, waiting lists, blocked senders or
capacities. A letter lies in it until its last reading is taken or its time is over; a reader gets the
oldest of the most urgent letters for it, and is told that there is nothing only if there is nothing.
The server purges expired messages when a receive next looks at the queue; the mailbox loses them
with the tick of the clock. `KeepsMailboxes` says that no reply of a receive shows the difference.
The letters of the mapping are the live messages of the queue that has the name, in whatever slot.
The mailbox does not say who may read twice, since the code does not record it.

**QipcClients.** Each process has a place in the library (`sent`, `suspended`, `registered`,
`armed`, `asleep`, `spinning`, `menu`), handlers, pending signals and the globals of the headers. A
step is a menu choice with its call, the installation of a handler, `sigsuspend`, or a handler with
the one call it makes. `signal()` is persistent on MINIX. There is one processor, so a pending
signal is met before the process's own next step. `Qname` points into the frame of
`block_receive`: a handler that runs after its return finds any name there. The server's
specification is the abstract one here: `ClientsImplementServer` says that the composition
implements `Qipc!Spec`, whose callers may call anything at any time.

**ShellJobs.** `executeSingleCmd` is cut where a signal matters: forked, entry written, length
tested for the alarm, entry counted, waiting, returned ("between" two commands). `alarmhandler` is one
step, except that it waits for an answer or for a job. A `waitpid` that a handler interrupted returns
at once: qShell is built for MINIX 3.2.1 (`ReadMe`, the test cases), whose PM does not restart calls.
Time is abstracted: a set alarm rings at any later moment; `old` holds the jobs whose next alarm would
be set to `(start + 5000 - now) / 1000 = 0`, that is, not at all. Which command of a line is run next
is left open: any line is a sequence of lists (`StartList`) of forks.

**ShellCommands.** Lines are sequences of tokens. `initCmdLL` runs one turn of its loop
(`ParseToken`) for each token, `executeCmds` a choice between the kinds of a command and, after it, `Evaluate`.
`value` is what `executeSingleCmd` returns: an exit status, -1 for a command that is not in the path,
or *anything*: for a background job, which has no return statement, and for a foreground job whose wait
was broken off, whose status is uninitialised. `bg` may be set by each list of an if-then-else and is
reset at the prompt only. `done` is auxiliary and records the fates of the commands of the line. Each
action is an action of `ShellJobs` or leaves it alone, which `CommandsImplementJobs` states as a
refinement.

**ShellSession.** Several shells of one user. `f_addalias` is two steps, since other shells run
between its reading and its appending; the profile can be edited at any time, so that shells differ in
home and path. A profile's home that cannot be entered is replaced by the default, but the shell stays
where it is. The home is compared with `getcwd` as the profile spells it, so `home/` never gives `~`
in a later prompt: the instance has such a spelling. The fields `by` and `path` of an alias line are
auxiliary.

## What the runs show

| run | question | bounds |
|---|---|---|
| `queues` | do the tables agree through opens and closes; who overfills a queue | 3 names, 2 slots |
| `messages` | order of delivery, conservation of readings, refinement of `Mailbox` | 1 queue, 3 messages, 2 priorities, 2 expiry times, lists of 1 and 2 receivers |
| `blocking` | can blocked senders deadlock | 3 participants, 3 rows, lists of 1 and 2 receivers |
| `waiters` | who is told of a message, who leaves a waiting list | 2 processes under either number, notification, exit, expiry |
| `processes` | does the system implement the server; how can a caller be stranded or killed | 2 processes, 1 queue, Ctrl+C, expiry, close |
| `liveness` | does a wake-up end the wait; who is told too early that a send has completed | 2 processes, both waiting in each way, 2 blocked senders, 2 messages |
| `shell` | are separators and if-then-else obeyed, is the job table sound, do lines end | 3 jobs, 3 lists with every separator, 3 conditional lines |
| `sessions` | do aliases keep their meaning, are prompts right | 2 shells, 2 directories, 3 profiles, 3 words, 3 alias lines |

The bounds are constants of the modules and named in the guards: `MaxMsgs`, `MaxWaiters`,
`MaxBlockingSend`, `MaxNotifier`, `MaxTime`, `MaxAliases`; `MaxQ` and `MaxCap` stand for the constants of
`qipc.h`. They are enough in this sense: a circle among senders or receivers needs three, a choice
by priority needs two messages and its interplay with expiry a third, a reused slot needs one
name more than slots, and the table of jobs has a first, a middle and a last entry with three. The accumulated return code
differs from the last one only from the second command of a list on; with three commands the separator
that follows is decided by it too. Two lines for one alias need two shells, and a third line one that
is refused. The
mutants, one per property, are errors of one line that each run does find within its bounds.

Properties worth a remark:

* `ReadingsConserved`, `DeliveryOrder`: action properties against a definition that does not follow
  the loop of the code.
* `NoSenderDeadlock` and `SendWaitsForward`: the refusals of `blocking_adder_add` are sufficient,
  because a row never waits for an earlier row.
* `StrandedOnlyBy`, `KilledOnlyBy`, `CompletedEarlyOnlyTo`, `UnreapedOnlyBy`, `AlarmLostOnlyBy`,
  `PromptWrongFromStart`, `OnlySetAttrOverfills`: the code does have bad outcomes here; these
  properties list *all* the ways into them.
* `SeparatorsObeyed`, `LeftOutFor`, `ThenOrElse` speak of the fates of commands, not of return codes.
  What is "failed" and "succeeded" is known only of commands whose status was read; of the others they
  claim no more than that they may be either. `ReadMe:66` reads "ls && pwd (if ls is executed then and
  only then execute pwd)": after a broken-off wait, or in the background, `pwd` may run or not.
* `HidesOnlyEarlier`: `f_addalias` means to refuse the name of a system command, and does so only if
  the last directory of the path that has either file has that name.
* `MeaningStable`: the file may get a second line for an alias (`OncePerShell` says from whom), but
  `alias_retrieve` takes the first, which never goes away.
* `CompletedEarlyOnlyTo`: who has asked for notifications is excepted even if the request was refused.
  `mq_reqnotify` installs `notifyhandler` before it calls, and leaves it there: Ctrl+C then ends a
  blocking send of that process early, its row stays with PM, and the completion of that send is
  reported of the next one.
* `WakeUpsEndWaits` assumes weak fairness of what a process does without its user (`OwnStep`):
  MINIX schedules every runnable process. No user is assumed to do anything.
* `CommandsEnd` (`FairCommands`) assumes that the shell and its handler are scheduled, that a set alarm
  rings, that the user answers `alarmhandler` (any answer), and that programs end: `waitpid` in the
  shell and in the handler is the only place where it waits for others.

CHECK_DEADLOCK is off: users may stop using the programs, and the instances have bounds.

### Where the code and its documents disagree

Four runs end in a counterexample; each states what a comment, message or test document says.

| run | said | shown |
|---|---|---|
| `claim_refused` | "Message not added" (`mq_send.h:18`) | a refused blocking send has added its message |
| `claim_released` | a sender is blocked "until its receivers consume the message" | a receive that returns nothing counts as a reading |
| `claim_deadlock` | "uses deadlock prevention mechanism" | three receivers wait in a circle |
| `claim_sleeps` | "go to sleep until message arrives" (`breceivelib.h:67`) | a wake-up handled before `sigsuspend` is lost |

Others met on the way, in the model but without a run of their own: `currentcount == capacity`
lets a queue grow for ever once `setattr` has put its capacity below its length; a receiver
that waits for one sender is woken by any; one receiver can read a message twice and leave none for
the other; a blocking send refused at once sleeps for ever, because its SIGUSR2 comes before
`sigsuspend`; a SIGUSR1 meant as notification makes a blocked send report completion; a
notification request that was refused spins; `Qgetattr` never shows that a queue is missing; in the
shell, an alarm for a finished job ends the wait for the running one; SIGCHLD is ignored in the child
"to avoid zombie process" (`Exec.c:292`), where it changes nothing for the shell, and a background job
that the user has killed is never reaped (`UnreapedOnlyBy`).

## What is proved

All proofs are checked by TLAPS for every value of the constants. Every invariant and every action
property of the passing runs, and the three refinements, is the statement of a theorem; what the runs
add is liveness, and that the statements are not empty.

**The server** (`QipcProofs`, `QipcTypes`).

* `SendersWaitForward`, `SendersDeadlockFree`: blocked senders never deadlock, whatever the number of
  participants, rows and receivers. The inductive invariant is that no row of `blocking_sender` waits
  for an earlier row or itself (with the type of the table); freedom from deadlock alone is not
  inductive, because it does not say which of two rows may wait for the other when a third is added or
  removed. Of any set of rows the last one then waits for none of them.
* `RowsAlwaysAwait`: a row has a reader to come, since `remove_send_blocking_rid` takes a row out with
  its last one.
* `TypesKept`, `TablesStayInStep`: `TypeOK` and `TablesAgree`, together `TypesInv`. They need each other
  and the types of `QipcProofs`: an update in place is typed only where a queue is open, `currentcount`
  stays right only if it was the length before, and a new name is new because `check_queue_exist` has
  looked at every slot. Each handler is shown to fill a free slot, to free one or to change one in
  place, and each of these three keeps the tables in step.

Every loop (purge, forgetting of receivers, waking, choice of a message, parsing of a line) is a
recursive function over its turns. `QipcLemmas` proves that such a function exists (`RunExists`) and
stays in any set that each turn stays in (`LoopStays`), by taking a least turn that leaves it.

**Waiting receivers** (`QipcWaiters`). `ListsStep` says what each handler does to the lists: it leaves
a list alone, or takes entries out of it, keeping the order of the rest (`Thinned`), and then may add one
entry at its end that `check_for_deadlock` has let pass.

* `ReceiversHaveNoTwoCycle`: `NoReceiverTwoCycle` is inductive, given the types: the last entry is in no
  circle with one before it, and taking entries out closes none. (`claim_deadlock` shows that no more
  than this is true.)
* `WaitersLeaveForAReason`, `SendsReachWaiters`: from the same description, and the turns of the loop
  that wakes the receivers of a message.

**Messages** (`MailboxProofs`). `MessagesStep` describes a step by the one queue it changes: opened,
closed, configured, sent to, looked at for nothing, or taken from.

* `DeliveriesInOrder`: one pass over the queue that keeps the best message so far ends with the first
  of the most urgent ones, by induction over the turns on "best of those looked at".
* `SendsRespectCapacity`: the equality test of `do_send_mg_q` suffices while `currentcount` is the length.
* `MessagesAlwaysAwait`: a message has between one and all of its readings to come.
* `ReadingsAreConserved`: the number of readings to come, a sum over the live messages, is compared
  before and after each of the six kinds of step; lemmas say what the sum is after a message is appended,
  removed or read, and that the purge does not change it.
* `ServerKeepsMailboxes`: `Spec => KeepsMailboxes`, the refinement. Steps on names map to steps on
  mailboxes because two open slots never have one name (`TypesInv`); the message chosen from the purged
  queue is the foremost letter of the box; a message that expires between two calls leaves its box with
  `Tick`, although it stays in its queue until the next receive, because purging twice is purging once
  at the later time.

**The processes** (`ClientProofs`).

* `ClientsServed`: the composition implements `Qipc`. The invariant (`AskedInv`) is about the globals of
  `breceivelib.h`: whenever `inthandler_rec` can run, they hold a name and numbers that this process's
  user has given. `SystemSendersDeadlockFree` carries the theorem on senders over to the system, and
  the invariants of the server are used in the same way below.
* `LibraryTypesKept`, `HandlersMeetTheirSignals`, `OthersAreNotToldEarly`: from `CausesInv`, which says
  of every process why it may be in PM's tables and which handlers it then has: it is in a waiting list
  only if it has asked for a message, in the list of notifications only if it has installed
  `notifyhandler` (for SIGINT it keeps it), has a row only if it has a handler for SIGUSR1 or sends
  without blocking; and while it has no handler for a signal, the signal is pending only at the places
  `KilledOnlyBy` lists. For `OthersAreNotToldEarly` a process with none of the excuses has at most one
  row, is in `mq_send` while it has it, and has nothing pending. `Traced` says of each call whom it
  enters and whom it signals.
* `StrandedInFourWays`: no other step of anybody takes the entry or row of a sleeping process away without
  leaving it a signal. It needs `CausesInv`, and for an entry that the purge removes that an expired
  message did lie in the queue.

**The shell** (`ShellProofs`).

* `JobsLeaveTheTableReaped`, `AlarmIsLostOnlySo`, `JobTableKeepsShape`: `UnreapedOnlyBy`,
  `AlarmLostOnlyBy` and `JobsTypeOK` for any number of jobs. The first two need the types and how far
  the shell is in `executeSingleCmd`. The shape of the table needs more (`TableInv`): the job being
  added is not listed, and its entry is the one after those in use until it is counted, whatever the
  handler has moved meanwhile; the counter is negative only while an entry is being added and no alarm
  is set. Since the entries are distinct jobs that have been started, there are at most as many as
  jobs, so that the table is never written outside.
* `CommandsRefineJobs`: each action of `ShellCommands` is one of `ShellJobs` or a stutter, so that those
  three theorems hold of the interpreter too.
* `CommandsObeySeparators`, `CommandsThenOrElse`, `CommandsLeftOut`: the invariant (`LineInv`) relates
  `ret` to the fates of the list (a failure implies `ret`, `ret` implies that not all have succeeded)
  and the separator of the last command run to the list that is left. The last theorem also needs that
  `tmp` is a list (`TmpInv`), hence that `initCmdLL` makes one of any tokens (`LinesAreParsed`): without
  that, nothing says that a list of two commands has a non-empty rest.
* `SessionProofs`: `AliasesAreStable`, `NoShellRepeatsAnAlias`, `AliasesHideOnlyEarlier`,
  `PromptIsWrongOnlySo`, `SessionsKeepShape`, for any number of shells, directories, profiles and
  lines. `OncePerShell` is inductive with what a shell between its two steps knows: the file has no
  line of its own for the alias. `HidesOnlyEarlier` needs that of the entry about to be appended.

The assumptions are `ConstantsAssumption`, `NullAssumption` (the null pointer is no queue, list, message
or slot), `ClientsAssumption`, `JobsAssumption`, `LinesAssumption` (lines consist of tokens) and
`SessionAssumption`, evaluated by TLC in the runs. `RowsAlwaysAwait` and `MessagesAlwaysAwait` have one
hypothesis more, `<<>> \notin RecvLists`: nothing is sent to nobody. The menu sends only if `totrec >0`
(`welcome.c:84` and `:182`), and `SendTyped` of `QipcClients` says the same; the server does not look, and of
a message to nobody the properties are false, since its count is zero from the start.

Only model-checked: the two liveness properties, `WakeUpsEndWaits` and `CommandsEnd`, which are beyond
this prover, and the four runs that end in a counterexample. What a recursive function computes is
proved only as far as a set of states expresses it (induction over data with an operator as hypothesis
is beyond the installed provers).

## Not modelled

* Memory: allocation failure, leaks, the read of freed memory in `freecommand`, and the linked lists
  as such (`remove_node` appears by its effect).
* Contents: message text, the eight bytes of a name (a longer name is not terminated), printed output.
* Permissions of `check_sig`, and the clock read once per message instead of once per call.
* Overruns of `blocking_sender` (100 rows) and `g_intRunProc` (32 entries): the instances stay below.
* Calls with a negative or zero number of receivers: the menu makes none.
* The process manager around qIPC: fork, exec, exit, VFS replies and the start-up in `main.c` are
  MINIX's, and their handlers are not in the repository.
* In the shell: a child that opens its redirections before `execv` (it shares no state with the
  shell); that `getCmdPath` wants an executable file where `f_addalias` wants any; lines that end in a
  separator or a redirection, and `alias` without its operands, which read outside of the tokens; an
  alias file edited by hand.

## Plan

1. *The system's other theorems*: the properties of `QipcWaiters` and `MailboxProofs` restated of
   `ClientsSpec` by `ClientsServed`; `RowsAwaitReaders` and `MessagesAwaitReaders` of it without the
   hypothesis on `RecvLists`, since `SendTyped` sends to somebody; and a stronger statement of who is stranded, for users who open
   their queues once and set no expiry.
2. *Linked lists*: `add_to_queue`, `remove_node` and the purge loop over nodes with `prev` and `next`,
   refining the sequences of `Qipc`.
