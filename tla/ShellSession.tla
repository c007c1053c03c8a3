---------------------------- MODULE ShellSession ----------------------------
(***************************************************************************)
(* Several qShells of one user at a time: the profile they read when they  *)
(* start (loadProfile of Util.c, the beginning of main), cd and the        *)
(* prompt, and the aliases, which they keep in one file, ALIAS_PROFILE in  *)
(* the home directory.  f_addalias of Exec.c reads that file, and later    *)
(* appends to it: the other shells run in between.  The user may edit the  *)
(* profile while shells run, so that they need not agree on their home and *)
(* their path.                                                             *)
(*                                                                         *)
(* What is done with a command once its name is resolved is the concern of *)
(* ShellCommands.                                                          *)
(***************************************************************************)
EXTENDS Integers, Sequences, SequencesExt

CONSTANTS
    Shells,
    Dirs,            \* the directories there are, by their canonical paths
    Paths,           \* paths that are used for them, or for no directory
    Leads,           \* path -> the directory it leads to, or Nowhere
    Nowhere,
    Words,           \* names of commands and aliases
    Files,           \* directory -> the words it has a file for
    Profiles,        \* contents of the profile
    Unset,           \* a variable that the profile does not mention
    NoValue,         \* a variable that it mentions without a value
    DefaultHome,     \* "/home"
    DEFAULT_PATH,
    PathNoValue,     \* "/bin:/usr/bin"
    MaxAliases       \* bound on the length of an ALIAS_PROFILE

ASSUME SessionAssumption ==
    /\ Dirs \subseteq Paths /\ Nowhere \notin Paths /\ "~" \notin Dirs
    /\ Leads \in [Paths -> Dirs \cup {Nowhere}]
    /\ \A d \in Dirs : Leads[d] = d
    /\ Files \in [Dirs -> SUBSET Words]
    /\ DefaultHome \in Paths /\ Leads[DefaultHome] # Nowhere
    /\ DEFAULT_PATH \in Seq(Dirs) /\ PathNoValue \in Seq(Dirs)
    /\ \A pr \in Profiles : /\ pr.HOME \in Paths \cup {Unset, NoValue}
                            /\ pr.PATH \in Seq(Dirs) \cup {Unset, NoValue}
    /\ MaxAliases \in Nat

VARIABLES
    profile,         \* the profile
    running,         \* the shells that run
    HOME_DIR,        \* of each shell
    pathTokens,
    cwd,
    PROMPT,          \* "~" or the directory that the prompt names
    adding,          \* what the shell has checked and is about to append
    ALIAS_PROFILE    \* directory -> the lines of its alias file

svars == <<profile, running, HOME_DIR, pathTokens, cwd, PROMPT, adding,
           ALIAS_PROFILE>>

NoEntry == [alias |-> "", real |-> "", by |-> "", path |-> <<>>]

Idle(s) == s \in running /\ adding[s] = NoEntry

-----------------------------------------------------------------------------
(* Starting and leaving.                                                   *)

\* loadProfile: what it finds, or a default that depends on how it is missing.
HomeOf(pr) == IF pr.HOME \in {Unset, NoValue} THEN DefaultHome ELSE pr.HOME

PathOf(pr) == CASE pr.PATH = Unset   -> DEFAULT_PATH
                [] pr.PATH = NoValue -> PathNoValue
                [] OTHER             -> pr.PATH

\* MUTANT: a home that cannot be entered is kept.
Start_KeepsHome(s) ==
    /\ s \notin running
    /\ running' = running \cup {s}
    /\ pathTokens' = [pathTokens EXCEPT ![s] = PathOf(profile)]
    /\ PROMPT' = [PROMPT EXCEPT ![s] = "~"]
    /\ HOME_DIR' = [HOME_DIR EXCEPT ![s] = HomeOf(profile)]
    /\ \E d \in Dirs : cwd' = [cwd EXCEPT ![s] = d]
    /\ UNCHANGED <<profile, adding, ALIAS_PROFILE>>

\* A home that cannot be entered is replaced by the default, which is not
\* entered then: the shell stays where it was started.
Start(s) ==
    /\ s \notin running
    /\ running' = running \cup {s}
    /\ pathTokens' = [pathTokens EXCEPT ![s] = PathOf(profile)]
    /\ PROMPT' = [PROMPT EXCEPT ![s] = "~"]
    /\ \/ /\ Leads[HomeOf(profile)] # Nowhere
          /\ HOME_DIR' = [HOME_DIR EXCEPT ![s] = HomeOf(profile)]
          /\ cwd' = [cwd EXCEPT ![s] = Leads[HomeOf(profile)]]
       \/ /\ Leads[HomeOf(profile)] = Nowhere
          /\ HOME_DIR' = [HOME_DIR EXCEPT ![s] = DefaultHome]
          /\ \E d \in Dirs : cwd' = [cwd EXCEPT ![s] = d]
    /\ UNCHANGED <<profile, adding, ALIAS_PROFILE>>

\* At the prompt, or by Ctrl+C at any place; what the shell knew is gone.
Exit(s) ==
    /\ s \in running
    /\ running' = running \ {s}
    /\ HOME_DIR' = [HOME_DIR EXCEPT ![s] = DefaultHome]
    /\ pathTokens' = [pathTokens EXCEPT ![s] = <<>>]
    /\ cwd' = [cwd EXCEPT ![s] = Nowhere]
    /\ PROMPT' = [PROMPT EXCEPT ![s] = "~"]
    /\ adding' = [adding EXCEPT ![s] = NoEntry]
    /\ UNCHANGED <<profile, ALIAS_PROFILE>>

EditProfile ==
    /\ profile' \in Profiles
    /\ UNCHANGED <<running, HOME_DIR, pathTokens, cwd, PROMPT, adding, ALIAS_PROFILE>>

-----------------------------------------------------------------------------
(* cd.                                                                     *)

\* MUTANT: the prompt stays as it is in a directory with another name.
PromptFor_Stays(s, path) == IF Leads[path] = HOME_DIR[s] THEN "~" ELSE PROMPT[s]

\* The name that getcwd gives the directory is compared with the home as the
\* profile spells it.
PromptFor(s, path) == IF Leads[path] = HOME_DIR[s] THEN "~" ELSE Leads[path]

\* performCd; without an argument and for "~" the path is HOME_DIR.
performCd(s, path) ==
    /\ Idle(s)
    /\ Leads[path] # Nowhere
    /\ cwd' = [cwd EXCEPT ![s] = Leads[path]]
    /\ PROMPT' = [PROMPT EXCEPT ![s] = PromptFor(s, path)]
    /\ UNCHANGED <<profile, running, HOME_DIR, pathTokens, adding, ALIAS_PROFILE>>

-----------------------------------------------------------------------------
(* Aliases.                                                                *)

AliasFile(s) == ALIAS_PROFILE[Leads[HOME_DIR[s]]]

\* MUTANT: the alias is looked for in the last directory only.
CmdPresence_LastOnly(path, alias, real) ==
    IF path = <<>> THEN 0
    ELSE IF alias \in Files[Last(path)] THEN -1
    ELSE IF \E i \in DOMAIN path : real \in Files[path[i]] THEN 1
    ELSE 0

\* The loop of f_addalias over the directories of the path overwrites what it
\* has found: the last one that has either file decides.  1 is "add", -1 "the
\* alias is a system command", 0 "command not present".
CmdPresence(path, alias, real) ==
    LET i == SelectLastInSeq(path, LAMBDA dir : {alias, real} \cap Files[dir] # {})
    IN  IF i = 0 THEN 0 ELSE IF alias \in Files[path[i]] THEN -1 ELSE 1

\* MUTANT: only the first line is read.
AlreadyPresent_FirstLine(s, alias) == AliasFile(s) # <<>> /\ Head(AliasFile(s)).alias = alias

AlreadyPresent(s, alias) == \E i \in DOMAIN AliasFile(s) : AliasFile(s)[i].alias = alias

\* f_addalias up to the second fopen; on an error nothing changes.
CheckAlias(s, alias, real) ==
    /\ Idle(s)
    /\ CmdPresence(pathTokens[s], alias, real) = 1
    /\ ~AlreadyPresent(s, alias)
    /\ Len(AliasFile(s)) < MaxAliases                       \* bound
    /\ adding' = [adding EXCEPT ![s] =
          [alias |-> alias, real |-> real, by |-> s, path |-> pathTokens[s]]]
    /\ UNCHANGED <<profile, running, HOME_DIR, pathTokens, cwd, PROMPT, ALIAS_PROFILE>>

AppendAlias(s) ==
    /\ s \in running /\ adding[s] # NoEntry
    /\ ALIAS_PROFILE' = [ALIAS_PROFILE EXCEPT ![Leads[HOME_DIR[s]]] = Append(@, adding[s])]
    /\ adding' = [adding EXCEPT ![s] = NoEntry]
    /\ UNCHANGED <<profile, running, HOME_DIR, pathTokens, cwd, PROMPT>>

\* MUTANT: the last line with the alias counts.
Meaning_LastLine(file, word) ==
    LET i == SelectLastInSeq(file, LAMBDA e : e.alias = word)
    IN  IF i = 0 THEN word ELSE file[i].real

\* alias_retrieve: the first line with this alias, else the word itself.
Meaning(file, word) ==
    LET i == SelectInSeq(file, LAMBDA e : e.alias = word)
    IN  IF i = 0 THEN word ELSE file[i].real

SessionInit ==
    /\ profile \in Profiles
    /\ running = {}
    /\ HOME_DIR = [s \in Shells |-> DefaultHome]
    /\ pathTokens = [s \in Shells |-> <<>>]
    /\ cwd = [s \in Shells |-> Nowhere]
    /\ PROMPT = [s \in Shells |-> "~"]
    /\ adding = [s \in Shells |-> NoEntry]
    /\ ALIAS_PROFILE = [d \in Dirs |-> <<>>]

SessionNext ==
    \/ EditProfile
    \/ \E s \in Shells :
          \/ Start(s) \/ Exit(s) \/ AppendAlias(s)
          \/ \E path \in Paths : performCd(s, path)
          \/ \E alias, real \in Words : CheckAlias(s, alias, real)

SessionSpec == SessionInit /\ [][SessionNext]_svars

-----------------------------------------------------------------------------
(* What a user with several shells may rely on.                            *)

\* Every shell has a home that exists and a place, and the lines of the alias
\* files are words.
SessionTypeOK ==
    /\ profile \in Profiles /\ running \subseteq Shells
    /\ \A s \in Shells : HOME_DIR[s] \in Paths /\ Leads[HOME_DIR[s]] # Nowhere
    /\ \A s \in running : cwd[s] \in Dirs /\ PROMPT[s] \in Dirs \cup {"~"}
    /\ \A d \in Dirs : \A i \in DOMAIN ALIAS_PROFILE[d] :
          /\ ALIAS_PROFILE[d][i].alias \in Words /\ ALIAS_PROFILE[d][i].real \in Words
          /\ ALIAS_PROFILE[d][i].by \in Shells

Defines(file, word) == \E i \in DOMAIN file : file[i].alias = word

\* An alias never changes what it means, whichever shells define it again at the
\* same time and however often they are restarted.
MeaningStable ==
    [][ \A d \in Dirs, w \in Words : Defines(ALIAS_PROFILE[d], w) =>
          Meaning(ALIAS_PROFILE'[d], w) = Meaning(ALIAS_PROFILE[d], w) ]_svars

\* Two lines for one alias come of two shells that have both looked before either
\* has written: no shell writes a second line for an alias.
OncePerShell ==
    \A d \in Dirs : \A i, j \in DOMAIN ALIAS_PROFILE[d] :
        LET e == ALIAS_PROFILE[d][i]  f == ALIAS_PROFILE[d][j]
        IN  e.alias = f.alias /\ e.by = f.by => i = j

\* An alias stands for a command in the path of the shell that defined it.  Where
\* it takes the name of a command in that path, although f_addalias refuses an
\* alias that "is a system command", the directory of that command comes before
\* a directory of what it stands for.
HidesOnlyEarlier ==
    \A d \in Dirs : \A k \in DOMAIN ALIAS_PROFILE[d] :
        LET e == ALIAS_PROFILE[d][k] IN
        /\ \E i \in DOMAIN e.path : e.real \in Files[e.path[i]]
        /\ \A i \in DOMAIN e.path : e.alias \in Files[e.path[i]] =>
              \E j \in DOMAIN e.path : j > i /\ e.real \in Files[e.path[j]]

Honest(s) ==
    IF PROMPT[s] = "~" THEN cwd[s] = Leads[HOME_DIR[s]] ELSE PROMPT[s] = cwd[s]

PromptsStayRight ==
    \A s \in running' :
        ~Honest(s)' => \/ s \notin running /\ Leads[HomeOf(profile)] = Nowhere
                       \/ s \in running /\ ~Honest(s) /\ cwd'[s] = cwd[s]

\* The prompt of a running shell becomes wrong only at its start, when the home
\* of the profile does not exist; the next cd that succeeds puts it right.
PromptWrongFromStart == [][PromptsStayRight]_svars
=============================================================================
