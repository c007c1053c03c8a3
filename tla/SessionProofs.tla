--------------------------- MODULE SessionProofs ---------------------------
(***************************************************************************)
(* What several qShells promise of the aliases they share and of their     *)
(* prompts, for any number of shells, any directories, profiles and words. *)
(***************************************************************************)
EXTENDS ShellSession, QipcLemmas

\* The lines of an alias file, with who wrote them and by which path.
Lines == [alias : Words, real : Words, by : Shells, path : Seq(Dirs)]

SessionShape ==
    /\ profile \in Profiles
    /\ running \subseteq Shells
    /\ HOME_DIR \in [Shells -> {p \in Paths : Leads[p] \in Dirs}]
    /\ pathTokens \in [Shells -> Seq(Dirs)]
    /\ cwd = [s \in Shells |-> cwd[s]]
    /\ PROMPT = [s \in Shells |-> PROMPT[s]]
    /\ adding \in [Shells -> Lines \cup {NoEntry}]
    /\ ALIAS_PROFILE \in [Dirs -> Seq(Lines)]
    /\ \A s \in running : cwd[s] \in Dirs /\ PROMPT[s] \in Dirs \cup {"~"}

LEMMA HomeLeads ==
    ASSUME NEW pr \in Profiles, Leads[HomeOf(pr)] # Nowhere
    PROVE  HomeOf(pr) \in Paths /\ Leads[HomeOf(pr)] \in Dirs
BY SessionAssumption DEF HomeOf

LEMMA PathTyped ==
    ASSUME NEW pr \in Profiles
    PROVE  PathOf(pr) \in Seq(Dirs)
BY SessionAssumption DEF PathOf

LEMMA ShapeInit == SessionInit => SessionShape
<1> SUFFICES ASSUME SessionInit PROVE SessionShape
  OBVIOUS
<1>1. DefaultHome \in Paths /\ Leads[DefaultHome] \in Dirs
  BY SessionAssumption
<1>2. <<>> \in Seq(Dirs) /\ <<>> \in Seq(Lines)
  BY EmptySeq
<1> QED
  BY <1>1, <1>2 DEF SessionInit, SessionShape

LEMMA StartShape ==
    ASSUME SessionShape, NEW s \in Shells, Start(s)
    PROVE  SessionShape'
<1>1. HOME_DIR' \in [Shells -> {p \in Paths : Leads[p] \in Dirs}]
  <2>1. CASE Leads[HomeOf(profile)] # Nowhere
    BY <2>1, HomeLeads DEF Start, SessionShape
  <2>2. CASE Leads[HomeOf(profile)] = Nowhere
    BY <2>2, SessionAssumption DEF Start, SessionShape
  <2> QED
    BY <2>1, <2>2
<1>2. pathTokens' \in [Shells -> Seq(Dirs)]
  BY PathTyped DEF Start, SessionShape
<1>3. cwd' = [r \in Shells |-> cwd'[r]] /\ cwd'[s] \in Dirs
      /\ \A r \in running : r # s => cwd'[r] = cwd[r]
  <2>1. PICK d \in Dirs : cwd' = [cwd EXCEPT ![s] = d]
    BY HomeLeads DEF Start, SessionShape
  <2> QED
    BY <2>1 DEF SessionShape
<1> QED
  BY <1>1, <1>2, <1>3 DEF Start, SessionShape

LEMMA ShapeStep ==
    ASSUME SessionShape, [SessionNext]_svars
    PROVE  SessionShape'
<1>1. CASE EditProfile
  BY <1>1 DEF EditProfile, SessionShape
<1>2. ASSUME NEW s \in Shells, Start(s)
      PROVE  SessionShape'
  BY <1>2, StartShape
<1>3. ASSUME NEW s \in Shells, Exit(s)
      PROVE  SessionShape'
  <2>1. DefaultHome \in Paths /\ Leads[DefaultHome] \in Dirs /\ <<>> \in Seq(Dirs)
    BY SessionAssumption, EmptySeq
  <2> QED
    BY <1>3, <2>1 DEF Exit, SessionShape
<1>4. ASSUME NEW s \in Shells, NEW path \in Paths, performCd(s, path)
      PROVE  SessionShape'
  <2>1. Leads[path] \in Dirs
    BY <1>4, SessionAssumption DEF performCd
  <2>2. PromptFor(s, path) \in Dirs \cup {"~"}
    BY <2>1 DEF PromptFor
  <2> QED
    BY <1>4, <2>1, <2>2 DEF performCd, SessionShape
<1>5. ASSUME NEW s \in Shells, NEW alias \in Words, NEW real \in Words, CheckAlias(s, alias, real)
      PROVE  SessionShape'
  <2>1. [alias |-> alias, real |-> real, by |-> s, path |-> pathTokens[s]] \in Lines
    BY DEF Lines, SessionShape
  <2> HIDE DEF Lines
  <2> QED
    BY <1>5, <2>1 DEF CheckAlias, SessionShape
<1>6. ASSUME NEW s \in Shells, AppendAlias(s)
      PROVE  SessionShape'
  <2>1. Append(AliasFile(s), adding[s]) \in Seq(Lines)
    BY <1>6, AppendProperties DEF AppendAlias, AliasFile, SessionShape
  <2> QED
    BY <1>6, <2>1 DEF AppendAlias, AliasFile, SessionShape
<1>7. CASE UNCHANGED svars
  BY <1>7 DEF svars, SessionShape
<1> QED
  BY <1>1, <1>2, <1>3, <1>4, <1>5, <1>6, <1>7 DEF SessionNext

-----------------------------------------------------------------------------
(* The alias files only grow, by lines that were checked.                  *)

LEMMA FileTyped ==
    ASSUME SessionShape, NEW d \in Dirs
    PROVE  /\ ALIAS_PROFILE[d] \in Seq(Lines) /\ Len(ALIAS_PROFILE[d]) \in Nat
           /\ DOMAIN ALIAS_PROFILE[d] = 1 .. Len(ALIAS_PROFILE[d])
BY DEF SessionShape

\* What AppendAlias does to a file: its own grows, the others stay.
LEMMA FileAppended ==
    ASSUME SessionShape, NEW s \in Shells, AppendAlias(s), NEW d \in Dirs
    PROVE  LET f == ALIAS_PROFILE[d]  g == ALIAS_PROFILE'[d] IN
           \/ g = f /\ d # Leads[HOME_DIR[s]]
           \/ /\ d = Leads[HOME_DIR[s]]
              /\ DOMAIN g = 1 .. Len(f) + 1 /\ Len(g) = Len(f) + 1 /\ g \in Seq(Lines)
              /\ \A i \in 1 .. Len(f) : g[i] = f[i]
              /\ g[Len(f) + 1] = adding[s]
<1>1. ALIAS_PROFILE[d] \in Seq(Lines) /\ adding[s] \in Lines
  BY DEF SessionShape, AppendAlias
<1>2. CASE d # Leads[HOME_DIR[s]]
  BY <1>2 DEF AppendAlias, SessionShape
<1>3. CASE d = Leads[HOME_DIR[s]]
  <2>1. ALIAS_PROFILE'[d] = Append(ALIAS_PROFILE[d], adding[s])
    BY <1>3 DEF AppendAlias, SessionShape
  <2> QED
    BY <1>1, <1>3, <2>1, AppendProperties
<1> QED
  BY <1>2, <1>3

LEMMA OnlyAppended ==
    ASSUME [SessionNext]_svars, ALIAS_PROFILE' # ALIAS_PROFILE
    PROVE  \E s \in Shells : AppendAlias(s)
BY DEF SessionNext, EditProfile, Start, Exit, performCd, CheckAlias, svars

LEMMA MeaningOfFirst ==
    ASSUME NEW f \in Seq(Lines), NEW w, Defines(f, w)
    PROVE  \E i \in 1 .. Len(f) : /\ f[i].alias = w /\ Meaning(f, w) = f[i].real
                                  /\ \A j \in 1 .. Len(f) : f[j].alias = w => i <= j
<1> DEFINE I == {i \in 1 .. Len(f) : f[i].alias = w}
<1>1. I \in SUBSET Nat /\ I # {}
  BY DEF Defines
<1>2. Min(I) \in I /\ \A y \in I : Min(I) <= y
  BY <1>1, MinProperty
<1>3. Meaning(f, w) = IF (IF I # {} THEN Min(I) ELSE 0) = 0 THEN w
                      ELSE f[IF I # {} THEN Min(I) ELSE 0].real
  BY DEF Meaning, SelectInSeq
<1> HIDE DEF I
<1>4. Min(I) \in 1 .. Len(f) /\ f[Min(I)].alias = w
  BY <1>2 DEF I
<1>5. Meaning(f, w) = f[Min(I)].real
  BY <1>1, <1>3, <1>4
<1>6. \A j \in 1 .. Len(f) : f[j].alias = w => Min(I) <= j
  BY <1>2 DEF I
<1> QED
  BY <1>4, <1>5, <1>6

\* A line at the end changes nothing for an alias that is defined.
LEMMA MeaningKept ==
    ASSUME NEW f \in Seq(Lines), NEW g \in Seq(Lines), NEW w, Defines(f, w),
           Len(g) = Len(f) + 1, \A i \in 1 .. Len(f) : g[i] = f[i]
    PROVE  Meaning(g, w) = Meaning(f, w)
<1>0. Len(f) \in Nat /\ DOMAIN f = 1 .. Len(f) /\ DOMAIN g = 1 .. Len(f) + 1
  OBVIOUS
<1>1. PICK i \in 1 .. Len(f) : /\ f[i].alias = w /\ Meaning(f, w) = f[i].real
                               /\ \A j \in 1 .. Len(f) : f[j].alias = w => i <= j
  BY MeaningOfFirst
<1>2. Defines(g, w)
  BY <1>0, <1>1 DEF Defines
<1>3. PICK k \in 1 .. Len(g) : /\ g[k].alias = w /\ Meaning(g, w) = g[k].real
                               /\ \A j \in 1 .. Len(g) : g[j].alias = w => k <= j
  BY <1>2, MeaningOfFirst
<1>4. k <= i
  BY <1>0, <1>1, <1>3
<1>5. k \in 1 .. Len(f)
  BY <1>0, <1>3, <1>4
<1>6. i <= k
  BY <1>1, <1>3, <1>5
<1> QED
  BY <1>0, <1>1, <1>3, <1>4, <1>5, <1>6

MeaningsKept ==
    \A d \in Dirs, w \in Words : Defines(ALIAS_PROFILE[d], w) =>
          Meaning(ALIAS_PROFILE'[d], w) = Meaning(ALIAS_PROFILE[d], w)

LEMMA MeaningStep ==
    ASSUME SessionShape, [SessionNext]_svars
    PROVE  MeaningsKept
<1>1. CASE ALIAS_PROFILE' = ALIAS_PROFILE
  BY <1>1 DEF MeaningsKept
<1>2. ASSUME NEW s \in Shells, AppendAlias(s), NEW d \in Dirs, NEW w \in Words,
             Defines(ALIAS_PROFILE[d], w)
      PROVE  Meaning(ALIAS_PROFILE'[d], w) = Meaning(ALIAS_PROFILE[d], w)
  BY <1>2, FileAppended, FileTyped, MeaningKept
<1> QED
  BY <1>1, <1>2, OnlyAppended DEF MeaningsKept

LEMMA ShapeAlways == SessionSpec => []SessionShape
<1>1. SessionShape /\ [SessionNext]_svars => SessionShape'
  BY ShapeStep
<1> QED
  BY <1>1, ShapeInit, PTL DEF SessionSpec

\* What an alias stands for never changes once any shell has defined it.
THEOREM AliasesAreStable == SessionSpec => MeaningStable
<1>1. SessionShape /\ [SessionNext]_svars => [MeaningsKept]_svars
  BY MeaningStep
<1> QED
  BY <1>1, ShapeAlways, PTL DEF SessionSpec, MeaningStable, MeaningsKept

-----------------------------------------------------------------------------
(* What the lines are like, those written and those about to be.           *)

\* What HidesOnlyEarlier says of one line.
Sound(e) ==
    /\ \E i \in DOMAIN e.path : e.real \in Files[e.path[i]]
    /\ \A i \in DOMAIN e.path : e.alias \in Files[e.path[i]] =>
          \E j \in DOMAIN e.path : j > i /\ e.real \in Files[e.path[j]]

\* A line that a shell is about to write is sound, is the shell's, and the file
\* has none of this shell for the alias.
AboutToWrite ==
    \A s \in Shells : adding[s] # NoEntry =>
        /\ s \in running /\ Sound(adding[s]) /\ adding[s].by = s
        /\ \A i \in DOMAIN AliasFile(s) :
              AliasFile(s)[i].alias = adding[s].alias => AliasFile(s)[i].by # s

LinesInv == SessionShape /\ AboutToWrite /\ OncePerShell /\ HidesOnlyEarlier

LEMMA PresenceMeans ==
    ASSUME NEW path \in Seq(Dirs), NEW alias, NEW real,
           CmdPresence(path, alias, real) = 1
    PROVE  \E i \in DOMAIN path : /\ real \in Files[path[i]]
                                  /\ \A k \in DOMAIN path : alias \in Files[path[k]] => k < i
<1> DEFINE I == {i \in 1 .. Len(path) : {alias, real} \cap Files[path[i]] # {}}
<1>0. Len(path) \in Nat /\ DOMAIN path = 1 .. Len(path)
  OBVIOUS
<1>1. I # {} /\ alias \notin Files[path[Max(I)]]
  <2> DEFINE i == IF I # {} THEN Max(I) ELSE 0
  <2>1. CmdPresence(path, alias, real) =
            IF i = 0 THEN 0 ELSE IF alias \in Files[path[i]] THEN -1 ELSE 1
    BY DEF CmdPresence, SelectLastInSeq
  <2> HIDE DEF I
  <2> QED
    BY <2>1
<1>2. I \in SUBSET (1 .. Len(path))
  OBVIOUS
<1>3. Max(I) \in I /\ \A y \in I : y <= Max(I)
  <2> HIDE DEF I
  <2>1. PICK x \in I : \A y \in I : y <= x
    BY <1>0, <1>1, <1>2, GreatestExists
  <2>2. \A y \in I : x >= y
    BY <1>0, <1>2, <2>1
  <2>3. Max(I) \in I /\ \A y \in I : Max(I) >= y
    BY <2>2 DEF Max
  <2> QED
    BY <1>0, <1>2, <2>3
<1>4. Max(I) \in 1 .. Len(path) /\ real \in Files[path[Max(I)]]
  BY <1>1, <1>3
<1>5. ASSUME NEW k \in DOMAIN path, alias \in Files[path[k]]
      PROVE  k < Max(I)
  <2>1. k \in I /\ k # Max(I)
    BY <1>0, <1>1, <1>5
  <2> HIDE DEF I
  <2> QED
    BY <1>0, <1>2, <1>3, <2>1
<1> QED
  BY <1>0, <1>4, <1>5

LEMMA CheckedIsSound ==
    ASSUME SessionShape, NEW s \in Shells, NEW alias \in Words, NEW real \in Words,
           CheckAlias(s, alias, real)
    PROVE  Sound(adding'[s])
<1>1. adding'[s] = [alias |-> alias, real |-> real, by |-> s, path |-> pathTokens[s]]
  BY DEF CheckAlias, SessionShape
<1>2. pathTokens[s] \in Seq(Dirs) /\ CmdPresence(pathTokens[s], alias, real) = 1
  BY DEF CheckAlias, SessionShape
<1>3. PICK i \in DOMAIN pathTokens[s] :
          /\ real \in Files[pathTokens[s][i]]
          /\ \A k \in DOMAIN pathTokens[s] : alias \in Files[pathTokens[s][k]] => k < i
  BY <1>2, PresenceMeans
<1>4. DOMAIN pathTokens[s] \subseteq Int
  BY <1>2
<1> QED
  BY <1>1, <1>3, <1>4 DEF Sound

LEMMA LinesInit == SessionInit => LinesInv
<1>1. SessionInit => AboutToWrite /\ OncePerShell /\ HidesOnlyEarlier
  BY DEF SessionInit, AboutToWrite, OncePerShell, HidesOnlyEarlier
<1> QED
  BY <1>1, ShapeInit DEF LinesInv

\* A line is written.
LEMMA LineWritten ==
    ASSUME LinesInv, NEW s \in Shells, AppendAlias(s)
    PROVE  AboutToWrite' /\ OncePerShell' /\ HidesOnlyEarlier'
<1>0. SessionShape /\ running' = running /\ adding[s] # NoEntry /\ adding' = [adding EXCEPT ![s] = NoEntry]
      /\ HOME_DIR' = HOME_DIR /\ adding[s].by = s /\ Sound(adding[s])
  BY DEF LinesInv, AppendAlias, AboutToWrite
<1>1. adding'[s] = NoEntry /\ \A r \in Shells : r # s => adding'[r] = adding[r]
  BY <1>0 DEF SessionShape
<1>2. \A d \in Dirs : DOMAIN ALIAS_PROFILE[d] = 1 .. Len(ALIAS_PROFILE[d]) /\ Len(ALIAS_PROFILE[d]) \in Nat
  BY <1>0, FileTyped
<1>3. \A d \in Dirs : \A i \in DOMAIN ALIAS_PROFILE'[d] :
          \/ i \in DOMAIN ALIAS_PROFILE[d] /\ ALIAS_PROFILE'[d][i] = ALIAS_PROFILE[d][i]
          \/ i = Len(ALIAS_PROFILE[d]) + 1 /\ ALIAS_PROFILE'[d][i] = adding[s] /\ d = Leads[HOME_DIR[s]]
  BY <1>0, <1>2, FileAppended
<1>4. AboutToWrite'
  <2>1. ASSUME NEW r \in Shells, adding'[r] # NoEntry
        PROVE  /\ r \in running' /\ Sound(adding'[r]) /\ adding'[r].by = r
               /\ \A i \in DOMAIN ALIAS_PROFILE'[Leads[HOME_DIR'[r]]] :
                     ALIAS_PROFILE'[Leads[HOME_DIR'[r]]][i].alias = adding'[r].alias =>
                        ALIAS_PROFILE'[Leads[HOME_DIR'[r]]][i].by # r
    <3>1. r # s /\ adding'[r] = adding[r]
      BY <1>1, <2>1
    <3>2. /\ r \in running /\ Sound(adding[r]) /\ adding[r].by = r
          /\ \A i \in DOMAIN ALIAS_PROFILE[Leads[HOME_DIR[r]]] :
                ALIAS_PROFILE[Leads[HOME_DIR[r]]][i].alias = adding[r].alias =>
                   ALIAS_PROFILE[Leads[HOME_DIR[r]]][i].by # r
      BY <2>1, <3>1 DEF LinesInv, AboutToWrite, AliasFile
    <3>3. Leads[HOME_DIR[r]] \in Dirs
      BY <1>0 DEF SessionShape
    <3>4. Sound(adding'[r])
      BY <3>1, <3>2
    <3>5. \A i \in DOMAIN ALIAS_PROFILE'[Leads[HOME_DIR[r]]] :
                ALIAS_PROFILE'[Leads[HOME_DIR[r]]][i].alias = adding[r].alias =>
                   ALIAS_PROFILE'[Leads[HOME_DIR[r]]][i].by # r
      BY <1>0, <1>3, <3>1, <3>2, <3>3
    <3> QED
      BY <1>0, <3>1, <3>2, <3>4, <3>5
  <2> QED
    BY <2>1 DEF AboutToWrite, AliasFile, Sound
<1>5. OncePerShell'
  <2>1. \A i \in DOMAIN ALIAS_PROFILE[Leads[HOME_DIR[s]]] :
            ALIAS_PROFILE[Leads[HOME_DIR[s]]][i].alias = adding[s].alias =>
               ALIAS_PROFILE[Leads[HOME_DIR[s]]][i].by # s
    BY <1>0 DEF LinesInv, AboutToWrite, AliasFile
  <2>2. ASSUME NEW d \in Dirs, NEW i \in DOMAIN ALIAS_PROFILE'[d], NEW j \in DOMAIN ALIAS_PROFILE'[d],
               ALIAS_PROFILE'[d][i].alias = ALIAS_PROFILE'[d][j].alias,
               ALIAS_PROFILE'[d][i].by = ALIAS_PROFILE'[d][j].by
        PROVE  i = j
    <3>1. CASE i \in DOMAIN ALIAS_PROFILE[d] /\ j \in DOMAIN ALIAS_PROFILE[d]
               /\ ALIAS_PROFILE'[d][i] = ALIAS_PROFILE[d][i]
               /\ ALIAS_PROFILE'[d][j] = ALIAS_PROFILE[d][j]
      BY <2>2, <3>1 DEF LinesInv, OncePerShell
    <3> QED
      BY <1>0, <1>3, <2>1, <2>2, <3>1
  <2> QED
    BY <2>2 DEF OncePerShell
<1>6. HidesOnlyEarlier'
  <2>1. \A d \in Dirs : \A i \in DOMAIN ALIAS_PROFILE[d] : Sound(ALIAS_PROFILE[d][i])
    BY DEF LinesInv, HidesOnlyEarlier, Sound
  <2>2. \A d \in Dirs : \A i \in DOMAIN ALIAS_PROFILE'[d] : Sound(ALIAS_PROFILE'[d][i])
    BY <1>0, <1>3, <2>1
  <2> QED
    BY <2>2 DEF HidesOnlyEarlier, Sound
<1> QED
  BY <1>4, <1>5, <1>6

LEMMA LinesStep ==
    ASSUME LinesInv, [SessionNext]_svars
    PROVE  LinesInv'
<1>0. SessionShape /\ SessionShape'
  BY ShapeStep DEF LinesInv
<1>1. ASSUME NEW s \in Shells, AppendAlias(s)
      PROVE  LinesInv'
  BY <1>0, <1>1, LineWritten DEF LinesInv
<1>2. CASE UNCHANGED ALIAS_PROFILE
  <2>1. OncePerShell' /\ HidesOnlyEarlier'
    BY <1>2 DEF LinesInv, OncePerShell, HidesOnlyEarlier
  <2>2. CASE EditProfile \/ UNCHANGED svars
    <3>1. UNCHANGED <<adding, HOME_DIR, running>>
      BY <2>2 DEF EditProfile, svars
    <3>2. AboutToWrite'
      BY <1>2, <3>1 DEF LinesInv, AboutToWrite, AliasFile, Sound
    <3> QED
      BY <1>0, <2>1, <3>2 DEF LinesInv
  <2>3. ASSUME NEW s \in Shells,
               \A r \in Shells : r # s => /\ adding'[r] = adding[r]
                                          /\ HOME_DIR'[r] = HOME_DIR[r]
                                          /\ r \in running => r \in running',
               adding'[s] # NoEntry =>
                  /\ s \in running' /\ Sound(adding'[s]) /\ adding'[s].by = s
                  /\ \A i \in DOMAIN ALIAS_PROFILE[Leads[HOME_DIR'[s]]] :
                        ALIAS_PROFILE[Leads[HOME_DIR'[s]]][i].alias = adding'[s].alias =>
                           ALIAS_PROFILE[Leads[HOME_DIR'[s]]][i].by # s
        PROVE  LinesInv'
    <3>0. /\ \A r \in Shells : r # s => adding'[r] = adding[r]
          /\ \A r \in Shells : r # s => HOME_DIR'[r] = HOME_DIR[r]
          /\ \A r \in Shells : r # s => (r \in running => r \in running')
      BY <2>3
    <3>1. ASSUME NEW r \in Shells, adding'[r] # NoEntry
          PROVE  /\ r \in running' /\ Sound(adding'[r]) /\ adding'[r].by = r
                 /\ \A i \in DOMAIN ALIAS_PROFILE[Leads[HOME_DIR'[r]]] :
                       ALIAS_PROFILE[Leads[HOME_DIR'[r]]][i].alias = adding'[r].alias =>
                          ALIAS_PROFILE[Leads[HOME_DIR'[r]]][i].by # r
      <4>1. CASE r = s
        BY <2>3, <3>1, <4>1
      <4>2. CASE r # s
        <5>1. adding'[r] = adding[r] /\ HOME_DIR'[r] = HOME_DIR[r] /\ (r \in running => r \in running')
          BY <3>0, <4>2
        <5>2. /\ r \in running /\ Sound(adding[r]) /\ adding[r].by = r
              /\ \A i \in DOMAIN ALIAS_PROFILE[Leads[HOME_DIR[r]]] :
                    ALIAS_PROFILE[Leads[HOME_DIR[r]]][i].alias = adding[r].alias =>
                       ALIAS_PROFILE[Leads[HOME_DIR[r]]][i].by # r
          BY <3>1, <5>1 DEF LinesInv, AboutToWrite, AliasFile
        <5> QED
          BY <5>1, <5>2
      <4> QED
        BY <4>1, <4>2
    <3>2. AboutToWrite'
      BY <1>2, <3>1 DEF AboutToWrite, AliasFile, Sound
    <3> QED
      BY <1>0, <2>1, <3>2 DEF LinesInv
  <2>4. ASSUME NEW s \in Shells, Start(s)
        PROVE  LinesInv'
    <3>1. adding'[s] = NoEntry
      BY <2>4 DEF Start, LinesInv, AboutToWrite
    <3>2. \A r \in Shells : r # s => /\ adding'[r] = adding[r] /\ HOME_DIR'[r] = HOME_DIR[r]
                                     /\ r \in running => r \in running'
      BY <1>0, <2>4 DEF Start, SessionShape
    <3> QED
      BY <2>3, <3>1, <3>2
  <2>5. ASSUME NEW s \in Shells, Exit(s)
        PROVE  LinesInv'
    <3>1. adding'[s] = NoEntry
      BY <1>0, <2>5 DEF Exit, SessionShape
    <3>2. \A r \in Shells : r # s => /\ adding'[r] = adding[r] /\ HOME_DIR'[r] = HOME_DIR[r]
                                     /\ r \in running => r \in running'
      BY <1>0, <2>5 DEF Exit, SessionShape
    <3> QED
      BY <2>3, <3>1, <3>2
  <2>6. ASSUME NEW s \in Shells, NEW path \in Paths, performCd(s, path)
        PROVE  LinesInv'
    <3>1. UNCHANGED <<adding, HOME_DIR, running>>
      BY <2>6 DEF performCd
    <3>2. AboutToWrite'
      BY <1>2, <3>1 DEF LinesInv, AboutToWrite, AliasFile, Sound
    <3> QED
      BY <1>0, <2>1, <3>2 DEF LinesInv
  <2>7. ASSUME NEW s \in Shells, NEW alias \in Words, NEW real \in Words, CheckAlias(s, alias, real)
        PROVE  LinesInv'
    <3>1. /\ adding'[s] = [alias |-> alias, real |-> real, by |-> s, path |-> pathTokens[s]]
          /\ HOME_DIR' = HOME_DIR /\ running' = running /\ s \in running
          /\ \A r \in Shells : r # s => adding'[r] = adding[r]
      BY <1>0, <2>7 DEF CheckAlias, Idle, SessionShape
    <3>2. Sound(adding'[s])
      BY <1>0, <2>7, CheckedIsSound
    <3>3. \A i \in DOMAIN ALIAS_PROFILE[Leads[HOME_DIR[s]]] :
              ALIAS_PROFILE[Leads[HOME_DIR[s]]][i].alias # alias
      BY <2>7 DEF CheckAlias, AlreadyPresent, AliasFile
    <3>4. adding'[s].alias = alias /\ adding'[s].by = s
      BY <3>1
    <3> QED
      BY <2>3, <3>1, <3>2, <3>3, <3>4
  <2> QED
    BY <1>1, <2>2, <2>4, <2>5, <2>6, <2>7 DEF SessionNext
<1> QED
  BY <1>1, <1>2, OnlyAppended

LEMMA LinesAlways == SessionSpec => []LinesInv
<1>1. LinesInv /\ [SessionNext]_svars => LinesInv'
  BY LinesStep
<1> QED
  BY <1>1, LinesInit, PTL DEF SessionSpec

\* No shell defines an alias twice, although checking for it and writing it are
\* two openings of the file.
THEOREM NoShellRepeatsAnAlias == SessionSpec => []OncePerShell
<1>1. LinesInv => OncePerShell
  BY DEF LinesInv
<1> QED
  BY <1>1, LinesAlways, PTL

\* An alias hides a command of the path only where a later directory has the
\* command it stands for.
THEOREM AliasesHideOnlyEarlier == SessionSpec => []HidesOnlyEarlier
<1>1. LinesInv => HidesOnlyEarlier
  BY DEF LinesInv
<1> QED
  BY <1>1, LinesAlways, PTL

-----------------------------------------------------------------------------
(* The prompt.                                                             *)

\* Nothing happens to this shell.
LEMMA PromptKept ==
    ASSUME NEW s \in running, cwd'[s] = cwd[s], PROMPT'[s] = PROMPT[s], HOME_DIR'[s] = HOME_DIR[s]
    PROVE  ~Honest(s)' => s \in running /\ ~Honest(s) /\ cwd'[s] = cwd[s]
BY DEF Honest

LEMMA CdIsHonest ==
    ASSUME SessionShape, NEW s \in Shells, NEW path \in Paths, performCd(s, path)
    PROVE  Honest(s)'
<1>1. Leads[path] \in Dirs /\ Leads[path] # "~" /\ Leads[Leads[path]] = Leads[path]
  BY SessionAssumption DEF performCd
<1>2. cwd'[s] = Leads[path] /\ HOME_DIR'[s] = HOME_DIR[s]
      /\ PROMPT'[s] = IF Leads[path] = HOME_DIR[s] THEN "~" ELSE Leads[path]
  BY DEF performCd, PromptFor, SessionShape
<1> QED
  BY <1>1, <1>2 DEF Honest

LEMMA PromptStep ==
    ASSUME SessionShape, [SessionNext]_svars
    PROVE  PromptsStayRight
<1>1. ASSUME NEW s \in Shells, Start(s)
      PROVE  PromptsStayRight
  <2>2. \A r \in running : r # s /\ cwd'[r] = cwd[r] /\ PROMPT'[r] = PROMPT[r]
                           /\ HOME_DIR'[r] = HOME_DIR[r]
    BY <1>1 DEF Start, SessionShape
  <2>3. running' = running \cup {s} /\ s \notin running
    BY <1>1 DEF Start
  <2>4. CASE Leads[HomeOf(profile)] # Nowhere
    <3>1. PROMPT'[s] = "~" /\ cwd'[s] = Leads[HOME_DIR'[s]]
      BY <1>1, <2>4 DEF Start, SessionShape
    <3> QED
      BY <2>2, <2>3, <3>1 DEF PromptsStayRight, Honest
  <2>5. CASE Leads[HomeOf(profile)] = Nowhere
    BY <2>2, <2>3, <2>5 DEF PromptsStayRight, Honest
  <2> QED
    BY <2>4, <2>5
<1>2. ASSUME NEW s \in Shells, NEW path \in Paths, performCd(s, path)
      PROVE  PromptsStayRight
  <2>1. Honest(s)'
    BY <1>2, CdIsHonest
  <2>2. running' = running
        /\ \A r \in running : r # s => cwd'[r] = cwd[r] /\ PROMPT'[r] = PROMPT[r]
                                       /\ HOME_DIR'[r] = HOME_DIR[r]
    BY <1>2 DEF performCd, SessionShape
  <2> QED
    BY <2>1, <2>2 DEF PromptsStayRight, Honest
<1>3. ASSUME running' \subseteq running,
             \A s \in running' : cwd'[s] = cwd[s] /\ PROMPT'[s] = PROMPT[s] /\ HOME_DIR'[s] = HOME_DIR[s]
      PROVE  PromptsStayRight
  BY <1>3 DEF PromptsStayRight, Honest
<1>4. ASSUME NEW s \in Shells, Exit(s)
      PROVE  PromptsStayRight
  <2>1. running' = running \ {s}
        /\ \A r \in running' : cwd'[r] = cwd[r] /\ PROMPT'[r] = PROMPT[r] /\ HOME_DIR'[r] = HOME_DIR[r]
    BY <1>4 DEF Exit, SessionShape
  <2> QED
    BY <1>3, <2>1
<1>5. CASE UNCHANGED <<running, cwd, PROMPT, HOME_DIR>>
  BY <1>3, <1>5
<1> QED
  BY <1>1, <1>2, <1>4, <1>5
     DEF SessionNext, EditProfile, CheckAlias, AppendAlias, svars

\* The prompt names another directory than the shell's only from a start with a
\* home that does not exist until the next cd.
THEOREM PromptIsWrongOnlySo == SessionSpec => PromptWrongFromStart
<1>1. SessionShape /\ [SessionNext]_svars => [PromptsStayRight]_svars
  BY PromptStep
<1> QED
  BY <1>1, ShapeAlways, PTL DEF SessionSpec, PromptWrongFromStart

\* Every shell has a home that exists, and the alias files hold words only.
THEOREM SessionsKeepShape == SessionSpec => []SessionTypeOK
<1>1. SessionShape => SessionTypeOK
  <2>1. ASSUME SessionShape, NEW d \in Dirs, NEW i \in DOMAIN ALIAS_PROFILE[d]
        PROVE  /\ ALIAS_PROFILE[d][i].alias \in Words /\ ALIAS_PROFILE[d][i].real \in Words
               /\ ALIAS_PROFILE[d][i].by \in Shells
    <3>1. ALIAS_PROFILE[d][i] \in Lines
      BY <2>1 DEF SessionShape
    <3> QED
      BY <3>1 DEF Lines
  <2>2. Nowhere \notin Dirs
    BY SessionAssumption
  <2> SUFFICES ASSUME SessionShape PROVE SessionTypeOK
    OBVIOUS
  <2>3. profile \in Profiles /\ running \subseteq Shells
    BY DEF SessionShape
  <2>4. \A s \in Shells : HOME_DIR[s] \in Paths /\ Leads[HOME_DIR[s]] # Nowhere
    BY <2>2 DEF SessionShape
  <2>5. \A s \in running : cwd[s] \in Dirs /\ PROMPT[s] \in Dirs \cup {"~"}
    BY DEF SessionShape
  <2> QED
    BY <2>1, <2>3, <2>4, <2>5 DEF SessionTypeOK
<1> QED
  BY <1>1, ShapeAlways, PTL
=============================================================================
