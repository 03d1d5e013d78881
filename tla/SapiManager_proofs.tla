------------------------- MODULE SapiManager_proofs -------------------------
(***************************************************************************)
(* The management application, for every plan of faults, crashes and user  *)
(* actions, and for any number of scans, setups, packages and processes:   *)
(* what is installed, what is reported of it, and what a scan finds.       *)
(***************************************************************************)
EXTENDS SapiManager, FiniteSetTheorems, SequenceTheorems, WellFoundedInduction, TLAPS

(***************************************************************************)
(* The steps, by the part of the application that takes them.              *)
(***************************************************************************)
ScanStep == \E s \in Scans : ScanSteps(s) /\ UNCHANGED others

ProcessStep ==
    \E pid \in Pids : (Dies(pid) \/ Exits(pid) \/ Crashes(pid)) /\ UNCHANGED others

WindowStep == ManagerOpens \/ ((Refreshes \/ Closes \/ Configures) /\ UNCHANGED others)

DialogStep == (InstallerSteps \/ DialogClicks) /\ UNCHANGED <<setup, target, com, removal, save>>

SaveStep == Toggles \/ Saves \/ SavesVoice \/ SaveEnds \/ SaveDismissed

EngineStep == EngineLaunches \/ \E e \in Engines : EngineConnects(e) \/ EngineLeaves(e)

WizardStep ==
    \E w \in DOMAIN Setups : (SetupSteps(w) \/ SetupClicks(w) \/ Breaks(w)) /\ UNCHANGED save

RemovalStep == Removes /\ UNCHANGED save

LEMMA EveryStep ==
    ASSUME [Next]_vars
    PROVE  \/ UNCHANGED vars \/ ScanStep \/ ProcessStep \/ WindowStep \/ DialogStep
           \/ SaveStep \/ EngineStep \/ WizardStep \/ RemovalStep
<1>1. CASE UNCHANGED vars
  BY <1>1
<1>2. CASE ProgramSteps
  BY <1>2 DEF ProgramSteps, ScanStep, ScanSteps, DialogStep, SaveStep, WizardStep, RemovalStep
<1>4. CASE ProviderSteps
  BY <1>4 DEF ProviderSteps, ScanStep, ScanSteps, ProcessStep
<1>3. CASE Environment
  BY <1>3 DEF Environment, ProcessStep, WindowStep, DialogStep, SaveStep, EngineStep, WizardStep
<1> QED
  BY <1>1, <1>2, <1>3, <1>4 DEF Next

LEMMA ScanFrame ==
    ASSUME ScanStep
    PROVE  UNCHANGED <<registry, disk, host, ui, others>>
  BY DEF ScanStep, ScanSteps, ScanGoesOn, ScanIsAnswered, ScanAdvances, StartsProcess, StartFails, Connects, GetsInfo,
         GetsVoices, VoicesLost, ProbeFails, ProbeEnds, Adds

LEMMA ProcessFrame ==
    ASSUME ProcessStep
    PROVE  UNCHANGED <<registry, past, disk, scans, list, ui, others>>
  BY DEF ProcessStep, Dies, Exits, Crashes

LEMMA WindowFrame ==
    ASSUME WindowStep
    PROVE  UNCHANGED <<registry, disk, host, others>>
  BY DEF WindowStep, ManagerOpens, Opens, Refreshes, Closes, Configures

LEMMA DialogFrame ==
    ASSUME DialogStep
    PROVE  UNCHANGED <<registry, host, setup, target, com, removal, save>>
  BY DEF DialogStep, InstallerSteps, DialogClicks, Terminated, Extracts, ExtractFails, Extracted,
         AddsProvider, Browses, Terminates, TerminateFails, Installs, Cancels

LEMMA SaveFrame ==
    ASSUME RegistryTypeOK, SaveStep
    PROVE  /\ UNCHANGED <<disk, procs, host, scans, dialog, setup, target, com, removal>>
           /\ registry'.entry = registry.entry
<1>1. registry = [tokens |-> registry.tokens, entry |-> registry.entry]
  BY DEF RegistryTypeOK
<1>2. CASE SavesVoice
  <2>1. registry' = registry \/ \E t : TokenIs(NextVoice, t)
    BY <1>2 DEF SavesVoice, RegisterVoiceToken, UnregisterVoiceToken
  <2> QED
    BY <1>1, <1>2, <2>1 DEF SavesVoice, TokenIs
<1> QED
  BY <1>2 DEF SaveStep, Toggles, Saves, SaveEnds, SaveDismissed, others

LEMMA EngineFrame ==
    ASSUME EngineStep
    PROVE  UNCHANGED <<registry, disk, scans, list, ui, others>>
  BY DEF EngineStep, EngineConnects, EngineLaunches, EngineLeaves

LEMMA WizardFrame ==
    ASSUME NEW w, SetupSteps(w) \/ SetupClicks(w) \/ Breaks(w)
    PROVE  /\ UNCHANGED <<disk, procs, host, dialog>>
           /\ UNCHANGED <<scans, list, ui>> \/ (Launches(w) /\ ui = "closed" /\ Opens)
  BY DEF SetupSteps, SetupClicks, Breaks, Copies, CopyFails, RegistersCom, WritesEntry, Launches,
         LaunchFails, UnregistersCom, RemovesEntry, RemovesToken, RemovalThrows, SpawnsRemoval,
         SpawnFails, StartsSetup, StartsUninstall, Clicks, Leaves, Dismisses, managerVars, Opens
-----------------------------------------------------------------------------
(* The type invariant.                                                     *)

\* A probe is of an executable, and holds its process from the start to the result.
ScanShape ==
    \A s \in Scans :
       /\ scans[s].pid # NoPid => scans[s].at \in {"connect", "info", "voices", "shutdown"}
       /\ scans[s].at \in {"manifest", "connect", "info", "voices", "shutdown"} => scans[s].exe \in Exes

\* Every failure of a save is one of a voice that is done.
TypeInv ==
    /\ TypeOK
    /\ ScanShape
    /\ save.todo \cap save.done = {}
    /\ save.fails =< Cardinality(save.done)

LEMMA HasLeast ==
    ASSUME NEW T \in SUBSET Nat, T # {}
    PROVE  \E m \in T : \A n \in T : m =< n
<1> DEFINE R == {ss \in Nat \X Nat : ss[1] < ss[2]}
<1>1. IsWellFoundedOn(R, Nat)
  BY NatLessThanWellFounded DEF OpToRel
<1>2. PICK m \in T : \A n \in T : ~ (<<n, m>> \in R)
  BY <1>1, WFMin
<1>3. ASSUME NEW n \in T PROVE m =< n
  <2>1. ~ (<<n, m>> \in R)
    BY <1>2
  <2>2. ~ (n < m)
    BY <2>1
  <2> QED
    BY <2>2
<1> QED
  BY <1>3

LEMMA ExesAreNaturals == Exes \subseteq Nat \ {0}
<1>1. IsFiniteSet(Exes) /\ Exes = 1..Cardinality(Exes)
  BY RegistryAssumption
<1>2. Cardinality(Exes) \in Nat
  BY <1>1, FS_CardinalityType
<1> QED
  BY <1>1, <1>2

LEMMA NextFileIsThere ==
    ASSUME DialogTypeOK, dialog.todo # {}
    PROVE  NextFile \in dialog.todo
<1>1. dialog.todo \in SUBSET Nat
  BY ExesAreNaturals DEF DialogTypeOK
<1>2. \E m \in dialog.todo : \A n \in dialog.todo : m =< n
  BY <1>1, HasLeast
<1> QED
  BY <1>2 DEF NextFile

LEMMA SpendIsTyped ==
    ASSUME left \in [Chances -> Nat], NEW what \in Chances, Spend(what)
    PROVE  /\ left' \in [Chances -> Nat]
           /\ left' # left
<1>1. left' = [left EXCEPT ![what] = left[what] - 1] /\ left[what] > 0 /\ left[what] \in Nat
  BY DEF Spend
<1>2. left[what] - 1 \in Nat /\ left[what] - 1 # left[what]
  BY <1>1
<1> QED
  BY <1>1, <1>2

LEMMA LeftIsTyped ==
    ASSUME left \in [Chances -> Nat], [Next]_vars
    PROVE  left' \in [Chances -> Nat]
<1> SUFFICES ASSUME \A what \in Chances : ~Spend(what) PROVE left' = left
  BY SpendIsTyped
<1>1. /\ ~Spend("fault") /\ ~Spend("crash") /\ ~Spend("refresh") /\ ~Spend("close")
      /\ ~Spend("configure") /\ ~Spend("dialog") /\ ~Spend("toggle") /\ ~Spend("save")
      /\ ~Spend("engine") /\ ~Spend("launch") /\ ~Spend("open") /\ ~Spend("break") /\ ~Spend("click")
  BY DEF Chances
<1>2. CASE UNCHANGED vars
  BY <1>2 DEF vars
<1>3. CASE ScanStep
  BY <1>1, <1>3 DEF ScanStep, ScanSteps, ScanGoesOn, ScanIsAnswered, ScanAdvances, StartsProcess,
         StartFails, Connects, GetsInfo, GetsVoices, VoicesLost, ProbeFails, ProbeEnds, Adds, Throws
<1>4. CASE ProcessStep
  BY <1>1, <1>4 DEF ProcessStep, Dies, Exits, Crashes
<1>5. CASE WindowStep
  BY <1>1, <1>5 DEF WindowStep, ManagerOpens, Refreshes, Closes, Configures
<1>6. CASE DialogStep
  BY <1>1, <1>6 DEF DialogStep, InstallerSteps, DialogClicks, Terminated, Extracts, ExtractFails,
         Extracted, AddsProvider, Browses, Terminates, TerminateFails, Installs, Cancels, Throws
<1>7. CASE SaveStep
  BY <1>1, <1>7 DEF SaveStep, Toggles, Saves, SavesVoice, SaveEnds, SaveDismissed,
         RegisterVoiceToken, UnregisterVoiceToken, Works, Throws
<1>8. CASE EngineStep
  BY <1>1, <1>8 DEF EngineStep, EngineConnects, EngineLaunches, EngineLeaves
<1>9. CASE WizardStep
  BY <1>1, <1>9 DEF WizardStep, SetupSteps, SetupClicks, Breaks, Copies, CopyFails, RegistersCom,
         WritesEntry, RegisterUninstallInfo, Launches, LaunchFails, UnregistersCom, RemovesEntry,
         RemovesToken, RemovalThrows, SpawnsRemoval, SpawnFails, StartsSetup, StartsUninstall,
         Clicks, Leaves, Dismisses, Works, Throws
<1>10. CASE RemovalStep
  BY <1>10 DEF RemovalStep, Removes
<1> QED
  BY <1>2, <1>3, <1>4, <1>5, <1>6, <1>7, <1>8, <1>9, <1>10, EveryStep

\* What has happened is not forgotten.
LEMMA PastGrows ==
    ASSUME [Next]_vars
    PROVE  past \subseteq past'
<1>2. CASE UNCHANGED vars
  BY <1>2 DEF vars
<1>3. CASE ScanStep
  BY <1>3 DEF ScanStep, ScanSteps, ScanGoesOn, ScanIsAnswered, ScanAdvances, Takes, StartsProcess,
         StartFails, Connects, GetsInfo, GetsVoices, VoicesLost, ProbeFails, ProbeEnds, Adds, Throws, Note
<1>4. CASE ProcessStep
  BY <1>4, ProcessFrame
<1>5. CASE WindowStep
  BY <1>5 DEF WindowStep, ManagerOpens, Opens, ScanBegins, Refreshes, Closes, Configures, Note
<1>6. CASE DialogStep
  BY <1>6 DEF DialogStep, InstallerSteps, DialogClicks, Terminated, Extracts, ExtractFails,
         Extracted, ScanBegins, AddsProvider, Browses, Terminates, TerminateFails, Installs, Cancels, Throws, Note
<1>7. CASE SaveStep
  BY <1>7 DEF SaveStep, Toggles, Saves, SavesVoice, SaveEnds, SaveDismissed,
         RegisterVoiceToken, UnregisterVoiceToken, Works, Throws, Note
<1>8. CASE EngineStep
  BY <1>8 DEF EngineStep, EngineConnects, EngineLaunches, EngineLeaves, Note
<1>9. CASE WizardStep
  BY <1>9 DEF WizardStep, SetupSteps, SetupClicks, Breaks, Copies, CopyFails, RegistersCom,
         WritesEntry, RegisterUninstallInfo, Launches, Opens, ScanBegins, LaunchFails, UnregistersCom,
         RemovesEntry, RemovesToken, RemovalThrows, SpawnsRemoval, SpawnFails, StartsSetup,
         StartsUninstall, Clicks, Leaves, Dismisses, Works, Throws, Note
<1>10. CASE RemovalStep
  BY <1>10 DEF RemovalStep, Removes, Note
<1> QED
  BY <1>2, <1>3, <1>4, <1>5, <1>6, <1>7, <1>8, <1>9, <1>10, EveryStep

LEMMA RegistryIsTyped ==
    ASSUME TypeOK, [Next]_vars
    PROVE  RegistryTypeOK'
<1> DEFINE Token == [has : BOOLEAN, exe : Exes \cup {NoExe}, whole : BOOLEAN]
           Entry == [version : Versions, located : BOOLEAN]
<1>1. /\ registry = [tokens |-> registry.tokens, entry |-> registry.entry]
      /\ registry.tokens \in [Voices -> Token] /\ registry.entry \in Entry
      /\ \A v \in Voices : ~registry.tokens[v].has => registry.tokens[v] = NoToken
      /\ left' \in [Chances -> Nat]
  BY LeftIsTyped DEF TypeOK, RegistryTypeOK
<1>2. NoToken \in Token /\ NoEntry \in Entry /\ ~NoToken.has
  BY RegistryAssumption DEF NoToken, NoEntry, Versions
<1> HIDE DEF Token
<1>3. SUFFICES /\ registry' = [tokens |-> registry'.tokens, entry |-> registry'.entry]
               /\ registry'.tokens \in [Voices -> Token]
               /\ registry'.entry \in Entry
               /\ \A v \in Voices : ~registry'.tokens[v].has => registry'.tokens[v] = NoToken
  BY <1>1, <1>3 DEF RegistryTypeOK, Token
<1>4. CASE registry' = registry
  BY <1>1, <1>4
<1>5. ASSUME NEW v \in Voices, NEW t \in Token, TokenIs(v, t), ~t.has => t = NoToken
      PROVE  /\ registry' = [tokens |-> registry'.tokens, entry |-> registry'.entry]
             /\ registry'.tokens \in [Voices -> Token]
             /\ registry'.entry \in Entry
             /\ \A x \in Voices : ~registry'.tokens[x].has => registry'.tokens[x] = NoToken
  <2>1. registry' = [tokens |-> [registry.tokens EXCEPT ![v] = t], entry |-> registry.entry]
    BY <1>1, <1>5 DEF TokenIs
  <2> QED
    BY <1>1, <1>5, <2>1
<1>6. CASE registry'.tokens = registry.tokens /\ registry'.entry \in Entry
           /\ registry' = [tokens |-> registry'.tokens, entry |-> registry'.entry]
  BY <1>1, <1>6
<1>7. CASE SavesVoice
  <2>1. NextVoice \in Voices /\ save.exe \in Exes \cup {NoExe}
    BY <1>7 DEF SavesVoice, NextVoice, TypeOK
  <2>2. registry.tokens[NextVoice] \in Token
    BY <1>1, <2>1
  <2>3. CASE RegisterVoiceToken(NextVoice, save.exe)
    <3>1. CASE TokenIs(NextVoice, [has |-> TRUE, exe |-> save.exe, whole |-> TRUE])
      BY <1>5, <2>1, <3>1 DEF Token
    <3>2. ASSUME NEW e \in {registry.tokens[NextVoice].exe, save.exe},
                 TokenIs(NextVoice, [has |-> TRUE, exe |-> e, whole |-> registry.tokens[NextVoice].whole])
          PROVE  [has |-> TRUE, exe |-> e, whole |-> registry.tokens[NextVoice].whole] \in Token
      BY <2>1, <2>2 DEF Token
    <3> QED
      BY <1>3, <1>4, <1>5, <2>1, <2>3, <3>1, <3>2 DEF RegisterVoiceToken
  <2>4. CASE UnregisterVoiceToken(NextVoice)
    <3>1. CASE TokenIs(NextVoice, NoToken)
      BY <1>2, <1>5, <2>1, <3>1
    <3>2. CASE TokenIs(NextVoice, [registry.tokens[NextVoice] EXCEPT !.whole = FALSE])
      <4>1. NoToken.whole = FALSE
        BY DEF NoToken
      <4>2. PICK t \in Token : t = registry.tokens[NextVoice]
        BY <2>2
      <4>3. /\ [t EXCEPT !.whole = FALSE] \in Token /\ [t EXCEPT !.whole = FALSE].has = t.has
            /\ t.whole = FALSE => [t EXCEPT !.whole = FALSE] = t
        BY DEF Token
      <4> QED
        BY <1>1, <1>5, <2>1, <3>2, <4>1, <4>2, <4>3
    <3> QED
      BY <1>3, <1>4, <2>4, <3>1, <3>2 DEF UnregisterVoiceToken
  <2> QED
    BY <1>7, <2>3, <2>4 DEF SavesVoice
<1>8. CASE SaveStep
  BY <1>3, <1>4, <1>7, <1>8 DEF SaveStep, Toggles, Saves, SaveEnds, SaveDismissed
<1>9. ASSUME NEW w \in DOMAIN Setups, SetupSteps(w) \/ SetupClicks(w) \/ Breaks(w)
      PROVE  /\ registry' = [tokens |-> registry'.tokens, entry |-> registry'.entry]
             /\ registry'.tokens \in [Voices -> Token]
             /\ registry'.entry \in Entry
             /\ \A x \in Voices : ~registry'.tokens[x].has => registry'.tokens[x] = NoToken
  <2>1. CASE WritesEntry(w)
    <3>1. Setups[w].version \in Versions
      BY SetupsAssumption
    <3>2. /\ [registry.entry EXCEPT !.version = Setups[w].version] \in Entry
          /\ [version |-> Setups[w].version, located |-> TRUE] \in Entry
      BY <1>1, <3>1
    <3> QED
      BY <1>1, <1>4, <1>6, <2>1, <3>2 DEF WritesEntry, RegisterUninstallInfo
  <2>2. CASE RemovesEntry(w)
    BY <1>1, <1>2, <1>6, <2>2 DEF RemovesEntry, RemoveUninstallEntry
  <2>3. CASE RemovesToken(w)
    <3>1. setup[w].tokens \subseteq Voices
      BY DEF TypeOK, SetupTypeOK
    <3> QED
      BY <1>2, <1>5, <2>3, <3>1 DEF RemovesToken
  <2>4. CASE ~WritesEntry(w) /\ ~RemovesEntry(w) /\ ~RemovesToken(w)
    <3>1. registry' = registry
      BY <1>9, <2>4 DEF SetupSteps, SetupClicks, Breaks, Copies, CopyFails, RegistersCom, Launches,
           LaunchFails, UnregistersCom, RemovalThrows, SpawnsRemoval, SpawnFails, StartsSetup,
           StartsUninstall, Clicks, Leaves, Dismisses, Opens
    <3> QED
      BY <1>4, <3>1
  <2> QED
    BY <2>1, <2>2, <2>3, <2>4
<1> QED
  BY <1>3, <1>4, <1>8, <1>9, EveryStep, ScanFrame, ProcessFrame, WindowFrame, DialogFrame, EngineFrame
     DEF WizardStep, RemovalStep, Removes, vars

\* NoPid is none of the ids.
LEMMA NoPidIsNone == NoPid \notin Pids
  BY DiscoveryAssumption DEF NoPid

LEMMA DiskIsTyped ==
    ASSUME TypeOK, [Next]_vars
    PROVE  disk' \in [Exes -> Versions]
<1>1. disk \in [Exes -> Versions] /\ 0 \in Versions
  BY RegistryAssumption DEF TypeOK, DiscoveryTypeOK, Versions
<1>2. CASE DialogStep
  <2>1. CASE Extracts
    <3>1. NextFile \in Exes /\ dialog.todo # {}
      BY <2>1, NextFileIsThere DEF Extracts, TypeOK, DialogTypeOK
    <3>2. dialog.zip.version \in Versions
      BY PackagesAssumption, <1>1 DEF TypeOK, DialogTypeOK, NoZip
    <3> QED
      BY <1>1, <2>1, <3>1, <3>2 DEF Extracts
  <2>2. CASE ~Extracts
    BY <1>1, <1>2, <2>2 DEF DialogStep, InstallerSteps, DialogClicks, Terminated, ExtractFails,
       Extracted, AddsProvider, Browses, Terminates, TerminateFails, Installs, Cancels
  <2> QED
    BY <2>1, <2>2
<1>3. CASE RemovalStep
  BY <1>1, <1>3 DEF RemovalStep, Removes
<1> QED
  BY <1>1, <1>2, <1>3, EveryStep, ScanFrame, ProcessFrame, WindowFrame, SaveFrame, EngineFrame,
     WizardFrame DEF WizardStep, TypeOK, vars

LEMMA ListEntries ==
    ASSUME DiscoveryTypeOK
    PROVE  /\ DOMAIN list = 1..Len(list) /\ Len(list) \in Nat
           /\ \A i \in DOMAIN list : list[i] \in [exe : Exes, voices : SUBSET Voices, on : SUBSET Voices]
<1> DEFINE Entry == [exe : Exes, voices : SUBSET Voices, on : SUBSET Voices]
<1> HIDE DEF Entry
<1>1. list \in Seq(Entry)
  BY DEF DiscoveryTypeOK, Entry
<1>2. DOMAIN list = 1..Len(list) /\ Len(list) \in Nat /\ \A i \in 1..Len(list) : list[i] \in Entry
  BY <1>1, ElementOfSeq, LenProperties
<1> QED
  BY <1>2 DEF Entry

\* What a step may do to the processes of providers.
ProcessesMove ==
    \/ procs' = procs
    \/ \E pid \in Pids, exe \in Exes \cup {NoExe}, by \in {"probe", "engine", "user"} :
          Start(pid, exe, by)
    \/ \E pid \in Pids : procs' = [procs EXCEPT ![pid] = NoProcess]
    \/ \E pid \in Pids \cup {NoPid} : procs' = Killed(procs, pid)
    \/ (Browses \/ Terminated) /\ procs' = [p \in Pids |-> [procs[p] EXCEPT !.fresh = FALSE]]

LEMMA EveryProcessMove ==
    ASSUME TypeOK, [Next]_vars
    PROVE  ProcessesMove
<1>1. CASE ScanStep
  <2>1. \A s \in Scans : scans[s].pid \in Pids \cup {NoPid} /\ scans[s].exe \in Exes \cup {NoExe}
    BY DEF TypeOK, DiscoveryTypeOK
  <2>2. PICK s \in Scans : ScanSteps(s)
    BY <1>1 DEF ScanStep
  <2>3. CASE StartsProcess(s)
    BY <2>1, <2>3 DEF StartsProcess, ProcessesMove
  <2>4. CASE ProbeFails(s) \/ Adds(s)
    BY <2>1, <2>4 DEF ProbeFails, ProbeEnds, Adds, NextExe, ProcessesMove
  <2> QED
    BY <2>2, <2>3, <2>4 DEF ScanSteps, ScanGoesOn, ScanIsAnswered, ScanAdvances, StartFails, NextExe, Connects, GetsInfo, GetsVoices,
       VoicesLost, ProcessesMove
<1>2. CASE ProcessStep
  BY <1>2 DEF ProcessStep, Dies, Exits, Crashes, Gone, ProcessesMove
<1>3. CASE WindowStep
  <2>1. CASE Configures
    <3>1. \A i \in DOMAIN list : list[i].exe \in Exes
      BY ListEntries DEF TypeOK
    <3> QED
      BY <2>1, <3>1 DEF Configures, ProcessesMove
  <2> QED
    BY <1>3, <2>1 DEF WindowStep, ManagerOpens, Opens, Refreshes, Closes, ProcessesMove
<1>4. CASE DialogStep
  <2>1. dialog.pid \in Pids \cup {NoPid}
    BY DEF TypeOK, DialogTypeOK
  <2>2. CASE Terminated \/ Browses
    BY <2>2 DEF Terminated, Browses, Inspected, ProcessesMove
  <2>3. CASE Terminates \/ TerminateFails
    BY <2>1, <2>3 DEF Terminates, TerminateFails, ProcessesMove
  <2> QED
    BY <1>4, <2>2, <2>3 DEF DialogStep, InstallerSteps, DialogClicks, Extracts, ExtractFails,
       Extracted, AddsProvider, Installs, Cancels, ProcessesMove
<1>5. CASE EngineStep
  <2>1. \A v \in Voices : registry.tokens[v].exe \in Exes \cup {NoExe}
    BY DEF TypeOK, RegistryTypeOK
  <2> QED
    BY <1>5, <2>1 DEF EngineStep, EngineLaunches, EngineConnects, EngineLeaves, ProcessesMove
<1>6. CASE WizardStep \/ SaveStep \/ RemovalStep \/ UNCHANGED vars
  BY <1>6, WizardFrame, SaveFrame DEF WizardStep, RemovalStep, Removes, vars, ProcessesMove, TypeOK
<1> QED
  BY <1>1, <1>2, <1>3, <1>4, <1>5, <1>6, EveryStep

LEMMA ProcessesAreTyped ==
    ASSUME TypeOK, ProcessesMove
    PROVE  procs' \in [Pids -> [exe : Exes \cup {NoExe}, by : {"nobody", "probe", "engine", "user"},
                                life : {"none", "alive", "dying"}, fresh : BOOLEAN]]
<1> DEFINE Process == [exe : Exes \cup {NoExe}, by : {"nobody", "probe", "engine", "user"},
                       life : {"none", "alive", "dying"}, fresh : BOOLEAN]
<1>1. procs \in [Pids -> Process]
  BY DEF TypeOK, DiscoveryTypeOK
<1>2. NoProcess \in Process
  BY DEF NoProcess
<1>3. \A exe \in Exes \cup {NoExe}, by \in {"probe", "engine", "user"} :
          [exe |-> exe, by |-> by, life |-> "alive", fresh |-> TRUE] \in Process
  OBVIOUS
<1>4. \A p \in Process : [p EXCEPT !.fresh = FALSE] \in Process /\ [p EXCEPT !.life = "dying"] \in Process
  OBVIOUS
<1>5. ASSUME NEW pid \in Pids \cup {NoPid} PROVE Killed(procs, pid) \in [Pids -> Process]
  <2>1. CASE pid \in Pids
    <3>1. [procs EXCEPT ![pid].life = "dying"] = [procs EXCEPT ![pid] = [procs[pid] EXCEPT !.life = "dying"]]
      BY <1>1, <2>1
    <3> QED
      BY <1>1, <1>4, <2>1, <3>1 DEF Killed
  <2> QED
    BY <1>1, <1>5, <2>1 DEF Killed
<1> HIDE DEF Process
<1>6. SUFFICES procs' \in [Pids -> Process]
  BY <1>6 DEF Process
<1>7. ASSUME NEW pid \in Pids, NEW exe \in Exes \cup {NoExe}, NEW by \in {"probe", "engine", "user"},
             Start(pid, exe, by)
      PROVE  procs' \in [Pids -> Process]
  BY <1>1, <1>3, <1>7 DEF Start
<1>8. ASSUME NEW pid \in Pids, procs' = [procs EXCEPT ![pid] = NoProcess]
      PROVE  procs' \in [Pids -> Process]
  BY <1>1, <1>2, <1>8
<1>9. CASE procs' = [p \in Pids |-> [procs[p] EXCEPT !.fresh = FALSE]]
  BY <1>1, <1>4, <1>9
<1> QED
  BY <1>1, <1>5, <1>7, <1>8, <1>9 DEF ProcessesMove

ScanRecord == [at : ScanPlace, exe : Exes \cup {NoExe}, pid : Pids \cup {NoPid},
               peer : Pids \cup {NoPid}, voices : SUBSET Voices]

LEMMA NoScanIsTyped == NoScan \in ScanRecord
  BY DEF NoScan, ScanRecord, ScanPlace

\* A step of a scan changes the record of that scan only.
LEMMA ScanStepRecord ==
    ASSUME DiscoveryTypeOK, NEW s \in Scans, ScanSteps(s)
    PROVE  \E r \in ScanRecord : scans' = [scans EXCEPT ![s] = r]
<1> DEFINE r == scans[s]
<1>1. scans \in [Scans -> ScanRecord] /\ r \in ScanRecord
  BY DEF DiscoveryTypeOK, ScanRecord
<1>2. \A place \in ScanPlace : [r EXCEPT !.at = place] \in ScanRecord
  BY <1>1 DEF ScanRecord
<1>3. \A place \in ScanPlace, exe \in Exes : [r EXCEPT !.at = place, !.exe = exe] \in ScanRecord
  BY <1>1 DEF ScanRecord
<1>4. \A place \in ScanPlace, pid \in Pids :
          /\ [r EXCEPT !.at = place, !.pid = pid] \in ScanRecord
          /\ [r EXCEPT !.at = place, !.peer = pid] \in ScanRecord
  BY <1>1 DEF ScanRecord
<1>5. \A place \in ScanPlace, voices \in SUBSET Voices : [r EXCEPT !.at = place, !.voices = voices] \in ScanRecord
  BY <1>1 DEF ScanRecord
<1>6. \A place : [scans EXCEPT ![s].at = place] = [scans EXCEPT ![s] = [r EXCEPT !.at = place]]
  BY <1>1
<1>7. {"next", "manifest", "connect", "info", "voices", "shutdown", "ended"} \subseteq ScanPlace
  BY DEF ScanPlace
<1>8. [NoScan EXCEPT !.at = "next", !.exe = r.exe] \in ScanRecord
  BY <1>1, <1>7 DEF NoScan, ScanRecord
<1> HIDE DEF r
<1>9. CASE ScanAdvances(s)
  <2>1. CASE Rest(s) # {}
    <3>1. Rest(s) \in SUBSET Nat /\ Rest(s) \subseteq Exes
      BY ExesAreNaturals DEF Rest
    <3>2. \E e \in Rest(s) : \A f \in Rest(s) : e =< f
      BY <2>1, <3>1, HasLeast
    <3>3. PICK e \in Exes : Takes(s, e)
      BY <1>9, <2>1, <3>1, <3>2 DEF ScanAdvances
    <3>4. scans' = [scans EXCEPT ![s] = [r EXCEPT !.at = "manifest", !.exe = e]]
      BY <1>1, <3>3 DEF Takes, r
    <3>5. [r EXCEPT !.at = "manifest", !.exe = e] \in ScanRecord
      BY <1>3, <1>7
    <3> QED
      BY <3>4, <3>5
  <2>2. CASE Rest(s) = {}
    BY <1>2, <1>6, <1>7, <1>9, <2>2 DEF ScanAdvances, Move
  <2> QED
    BY <2>1, <2>2
<1>10. CASE StartsProcess(s)
  <2>1. PICK pid \in Pids : scans' = [scans EXCEPT ![s].at = "connect", ![s].pid = pid]
    BY <1>10 DEF StartsProcess
  <2>2. scans' = [scans EXCEPT ![s] = [r EXCEPT !.at = "connect", !.pid = pid]]
    BY <1>1, <2>1 DEF r
  <2>3. [r EXCEPT !.at = "connect", !.pid = pid] \in ScanRecord
    BY <1>4, <1>7
  <2> QED
    BY <2>2, <2>3
<1>11. CASE \E pid \in Pids : Connects(s, pid)
  <2>1. PICK pid \in Pids : scans' = [scans EXCEPT ![s].at = "info", ![s].peer = pid]
    BY <1>11 DEF Connects
  <2>2. scans' = [scans EXCEPT ![s] = [r EXCEPT !.at = "info", !.peer = pid]]
    BY <1>1, <2>1 DEF r
  <2>3. [r EXCEPT !.at = "info", !.peer = pid] \in ScanRecord
    BY <1>4, <1>7
  <2> QED
    BY <2>2, <2>3
<1>12. CASE GetsVoices(s)
  <2>1. PICK voices \in SUBSET Voices : scans' = [scans EXCEPT ![s].at = "shutdown", ![s].voices = voices]
    BY <1>12 DEF GetsVoices
  <2>2. scans' = [scans EXCEPT ![s] = [r EXCEPT !.at = "shutdown", !.voices = voices]]
    BY <1>1, <2>1 DEF r
  <2>3. [r EXCEPT !.at = "shutdown", !.voices = voices] \in ScanRecord
    BY <1>5, <1>7
  <2> QED
    BY <2>2, <2>3
<1>13. CASE GetsInfo(s) \/ VoicesLost(s)
  BY <1>2, <1>6, <1>7, <1>13 DEF GetsInfo, VoicesLost, Move
<1>14. CASE StartFails(s) \/ ProbeFails(s) \/ Adds(s)
  BY <1>8, <1>14 DEF StartFails, ProbeFails, ProbeEnds, Adds, NextExe, r
<1> QED
  BY <1>9, <1>10, <1>11, <1>12, <1>13, <1>14 DEF ScanSteps, ScanGoesOn, ScanIsAnswered

LEMMA ScansAreTyped ==
    ASSUME DiscoveryTypeOK, [Next]_vars
    PROVE  scans' \in [Scans -> ScanRecord]
<1>1. scans \in [Scans -> ScanRecord] /\ NoScan \in ScanRecord /\ [NoScan EXCEPT !.at = "next"] \in ScanRecord
  BY NoScanIsTyped DEF DiscoveryTypeOK, ScanRecord, ScanPlace, NoScan
<1>2. CASE ScanStep
  BY <1>1, <1>2, ScanStepRecord DEF ScanStep
<1>3. ASSUME NEW s \in Scans, ScanBegins(s) PROVE scans' \in [Scans -> ScanRecord]
  BY <1>1, <1>3 DEF ScanBegins
<1>4. CASE WindowStep
  BY <1>1, <1>3, <1>4 DEF WindowStep, ManagerOpens, Opens, Refreshes, Closes, Configures
<1>5. CASE DialogStep
  BY <1>1, <1>3, <1>5 DEF DialogStep, InstallerSteps, DialogClicks, Terminated, Extracts, ExtractFails,
     Extracted, AddsProvider, Browses, Terminates, TerminateFails, Installs, Cancels
<1>6. CASE WizardStep
  BY <1>1, <1>3, <1>6, WizardFrame DEF WizardStep, Opens
<1>7. CASE SaveStep
  BY <1>1, <1>7 DEF SaveStep, Toggles, Saves, SavesVoice, SaveEnds, SaveDismissed
<1> QED
  BY <1>1, <1>2, <1>4, <1>5, <1>6, <1>7, EveryStep, ProcessFrame, EngineFrame
     DEF RemovalStep, Removes, vars

\* The next executable of a scan is one of the rest.
LEMMA TakesOneOfTheRest ==
    ASSUME DiscoveryTypeOK, NEW s \in Scans, ScanAdvances(s), Rest(s) # {}
    PROVE  \E exe \in Rest(s) : exe \in Exes /\ Takes(s, exe)
<1>1. Rest(s) \in SUBSET Nat /\ Rest(s) \subseteq Exes
  BY ExesAreNaturals DEF Rest
<1>2. \E e \in Rest(s) : \A f \in Rest(s) : e =< f
  BY <1>1, HasLeast
<1> QED
  BY <1>1, <1>2 DEF ScanAdvances

\* Where a scan goes, and with what.
LEMMA ScanMoves ==
    ASSUME DiscoveryTypeOK, NEW s \in Scans
    PROVE  /\ \A exe : Takes(s, exe) => scans'[s] = [scans[s] EXCEPT !.at = "manifest", !.exe = exe]
           /\ \A place : Move(s, place) => scans'[s] = [scans[s] EXCEPT !.at = place]
           /\ \A ps : NextExe(s, ps) => scans'[s] = [NoScan EXCEPT !.at = "next", !.exe = scans[s].exe]
           /\ StartsProcess(s) => \E pid \in Pids : /\ Start(pid, scans[s].exe, "probe")
                                                    /\ scans'[s] = [scans[s] EXCEPT !.at = "connect", !.pid = pid]
           /\ \A pid : Connects(s, pid) => scans'[s] = [scans[s] EXCEPT !.at = "info", !.peer = pid]
           /\ GetsVoices(s) => \E voices \in SUBSET Voices : scans'[s] = [scans[s] EXCEPT !.at = "shutdown", !.voices = voices]
           /\ ScanSteps(s) => \A t \in Scans \ {s} : scans'[t] = scans[t]
<1>1. scans \in [Scans -> ScanRecord]
  BY DEF DiscoveryTypeOK, ScanRecord
<1>2. /\ \A exe : Takes(s, exe) => scans'[s] = [scans[s] EXCEPT !.at = "manifest", !.exe = exe]
      /\ \A place : Move(s, place) => scans'[s] = [scans[s] EXCEPT !.at = place]
  BY <1>1 DEF Takes, Move
<1>3. \A ps : NextExe(s, ps) => scans'[s] = [NoScan EXCEPT !.at = "next", !.exe = scans[s].exe]
  BY <1>1 DEF NextExe
<1>4. ASSUME StartsProcess(s)
      PROVE  \E pid \in Pids : /\ Start(pid, scans[s].exe, "probe")
                               /\ scans'[s] = [scans[s] EXCEPT !.at = "connect", !.pid = pid]
  BY <1>1, <1>4 DEF StartsProcess
<1>5. \A pid : Connects(s, pid) => scans'[s] = [scans[s] EXCEPT !.at = "info", !.peer = pid]
  BY <1>1 DEF Connects
<1>6. ASSUME GetsVoices(s)
      PROVE  \E voices \in SUBSET Voices : scans'[s] = [scans[s] EXCEPT !.at = "shutdown", !.voices = voices]
  BY <1>1, <1>6 DEF GetsVoices
<1>7. ASSUME ScanSteps(s) PROVE \A t \in Scans \ {s} : scans'[t] = scans[t]
  BY <1>1, <1>7, ScanStepRecord
<1> QED
  BY <1>2, <1>3, <1>4, <1>5, <1>6, <1>7

ShapeOf(r) ==
    /\ r.pid # NoPid => r.at \in {"connect", "info", "voices", "shutdown"}
    /\ r.at \in {"manifest", "connect", "info", "voices", "shutdown"} => r.exe \in Exes

LEMMA ScansKeepShape ==
    ASSUME DiscoveryTypeOK, ScanShape, [Next]_vars
    PROVE  ScanShape'
<1>1. scans \in [Scans -> ScanRecord] /\ \A s \in Scans : ShapeOf(scans[s])
  BY DEF DiscoveryTypeOK, ScanRecord, ScanShape, ShapeOf
<1>2. SUFFICES \A s \in Scans : ShapeOf(scans'[s])
  BY <1>2 DEF ScanShape, ShapeOf
<1>3. ASSUME NEW s \in Scans, ScanSteps(s) PROVE \A t \in Scans : ShapeOf(scans'[t])
  <2>1. SUFFICES ShapeOf(scans'[s])
    BY <1>1, <1>3, <2>1, ScanMoves
  <2>2. scans[s] \in ScanRecord /\ ShapeOf(scans[s])
    BY <1>1
  <2>3. CASE ScanAdvances(s)
    <3>1. scans[s].at = "next"
      BY <2>3 DEF ScanAdvances
    <3>2. CASE Rest(s) # {}
      <4>1. PICK exe \in Exes : Takes(s, exe)
        BY <2>3, <3>2, TakesOneOfTheRest
      <4>2. scans'[s] = [scans[s] EXCEPT !.at = "manifest", !.exe = exe]
        BY <4>1, ScanMoves
      <4> QED
        BY <2>2, <3>1, <4>2 DEF ShapeOf, ScanRecord
    <3>3. CASE Rest(s) = {}
      <4>1. scans'[s] = [scans[s] EXCEPT !.at = "ended"]
        BY <2>3, <3>3, ScanMoves DEF ScanAdvances
      <4> QED
        BY <2>2, <3>1, <4>1 DEF ShapeOf, ScanRecord
    <3> QED
      BY <3>2, <3>3
  <2>4. CASE StartsProcess(s)
    <3>1. PICK pid \in Pids : scans'[s] = [scans[s] EXCEPT !.at = "connect", !.pid = pid]
      BY <2>4, ScanMoves
    <3>2. scans[s].at = "manifest"
      BY <2>4 DEF StartsProcess
    <3> QED
      BY <2>2, <3>1, <3>2 DEF ShapeOf, ScanRecord
  <2>5. ASSUME NEW pid \in Pids, Connects(s, pid) PROVE ShapeOf(scans'[s])
    <3>1. scans'[s] = [scans[s] EXCEPT !.at = "info", !.peer = pid]
      BY <2>5, ScanMoves
    <3>2. scans[s].at = "connect"
      BY <2>5 DEF Connects
    <3> QED
      BY <2>2, <3>1, <3>2 DEF ShapeOf, ScanRecord
  <2>6. CASE GetsInfo(s) \/ VoicesLost(s)
    <3>1. PICK place \in {"voices", "shutdown"} : scans'[s] = [scans[s] EXCEPT !.at = place]
      BY <2>6, ScanMoves DEF GetsInfo, VoicesLost
    <3>2. scans[s].at \in {"info", "voices"}
      BY <2>6 DEF GetsInfo, VoicesLost
    <3> QED
      BY <2>2, <3>1, <3>2 DEF ShapeOf, ScanRecord
  <2>7. CASE GetsVoices(s)
    <3>1. PICK voices \in SUBSET Voices : scans'[s] = [scans[s] EXCEPT !.at = "shutdown", !.voices = voices]
      BY <2>7, ScanMoves
    <3>2. scans[s].at = "voices"
      BY <2>7 DEF GetsVoices
    <3> QED
      BY <2>2, <3>1, <3>2 DEF ShapeOf, ScanRecord
  <2>8. CASE StartFails(s) \/ ProbeFails(s) \/ Adds(s)
    <3>1. scans'[s] = [NoScan EXCEPT !.at = "next", !.exe = scans[s].exe]
      BY <2>8, ScanMoves DEF StartFails, ProbeFails, ProbeEnds, Adds
    <3> QED
      BY <3>1 DEF ShapeOf, NoScan
  <2> QED
    BY <1>3, <2>3, <2>4, <2>5, <2>6, <2>7, <2>8 DEF ScanSteps, ScanGoesOn, ScanIsAnswered
<1>4. ShapeOf(NoScan) /\ ShapeOf([NoScan EXCEPT !.at = "next"])
  BY NoScanIsTyped DEF ShapeOf, NoScan
<1>5. ASSUME NEW s \in Scans, ScanBegins(s) PROVE \A t \in Scans : ShapeOf(scans'[t])
  BY <1>1, <1>4, <1>5 DEF ScanBegins
<1>6. CASE WindowStep
  BY <1>1, <1>4, <1>5, <1>6 DEF WindowStep, ManagerOpens, Opens, Refreshes, Closes, Configures
<1>7. CASE DialogStep
  BY <1>1, <1>5, <1>7 DEF DialogStep, InstallerSteps, DialogClicks, Terminated, Extracts, ExtractFails,
     Extracted, AddsProvider, Browses, Terminates, TerminateFails, Installs, Cancels
<1>8. CASE WizardStep
  BY <1>1, <1>5, <1>8, WizardFrame DEF WizardStep, Opens
<1>9. CASE SaveStep
  BY <1>1, <1>9 DEF SaveStep, Toggles, Saves, SavesVoice, SaveEnds, SaveDismissed
<1>10. CASE UNCHANGED scans
  BY <1>1, <1>10
<1> QED
  BY <1>3, <1>6, <1>7, <1>8, <1>9, <1>10, EveryStep, ProcessFrame, EngineFrame
     DEF ScanStep, RemovalStep, Removes, vars

ListEntry == [exe : Exes, voices : SUBSET Voices, on : SUBSET Voices]

\* What a result adds to the list.
Result(s) == [exe |-> scans[s].exe, voices |-> scans[s].voices,
              on |-> {v \in scans[s].voices : IsVoiceTokenRegistered(v)}]

\* How the list changes.
ListMoves ==
    \/ list' = list
    \/ list' = <<>>
    \/ \E s \in Scans : Adds(s) /\ list' = Append(list, Result(s)) /\ Result(s) \in ListEntry
    \/ \E i \in DOMAIN list, on \in SUBSET Voices : list' = [list EXCEPT ![i] = [list[i] EXCEPT !.on = on]]

LEMMA EveryListMove ==
    ASSUME TypeInv, [Next]_vars
    PROVE  ListMoves
<1>1. ASSUME NEW s \in Scans, Adds(s) PROVE ListMoves
  <2>1. scans[s] \in ScanRecord /\ scans[s].exe \in Exes
    BY <1>1 DEF TypeInv, TypeOK, DiscoveryTypeOK, ScanShape, ScanRecord, Adds
  <2>2. Result(s) \in ListEntry
    BY <2>1 DEF Result, ListEntry, ScanRecord
  <2> QED
    BY <1>1, <2>2 DEF Adds, Result, ListMoves
<1>2. CASE ScanStep
  BY <1>1, <1>2 DEF ScanStep, ScanSteps, ScanGoesOn, ScanIsAnswered, ScanAdvances, StartsProcess, StartFails, Connects, GetsInfo, GetsVoices,
     VoicesLost, ProbeFails, ProbeEnds, ListMoves
<1>3. CASE Toggles
  <2>1. PICK i \in DOMAIN list :
            \E v \in list[i].voices :
               list' = [list EXCEPT ![i].on = IF v \in @ THEN @ \ {v} ELSE @ \cup {v}]
    BY <1>3 DEF Toggles
  <2>2. list[i] \in ListEntry /\ DOMAIN list = 1..Len(list)
    BY ListEntries DEF TypeInv, TypeOK, ListEntry
  <2>3. PICK v \in list[i].voices : list' = [list EXCEPT ![i].on = IF v \in @ THEN @ \ {v} ELSE @ \cup {v}]
    BY <2>1
  <2>4. PICK on \in SUBSET Voices : on = IF v \in list[i].on THEN list[i].on \ {v} ELSE list[i].on \cup {v}
    BY <2>2 DEF ListEntry
  <2>5. list' = [list EXCEPT ![i] = [list[i] EXCEPT !.on = on]]
    BY <2>2, <2>3, <2>4
  <2> QED
    BY <2>5 DEF ListMoves
<1>4. CASE UNCHANGED list \/ list' = <<>>
  BY <1>4 DEF ListMoves
<1>5. CASE WindowStep
  BY <1>4, <1>5 DEF WindowStep, ManagerOpens, Opens, ScanBegins, Refreshes, Closes, Configures
<1>6. CASE DialogStep
  BY <1>4, <1>6 DEF DialogStep, InstallerSteps, DialogClicks, Terminated, Extracts, ExtractFails,
     Extracted, ScanBegins, AddsProvider, Browses, Terminates, TerminateFails, Installs, Cancels
<1>7. CASE WizardStep
  BY <1>4, <1>7, WizardFrame DEF WizardStep, Opens, ScanBegins
<1>8. CASE SaveStep
  BY <1>3, <1>4, <1>8 DEF SaveStep, Saves, SavesVoice, SaveEnds, SaveDismissed
<1> QED
  BY <1>2, <1>4, <1>5, <1>6, <1>7, <1>8, EveryStep, ProcessFrame, EngineFrame
     DEF RemovalStep, Removes, vars

LEMMA ListIsTyped ==
    ASSUME TypeInv, [Next]_vars
    PROVE  list' \in Seq(ListEntry)
<1>1. list \in Seq(ListEntry) /\ DOMAIN list = 1..Len(list) /\ \A i \in DOMAIN list : list[i] \in ListEntry
  BY ListEntries DEF TypeInv, TypeOK, DiscoveryTypeOK, ListEntry
<1>2. \A e \in ListEntry, on \in SUBSET Voices : [e EXCEPT !.on = on] \in ListEntry
  BY DEF ListEntry
<1> HIDE DEF ListEntry
<1>3. <<>> \in Seq(ListEntry)
  BY EmptySeq
<1>4. \A e \in ListEntry : Append(list, e) \in Seq(ListEntry)
  BY <1>1, AppendProperties
<1>5. \A i \in 1..Len(list), e \in ListEntry : [list EXCEPT ![i] = e] \in Seq(ListEntry)
  BY <1>1, ExceptSeq
<1>6. CASE \E i \in DOMAIN list, on \in SUBSET Voices : list' = [list EXCEPT ![i] = [list[i] EXCEPT !.on = on]]
  <2>1. PICK i \in DOMAIN list, on \in SUBSET Voices : list' = [list EXCEPT ![i] = [list[i] EXCEPT !.on = on]]
    BY <1>6
  <2>2. [list[i] EXCEPT !.on = on] \in ListEntry
    BY <1>1, <1>2
  <2> QED
    BY <1>1, <1>5, <2>1, <2>2
<1> QED
  BY <1>1, <1>3, <1>4, <1>6, EveryListMove DEF ListMoves

LEMMA HostIsTyped ==
    ASSUME TypeOK, [Next]_vars
    PROVE  /\ host' \in [Engines -> Pids \cup {NoPid}]
           /\ ui' \in {"closed", "free", "dialog", "killing", "extracting", "saving", "saved"}
<1>1. host \in [Engines -> Pids \cup {NoPid}]
  BY DEF TypeOK, DiscoveryTypeOK
<1>2. ui \in {"closed", "free", "dialog", "killing", "extracting", "saving", "saved"}
  BY DEF TypeOK, DiscoveryTypeOK
<1>3. host' \in [Engines -> Pids \cup {NoPid}]
  <2>1. CASE ProcessStep
    BY <1>1, <2>1 DEF ProcessStep, Dies, Exits, Crashes, Gone
  <2>2. CASE EngineStep
    <3>1. CASE EngineLaunches
      BY <1>1, <3>1 DEF EngineLaunches
    <3>2. ASSUME NEW e \in Engines, EngineConnects(e) PROVE host' \in [Engines -> Pids \cup {NoPid}]
      BY <1>1, <3>2 DEF EngineConnects, Listening
    <3>3. ASSUME NEW e \in Engines, EngineLeaves(e) PROVE host' \in [Engines -> Pids \cup {NoPid}]
      BY <1>1, <3>3 DEF EngineLeaves
    <3> QED
      BY <2>2, <3>1, <3>2, <3>3 DEF EngineStep
  <2> QED
    BY <1>1, <2>1, <2>2, EveryStep, ScanFrame, WindowFrame, DialogFrame, SaveFrame, WizardFrame
       DEF WizardStep, RemovalStep, Removes, vars, TypeOK
<1>4. ui' \in {"closed", "free", "dialog", "killing", "extracting", "saving", "saved"}
  <2>1. CASE WindowStep
    BY <1>2, <2>1 DEF WindowStep, ManagerOpens, Opens, Refreshes, Closes, Configures
  <2>2. CASE DialogStep
    BY <1>2, <2>2 DEF DialogStep, InstallerSteps, DialogClicks, Terminated, Extracts, ExtractFails,
       Extracted, AddsProvider, Browses, Terminates, TerminateFails, Installs, Cancels
  <2>3. CASE SaveStep
    BY <1>2, <2>3 DEF SaveStep, Toggles, Saves, SavesVoice, SaveEnds, SaveDismissed
  <2>4. CASE WizardStep
    BY <1>2, <2>4, WizardFrame DEF WizardStep, Opens
  <2> QED
    BY <1>2, <2>1, <2>2, <2>3, <2>4, EveryStep, ScanFrame, ProcessFrame, EngineFrame
       DEF RemovalStep, Removes, vars
<1> QED
  BY <1>3, <1>4

LEMMA DialogIsTyped ==
    ASSUME TypeOK, [Next]_vars
    PROVE  DialogTypeOK'
<1> DEFINE D == [zip : Zips \cup {NoZip}, pid : Pids \cup {NoPid}, todo : SUBSET Exes]
<1> SUFFICES dialog' \in D
  BY DEF DialogTypeOK
<1>1. dialog \in D /\ NoDialog \in D
  BY DEF TypeOK, DialogTypeOK, NoDialog
<1>2. ASSUME NEW zip \in Zips \cup {NoZip}, Inspected(zip, procs) PROVE dialog' \in D
  BY <1>2 DEF Inspected
<1>3. ASSUME NEW todo \in SUBSET Exes, dialog' = [dialog EXCEPT !.todo = todo] PROVE dialog' \in D
  BY <1>1, <1>3
<1>4. dialog.zip.files \subseteq Exes /\ dialog.todo \subseteq Exes /\ dialog.zip \in Zips \cup {NoZip}
  BY <1>1, PackagesAssumption DEF NoZip
<1> HIDE DEF D
<1>5. CASE DialogStep
  <2>1. CASE Terminated
    BY <1>1, <1>2, <1>4, <2>1 DEF Terminated
  <2>2. CASE Browses
    BY <1>2, <2>2 DEF Browses
  <2>3. CASE Extracts
    BY <1>3, <1>4, <2>3 DEF Extracts
  <2>4. CASE Installs
    BY <1>3, <1>4, <2>4 DEF Installs
  <2>5. CASE ExtractFails
    BY <1>3, <2>5 DEF ExtractFails
  <2>6. CASE UNCHANGED dialog \/ dialog' = NoDialog
    BY <1>1, <2>6
  <2> QED
    BY <1>5, <2>1, <2>2, <2>3, <2>4, <2>5, <2>6 DEF DialogStep, InstallerSteps, DialogClicks,
       Extracted, AddsProvider, Terminates, TerminateFails, Cancels
<1> QED
  BY <1>1, <1>5, EveryStep, ScanFrame, ProcessFrame, WindowFrame, SaveFrame, EngineFrame, WizardFrame
     DEF WizardStep, RemovalStep, Removes, vars, others, TypeOK

SetupRecord == [at : SetupPlace, mode : {"none", "Install", "Upgrade", "Uninstall"},
                files : SUBSET Files, tokens : SUBSET Voices]

\* What one step of a setup does to its record; the others stay.
LEMMA SetupMoves ==
    ASSUME SetupTypeOK, NEW w \in DOMAIN Setups, SetupSteps(w) \/ SetupClicks(w) \/ Breaks(w)
    PROVE  /\ setup' \in [DOMAIN Setups -> SetupRecord]
           /\ \A x \in DOMAIN Setups \ {w} : setup'[x] = setup[x]
           /\ \A place : Step(w, place) => setup'[w] = [setup[w] EXCEPT !.at = place]
<1> DEFINE r == setup[w]
           Becomes(q) == setup' = [setup EXCEPT ![w] = q]
<1>1. setup \in [DOMAIN Setups -> SetupRecord] /\ r \in SetupRecord
  BY DEF SetupTypeOK, SetupRecord
<1>2. SUFFICES ASSUME TRUE
               PROVE  \E q \in SetupRecord : Becomes(q)
  BY <1>1, <1>2 DEF Step
<1>3. \A place : Step(w, place) => Becomes([r EXCEPT !.at = place])
  BY <1>1 DEF Step
<1>4. \A place \in SetupPlace : [r EXCEPT !.at = place] \in SetupRecord
  BY <1>1 DEF SetupRecord
<1>5. SetupPlace = {"off", "window", "copy", "com", "entry", "told",
                    "uncom", "unentry", "untoken", "unfile", "untold", "closed"}
  BY DEF SetupPlace
<1>6. CASE \E place \in SetupPlace : Step(w, place)
  BY <1>3, <1>4, <1>6
<1>7. CASE \/ RegistersCom(w) \/ WritesEntry(w) \/ Launches(w) \/ LaunchFails(w) \/ UnregistersCom(w)
           \/ SpawnsRemoval(w) \/ SpawnFails(w) \/ Leaves(w) \/ Dismisses(w) \/ Breaks(w)
  BY <1>5, <1>6, <1>7 DEF RegistersCom, WritesEntry, Launches, LaunchFails, UnregistersCom,
     SpawnsRemoval, SpawnFails, Leaves, Dismisses, Breaks
<1>8. CASE StartsSetup(w) \/ StartsUninstall(w)
  <2>1. PICK place \in SetupPlace, mode \in {"none", "Install", "Upgrade", "Uninstall"} :
            setup' = [setup EXCEPT ![w].at = place, ![w].mode = mode]
    <3>1. PICK mode \in {"none", "Install", "Upgrade"} : mode = ModeOf(Setups[w].version)
      BY DEF ModeOf
    <3>2. PICK place \in SetupPlace : place = IF mode = "none" THEN "closed" ELSE "window"
      BY <1>5
    <3>3. CASE StartsSetup(w)
      BY <3>1, <3>2, <3>3 DEF StartsSetup
    <3>4. CASE StartsUninstall(w)
      BY <1>5, <3>4 DEF StartsUninstall
    <3> QED
      BY <1>8, <3>3, <3>4
  <2>2. Becomes([r EXCEPT !.at = place, !.mode = mode])
    BY <1>1, <2>1
  <2>3. [r EXCEPT !.at = place, !.mode = mode] \in SetupRecord
    BY <1>1 DEF SetupRecord
  <2> QED
    BY <2>2, <2>3
<1>9. CASE Clicks(w) \/ Copies(w) \/ CopyFails(w)
  <2>1. PICK place \in SetupPlace, files \in SUBSET Files :
            setup' = [setup EXCEPT ![w].at = place, ![w].files = files]
    <3>1. CASE Clicks(w)
      BY <1>5, <3>1 DEF Clicks
    <3>2. CASE CopyFails(w)
      BY <1>5, <3>2 DEF CopyFails
    <3>3. CASE Copies(w)
      <4>1. PICK f \in r.files :
                setup' = [setup EXCEPT ![w].files = @ \ {f},
                                       ![w].at = IF setup[w].files = {f} THEN "com" ELSE "copy"]
        BY <3>3 DEF Copies
      <4>2. PICK place \in SetupPlace, files \in SUBSET Files :
                /\ place = IF setup[w].files = {f} THEN "com" ELSE "copy"
                /\ files = r.files \ {f}
        BY <1>1, <1>5 DEF SetupRecord
      <4>3. setup' = [setup EXCEPT ![w].at = place, ![w].files = files]
        BY <1>1, <4>1, <4>2
      <4> QED
        BY <4>3
    <3> QED
      BY <1>9, <3>1, <3>2, <3>3
  <2>2. Becomes([r EXCEPT !.at = place, !.files = files])
    BY <1>1, <2>1
  <2>3. [r EXCEPT !.at = place, !.files = files] \in SetupRecord
    BY <1>1 DEF SetupRecord
  <2> QED
    BY <2>2, <2>3
<1>10. CASE RemovesEntry(w) \/ RemovalThrows(w)
  <2>1. PICK place \in SetupPlace, tokens \in SUBSET Voices :
            setup' = [setup EXCEPT ![w].at = place, ![w].tokens = tokens]
    BY <1>5, <1>10 DEF RemovesEntry, RemovalThrows
  <2>2. Becomes([r EXCEPT !.at = place, !.tokens = tokens])
    BY <1>1, <2>1
  <2>3. [r EXCEPT !.at = place, !.tokens = tokens] \in SetupRecord
    BY <1>1 DEF SetupRecord
  <2> QED
    BY <2>2, <2>3
<1>11. CASE RemovesToken(w)
  <2>1. PICK v \in r.tokens : setup' = [setup EXCEPT ![w].tokens = @ \ {v}]
    BY <1>11 DEF RemovesToken
  <2>2. Becomes([r EXCEPT !.tokens = r.tokens \ {v}])
    BY <1>1, <2>1
  <2>3. [r EXCEPT !.tokens = r.tokens \ {v}] \in SetupRecord
    BY <1>1 DEF SetupRecord
  <2> QED
    BY <2>2, <2>3
<1> QED
  BY <1>7, <1>8, <1>9, <1>10, <1>11 DEF SetupSteps, SetupClicks

\* Where the steps that change more than the place lead to.
LEMMA SetupPlaces ==
    ASSUME SetupTypeOK, NEW w \in DOMAIN Setups
    PROVE  /\ StartsSetup(w) \/ StartsUninstall(w) => setup'[w].at \in {"window", "closed"}
           /\ Clicks(w) => setup'[w].at \in {"copy", "uncom", "unentry"}
           /\ Copies(w) => setup'[w].at \in {"copy", "com"}
           /\ CopyFails(w) => setup'[w].at = "window"
           /\ RemovalThrows(w) => setup'[w].at = "unfile"
<1>1. setup \in [DOMAIN Setups -> SetupRecord] /\ setup[w] \in SetupRecord
  BY DEF SetupTypeOK, SetupRecord
<1>2. StartsSetup(w) \/ StartsUninstall(w) => setup'[w].at \in {"window", "closed"}
  BY <1>1 DEF StartsSetup, StartsUninstall, SetupRecord
<1>3. Clicks(w) => setup'[w].at \in {"copy", "uncom", "unentry"}
  BY <1>1 DEF Clicks, SetupRecord
<1>4. Copies(w) => setup'[w].at \in {"copy", "com"}
  <2>1. ASSUME NEW f, setup' = [setup EXCEPT ![w].files = @ \ {f},
                                             ![w].at = IF setup[w].files = {f} THEN "com" ELSE "copy"]
        PROVE  setup'[w].at \in {"copy", "com"}
    BY <1>1, <2>1 DEF SetupRecord
  <2> QED
    BY <2>1 DEF Copies
<1>5. CopyFails(w) => setup'[w].at = "window"
  BY <1>1 DEF CopyFails, SetupRecord
<1>6. RemovalThrows(w) => setup'[w].at = "unfile"
  BY <1>1 DEF RemovalThrows, SetupRecord
<1> QED
  BY <1>2, <1>3, <1>4, <1>5, <1>6

LEMMA SetupIsTyped ==
    ASSUME TypeOK, [Next]_vars
    PROVE  SetupTypeOK'
<1>1. /\ setup \in [DOMAIN Setups -> SetupRecord]
      /\ target \in [Files -> Versions] /\ com \in BOOLEAN /\ removal \in BOOLEAN
  BY DEF TypeOK, SetupTypeOK, SetupRecord
<1>2. SUFFICES /\ setup' \in [DOMAIN Setups -> SetupRecord]
               /\ target' \in [Files -> Versions] /\ com' \in BOOLEAN /\ removal' \in BOOLEAN
  BY <1>2 DEF SetupTypeOK, SetupRecord
<1>3. ASSUME NEW w \in DOMAIN Setups, SetupSteps(w) \/ SetupClicks(w) \/ Breaks(w)
      PROVE  /\ setup' \in [DOMAIN Setups -> SetupRecord]
             /\ target' \in [Files -> Versions] /\ com' \in BOOLEAN /\ removal' \in BOOLEAN
  <2>1. setup' \in [DOMAIN Setups -> SetupRecord]
    BY <1>3, SetupMoves DEF TypeOK
  <2>2. target' \in [Files -> Versions]
    <3>1. CASE Copies(w)
      <4>1. Setups[w].version \in Versions
        BY SetupsAssumption
      <4> QED
        BY <1>1, <3>1, <4>1 DEF Copies
    <3> QED
      BY <1>1, <1>3, <3>1 DEF SetupSteps, SetupClicks, Breaks, CopyFails, RegistersCom, WritesEntry,
         Launches, LaunchFails, UnregistersCom, RemovesEntry, RemovesToken, RemovalThrows, SpawnsRemoval,
         SpawnFails, StartsSetup, StartsUninstall, Clicks, Leaves, Dismisses
  <2>3. com' \in BOOLEAN /\ removal' \in BOOLEAN
    BY <1>1, <1>3 DEF SetupSteps, SetupClicks, Breaks, Copies, CopyFails, RegistersCom, WritesEntry,
       Launches, LaunchFails, UnregistersCom, RemovesEntry, RemovesToken, RemovalThrows, SpawnsRemoval,
       SpawnFails, StartsSetup, StartsUninstall, Clicks, Leaves, Dismisses
  <2> QED
    BY <2>1, <2>2, <2>3
<1>4. CASE RemovalStep
  <2>1. 0 \in Versions
    BY RegistryAssumption DEF Versions
  <2> QED
    BY <1>1, <1>4, <2>1 DEF RemovalStep, Removes
<1> QED
  BY <1>1, <1>3, <1>4, EveryStep, ScanFrame, ProcessFrame, WindowFrame, DialogFrame, SaveFrame, EngineFrame
     DEF WizardStep, others, vars, TypeOK

SaveInv ==
    /\ save \in [exe : Exes \cup {NoExe}, on : SUBSET Voices, todo : SUBSET Voices,
                 done : SUBSET Voices, fails : 0..Cardinality(Voices)]
    /\ save.todo \cap save.done = {}
    /\ save.fails =< Cardinality(save.done)

LEMMA NextVoiceIsThere ==
    ASSUME save.todo # {}
    PROVE  NextVoice \in save.todo
  BY DEF NextVoice

LEMMA SaveIsTyped ==
    ASSUME TypeInv, [Next]_vars
    PROVE  SaveInv'
<1>1. SaveInv
  BY DEF TypeInv, TypeOK, SaveInv
<1>2. IsFiniteSet(Voices)
  BY RegistryAssumption
<1>3. \A S \in SUBSET Voices : IsFiniteSet(S) /\ Cardinality(S) \in Nat /\ Cardinality(S) =< Cardinality(Voices)
  BY <1>2, FS_Subset, FS_CardinalityType
<1>4. Cardinality(Voices) \in Nat /\ Cardinality({}) = 0
  BY <1>2, FS_CardinalityType, FS_EmptySet
<1>5. ASSUME NEW exe \in Exes \cup {NoExe}, NEW on \in SUBSET Voices, NEW todo \in SUBSET Voices,
             save' = [exe |-> exe, on |-> on, todo |-> todo, done |-> {}, fails |-> 0]
      PROVE  SaveInv'
  BY <1>4, <1>5 DEF SaveInv
<1>6. CASE SavesVoice
  <2>1. NextVoice \in save.todo /\ NextVoice \in Voices \ save.done
    BY <1>1, <1>6, NextVoiceIsThere DEF SavesVoice, SaveInv
  <2>2. PICK fails \in {0, 1} : Saved(fails)
    BY <1>6 DEF SavesVoice
  <2>3. PICK done \in SUBSET Voices : done = save.done \cup {NextVoice}
    BY <1>1, <2>1 DEF SaveInv
  <2>4. Cardinality(done) = Cardinality(save.done) + 1
    BY <1>1, <1>3, <2>1, <2>3, FS_AddElement DEF SaveInv
  <2>5. save' = [exe |-> save.exe, on |-> save.on, todo |-> save.todo \ {NextVoice}, done |-> done,
                 fails |-> save.fails + fails]
    BY <1>1, <2>2, <2>3 DEF Saved, SaveInv
  <2>6. save.fails + fails \in Nat /\ save.fails + fails =< Cardinality(done)
        /\ save.fails + fails \in 0..Cardinality(Voices)
    BY <1>1, <1>3, <1>4, <2>3, <2>4 DEF SaveInv
  <2>7. (save.todo \ {NextVoice}) \cap done = {}
    BY <1>1, <2>3 DEF SaveInv
  <2> QED
    BY <1>1, <2>5, <2>6, <2>7 DEF SaveInv
<1>7. CASE Saves
  <2>1. PICK i \in DOMAIN list :
            save' = [NoSave EXCEPT !.exe = list[i].exe, !.on = list[i].on, !.todo = list[i].voices]
    BY <1>7 DEF Saves
  <2>2. list[i] \in ListEntry
    BY ListEntries DEF TypeInv, TypeOK, ListEntry
  <2> QED
    BY <1>5, <2>1, <2>2 DEF NoSave, ListEntry
<1>8. CASE save' = NoSave
  BY <1>5, <1>8 DEF NoSave
<1>9. CASE UNCHANGED save
  BY <1>1, <1>9 DEF SaveInv
<1>10. CASE SaveStep
  BY <1>6, <1>7, <1>8, <1>9, <1>10 DEF SaveStep, Toggles, SaveEnds, SaveDismissed, others
<1> QED
  BY <1>9, <1>10, EveryStep, ScanFrame, ProcessFrame, WindowFrame, DialogFrame, EngineFrame
     DEF WizardStep, RemovalStep, others, vars

LEMMA PositiveIsBoolean ==
    ASSUME NEW n, NEW c, c = (n > 0)
    PROVE  c \in BOOLEAN
  OBVIOUS

LEMMA TypeInvInit ==
    ASSUME Init
    PROVE  TypeInv
<1>1. PICK plan \in Plans :
          /\ left = plan.left
          /\ registry = [tokens |-> [v \in Voices |-> IF v \in plan.voices THEN TokenOf(v) ELSE NoToken],
                         entry |-> [version |-> plan.installed, located |-> plan.installed > 0]]
          /\ disk = plan.disk
          /\ target = [f \in Files |-> plan.installed] /\ com = (plan.installed > 0)
          /\ setup = [w \in DOMAIN Setups |-> [NoSetup EXCEPT !.at = IF w \in plan.setups THEN "off" ELSE "closed"]]
  BY DEF Init
<1>2. /\ procs = [p \in Pids |-> NoProcess] /\ host = [e \in Engines |-> NoPid]
      /\ scans = [s \in Scans |-> NoScan] /\ list = <<>> /\ ui = "closed"
      /\ dialog = NoDialog /\ removal = FALSE /\ save = NoSave
  BY DEF Init
<1>3. /\ left \in [Chances -> Nat] /\ plan.installed \in Versions /\ disk \in [Exes -> Versions]
      /\ \A v \in Voices \cap plan.voices : \E e \in Exes : ProviderOf[e] = Owner[v] /\ Answers[e] # "none"
  BY <1>1, PlansAssumption
<1>4. RegistryTypeOK
  <2>1. \A v \in Voices \cap plan.voices : TokenOf(v) \in [has : BOOLEAN, exe : Exes \cup {NoExe}, whole : BOOLEAN] /\ TokenOf(v).has
    BY <1>3 DEF TokenOf
  <2>2. NoToken \in [has : BOOLEAN, exe : Exes \cup {NoExe}, whole : BOOLEAN]
    BY DEF NoToken
  <2> QED
    BY <1>1, <1>3, <2>1, <2>2 DEF RegistryTypeOK
<1>5. DiscoveryTypeOK /\ ScanShape
  <2>1. NoProcess \in [exe : Exes \cup {NoExe}, by : {"nobody", "probe", "engine", "user"},
                       life : {"none", "alive", "dying"}, fresh : BOOLEAN]
    BY DEF NoProcess
  <2>2. <<>> \in Seq([exe : Exes, voices : SUBSET Voices, on : SUBSET Voices])
    BY EmptySeq
  <2> QED
    BY <1>2, <1>3, <2>1, <2>2, NoScanIsTyped DEF DiscoveryTypeOK, ScanShape, ScanRecord, NoScan
<1>6. DialogTypeOK
  BY <1>2 DEF DialogTypeOK, NoDialog
<1>7. SetupTypeOK
  <2>1. \A place \in {"off", "closed"} : [NoSetup EXCEPT !.at = place] \in SetupRecord
    BY DEF NoSetup, SetupRecord, SetupPlace
  <2>2. setup \in [DOMAIN Setups -> SetupRecord]
    BY <1>1, <2>1
  <2>3. target \in [Files -> Versions] /\ removal \in BOOLEAN
    BY <1>1, <1>2, <1>3
  <2>4. com = (plan.installed > 0)
    BY <1>1
  <2>5. com \in BOOLEAN
    BY <2>4, PositiveIsBoolean
  <2> QED
    BY <2>2, <2>3, <2>5 DEF SetupTypeOK, SetupRecord
<1>8. SaveInv
  <2>1. Cardinality(Voices) \in Nat /\ Cardinality({}) = 0
    BY RegistryAssumption, FS_CardinalityType, FS_EmptySet
  <2> QED
    BY <1>2, <2>1 DEF SaveInv, NoSave
<1> QED
  BY <1>4, <1>5, <1>6, <1>7, <1>8 DEF TypeInv, TypeOK, SaveInv

LEMMA TypeInvStep ==
    ASSUME TypeInv, [Next]_vars
    PROVE  TypeInv'
<1>1. RegistryTypeOK' /\ DialogTypeOK' /\ SetupTypeOK' /\ SaveInv' /\ ScanShape'
  BY RegistryIsTyped, DialogIsTyped, SetupIsTyped, SaveIsTyped, ScansKeepShape DEF TypeInv, TypeOK
<1>2. DiscoveryTypeOK'
  <2>1. \A s \in Scans : scans'[s].at \in {"off", "ended"} => scans'[s].pid = NoPid
    BY <1>1 DEF ScanShape
  <2>2. scans' \in [Scans -> [at : ScanPlace, exe : Exes \cup {NoExe}, pid : Pids \cup {NoPid},
                              peer : Pids \cup {NoPid}, voices : SUBSET Voices]]
    BY ScansAreTyped DEF TypeInv, TypeOK, ScanRecord
  <2>3. list' \in Seq([exe : Exes, voices : SUBSET Voices, on : SUBSET Voices])
    BY ListIsTyped DEF ListEntry
  <2>4. procs' \in [Pids -> [exe : Exes \cup {NoExe}, by : {"nobody", "probe", "engine", "user"},
                             life : {"none", "alive", "dying"}, fresh : BOOLEAN]]
    BY EveryProcessMove, ProcessesAreTyped DEF TypeInv
  <2> QED
    BY <2>1, <2>2, <2>3, <2>4, DiskIsTyped, HostIsTyped DEF DiscoveryTypeOK, TypeInv
<1> QED
  BY <1>1, <1>2 DEF TypeInv, TypeOK, SaveInv

LEMMA TypeInvHolds == Spec => []TypeInv
  BY TypeInvInit, TypeInvStep, PTL DEF Spec
-----------------------------------------------------------------------------
(***************************************************************************)
(* Setups.  A click is noted as an overlap when another setup works or the *)
(* removal of the directory is pending; without one, the setup at work is  *)
(* the only one, however long ago it looked at what is installed.          *)
(***************************************************************************)
Busy(w) == Working(w) \/ Removing(w)

Alone == "setupsOverlapped" \notin past

\* Nothing has happened that EntryMatchesFiles excepts.
Undisturbed == ~Excused({"copyFailed", "setupBroken", "setupsOverlapped", "registryFailed"})

\* The mode tells what a setup may be doing.
ModesMatch ==
    \A w \in DOMAIN Setups :
       /\ setup[w].at \notin {"off", "closed"} => setup[w].mode # "none"
       /\ Working(w) => setup[w].mode # "Uninstall"
       /\ Removing(w) => setup[w].mode = "Uninstall"

OneAtWork == Alone => \A w, x \in DOMAIN Setups : Busy(w) /\ Busy(x) => w = x

\* An uninstaller is past the entry at these places, unless the registry failed.
EntryIsGone ==
    \A w \in DOMAIN Setups :
       /\ setup[w].at = "unfile" => "registryFailed" \in past
       /\ Undisturbed /\ setup[w].at \in {"untoken", "untold"} => registry.entry.version = 0

CopiedIsNew ==
    Undisturbed => \A w \in DOMAIN Setups : Working(w) =>
        \A f \in Files : \/ setup[w].at = "copy" /\ f \in setup[w].files
                         \/ target[f] = Setups[w].version

RemovalIsLast ==
    Undisturbed /\ removal =>
        /\ registry.entry.version = 0
        /\ \A w \in DOMAIN Setups : ~Working(w)

SetupInv ==
    /\ ModesMatch /\ OneAtWork /\ EntryIsGone /\ CopiedIsNew /\ RemovalIsLast
    /\ EntryMatchesFiles

LEMMA ExcusesGrow ==
    ASSUME past \subseteq past'
    PROVE  /\ Alone' => Alone
           /\ Undisturbed' => Undisturbed
           /\ \A labels : Excused(labels) => Excused(labels)'
  BY DEF Alone, Undisturbed, Excused

\* A step that is no setup's.
LEMMA OthersKeepSetups ==
    ASSUME SetupInv, past \subseteq past', UNCHANGED <<setup, target, removal>>, registry'.entry = registry.entry
    PROVE  SetupInv'
<1>1. /\ Alone' => Alone
      /\ Undisturbed' => Undisturbed
      /\ "registryFailed" \in past => "registryFailed" \in past'
  BY ExcusesGrow
<1>2. \A w : (Working(w)' <=> Working(w)) /\ (Removing(w)' <=> Removing(w)) /\ (Busy(w)' <=> Busy(w))
  BY DEF Working, Removing, Busy
<1>3. ModesMatch' /\ OneAtWork'
  BY <1>1, <1>2 DEF SetupInv, ModesMatch, OneAtWork
<1>4. EntryIsGone' /\ CopiedIsNew' /\ RemovalIsLast'
  BY <1>1, <1>2 DEF SetupInv, EntryIsGone, CopiedIsNew, RemovalIsLast
<1>5. EntryMatchesFiles'
  BY <1>1, <1>2 DEF SetupInv, EntryMatchesFiles, Undisturbed
<1> QED
  BY <1>3, <1>4, <1>5 DEF SetupInv

\* A setup that comes to rest: it was not at work, or nothing is installed.
LEMMA RestKeepsSetups ==
    ASSUME SetupInv, past \subseteq past', NEW w \in DOMAIN Setups,
           \A x \in DOMAIN Setups \ {w} : setup'[x] = setup[x],
           UNCHANGED <<target, removal>>, registry'.entry = registry.entry,
           setup'[w].at \in {"window", "told", "closed"},
           setup'[w].at # "closed" => setup'[w].mode # "none",
           Undisturbed' => ~Busy(w) \/ registry.entry.version = 0
    PROVE  SetupInv'
<1>1. /\ Alone' => Alone
      /\ Undisturbed' => Undisturbed
      /\ "registryFailed" \in past => "registryFailed" \in past'
  BY ExcusesGrow
<1>2. /\ ~Working(w)' /\ ~Removing(w)' /\ ~Busy(w)'
      /\ \A x \in DOMAIN Setups \ {w} : /\ Working(x)' <=> Working(x)
                                        /\ Removing(x)' <=> Removing(x)
                                        /\ Busy(x)' <=> Busy(x)
  BY DEF Working, Removing, Busy
<1>3. ModesMatch' /\ OneAtWork'
  BY <1>1, <1>2 DEF SetupInv, ModesMatch, OneAtWork
<1>4. EntryIsGone'
  BY <1>1, <1>2 DEF SetupInv, EntryIsGone
<1>5. CopiedIsNew' /\ RemovalIsLast'
  BY <1>1, <1>2 DEF SetupInv, CopiedIsNew, RemovalIsLast
<1>6. EntryMatchesFiles'
  BY <1>1, <1>2 DEF SetupInv, EntryMatchesFiles, Undisturbed, Busy
<1> QED
  BY <1>3, <1>4, <1>5, <1>6 DEF SetupInv

\* The uninstaller goes on.
LEMMA RemovingKeepsSetups ==
    ASSUME TypeInv, SetupInv, past \subseteq past', NEW w \in DOMAIN Setups,
           \A x \in DOMAIN Setups \ {w} : setup'[x] = setup[x],
           target' = target, Removing(w), Removing(w)', setup'[w].mode = setup[w].mode,
           registry'.entry = registry.entry \/ registry'.entry.version = 0,
           setup'[w].at = "unfile" => "registryFailed" \in past',
           Undisturbed' /\ setup'[w].at \in {"untoken", "untold"} => registry'.entry.version = 0,
           removal' => removal \/ setup'[w].at = "untold"
    PROVE  SetupInv'
<1>1. /\ Alone' => Alone
      /\ Undisturbed' => Undisturbed /\ Alone
      /\ "registryFailed" \in past => "registryFailed" \in past'
  BY ExcusesGrow DEF Undisturbed, Alone, Excused
<1>2. /\ ~Working(w) /\ ~Working(w)' /\ Busy(w) /\ Busy(w)' /\ setup'[w].at # "window"
      /\ \A x \in DOMAIN Setups \ {w} : /\ Working(x)' <=> Working(x)
                                        /\ Removing(x)' <=> Removing(x)
                                        /\ Busy(x)' <=> Busy(x)
  BY DEF Working, Removing, Busy
<1>3. Alone => \A x \in DOMAIN Setups \ {w} : ~Busy(x) /\ ~Working(x)
  BY <1>2 DEF SetupInv, OneAtWork, Busy
<1>4. ModesMatch'
  BY <1>2 DEF SetupInv, ModesMatch, Busy, Working, Removing
<1>5. OneAtWork'
  BY <1>1, <1>2, <1>3 DEF OneAtWork
<1>6. EntryIsGone'
  BY <1>1, <1>2 DEF SetupInv, EntryIsGone
<1>7. CopiedIsNew'
  BY <1>1, <1>2, <1>3 DEF CopiedIsNew
<1>8. RemovalIsLast'
  BY <1>1, <1>2, <1>3 DEF SetupInv, RemovalIsLast
<1>9. EntryMatchesFiles'
  BY <1>2 DEF EntryMatchesFiles, Busy
<1> QED
  BY <1>4, <1>5, <1>6, <1>7, <1>8, <1>9 DEF SetupInv

\* A setup goes on to install.
LEMMA WorkingKeepsSetups ==
    ASSUME TypeInv, SetupInv, past \subseteq past', NEW w \in DOMAIN Setups,
           \A x \in DOMAIN Setups \ {w} : setup'[x] = setup[x],
           removal' = removal, registry'.entry = registry.entry,
           Working(w), Working(w)', setup'[w].mode = setup[w].mode,
           Undisturbed' => \A f \in Files : \/ setup'[w].at = "copy" /\ f \in setup'[w].files
                                            \/ target'[f] = Setups[w].version
    PROVE  SetupInv'
<1>1. /\ Alone' => Alone
      /\ Undisturbed' => Undisturbed /\ Alone
      /\ "registryFailed" \in past => "registryFailed" \in past'
  BY ExcusesGrow DEF Undisturbed, Alone, Excused
<1>2. /\ ~Removing(w) /\ ~Removing(w)' /\ Busy(w) /\ Busy(w)' /\ setup'[w].at # "window"
      /\ \A x \in DOMAIN Setups \ {w} : /\ Working(x)' <=> Working(x)
                                        /\ Removing(x)' <=> Removing(x)
                                        /\ Busy(x)' <=> Busy(x)
  BY DEF Working, Removing, Busy
<1>3. Alone => \A x \in DOMAIN Setups \ {w} : ~Busy(x) /\ ~Working(x)
  BY <1>2 DEF SetupInv, OneAtWork, Busy
<1>4. ModesMatch'
  BY <1>2 DEF SetupInv, ModesMatch, Busy, Working, Removing
<1>5. OneAtWork'
  BY <1>1, <1>2, <1>3 DEF SetupInv, OneAtWork
<1>6. EntryIsGone'
  BY <1>1, <1>2 DEF SetupInv, EntryIsGone, Removing
<1>7. CopiedIsNew'
  BY <1>1, <1>2, <1>3 DEF CopiedIsNew
<1>8. RemovalIsLast'
  BY <1>1, <1>2, <1>3 DEF SetupInv, RemovalIsLast
<1>9. EntryMatchesFiles'
  BY <1>2 DEF EntryMatchesFiles, Busy
<1> QED
  BY <1>4, <1>5, <1>6, <1>7, <1>8, <1>9 DEF SetupInv

\* Nobody else is at work at the click, or the overlap is noted.
LEMMA ClickKeepsSetups ==
    ASSUME TypeInv, SetupInv, past \subseteq past', NEW w \in DOMAIN Setups, Clicks(w)
    PROVE  SetupInv'
<1>1. /\ Alone' => Alone
      /\ Undisturbed' => Undisturbed /\ Alone /\ Alone'
      /\ "registryFailed" \in past => "registryFailed" \in past'
  BY ExcusesGrow DEF Undisturbed, Alone, Excused
<1>2. setup \in [DOMAIN Setups -> SetupRecord] /\ setup[w].at = "window"
  BY DEF Clicks, TypeInv, TypeOK, SetupTypeOK, SetupRecord
<1>3. /\ \A x \in DOMAIN Setups \ {w} : setup'[x] = setup[x]
      /\ setup'[w].mode = setup[w].mode
      /\ setup[w].mode # "Uninstall" => setup'[w].at = "copy" /\ setup'[w].files = Files
      /\ setup[w].mode = "Uninstall" => setup'[w].at \in {"uncom", "unentry"}
      /\ UNCHANGED <<registry, target, removal>>
  BY <1>2 DEF Clicks
<1>4. Alone' => ~Overlaps(w)
  BY DEF Clicks, Note, Alone
<1>5. /\ Alone' => \A x \in DOMAIN Setups \ {w} : ~Busy(x)
      /\ Alone' => ~removal
  BY <1>4 DEF Overlaps, Busy
<1>7. /\ Busy(w)' /\ (Working(w)' <=> setup[w].mode # "Uninstall") /\ (Removing(w)' <=> setup[w].mode = "Uninstall")
      /\ \A x \in DOMAIN Setups \ {w} : /\ Working(x)' <=> Working(x)
                                        /\ Removing(x)' <=> Removing(x)
                                        /\ Busy(x)' <=> Busy(x)
  BY <1>3 DEF Working, Removing, Busy
<1>8. ModesMatch'
  BY <1>2, <1>3, <1>7 DEF SetupInv, ModesMatch
<1>9. OneAtWork'
  BY <1>5, <1>7 DEF OneAtWork
<1>11. EntryIsGone'
  BY <1>1, <1>3 DEF SetupInv, EntryIsGone
<1>12. CopiedIsNew'
  BY <1>1, <1>3, <1>7 DEF SetupInv, CopiedIsNew
<1>13. RemovalIsLast'
  BY <1>1, <1>3, <1>5 DEF RemovalIsLast
<1>14. EntryMatchesFiles'
  BY <1>7 DEF EntryMatchesFiles, Busy
<1> QED
  BY <1>8, <1>9, <1>11, <1>12, <1>13, <1>14 DEF SetupInv

\* The entry names the version of every file when it has been written.
LEMMA EntryKeepsSetups ==
    ASSUME TypeInv, SetupInv, past \subseteq past', NEW w \in DOMAIN Setups, WritesEntry(w)
    PROVE  SetupInv'
<1>1. /\ Alone' => Alone
      /\ Undisturbed' => Undisturbed /\ Alone
      /\ "registryFailed" \in past => "registryFailed" \in past'
  BY ExcusesGrow DEF Undisturbed, Alone, Excused
<1>2. setup \in [DOMAIN Setups -> SetupRecord] /\ setup[w].at = "entry"
  BY DEF WritesEntry, TypeInv, TypeOK, SetupTypeOK, SetupRecord
<1>3. /\ \A x \in DOMAIN Setups \ {w} : setup'[x] = setup[x]
      /\ setup'[w].at = "told" /\ setup'[w].mode = setup[w].mode
      /\ UNCHANGED <<target, removal>>
  BY <1>2 DEF WritesEntry, Step
<1>4. /\ Working(w) /\ Busy(w) /\ ~Working(w)' /\ ~Removing(w)'
      /\ \A x \in DOMAIN Setups \ {w} : /\ Working(x)' <=> Working(x)
                                        /\ Removing(x)' <=> Removing(x)
                                        /\ Busy(x)' <=> Busy(x)
  BY <1>2, <1>3 DEF Working, Removing, Busy
<1>5. Alone => \A x \in DOMAIN Setups \ {w} : ~Busy(x) /\ ~Working(x) /\ ~Removing(x)
  BY <1>4 DEF SetupInv, OneAtWork, Busy
<1>6. Undisturbed' => registry'.entry.version = Setups[w].version
  <2>1. registry \in [tokens : {registry.tokens}, entry : [version : Versions, located : BOOLEAN]]
    BY DEF TypeInv, TypeOK, RegistryTypeOK
  <2>2. Undisturbed' => registry' = [registry EXCEPT !.entry = [version |-> Setups[w].version, located |-> TRUE]]
    BY DEF WritesEntry, RegisterUninstallInfo, Throws, Note, Undisturbed, Excused
  <2> QED
    BY <2>1, <2>2
<1>7. Undisturbed' => ~removal /\ \A f \in Files : target[f] = Setups[w].version
  BY <1>1, <1>2, <1>4 DEF SetupInv, RemovalIsLast, CopiedIsNew
<1>8. ModesMatch'
  BY <1>2, <1>3, <1>4 DEF SetupInv, ModesMatch
<1>9. OneAtWork'
  BY <1>1, <1>4, <1>5 DEF OneAtWork, Busy
<1>10. EntryIsGone'
  <2>1. ASSUME NEW x \in DOMAIN Setups, Undisturbed', setup'[x].at \in {"untoken", "untold"} PROVE FALSE
    BY <1>1, <1>3, <1>4, <1>5, <2>1 DEF Removing
  <2> QED
    BY <1>1, <1>3, <2>1 DEF SetupInv, EntryIsGone
<1>11. CopiedIsNew' /\ RemovalIsLast'
  BY <1>1, <1>3, <1>4, <1>5, <1>7 DEF CopiedIsNew, RemovalIsLast
<1>12. EntryMatchesFiles'
  BY <1>3, <1>6, <1>7 DEF EntryMatchesFiles, Undisturbed
<1> QED
  BY <1>8, <1>9, <1>10, <1>11, <1>12 DEF SetupInv

LEMMA WizardKeepsSetups ==
    ASSUME TypeInv, SetupInv, past \subseteq past', NEW w \in DOMAIN Setups,
           SetupSteps(w) \/ SetupClicks(w) \/ Breaks(w)
    PROVE  SetupInv'
<1>1. setup \in [DOMAIN Setups -> SetupRecord] /\ setup[w] \in SetupRecord
  BY DEF TypeInv, TypeOK, SetupTypeOK, SetupRecord
<1>2. /\ \A x \in DOMAIN Setups \ {w} : setup'[x] = setup[x]
      /\ \A place : Step(w, place) => setup'[w] = [setup[w] EXCEPT !.at = place]
  BY SetupMoves DEF TypeInv, TypeOK
<1>3. \A place : Step(w, place) => setup'[w].at = place /\ setup'[w].mode = setup[w].mode
                                    /\ setup'[w].files = setup[w].files
  BY <1>1 DEF Step, SetupRecord
<1>4. registry \in [tokens : {registry.tokens}, entry : {registry.entry}]
  BY DEF TypeInv, TypeOK, RegistryTypeOK
<1>5. CASE StartsSetup(w) \/ StartsUninstall(w)
  <2>1. /\ setup'[w].at \in {"window", "closed"}
        /\ setup'[w].at # "closed" => setup'[w].mode # "none"
        /\ ~Busy(w)
        /\ UNCHANGED <<target, removal, registry>>
    BY <1>1, <1>5 DEF StartsSetup, StartsUninstall, Busy, Working, Removing, SetupRecord
  <2> QED
    BY <1>2, <2>1, RestKeepsSetups
<1>6. CASE Leaves(w) \/ Launches(w) \/ LaunchFails(w)
  <2>1. /\ setup'[w].at \in {"window", "closed"}
        /\ setup'[w].mode = setup[w].mode
        /\ setup[w].at \in {"window", "told"}
        /\ UNCHANGED <<target, removal, registry>>
    BY <1>3, <1>6 DEF Leaves, Launches, Opens, LaunchFails
  <2>2. setup[w].mode # "none" /\ ~Busy(w)
    BY <2>1 DEF SetupInv, ModesMatch, Busy, Working, Removing
  <2> QED
    BY <1>2, <2>1, <2>2, RestKeepsSetups
<1>7. CASE Dismisses(w) \/ CopyFails(w) \/ Breaks(w) \/ SpawnFails(w)
  <2>1. /\ setup'[w].at \in {"window", "closed"}
        /\ setup'[w].mode = setup[w].mode
        /\ Busy(w)
        /\ UNCHANGED <<target, removal, registry>>
    <3>1. CASE CopyFails(w)
      BY <1>1, <3>1 DEF CopyFails, Busy, Working, SetupRecord
    <3>2. CASE Dismisses(w) \/ Breaks(w) \/ SpawnFails(w)
      BY <1>3, <3>2 DEF Dismisses, Breaks, SpawnFails, Busy, Working, Removing
    <3> QED
      BY <1>7, <3>1, <3>2
  <2>2. setup[w].mode # "none"
    BY <2>1 DEF SetupInv, ModesMatch, Busy, Working, Removing
  <2>3. Undisturbed' => registry.entry.version = 0
    <3>1. Undisturbed' => ~CopyFails(w) /\ ~Breaks(w)
      BY DEF CopyFails, Breaks, Note, Undisturbed, Excused
    <3>2. Undisturbed' => Undisturbed /\ "registryFailed" \notin past
      BY DEF Undisturbed, Excused
    <3>3. Undisturbed' => setup[w].at \in {"untoken", "untold", "unfile"}
      BY <1>7, <3>1 DEF Dismisses, SpawnFails
    <3> QED
      BY <3>2, <3>3 DEF SetupInv, EntryIsGone
  <2> QED
    BY <1>2, <2>1, <2>2, <2>3, RestKeepsSetups
<1>8. CASE Clicks(w)
  BY <1>8, ClickKeepsSetups
<1>9. CASE WritesEntry(w)
  BY <1>9, EntryKeepsSetups
<1>10. CASE Copies(w) \/ RegistersCom(w)
  <2>1. /\ removal' = removal /\ registry' = registry
        /\ Working(w) /\ Working(w)' /\ setup'[w].mode = setup[w].mode
    <3>1. CASE Copies(w)
      BY <1>1, <3>1 DEF Copies, Working, SetupRecord
    <3>2. CASE RegistersCom(w)
      BY <1>3, <3>2 DEF RegistersCom, Working
    <3> QED
      BY <1>10, <3>1, <3>2
  <2>2. Undisturbed' => Undisturbed
    BY ExcusesGrow
  <2>3. Undisturbed' => \A f \in Files : \/ setup'[w].at = "copy" /\ f \in setup'[w].files
                                         \/ target'[f] = Setups[w].version
    <3>1. CASE Copies(w)
      <4>1. PICK g \in setup[w].files :
                /\ target' = [target EXCEPT ![g] = Setups[w].version]
                /\ setup' = [setup EXCEPT ![w].files = @ \ {g},
                                          ![w].at = IF setup[w].files = {g} THEN "com" ELSE "copy"]
        BY <3>1 DEF Copies
      <4>2. /\ setup'[w].files = setup[w].files \ {g}
            /\ setup'[w].at = IF setup[w].files = {g} THEN "com" ELSE "copy"
        BY <1>1, <4>1 DEF SetupRecord
      <4>3. target \in [Files -> Versions]
        BY DEF TypeInv, TypeOK, SetupTypeOK
      <4>4. Undisturbed' => \A f \in Files : f \in setup[w].files \/ target[f] = Setups[w].version
        BY <2>1, <2>2 DEF SetupInv, CopiedIsNew
      <4> QED
        BY <4>1, <4>2, <4>3, <4>4
    <3>2. CASE RegistersCom(w)
      BY <2>1, <2>2, <3>2 DEF RegistersCom, SetupInv, CopiedIsNew
    <3> QED
      BY <1>10, <3>1, <3>2
  <2> QED
    BY <1>2, <2>1, <2>3, WorkingKeepsSetups
<1>11. CASE UnregistersCom(w) \/ RemovesEntry(w) \/ RemovesToken(w) \/ RemovalThrows(w) \/ SpawnsRemoval(w)
  <2>1. Undisturbed' => Undisturbed /\ "registryFailed" \notin past
    BY DEF Undisturbed, Excused
  <2>2. /\ target' = target
        /\ Removing(w) /\ Removing(w)' /\ setup'[w].mode = setup[w].mode
        /\ removal' => removal \/ setup'[w].at = "untold"
    <3>1. CASE UnregistersCom(w) \/ SpawnsRemoval(w)
      BY <1>3, <3>1 DEF UnregistersCom, SpawnsRemoval, Removing
    <3>2. CASE RemovesEntry(w) \/ RemovesToken(w) \/ RemovalThrows(w)
      BY <1>1, <3>2 DEF RemovesEntry, RemovesToken, RemovalThrows, Removing, SetupRecord
    <3> QED
      BY <1>11, <3>1, <3>2
  <2>3. /\ setup'[w].at = "unfile" => "registryFailed" \in past'
        /\ registry'.entry = registry.entry \/ registry'.entry.version = 0
        /\ Undisturbed' /\ setup'[w].at \in {"untoken", "untold"} => registry'.entry.version = 0
    <3>1. CASE UnregistersCom(w)
      BY <1>3, <3>1 DEF UnregistersCom
    <3>2. CASE SpawnsRemoval(w)
      BY <1>3, <2>1, <3>2 DEF SpawnsRemoval, SetupInv, EntryIsGone
    <3>3. CASE RemovesEntry(w)
      BY <1>1, <1>4, <3>3 DEF RemovesEntry, RemoveUninstallEntry, NoEntry, SetupRecord
    <3>4. CASE RemovesToken(w)
      <4>1. registry'.entry = registry.entry /\ setup[w].at = "untoken" /\ setup'[w].at = "untoken"
        BY <1>1, <1>4, <3>4 DEF RemovesToken, TokenIs, SetupRecord
      <4> QED
        BY <2>1, <4>1 DEF SetupInv, EntryIsGone
    <3>5. CASE RemovalThrows(w)
      BY <1>1, <3>5 DEF RemovalThrows, Throws, Note, SetupRecord
    <3> QED
      BY <1>11, <3>1, <3>2, <3>3, <3>4, <3>5
  <2> QED
    BY <1>2, <2>2, <2>3, RemovingKeepsSetups
<1> QED
  BY <1>5, <1>6, <1>7, <1>8, <1>9, <1>10, <1>11 DEF SetupSteps, SetupClicks

LEMMA SetupInvStep ==
    ASSUME TypeInv, SetupInv, [Next]_vars
    PROVE  SetupInv'
<1>1. past \subseteq past'
  BY PastGrows
<1>2. CASE RemovalStep
  <2>1. removal /\ ~removal' /\ UNCHANGED <<setup, registry>> /\ 0 \in Versions
    BY <1>2, RegistryAssumption DEF RemovalStep, Removes, Versions
  <2>2. \A w : (Working(w)' <=> Working(w)) /\ (Removing(w)' <=> Removing(w)) /\ (Busy(w)' <=> Busy(w))
    BY <2>1 DEF Working, Removing, Busy
  <2>3. /\ Alone' => Alone
        /\ Undisturbed' => Undisturbed
        /\ "registryFailed" \in past => "registryFailed" \in past'
    BY <1>1, ExcusesGrow
  <2>4. Undisturbed' => registry.entry.version = 0 /\ \A w \in DOMAIN Setups : ~Working(w)
    BY <2>1, <2>3 DEF SetupInv, RemovalIsLast
  <2>5. ModesMatch' /\ OneAtWork'
    BY <2>1, <2>2, <2>3 DEF SetupInv, ModesMatch, OneAtWork
  <2>6. EntryIsGone' /\ CopiedIsNew' /\ RemovalIsLast'
    BY <2>1, <2>2, <2>3, <2>4 DEF SetupInv, EntryIsGone, CopiedIsNew, RemovalIsLast
  <2>7. EntryMatchesFiles'
    BY <2>1, <2>4 DEF EntryMatchesFiles, Undisturbed
  <2> QED
    BY <2>5, <2>6, <2>7 DEF SetupInv
<1>3. CASE WizardStep
  BY <1>1, <1>3, WizardKeepsSetups DEF WizardStep
<1>4. CASE UNCHANGED <<setup, target, removal>> /\ registry'.entry = registry.entry
  BY <1>1, <1>4, OthersKeepSetups
<1> QED
  BY <1>2, <1>3, <1>4, EveryStep, ScanFrame, ProcessFrame, WindowFrame, DialogFrame, SaveFrame, EngineFrame
     DEF others, vars, TypeInv, TypeOK

LEMMA SetupInvInit ==
    ASSUME Init
    PROVE  SetupInv
<1>1. PICK plan \in Plans :
          /\ registry = [tokens |-> [v \in Voices |-> IF v \in plan.voices THEN TokenOf(v) ELSE NoToken],
                         entry |-> [version |-> plan.installed, located |-> plan.installed > 0]]
          /\ target = [f \in Files |-> plan.installed]
          /\ setup = [w \in DOMAIN Setups |-> [NoSetup EXCEPT !.at = IF w \in plan.setups THEN "off" ELSE "closed"]]
  BY DEF Init
<1>2. ~removal
  BY DEF Init
<1>3. \A w \in DOMAIN Setups : setup[w].at \in {"off", "closed"} /\ ~Working(w) /\ ~Removing(w)
  BY <1>1 DEF NoSetup, Working, Removing
<1>4. \A f \in Files : target[f] = registry.entry.version
  BY <1>1
<1> QED
  BY <1>2, <1>3, <1>4 DEF SetupInv, ModesMatch, OneAtWork, EntryIsGone,
     CopiedIsNew, RemovalIsLast, EntryMatchesFiles, Busy

LEMMA SetupInvHolds == Spec => []SetupInv
  BY SetupInvInit, SetupInvStep, TypeInvHolds, PTL DEF Spec

\* InstallerWindow.xaml.cs:103-127, for every setup, plan and number of
\* setups: between setups that ran undisturbed, the version that Add/Remove
\* Programs shows is the version of every installed file.
THEOREM EntryMatchesFilesHolds == Spec => []EntryMatchesFiles
<1>1. SetupInv => EntryMatchesFiles
  BY DEF SetupInv
<1> QED
  BY <1>1, SetupInvHolds, PTL

-----------------------------------------------------------------------------
(***************************************************************************)
(* COM.  What is registered is there, and what has its entry is            *)
(* registered, also while files are copied; between the two the            *)
(* uninstaller has unregistered and not yet removed the entry.             *)
(***************************************************************************)
ComKept == ~Excused({"comFailed", "setupBroken", "setupsOverlapped", "registryFailed"})

ComFileIsThere == com => target["dll"] # 0

EntryIsRegistered ==
    registry.entry.version # 0 => com \/ \E w \in DOMAIN Setups : setup[w].at = "unentry"

\* What a setup has done so far.
ComSoFar(w) ==
    /\ setup[w].at \in {"unentry", "untoken", "unfile"} => ~com
    /\ setup[w].at = "copy" => "dll" \in setup[w].files \/ target["dll"] # 0
    /\ setup[w].at = "com" => target["dll"] # 0
    /\ setup[w].at = "entry" => com

NothingIsRemoved == removal => ~com /\ \A w \in DOMAIN Setups : ~Working(w)

ComInv ==
    ComKept => /\ ComFileIsThere /\ EntryIsRegistered /\ NothingIsRemoved
               /\ \A w \in DOMAIN Setups : ComSoFar(w)

LEMMA OthersKeepCom ==
    ASSUME ComInv, past \subseteq past', UNCHANGED <<setup, target, com, removal>>,
           registry'.entry = registry.entry
    PROVE  ComInv'
<1>1. ComKept' => ComKept
  BY DEF ComKept, Excused
<1>2. \A w \in DOMAIN Setups : (Working(w)' <=> Working(w)) /\ (ComSoFar(w)' <=> ComSoFar(w))
  BY DEF Working, ComSoFar
<1>3. ComFileIsThere' <=> ComFileIsThere
  BY DEF ComFileIsThere
<1>4. EntryIsRegistered' <=> EntryIsRegistered
  BY DEF EntryIsRegistered
<1>5. NothingIsRemoved => NothingIsRemoved'
  BY <1>2 DEF NothingIsRemoved
<1> QED
  BY <1>1, <1>2, <1>3, <1>4, <1>5 DEF ComInv

\* A setup that moves on without touching COM, the files or the entry.
LEMMA RestKeepsCom ==
    ASSUME ComInv, past \subseteq past', NEW w \in DOMAIN Setups,
           \A x \in DOMAIN Setups \ {w} : setup'[x] = setup[x],
           UNCHANGED <<target, com>>, registry'.entry = registry.entry,
           removal' => \/ removal
                       \/ /\ setup[w].at \in {"untoken", "unfile"}
                          /\ \A x \in DOMAIN Setups \ {w} : ~Working(x),
           setup[w].at # "unentry",
           setup'[w].at \in {"off", "window", "told", "untold", "uncom", "closed"}
    PROVE  ComInv'
<1>1. SUFFICES ASSUME ComKept
               PROVE  /\ ComFileIsThere' /\ EntryIsRegistered' /\ NothingIsRemoved'
                      /\ \A x \in DOMAIN Setups : ComSoFar(x)'
  BY <1>1 DEF ComInv, ComKept, Excused
<1>2. ComFileIsThere /\ EntryIsRegistered /\ NothingIsRemoved /\ \A x \in DOMAIN Setups : ComSoFar(x)
  BY <1>1 DEF ComInv
<1>3. ~Working(w)' /\ \A x \in DOMAIN Setups \ {w} : Working(x)' <=> Working(x)
  BY DEF Working
<1>4. ComFileIsThere'
  BY <1>2 DEF ComFileIsThere
<1>5. EntryIsRegistered'
  BY <1>2 DEF EntryIsRegistered
<1>6. NothingIsRemoved'
  BY <1>2, <1>3 DEF NothingIsRemoved, ComSoFar
<1>7. \A x \in DOMAIN Setups \ {w} : ComSoFar(x)'
  BY <1>2 DEF ComSoFar
<1>8. ComSoFar(w)'
  BY DEF ComSoFar
<1> QED
  BY <1>4, <1>5, <1>6, <1>7, <1>8

LEMMA WizardKeepsCom ==
    ASSUME TypeInv, SetupInv, ComInv, past \subseteq past', NEW w \in DOMAIN Setups,
           SetupSteps(w) \/ SetupClicks(w) \/ Breaks(w)
    PROVE  ComInv'
<1>1. SUFFICES ASSUME ComKept' PROVE ComInv'
  BY <1>1 DEF ComInv
<1>2. ComKept /\ Alone /\ Alone' /\ {"comFailed", "setupBroken", "registryFailed"} \cap past' = {}
  BY <1>1 DEF ComKept, Alone, Excused
<1>3. ComFileIsThere /\ EntryIsRegistered /\ NothingIsRemoved /\ \A x \in DOMAIN Setups : ComSoFar(x)
  BY <1>2 DEF ComInv
<1>4. setup \in [DOMAIN Setups -> SetupRecord] /\ setup[w] \in SetupRecord /\ target \in [Files -> Versions]
  BY DEF TypeInv, TypeOK, SetupTypeOK, SetupRecord
<1>5. /\ \A x \in DOMAIN Setups \ {w} : setup'[x] = setup[x]
      /\ \A place : Step(w, place) => setup'[w] = [setup[w] EXCEPT !.at = place]
  BY SetupMoves DEF TypeInv, TypeOK
<1>6. \A place : Step(w, place) => setup'[w].at = place
  <2>1. SUFFICES ASSUME NEW place, Step(w, place) PROVE setup'[w].at = place
    OBVIOUS
  <2>2. setup'[w] = [setup[w] EXCEPT !.at = place]
    BY <1>5, <2>1
  <2> QED
    BY <1>4, <2>2 DEF SetupRecord
<1>7. \A x \in DOMAIN Setups \ {w} : (Working(x)' <=> Working(x)) /\ (Busy(w) => ~Busy(x) /\ ~Working(x))
  BY <1>2, <1>5 DEF Working, Busy, SetupInv, OneAtWork
<1>8. registry \in [tokens : {registry.tokens}, entry : {registry.entry}]
  BY DEF TypeInv, TypeOK, RegistryTypeOK
<1>9. 0 \in Nat /\ Setups[w].version # 0 /\ "dll" \in Files /\ "dll" # "app"
  BY SetupsAssumption DEF Files
<1>10. SUFFICES ASSUME ~(ComFileIsThere' /\ EntryIsRegistered' /\ NothingIsRemoved' /\ ComSoFar(w)'
                         /\ \A x \in DOMAIN Setups \ {w} : ComSoFar(x)')
                PROVE  ComInv'
  BY <1>10 DEF ComInv
<1>11. CASE StartsSetup(w) \/ StartsUninstall(w)
  <2>1. /\ setup'[w].at \in {"window", "closed"} /\ setup[w].at = "off"
        /\ UNCHANGED <<target, com, removal, registry>>
    BY <1>4, <1>11 DEF StartsSetup, StartsUninstall, SetupRecord
  <2> QED
    BY <1>5, <2>1, RestKeepsCom
<1>12. CASE Leaves(w) \/ Launches(w) \/ LaunchFails(w) \/ Dismisses(w)
  <2>1. /\ setup'[w].at \in {"window", "closed"} /\ setup[w].at \in {"window", "told", "untold"}
        /\ UNCHANGED <<target, com, removal, registry>>
    BY <1>6, <1>12 DEF Leaves, Launches, Opens, LaunchFails, Dismisses
  <2> QED
    BY <1>5, <2>1, RestKeepsCom
<1>13. CASE CopyFails(w)
  <2>1. /\ setup'[w].at = "window" /\ setup[w].at = "copy"
        /\ UNCHANGED <<target, com, removal, registry>>
    BY <1>4, <1>13 DEF CopyFails, SetupRecord
  <2> QED
    BY <1>5, <2>1, RestKeepsCom
<1>14. CASE SpawnsRemoval(w) \/ SpawnFails(w)
  <2>1. /\ setup'[w].at \in {"window", "untold"} /\ setup[w].at \in {"untoken", "unfile"}
        /\ UNCHANGED <<target, com, registry>>
    BY <1>6, <1>14 DEF SpawnsRemoval, SpawnFails
  <2>2. \A x \in DOMAIN Setups \ {w} : ~Working(x)
    BY <1>7, <2>1 DEF Busy, Removing
  <2> QED
    BY <1>5, <2>1, <2>2, RestKeepsCom
<1>15. ~Breaks(w)
  BY <1>2 DEF Breaks, Note
<1>16. CASE Clicks(w)
  <2>1. /\ setup[w].at = "window" /\ UNCHANGED <<target, com, removal, registry>>
        /\ setup'[w].at \in {"copy", "uncom", "unentry"}
        /\ setup'[w].at = "copy" => setup'[w].files = Files
        /\ setup'[w].at = "unentry" => ~(target["dll"] > 0)
    BY <1>4, <1>16 DEF Clicks, SetupRecord
  <2>2. ~removal
    BY <1>2, <1>16 DEF Clicks, Overlaps, Note, Alone
  <2>3. target["dll"] \in Nat
    BY <1>4, <1>9, RegistryAssumption DEF Versions
  <2>4. ComSoFar(w)'
    BY <1>3, <1>9, <2>1, <2>3 DEF ComSoFar, ComFileIsThere
  <2>5. \A x \in DOMAIN Setups \ {w} : ComSoFar(x)'
    BY <1>3, <1>5, <2>1 DEF ComSoFar
  <2>6. ComFileIsThere' /\ EntryIsRegistered'
    BY <1>3, <1>5, <2>1 DEF ComFileIsThere, EntryIsRegistered
  <2>7. NothingIsRemoved'
    BY <2>1, <2>2 DEF NothingIsRemoved
  <2> QED
    BY <1>10, <2>4, <2>5, <2>6, <2>7
<1>17. CASE Copies(w)
  <2>1. PICK g \in setup[w].files :
            /\ target' = [target EXCEPT ![g] = Setups[w].version]
            /\ setup' = [setup EXCEPT ![w].files = @ \ {g},
                                      ![w].at = IF setup[w].files = {g} THEN "com" ELSE "copy"]
    BY <1>17 DEF Copies
  <2>2. /\ setup'[w].files = setup[w].files \ {g} /\ setup'[w].at \in {"copy", "com"}
        /\ setup'[w].at = "com" => setup[w].files = {g}
        /\ setup[w].at = "copy" /\ UNCHANGED <<com, removal, registry>>
    BY <1>4, <1>17, <2>1 DEF SetupRecord, Copies
  <2>3. /\ g \in Files /\ target'[g] # 0
        /\ target'["dll"] = IF g = "dll" THEN Setups[w].version ELSE target["dll"]
    BY <1>4, <1>9, <2>1 DEF SetupRecord
  <2>4. Working(w) /\ Busy(w)
    BY <2>2 DEF Working, Busy
  <2>5. target["dll"] # 0 => target'["dll"] # 0
    BY <1>9, <2>3
  <2>6. "dll" \in setup[w].files \/ target["dll"] # 0
    BY <1>3, <2>2 DEF ComSoFar
  <2>7. ComSoFar(w)'
    BY <1>9, <2>2, <2>3, <2>5, <2>6 DEF ComSoFar
  <2>8. \A x \in DOMAIN Setups \ {w} : ComSoFar(x)'
    BY <1>3, <1>5, <2>2, <2>5 DEF ComSoFar
  <2>9. ComFileIsThere' /\ EntryIsRegistered'
    BY <1>3, <1>5, <2>2, <2>5 DEF ComFileIsThere, EntryIsRegistered
  <2>10. NothingIsRemoved'
    BY <1>3, <2>2, <2>4 DEF NothingIsRemoved
  <2> QED
    BY <1>10, <2>7, <2>8, <2>9, <2>10
<1>18. CASE RegistersCom(w)
  <2>1. /\ setup[w].at = "com" /\ setup'[w].at = "entry" /\ UNCHANGED <<target, removal, registry>>
        /\ com' = (com \/ target["dll"] > 0)
    BY <1>2, <1>6, <1>18 DEF RegistersCom, Throws, Note
  <2>2. target["dll"] \in Nat /\ target["dll"] # 0
    BY <1>3, <1>4, <1>9, <2>1, RegistryAssumption DEF ComSoFar, Versions
  <2>3. com'
    <3>1. target["dll"] > 0
      BY <2>2
    <3>2. com' = (com \/ target["dll"] > 0)
      BY <2>1
    <3> QED
      BY <3>1, <3>2, Zenon
  <2>4. Working(w) /\ Busy(w)
    BY <2>1 DEF Working, Busy
  <2>5. \A x \in DOMAIN Setups \ {w} : ComSoFar(x)'
    BY <1>5, <1>7, <2>4 DEF ComSoFar, Busy, Working, Removing
  <2>6. ComSoFar(w)' /\ ComFileIsThere' /\ EntryIsRegistered'
    BY <2>1, <2>2, <2>3 DEF ComSoFar, ComFileIsThere, EntryIsRegistered
  <2>7. NothingIsRemoved'
    BY <1>3, <2>1, <2>4 DEF NothingIsRemoved
  <2> QED
    BY <1>10, <2>5, <2>6, <2>7
<1>19. CASE WritesEntry(w)
  <2>1. /\ setup[w].at = "entry" /\ setup'[w].at = "told" /\ UNCHANGED <<target, com, removal>>
    BY <1>6, <1>19 DEF WritesEntry
  <2>2. com
    BY <1>3, <2>1 DEF ComSoFar
  <2>3. \A x \in DOMAIN Setups \ {w} : ComSoFar(x)'
    BY <1>3, <1>5, <2>1 DEF ComSoFar
  <2>4. ComSoFar(w)' /\ ComFileIsThere' /\ EntryIsRegistered'
    BY <1>3, <2>1, <2>2 DEF ComSoFar, ComFileIsThere, EntryIsRegistered
  <2>5. NothingIsRemoved'
    BY <1>3, <2>1, <2>2 DEF NothingIsRemoved
  <2> QED
    BY <1>10, <2>3, <2>4, <2>5
<1>20. CASE UnregistersCom(w)
  <2>1. /\ setup[w].at = "uncom" /\ setup'[w].at = "unentry" /\ UNCHANGED <<target, removal, registry>>
        /\ ~com'
    BY <1>2, <1>6, <1>20 DEF UnregistersCom, Throws, Note
  <2>2. Removing(w) /\ Busy(w) /\ ~Working(w)'
    BY <2>1 DEF Removing, Busy, Working
  <2>3. \A x \in DOMAIN Setups \ {w} : ComSoFar(x)'
    BY <1>3, <1>5, <1>7, <2>1, <2>2 DEF ComSoFar, Working
  <2>4. ComSoFar(w)' /\ ComFileIsThere' /\ EntryIsRegistered'
    BY <2>1 DEF ComSoFar, ComFileIsThere, EntryIsRegistered
  <2>5. NothingIsRemoved'
    BY <1>7, <2>1, <2>2 DEF NothingIsRemoved
  <2> QED
    BY <1>10, <2>3, <2>4, <2>5
<1>21. CASE RemovesEntry(w)
  <2>1. /\ setup[w].at = "unentry" /\ setup'[w].at = "untoken" /\ UNCHANGED <<target, com, removal>>
        /\ registry'.entry.version = 0
    BY <1>4, <1>8, <1>21 DEF RemovesEntry, RemoveUninstallEntry, NoEntry, SetupRecord
  <2>2. ~com /\ ~Working(w)'
    BY <1>3, <2>1 DEF ComSoFar, Working
  <2>3. \A x \in DOMAIN Setups \ {w} : ComSoFar(x)'
    BY <1>3, <1>5, <2>1 DEF ComSoFar
  <2>4. ComSoFar(w)' /\ ComFileIsThere' /\ EntryIsRegistered'
    BY <2>1, <2>2 DEF ComSoFar, ComFileIsThere, EntryIsRegistered
  <2>5. NothingIsRemoved'
    BY <1>3, <1>7, <2>1, <2>2 DEF NothingIsRemoved
  <2> QED
    BY <1>10, <2>3, <2>4, <2>5
<1>22. CASE RemovesToken(w)
  <2>1. /\ setup[w].at = "untoken" /\ setup'[w].at = "untoken" /\ UNCHANGED <<target, com, removal>>
        /\ registry'.entry = registry.entry
    BY <1>4, <1>8, <1>22 DEF RemovesToken, TokenIs, SetupRecord
  <2>2. \A x \in DOMAIN Setups : ComSoFar(x)' /\ (Working(x)' <=> Working(x))
    BY <1>3, <1>5, <2>1 DEF ComSoFar, Working
  <2>3. ComFileIsThere' /\ EntryIsRegistered'
    BY <1>3, <1>5, <2>1 DEF ComFileIsThere, EntryIsRegistered
  <2>4. NothingIsRemoved'
    BY <1>3, <2>1, <2>2 DEF NothingIsRemoved
  <2> QED
    BY <1>10, <2>2, <2>3, <2>4
<1>23. ~RemovalThrows(w)
  BY <1>2 DEF RemovalThrows, Throws, Note
<1> QED
  BY <1>11, <1>12, <1>13, <1>14, <1>15, <1>16, <1>17, <1>18, <1>19, <1>20, <1>21, <1>22, <1>23
     DEF SetupSteps, SetupClicks

LEMMA ComInvStep ==
    ASSUME TypeInv, SetupInv, ComInv, [Next]_vars
    PROVE  ComInv'
<1>1. past \subseteq past'
  BY PastGrows
<1>2. CASE RemovalStep
  <2>1. removal /\ ~removal' /\ UNCHANGED <<setup, registry, com>>
    BY <1>2 DEF RemovalStep, Removes
  <2>2. SUFFICES ASSUME ComKept
                 PROVE  /\ ComFileIsThere' /\ EntryIsRegistered' /\ NothingIsRemoved'
                        /\ \A w \in DOMAIN Setups : ComSoFar(w)'
    BY <1>1, <2>2 DEF ComInv, ComKept, Excused
  <2>3. ~com /\ EntryIsRegistered /\ \A w \in DOMAIN Setups : ~Working(w) /\ ComSoFar(w)
    BY <2>1, <2>2 DEF ComInv, NothingIsRemoved
  <2> QED
    BY <2>1, <2>3 DEF ComFileIsThere, EntryIsRegistered, NothingIsRemoved, ComSoFar, Working
<1>3. CASE WizardStep
  BY <1>1, <1>3, WizardKeepsCom DEF WizardStep
<1>4. CASE UNCHANGED <<setup, target, com, removal>> /\ registry'.entry = registry.entry
  BY <1>1, <1>4, OthersKeepCom
<1> QED
  BY <1>2, <1>3, <1>4, EveryStep, ScanFrame, ProcessFrame, WindowFrame, DialogFrame, SaveFrame, EngineFrame
     DEF others, vars, TypeInv, TypeOK

\* InstallerWindow.xaml.cs:117-127 and :157-173, for every setup, plan and
\* number of setups: between setups an installed adapter is registered with
\* COM and what COM is told to load is there, unless a setup broke off or
\* overlapped with another, or a registration failed.
THEOREM ComMatchesFilesHolds == Spec => []ComMatchesFiles
<1>1. Init => ComInv
  <2>1. ASSUME Init PROVE ComInv
    <3>1. PICK plan \in Plans :
              /\ registry = [tokens |-> [v \in Voices |-> IF v \in plan.voices THEN TokenOf(v) ELSE NoToken],
                             entry |-> [version |-> plan.installed, located |-> plan.installed > 0]]
              /\ target = [f \in Files |-> plan.installed]
              /\ com = (plan.installed > 0)
              /\ setup = [w \in DOMAIN Setups |-> [NoSetup EXCEPT !.at = IF w \in plan.setups THEN "off" ELSE "closed"]]
      BY <2>1 DEF Init
    <3>2. ~removal
      BY <2>1 DEF Init
    <3>3. \A w \in DOMAIN Setups : setup[w].at \in {"off", "closed"}
      BY <3>1 DEF NoSetup
    <3>4. plan.installed \in Nat /\ "dll" \in Files
      BY PlansAssumption, RegistryAssumption DEF Versions, Files
    <3>5. target["dll"] = plan.installed /\ registry.entry.version = plan.installed
      BY <3>1, <3>4
    <3>6. (com => plan.installed # 0) /\ (plan.installed # 0 => com)
      <4>1. (plan.installed > 0) <=> (plan.installed # 0)
        BY <3>4
      <4>2. com = (plan.installed > 0)
        BY <3>1
      <4> QED
        BY <4>1, <4>2, Zenon
    <3> QED
      BY <3>2, <3>3, <3>5, <3>6 DEF ComInv, ComFileIsThere, EntryIsRegistered, NothingIsRemoved, ComSoFar
  <2> QED
    BY <2>1
<1>2. ComInv => ComMatchesFiles
  BY DEF ComInv, ComKept, ComFileIsThere, EntryIsRegistered, ComMatchesFiles, Removing
<1> QED
  BY <1>1, <1>2, ComInvStep, SetupInvHolds, TypeInvHolds, PTL DEF Spec
-----------------------------------------------------------------------------
(***************************************************************************)
(* Voices.  While no uninstaller is at work, what a save has done to a     *)
(* voice stays; while no save is, what an uninstaller has removed is gone. *)
(***************************************************************************)
StoredSoFar ==
    ui \in {"saving", "saved"} /\ save.fails = 0 /\ "uninstalled" \notin past =>
        \A v \in save.done : /\ registry.tokens[v].has <=> v \in save.on
                             /\ registry.tokens[v].has => registry.tokens[v].whole

RemovalIsNoted == \A w \in DOMAIN Setups : Removing(w) => "uninstalled" \in past

NoSaveMeanwhile == "savedLate" \notin past => \A w \in DOMAIN Setups : Removing(w) => ui # "saving"

Unhindered == ~Excused({"registryFailed", "savedLate"})

\* What an uninstaller has not removed is still on its list, and nothing is at its end.
ForgottenSoFar ==
    Unhindered => \A w \in DOMAIN Setups, v \in Voices : registry.tokens[v].has =>
        /\ setup[w].at = "untoken" => v \in setup[w].tokens
        /\ setup[w].at # "untold"

VoiceInv == StoredSoFar /\ RemovalIsNoted /\ NoSaveMeanwhile /\ ForgottenSoFar

\* A step that leaves the tokens alone, and begins no save.
LEMMA OthersKeepVoices ==
    ASSUME VoiceInv, past \subseteq past', UNCHANGED <<setup, save>>, registry'.tokens = registry.tokens,
           ui' \in {"saving", "saved"} => ui \in {"saving", "saved"},
           ui' = "saving" => ui = "saving"
    PROVE  VoiceInv'
<1>1. Unhindered' => Unhindered
  BY DEF Unhindered, Excused
<1>2. \A w : Removing(w)' <=> Removing(w)
  BY DEF Removing
<1> QED
  BY <1>1, <1>2 DEF VoiceInv, StoredSoFar, RemovalIsNoted, NoSaveMeanwhile, ForgottenSoFar

\* The voice that a save is at: its token is as the window shows it, or the
\* failure is counted.
LEMMA SavingKeepsVoices ==
    ASSUME TypeInv, VoiceInv, past \subseteq past', SavesVoice
    PROVE  VoiceInv'
<1>1. /\ NextVoice \in save.todo /\ NextVoice \in Voices /\ save.fails \in Nat /\ save.exe \in Exes \cup {NoExe}
      /\ left \in [Chances -> Nat]
  BY NextVoiceIsThere DEF SavesVoice, TypeInv, TypeOK, RegistryTypeOK
<1>2. ui = "saving" /\ ui' = "saving" /\ setup' = setup
  BY DEF SavesVoice
<1>3. /\ Unhindered' => Unhindered
      /\ \A w : Removing(w)' <=> Removing(w)
  BY <1>2 DEF Unhindered, Excused, Removing
<1>4. PICK fails \in {0, 1} : Saved(fails) /\ fails = IF left' = left THEN 0 ELSE 1
  BY DEF SavesVoice
<1>5. /\ save'.done = save.done \cup {NextVoice} /\ save'.on = save.on
      /\ save'.fails = save.fails + fails
  BY <1>4 DEF Saved, TypeInv, TypeOK
<1>6. \A label : Throws(label) => fails = 1
  <2>1. "fault" \in Chances
    BY DEF Chances
  <2> QED
    BY <1>1, <1>4, <2>1, SpendIsTyped DEF Throws
<1>7. registry = [tokens |-> registry.tokens, entry |-> registry.entry]
      /\ registry.tokens \in [Voices -> [has : BOOLEAN, exe : Exes \cup {NoExe}, whole : BOOLEAN]]
  BY DEF TypeInv, TypeOK, RegistryTypeOK
<1>8. \A v \in Voices \ {NextVoice} : registry'.tokens[v] = registry.tokens[v]
  BY <1>1, <1>7 DEF SavesVoice, RegisterVoiceToken, UnregisterVoiceToken, TokenIs
<1>9. fails = 0 => /\ registry'.tokens[NextVoice].has <=> NextVoice \in save.on
                   /\ registry'.tokens[NextVoice].has => registry'.tokens[NextVoice].whole
  <2>1. ASSUME fails = 0, NextVoice \in save.on
        PROVE  TokenIs(NextVoice, [has |-> TRUE, exe |-> save.exe, whole |-> TRUE])
    BY <1>6, <2>1 DEF SavesVoice, RegisterVoiceToken
  <2>2. ASSUME fails = 0, NextVoice \notin save.on
        PROVE  TokenIs(NextVoice, NoToken)
    BY <1>6, <2>2 DEF SavesVoice, UnregisterVoiceToken
  <2> QED
    BY <1>1, <1>7, <2>1, <2>2 DEF TokenIs, NoToken
<1>10. StoredSoFar'
  <2>1. save'.fails = 0 => save.fails = 0 /\ fails = 0
    BY <1>1, <1>5
  <2>2. \A v \in save.done : v \in Voices
    BY DEF TypeInv, TypeOK
  <2> QED
    BY <1>2, <1>5, <1>8, <1>9, <2>1, <2>2 DEF VoiceInv, StoredSoFar
<1>11. RemovalIsNoted' /\ NoSaveMeanwhile'
  BY <1>2, <1>3 DEF VoiceInv, RemovalIsNoted, NoSaveMeanwhile
<1>12. ForgottenSoFar'
  <2>1. Unhindered' => \A w \in DOMAIN Setups : ~Removing(w)
    BY <1>2, <1>3 DEF VoiceInv, NoSaveMeanwhile, Unhindered, Excused
  <2> QED
    BY <1>2, <2>1 DEF ForgottenSoFar, Removing
<1> QED
  BY <1>10, <1>11, <1>12 DEF VoiceInv

LEMMA SavesKeepVoices ==
    ASSUME TypeInv, VoiceInv, past \subseteq past', Saves
    PROVE  VoiceInv'
<1>1. save'.done = {} /\ UNCHANGED <<registry, setup>>
  BY DEF Saves, NoSave
<1>2. /\ Unhindered' => Unhindered
      /\ \A w : Removing(w)' <=> Removing(w)
  BY <1>1 DEF Unhindered, Excused, Removing
<1>3. Uninstalling => "savedLate" \in past'
  BY DEF Saves, Note
<1> QED
  BY <1>1, <1>2, <1>3 DEF VoiceInv, StoredSoFar, RemovalIsNoted, NoSaveMeanwhile, ForgottenSoFar, Uninstalling

\* One step of a setup.
LEMMA WizardKeepsVoices ==
    ASSUME TypeInv, SetupInv, VoiceInv, past \subseteq past', NEW w \in DOMAIN Setups,
           SetupSteps(w) \/ SetupClicks(w) \/ Breaks(w), save' = save
    PROVE  VoiceInv'
<1>1. setup \in [DOMAIN Setups -> SetupRecord] /\ setup[w] \in SetupRecord
  BY DEF TypeInv, TypeOK, SetupTypeOK, SetupRecord
<1>2. /\ \A x \in DOMAIN Setups \ {w} : setup'[x] = setup[x]
      /\ \A place : Step(w, place) => setup'[w].at = place
  <2>1. \A place : Step(w, place) => setup'[w].at = place
    BY <1>1 DEF Step, SetupRecord
  <2> QED
    BY <2>1, SetupMoves DEF TypeInv, TypeOK
<1>3. /\ Unhindered' => Unhindered
      /\ \A x \in DOMAIN Setups \ {w} : Removing(x)' <=> Removing(x)
  BY <1>2 DEF Unhindered, Excused, Removing
<1>4. ui' = ui \/ ui' = "free"
  BY WizardFrame DEF Opens
<1>5. registry = [tokens |-> registry.tokens, entry |-> registry.entry]
      /\ registry.tokens \in [Voices -> [has : BOOLEAN, exe : Exes \cup {NoExe}, whole : BOOLEAN]]
  BY DEF TypeInv, TypeOK, RegistryTypeOK
<1>6. \/ registry'.tokens = registry.tokens
      \/ RemovesToken(w) /\ \E u \in setup[w].tokens : TokenIs(u, NoToken)
  <2>1. CASE WritesEntry(w) \/ RemovesEntry(w)
    BY <1>5, <2>1 DEF WritesEntry, RegisterUninstallInfo, RemovesEntry, RemoveUninstallEntry
  <2>2. CASE RemovesToken(w)
    BY <2>2 DEF RemovesToken
  <2> QED
    BY <2>1, <2>2 DEF SetupSteps, SetupClicks, Breaks, Copies, CopyFails, RegistersCom, Launches, LaunchFails,
       UnregistersCom, RemovalThrows, SpawnsRemoval, SpawnFails, StartsSetup, StartsUninstall,
       Clicks, Leaves, Dismisses, Opens
<1>7. \A v \in Voices : registry'.tokens[v].has => registry'.tokens[v] = registry.tokens[v]
  <2>1. ASSUME NEW u \in Voices, TokenIs(u, NoToken), NEW v \in Voices, registry'.tokens[v].has
        PROVE  registry'.tokens[v] = registry.tokens[v]
    BY <1>5, <2>1 DEF TokenIs, NoToken
  <2> QED
    BY <1>1, <1>6, <2>1 DEF SetupRecord
<1>8. Removing(w)' => Removing(w) \/ Clicks(w)
  <2>1. CASE \/ RegistersCom(w) \/ WritesEntry(w) \/ Launches(w) \/ LaunchFails(w) \/ UnregistersCom(w)
             \/ SpawnsRemoval(w) \/ SpawnFails(w) \/ Leaves(w) \/ Dismisses(w) \/ Breaks(w)
    BY <1>2, <2>1 DEF RegistersCom, WritesEntry, Launches, LaunchFails, UnregistersCom, SpawnsRemoval,
       SpawnFails, Leaves, Dismisses, Breaks, Removing
  <2>2. CASE StartsSetup(w) \/ StartsUninstall(w) \/ Copies(w) \/ CopyFails(w)
    BY <2>2, SetupPlaces DEF Removing, TypeInv, TypeOK
  <2>3. CASE RemovesEntry(w) \/ RemovesToken(w) \/ RemovalThrows(w)
    BY <2>3 DEF RemovesEntry, RemovesToken, RemovalThrows, Removing
  <2> QED
    BY <2>1, <2>2, <2>3 DEF SetupSteps, SetupClicks
<1>9. Removing(w)' => "uninstalled" \in past' /\ ("savedLate" \notin past' => ui' # "saving")
  <2>1. CASE Clicks(w)
    <3>1. setup[w].mode # "Uninstall" => ~Removing(w)'
      BY <1>1, <2>1 DEF Clicks, Removing, SetupRecord
    <3>2. setup[w].mode = "Uninstall" => "uninstalled" \in past' /\ (ui = "saving" => "savedLate" \in past')
      BY <2>1 DEF Clicks, Note
    <3>3. ui' = ui
      BY <2>1 DEF Clicks, managerVars
    <3> QED
      BY <3>1, <3>2, <3>3
  <2>2. CASE Removing(w)
    BY <1>4, <2>2 DEF VoiceInv, RemovalIsNoted, NoSaveMeanwhile
  <2> QED
    BY <1>8, <2>1, <2>2
<1>10. RemovalIsNoted' /\ NoSaveMeanwhile'
  BY <1>3, <1>4, <1>9 DEF VoiceInv, RemovalIsNoted, NoSaveMeanwhile
<1>11. StoredSoFar'
  <2>1. RemovesToken(w) => "uninstalled" \in past
    BY DEF RemovesToken, VoiceInv, RemovalIsNoted, Removing
  <2> QED
    BY <1>4, <1>6, <2>1 DEF VoiceInv, StoredSoFar
<1>12. ForgottenSoFar'
  <2>1. ASSUME Unhindered', NEW v \in Voices, registry'.tokens[v].has
        PROVE  /\ setup'[w].at = "untoken" => v \in setup'[w].tokens
               /\ setup'[w].at # "untold"
    <3>1. /\ setup[w].at = "untoken" => v \in setup[w].tokens
          /\ setup[w].at \notin {"untold", "unfile"} /\ registry.tokens[v].has
      BY <1>3, <1>7, <2>1 DEF VoiceInv, ForgottenSoFar, Unhindered, Excused, SetupInv, EntryIsGone
    <3>2. CASE RemovesEntry(w)
      BY <1>1, <3>1, <3>2 DEF RemovesEntry, IsVoiceTokenRegistered, SetupRecord
    <3>3. CASE RemovesToken(w)
      <4>1. PICK u \in setup[w].tokens : setup' = [setup EXCEPT ![w].tokens = @ \ {u}] /\ TokenIs(u, NoToken)
        BY <3>3 DEF RemovesToken
      <4>2. u # v
        <5>1. u \in Voices
          BY <1>1, <4>1 DEF SetupRecord
        <5> QED
          BY <1>5, <2>1, <4>1, <5>1 DEF TokenIs, NoToken
      <4> QED
        BY <1>1, <3>1, <3>3, <4>1, <4>2 DEF RemovesToken, SetupRecord
    <3>4. CASE SpawnsRemoval(w)
      BY <3>1, <3>4 DEF SpawnsRemoval
    <3>5. CASE \/ RegistersCom(w) \/ WritesEntry(w) \/ Launches(w) \/ LaunchFails(w) \/ UnregistersCom(w)
               \/ SpawnFails(w) \/ Leaves(w) \/ Dismisses(w) \/ Breaks(w)
      BY <1>2, <3>5 DEF RegistersCom, WritesEntry, Launches, LaunchFails, UnregistersCom,
         SpawnFails, Leaves, Dismisses, Breaks
    <3>6. CASE StartsSetup(w) \/ StartsUninstall(w) \/ Copies(w) \/ CopyFails(w) \/ Clicks(w) \/ RemovalThrows(w)
      BY <3>6, SetupPlaces DEF TypeInv, TypeOK
    <3> QED
      BY <3>2, <3>3, <3>4, <3>5, <3>6 DEF SetupSteps, SetupClicks
  <2>2. ASSUME Unhindered', NEW v \in Voices, registry'.tokens[v].has, NEW x \in DOMAIN Setups \ {w}
        PROVE  /\ setup'[x].at = "untoken" => v \in setup'[x].tokens
               /\ setup'[x].at # "untold"
    BY <1>2, <1>3, <1>7, <2>2 DEF VoiceInv, ForgottenSoFar
  <2> QED
    BY <2>1, <2>2 DEF ForgottenSoFar
<1> QED
  BY <1>10, <1>11, <1>12 DEF VoiceInv

LEMMA VoiceInvStep ==
    ASSUME TypeInv, SetupInv, VoiceInv, [Next]_vars
    PROVE  VoiceInv'
<1>1. past \subseteq past'
  BY PastGrows
<1>2. CASE UNCHANGED <<setup, save, registry, ui>>
  BY <1>1, <1>2, OthersKeepVoices
<1>3. CASE WindowStep
  <2>1. ui' = ui \/ ui' \in {"free", "closed"}
    BY <1>3 DEF WindowStep, ManagerOpens, Opens, Refreshes, Closes, Configures
  <2> QED
    BY <1>1, <1>3, <2>1, WindowFrame, OthersKeepVoices DEF others
<1>4. CASE DialogStep
  <2>1. ui' = ui \/ ui' \in {"free", "dialog", "killing", "extracting"}
    BY <1>4 DEF DialogStep, InstallerSteps, DialogClicks, Terminated, Extracts, ExtractFails,
       Extracted, AddsProvider, Browses, Terminates, TerminateFails, Installs, Cancels
  <2> QED
    BY <1>1, <1>4, <2>1, DialogFrame, OthersKeepVoices
<1>5. CASE SaveStep
  <2>1. CASE SavesVoice
    BY <1>1, <2>1, SavingKeepsVoices
  <2>2. CASE Saves
    BY <1>1, <2>2, SavesKeepVoices
  <2>3. CASE Toggles
    BY <1>2, <2>3 DEF Toggles, others
  <2>4. CASE SaveEnds
    BY <1>1, <2>4, OthersKeepVoices DEF SaveEnds, others
  <2>5. CASE SaveDismissed
    <3>1. ui' = "free" /\ UNCHANGED <<setup, registry>>
      BY <2>5 DEF SaveDismissed
    <3>2. /\ Unhindered' => Unhindered
          /\ \A w : Removing(w)' <=> Removing(w)
      BY <1>1, <3>1 DEF Unhindered, Excused, Removing
    <3> QED
      BY <1>1, <3>1, <3>2 DEF VoiceInv, StoredSoFar, RemovalIsNoted, NoSaveMeanwhile, ForgottenSoFar
  <2> QED
    BY <1>5, <2>1, <2>2, <2>3, <2>4, <2>5 DEF SaveStep
<1>6. CASE WizardStep
  BY <1>1, <1>6, WizardKeepsVoices DEF WizardStep
<1> QED
  BY <1>2, <1>3, <1>4, <1>5, <1>6, EveryStep, ScanFrame, ProcessFrame, EngineFrame
     DEF RemovalStep, Removes, vars, others

\* MainWindow.xaml.cs:242 and InstallerWindow.xaml.cs:151, for every list of
\* voices and plan of faults: a save that reports no failure has stored every
\* voice as the window shows it, unless an uninstaller is at work, and an
\* uninstaller that reports success has left no voice, unless the registry
\* failed or the window saved meanwhile.
THEOREM VoicesAsReportedHolds == Spec => []VoicesAsReported
<1>1. Init => VoiceInv
  <2>1. ASSUME Init
        PROVE  ui = "closed" /\ \A w \in DOMAIN Setups : setup[w].at \in {"off", "closed"}
    BY <2>1 DEF Init, NoSetup
  <2> QED
    BY <2>1 DEF VoiceInv, StoredSoFar, RemovalIsNoted, NoSaveMeanwhile, ForgottenSoFar, Removing
<1>2. VoiceInv => VoicesAsReported
  <2>1. VoiceInv => SavedMeansStored
    BY DEF VoiceInv, StoredSoFar, SavedMeansStored, Excused
  <2>2. VoiceInv => UninstalledForgetsVoices
    BY DEF VoiceInv, ForgottenSoFar, Unhindered, UninstalledForgetsVoices
  <2> QED
    BY <2>1, <2>2 DEF VoicesAsReported
<1> QED
  BY <1>1, <1>2, VoiceInvStep, TypeInvHolds, SetupInvHolds, PTL DEF Spec
-----------------------------------------------------------------------------
(***************************************************************************)
(* Packages.  The files of a package change one by one, and only while the *)
(* dialog extracts it or the removal of the whole directory runs; what     *)
(* uses the executable then is a process that began after the inspection.  *)
(***************************************************************************)

\* The manager runs from where it is installed: it cannot be deleted under way.
AppWhileOpen == ui # "closed" => target["app"] # 0

Whole(S) == \A e, f \in S : ProviderOf[e] = ProviderOf[f] => disk[e] = disk[f]

Unspoilt == ~Excused({"extractFailed", "incomplete", "leftovers"})

Extraction ==
    ui = "extracting" =>
        /\ dialog.zip.valid /\ dialog.pid = NoPid /\ dialog.todo \subseteq dialog.zip.files
        /\ Unspoilt => /\ Complete(dialog.zip)
                       /\ \A f \in dialog.zip.files \ dialog.todo : disk[f] = dialog.zip.version
                       /\ Whole(Exes \ dialog.zip.files)

WholeBetween == ui = "extracting" \/ (Unspoilt => Whole(Exes))

\* Whoever runs the executable of the inspected package began after the inspection.
LocksAreNew ==
    ui \in {"dialog", "extracting"} /\ dialog.zip.valid /\ dialog.pid = NoPid => KnownLocks = {}

PackageInv ==
    /\ AppWhileOpen /\ Extraction /\ WholeBetween /\ LocksAreNew
    /\ ui = "killing" => dialog.pid # NoPid
    /\ "lockKnown" \notin past

LEMMA AppStays ==
    ASSUME TypeInv, AppWhileOpen, [Next]_vars
    PROVE  AppWhileOpen'
<1>1. 0 \in Nat /\ target \in [Files -> Versions] /\ "app" \in Files /\ "app" # "dll"
  BY DEF TypeInv, TypeOK, SetupTypeOK, Files
<1>2. CASE UNCHANGED <<ui, target>> \/ (UNCHANGED target /\ ui' = "closed") \/ (UNCHANGED target /\ ui # "closed")
  BY <1>2 DEF AppWhileOpen
<1>3. ASSUME Opens, target["app"] > 0, UNCHANGED target PROVE AppWhileOpen'
  <2>1. target["app"] # 0
    BY <1>1, <1>3
  <2> QED
    BY <1>3, <2>1 DEF AppWhileOpen
<1>4. CASE WindowStep
  BY <1>2, <1>3, <1>4 DEF WindowStep, ManagerOpens, Refreshes, Closes, Configures, others
<1>5. CASE DialogStep
  <2>1. ui # "closed"
    BY <1>5 DEF DialogStep, InstallerSteps, DialogClicks, Terminated, Extracts, ExtractFails,
       Extracted, AddsProvider, Browses, Terminates, TerminateFails, Installs, Cancels
  <2> QED
    BY <1>2, <1>5, <2>1, DialogFrame
<1>6. CASE SaveStep
  <2>1. ui # "closed"
    BY <1>6 DEF SaveStep, Toggles, Saves, SavesVoice, SaveEnds, SaveDismissed
  <2> QED
    BY <1>2, <1>6, <2>1, SaveFrame DEF TypeInv, TypeOK
<1>7. ASSUME NEW w \in DOMAIN Setups, SetupSteps(w) \/ SetupClicks(w) \/ Breaks(w)
      PROVE  AppWhileOpen'
  <2>1. CASE Copies(w)
    <3>1. ui' = ui
      BY <2>1 DEF Copies, managerVars
    <3>2. ui # "closed" => target'["app"] = target["app"]
      BY <1>1, <2>1 DEF Copies, Used
    <3> QED
      BY <3>1, <3>2 DEF AppWhileOpen
  <2>2. CASE Launches(w)
    BY <1>2, <1>3, <2>2 DEF Launches, managerVars
  <2>3. CASE ~Copies(w) /\ ~Launches(w)
    BY <1>2, <1>7, <2>3, WizardFrame DEF SetupSteps, SetupClicks, Breaks, CopyFails, RegistersCom, WritesEntry,
       LaunchFails, UnregistersCom, RemovesEntry, RemovesToken, RemovalThrows, SpawnsRemoval,
       SpawnFails, StartsSetup, StartsUninstall, Clicks, Leaves, Dismisses
  <2> QED
    BY <2>1, <2>2, <2>3
<1>8. CASE RemovalStep
  <2>1. ui' = ui /\ (ui # "closed" => target'["app"] = target["app"])
    BY <1>1, <1>8 DEF RemovalStep, Removes, Used
  <2> QED
    BY <2>1 DEF AppWhileOpen
<1> QED
  BY <1>2, <1>4, <1>5, <1>6, <1>7, <1>8, EveryStep, ScanFrame, ProcessFrame, EngineFrame
     DEF WizardStep, vars, others

\* How the files and the dialog change.
LEMMA PackageMoves ==
    ASSUME TypeInv, [Next]_vars, ~Extracts, ~ExtractFails, ~Extracted, ~Installs, ~RemovalStep
    PROVE  /\ disk' = disk
           /\ ui' = "extracting" <=> ui = "extracting"
           /\ ui = "extracting" => dialog' = dialog
<1>1. CASE DialogStep
  BY <1>1 DEF DialogStep, InstallerSteps, DialogClicks, Terminated, AddsProvider, Browses, Terminates, TerminateFails, Cancels
<1>2. CASE WindowStep
  BY <1>2, WindowFrame DEF WindowStep, ManagerOpens, Opens, Refreshes, Closes, Configures, others
<1>3. CASE SaveStep
  BY <1>3, SaveFrame DEF SaveStep, Toggles, Saves, SavesVoice, SaveEnds, SaveDismissed, TypeInv, TypeOK
<1>4. CASE WizardStep
  <2>1. UNCHANGED <<disk, dialog>> /\ (ui' = ui \/ (ui = "closed" /\ ui' = "free"))
    BY <1>4, WizardFrame DEF WizardStep, Opens
  <2> QED
    BY <2>1
<1> QED
  BY <1>1, <1>2, <1>3, <1>4, EveryStep, ScanFrame, ProcessFrame, EngineFrame DEF vars, others

LEMMA FilesStayWhole ==
    ASSUME TypeInv, PackageInv, [Next]_vars
    PROVE  Extraction' /\ WholeBetween'
<1>1. Unspoilt' => Unspoilt
  BY PastGrows DEF Unspoilt, Excused
<1>2. disk \in [Exes -> Versions] /\ dialog.zip \in Zips \cup {NoZip} /\ dialog.todo \subseteq Exes
      /\ dialog \in [zip : {dialog.zip}, pid : {dialog.pid}, todo : SUBSET Exes]
  BY DEF TypeInv, TypeOK, DiscoveryTypeOK, DialogTypeOK
<1>3. dialog.zip.files \subseteq Exes
  BY <1>2, PackagesAssumption DEF NoZip
<1>4. CASE Installs
  <2>1. /\ ui = "dialog" /\ ui' = "extracting" /\ dialog.zip.valid /\ dialog.pid = NoPid
        /\ dialog' = [dialog EXCEPT !.todo = dialog.zip.files] /\ disk' = disk
    BY <1>4 DEF Installs
  <2>2. dialog'.zip = dialog.zip /\ dialog'.pid = dialog.pid /\ dialog'.todo = dialog.zip.files
    BY <1>2, <2>1
  <2>3. Unspoilt' => Whole(Exes)
    BY <1>1, <2>1 DEF PackageInv, WholeBetween
  <2>4. Unspoilt' => Complete(dialog.zip)
    BY <1>4 DEF Installs, Note, Unspoilt, Excused
  <2> QED
    BY <2>1, <2>2, <2>3, <2>4 DEF Extraction, WholeBetween, Whole
<1>5. CASE Extracts
  <2>1. NextFile \in dialog.todo
    BY <1>5, NextFileIsThere DEF Extracts, TypeInv, TypeOK
  <2>2. PICK g \in dialog.todo : g = NextFile
    BY <2>1
  <2>3. /\ ui = "extracting" /\ ui' = "extracting"
        /\ disk' = [disk EXCEPT ![g] = dialog.zip.version]
        /\ dialog'.zip = dialog.zip /\ dialog'.pid = dialog.pid /\ dialog'.todo = dialog.todo \ {g}
    BY <1>2, <1>5, <2>2 DEF Extracts
  <2> QED
    BY <1>1, <1>2, <1>3, <2>2, <2>3 DEF PackageInv, Extraction, WholeBetween, Whole, Complete
<1>6. CASE ExtractFails
  <2>1. ui' = "dialog" /\ "extractFailed" \in past'
    BY <1>6 DEF ExtractFails, Throws, Note
  <2> QED
    BY <2>1 DEF Extraction, WholeBetween, Unspoilt, Excused
<1>7. CASE Extracted
  <2>1. ui = "extracting" /\ ui' = "free" /\ dialog.todo = {} /\ disk' = disk
    BY <1>7 DEF Extracted
  <2>2. Unspoilt' => Whole(Exes)
    BY <1>1, <1>3, <2>1 DEF PackageInv, Extraction, Whole, Complete
  <2> QED
    BY <2>1, <2>2 DEF Extraction, WholeBetween, Whole
<1>8. CASE RemovalStep
  <2>1. /\ UNCHANGED <<ui, dialog>>
        /\ target' = [f \in Files |-> IF Used(f) THEN target[f] ELSE 0]
        /\ disk' = [e \in Exes |-> IF Locked(e) THEN disk[e] ELSE 0]
        /\ Note(IF \E f \in Files : target'[f] # 0 \/ \E e \in Exes : disk'[e] # 0
                THEN {"leftovers"} ELSE {})
    BY <1>8 DEF RemovalStep, Removes
  <2>2. Unspoilt' => target'["app"] = 0 /\ \A e \in Exes : disk'[e] = 0
    <3>1. (\E f \in Files : target'[f] # 0 \/ \E e \in Exes : disk'[e] # 0) => "leftovers" \in past'
      BY <2>1 DEF Note
    <3> QED
      BY <3>1 DEF Unspoilt, Excused, Files
  <2>3. ui # "closed" => ~Unspoilt'
    <3>1. ui # "closed" => target'["app"] = target["app"] /\ target["app"] # 0
      BY <2>1 DEF Used, Files, PackageInv, AppWhileOpen
    <3> QED
      BY <2>2, <3>1
  <2> QED
    BY <2>1, <2>2, <2>3 DEF PackageInv, Extraction, WholeBetween, Whole
<1>9. CASE ~(Installs \/ Extracts \/ ExtractFails \/ Extracted \/ RemovalStep)
  BY <1>1, <1>9, PackageMoves DEF PackageInv, Extraction, WholeBetween, Whole
<1> QED
  BY <1>4, <1>5, <1>6, <1>7, <1>8, <1>9

LEMMA ScanNotes ==
    ASSUME NEW s \in Scans
    PROVE  /\ ScanSteps(s) => past' \subseteq past \cup {"probedTwice", "killFailed"}
           /\ ScanBegins(s) => past' \subseteq past \cup {"scansOverlapped"}
           /\ Closes => past' \subseteq past \cup {"closedInProbe"}
<1>1. \A exe : Takes(s, exe) => past' \subseteq past \cup {"probedTwice", "killFailed"}
  BY DEF Takes, Note
<1>2. ScanSteps(s) => past' \subseteq past \cup {"probedTwice", "killFailed"}
  BY <1>1 DEF ScanSteps, ScanGoesOn, ScanIsAnswered, ScanAdvances, StartsProcess, StartFails, Connects,
     GetsInfo, GetsVoices, VoicesLost, ProbeFails, ProbeEnds, Adds, Throws, Note
<1>3. ScanBegins(s) => past' \subseteq past \cup {"scansOverlapped"}
  BY DEF ScanBegins, Note
<1>4. Closes => past' \subseteq past \cup {"closedInProbe"}
  BY DEF Closes, Note
<1> QED
  BY <1>2, <1>3, <1>4

\* Only an extraction that fails notes a lock.
LEMMA LocksAreNoted ==
    ASSUME [Next]_vars, "lockKnown" \in past'
    PROVE  "lockKnown" \in past \/ ExtractFails
<1>1. CASE ScanStep
  BY <1>1, ScanNotes DEF ScanStep
<1>2. CASE WindowStep
  <2>1. CASE Closes
    <3>1. past' \subseteq past \cup {"closedInProbe"}
      BY <2>1 DEF Closes, Note
    <3> QED
      BY <3>1
  <2> QED
    BY <1>2, <2>1, ScanNotes DEF WindowStep, ManagerOpens, Opens, Refreshes, Configures, Note
<1>3. CASE DialogStep
  <2>1. CASE Installs
    <3>1. past' = past \/ past' = past \cup {"incomplete"}
      BY <2>1 DEF Installs, Note
    <3> QED
      BY <3>1
  <2>2. CASE TerminateFails
    <3>1. past' \subseteq past \cup {"killFailed"}
      BY <2>2 DEF TerminateFails, Throws, Note
    <3> QED
      BY <3>1
  <2> QED
    BY <1>3, <2>1, <2>2, ScanNotes DEF DialogStep, InstallerSteps, DialogClicks, Terminated, Extracts,
       Extracted, AddsProvider, Browses, Terminates, Cancels
<1>4. CASE SaveStep
  <2>1. CASE Saves
    <3> DEFINE late == IF Uninstalling THEN {"savedLate"} ELSE {}
    <3>1. past' = past \cup late
      BY <2>1 DEF Saves, Note
    <3>2. "lockKnown" \notin late
      OBVIOUS
    <3> QED
      BY <3>1, <3>2
  <2>2. CASE SavesVoice
    BY <2>2 DEF SavesVoice, RegisterVoiceToken, UnregisterVoiceToken, Works, Throws, Note
  <2>3. CASE Toggles \/ SaveEnds \/ SaveDismissed
    BY <2>3 DEF Toggles, SaveEnds, SaveDismissed
  <2> QED
    BY <1>4, <2>1, <2>2, <2>3 DEF SaveStep
<1>5. CASE EngineStep
  BY <1>5 DEF EngineStep, EngineConnects, EngineLaunches, EngineLeaves, Note
<1>6. CASE WizardStep
  <2>1. PICK w \in DOMAIN Setups : SetupSteps(w) \/ SetupClicks(w) \/ Breaks(w)
    BY <1>6 DEF WizardStep
  <2>2. CASE Clicks(w)
    <3> DEFINE overlap == IF Overlaps(w) THEN {"setupsOverlapped"} ELSE {}
               click == IF setup[w].mode # "Uninstall" THEN {}
                        ELSE IF ui = "saving" THEN {"uninstalled", "savedLate"} ELSE {"uninstalled"}
    <3>1. past' = past \cup (overlap \cup click)
      BY <2>2 DEF Clicks, Note
    <3>2. "lockKnown" \notin overlap
      OBVIOUS
    <3>3. "lockKnown" \notin click
      OBVIOUS
    <3> HIDE DEF overlap, click
    <3> QED
      BY <3>1, <3>2, <3>3
  <2>3. CASE Launches(w)
    <3>1. CASE Opens
      BY <3>1, ScanNotes DEF Opens
    <3>2. CASE past' = past
      BY <3>2
    <3> QED
      BY <2>3, <3>1, <3>2 DEF Launches
  <2>4. CASE ~Clicks(w) /\ ~Launches(w)
    BY <2>1, <2>4 DEF SetupSteps, SetupClicks, Breaks, Copies, CopyFails, RegistersCom,
           WritesEntry, RegisterUninstallInfo, LaunchFails, UnregistersCom,
           RemovesEntry, RemovesToken, RemovalThrows, SpawnsRemoval, SpawnFails, StartsSetup,
           StartsUninstall, Leaves, Dismisses, Works, Throws, Note
  <2> QED
    BY <2>2, <2>3, <2>4
<1>7. CASE RemovalStep
  BY <1>7 DEF RemovalStep, Removes, Note
<1> QED
  BY <1>1, <1>2, <1>3, <1>4, <1>5, <1>6, <1>7, EveryStep, ProcessFrame DEF vars

\* Between inspections every new process is fresh, and a known one does not
\* come to run another executable.
LEMMA KnownLocksShrink ==
    ASSUME TypeInv, [Next]_vars, ~Browses, ~Terminated, dialog'.zip = dialog.zip
    PROVE  KnownLocks' \subseteq KnownLocks
<1>1. procs \in [Pids -> [exe : Exes \cup {NoExe}, by : {"nobody", "probe", "engine", "user"},
                          life : {"none", "alive", "dying"}, fresh : BOOLEAN]]
  BY DEF TypeInv, TypeOK, DiscoveryTypeOK
<1>2. ASSUME NEW p \in Pids, procs'[p].life # "none", ~procs'[p].fresh
      PROVE  procs[p].life # "none" /\ ~procs[p].fresh /\ procs'[p].exe = procs[p].exe
  <2>1. CASE procs' = procs
    BY <1>2, <2>1
  <2>2. ASSUME NEW pid \in Pids, NEW exe, NEW by, Start(pid, exe, by)
        PROVE  procs[p].life # "none" /\ ~procs[p].fresh /\ procs'[p].exe = procs[p].exe
    BY <1>1, <1>2, <2>2 DEF Start
  <2>3. ASSUME NEW pid \in Pids, procs' = [procs EXCEPT ![pid] = NoProcess]
        PROVE  procs[p].life # "none" /\ ~procs[p].fresh /\ procs'[p].exe = procs[p].exe
    BY <1>1, <1>2, <2>3 DEF NoProcess
  <2>4. ASSUME NEW pid \in Pids \cup {NoPid}, procs' = Killed(procs, pid)
        PROVE  procs[p].life # "none" /\ ~procs[p].fresh /\ procs'[p].exe = procs[p].exe
    BY <1>1, <1>2, <2>4 DEF Killed
  <2> QED
    BY <2>1, <2>2, <2>3, <2>4, EveryProcessMove DEF ProcessesMove, TypeInv
<1> QED
  BY <1>2 DEF KnownLocks, Running, Exists

\* An inspection that offers to install has found nobody running the executable.
LEMMA InspectionFindsAll ==
    ASSUME TypeInv, NEW zip, Inspected(zip, procs), dialog'.zip.valid, dialog'.pid = NoPid
    PROVE  KnownLocks' = {}
<1> DEFINE found == {pid \in Pids : procs[pid].life # "none" /\ procs[pid].exe = zip.main}
<1>1. PICK pid \in IF zip.valid /\ found # {} THEN found ELSE {NoPid} :
          /\ dialog' = [zip |-> zip, pid |-> pid, todo |-> {}]
          /\ procs' = [p \in Pids |-> [procs[p] EXCEPT !.fresh = FALSE]]
  BY DEF Inspected
<1>2. dialog'.zip = zip /\ zip.valid /\ pid = NoPid
  BY <1>1
<1>3. found = {}
  BY <1>1, <1>2, NoPidIsNone
<1>4. procs \in [Pids -> [exe : Exes \cup {NoExe}, by : {"nobody", "probe", "engine", "user"},
                          life : {"none", "alive", "dying"}, fresh : BOOLEAN]]
  BY DEF TypeInv, TypeOK, DiscoveryTypeOK
<1>5. \A p \in Pids : procs'[p].life = procs[p].life /\ procs'[p].exe = procs[p].exe
  BY <1>1, <1>4
<1> QED
  BY <1>2, <1>3, <1>5 DEF KnownLocks, Running, Exists

LEMMA LocksStayNew ==
    ASSUME TypeInv, PackageInv, [Next]_vars
    PROVE  /\ LocksAreNew'
           /\ ui' = "killing" => dialog'.pid # NoPid
<1>1. dialog \in [zip : {dialog.zip}, pid : {dialog.pid}, todo : SUBSET Exes]
  BY DEF TypeInv, TypeOK, DialogTypeOK
<1>2. CASE Browses
  BY <1>2, InspectionFindsAll DEF Browses, LocksAreNew
<1>3. CASE Terminated
  <2>1. CASE Exists(dialog.pid)
    BY <1>3, <2>1 DEF Terminated, PackageInv, LocksAreNew
  <2>2. CASE ~Exists(dialog.pid)
    BY <1>3, <2>2, InspectionFindsAll DEF Terminated, LocksAreNew
  <2> QED
    BY <2>1, <2>2
<1>4. CASE dialog'.zip = dialog.zip /\ dialog'.pid = dialog.pid /\ ~Browses /\ ~Terminated
           /\ (ui' \in {"dialog", "extracting"} => ui \in {"dialog", "extracting"})
           /\ (ui' = "killing" => ui = "killing" \/ dialog.pid # NoPid)
  BY <1>4, KnownLocksShrink DEF PackageInv, LocksAreNew
<1>5. CASE ui' \notin {"dialog", "extracting", "killing"}
  BY <1>5 DEF LocksAreNew
<1>6. CASE AddsProvider
  BY <1>6 DEF AddsProvider, NoDialog, NoZip, LocksAreNew
<1>7. CASE Terminates \/ TerminateFails
  <2>1. CASE Terminates
    BY <1>2, <1>3, <1>4, <2>1 DEF Terminates
  <2>2. CASE TerminateFails
    BY <1>2, <1>3, <1>4, <2>2 DEF TerminateFails
  <2> QED
    BY <1>7, <2>1, <2>2
<1>8. CASE Extracts \/ ExtractFails \/ Installs
  <2>1. dialog'.zip = dialog.zip /\ dialog'.pid = dialog.pid
    BY <1>1, <1>8 DEF Extracts, ExtractFails, Installs
  <2> QED
    BY <1>8, <2>1, <1>4, <1>2, <1>3 DEF Extracts, ExtractFails, Installs
<1>9. CASE DialogStep
  BY <1>2, <1>3, <1>5, <1>6, <1>7, <1>8, <1>9 DEF DialogStep, InstallerSteps, DialogClicks, Extracted, Cancels
<1>10. CASE ~DialogStep
  <2>1. dialog' = dialog
    BY <1>10, EveryStep, ScanFrame, ProcessFrame, WindowFrame, SaveFrame, EngineFrame, WizardFrame
       DEF WizardStep, RemovalStep, Removes, vars, others, TypeInv, TypeOK
  <2>2. ui' = ui \/ ui' \notin {"dialog", "extracting", "killing"}
    <3>1. CASE WindowStep
      BY <3>1 DEF WindowStep, ManagerOpens, Opens, Refreshes, Closes, Configures
    <3>2. CASE SaveStep
      BY <3>2 DEF SaveStep, Toggles, Saves, SavesVoice, SaveEnds, SaveDismissed
    <3>3. CASE WizardStep
      BY <3>3, WizardFrame DEF WizardStep, Opens
    <3> QED
      BY <1>10, <3>1, <3>2, <3>3, EveryStep, ScanFrame, ProcessFrame, EngineFrame
         DEF RemovalStep, Removes, vars, others
  <2> QED
    BY <1>2, <1>3, <1>4, <1>5, <2>1, <2>2
<1> QED
  BY <1>9, <1>10

LEMMA PackageInvStep ==
    ASSUME TypeInv, PackageInv, [Next]_vars
    PROVE  PackageInv'
<1>1. "lockKnown" \notin past'
  <2>1. ExtractFails => "lockKnown" \notin past'
    <3>1. ExtractFails => KnownLocks = {}
      BY DEF ExtractFails, PackageInv, Extraction, LocksAreNew
    <3>2. "lockKnown" \notin past
      BY DEF PackageInv
    <3> QED
      BY <3>1, <3>2 DEF ExtractFails, Throws, Note
  <2> QED
    BY <2>1, LocksAreNoted DEF PackageInv
<1>2. AppWhileOpen'
  BY AppStays DEF PackageInv
<1> QED
  BY <1>1, <1>2, FilesStayWhole, LocksStayNew DEF PackageInv

\* ProviderInstaller.cs:161 and AddProviderWindow.xaml.cs:107, for every set of
\* packages, complete or not, and every plan: as long as no extraction failed,
\* no incomplete package was extracted and no removal left files, the
\* executables of a provider are of one version, and what locks the executable of the package is a process that
\* has begun since the dialog looked.
THEOREM PackagesWholeHolds == Spec => []PackagesWhole
<1>1. Init => PackageInv
  <2>1. ASSUME Init
        PROVE  ui = "closed" /\ past = {} /\ \E plan \in Plans : disk = plan.disk
    BY <2>1 DEF Init
  <2>2. ASSUME Init PROVE Whole(Exes)
    BY <2>1, <2>2, PlansAssumption DEF Whole
  <2> QED
    BY <2>1, <2>2 DEF PackageInv, AppWhileOpen, Extraction, WholeBetween, LocksAreNew
<1>2. PackageInv => PackagesWhole
  BY DEF PackageInv, WholeBetween, Whole, Unspoilt, PackagesWhole
<1> QED
  BY <1>1, <1>2, PackageInvStep, TypeInvHolds, PTL DEF Spec
-----------------------------------------------------------------------------
(***************************************************************************)
(* Discovery.  A scan is probing from the manifest of an executable to its *)
(* result.                                                                 *)
(***************************************************************************)
Probing(s) == scans[s].at \in {"manifest", "connect", "info", "voices", "shutdown"}

\* Whom a scan talks to is a process.
PeersAreProcesses == \A s \in Scans : scans[s].at \in {"info", "voices"} => scans[s].peer # NoPid

\* A probe kills the process it has started, unless Kill throws.
ProbeEnded(s) ==
    \/ procs' = Killed(procs, scans[s].pid)
    \/ procs' = procs /\ (scans[s].pid = NoPid \/ "killFailed" \in past')

\* A step of a scan goes on with a probe, begins one, or ends one.
LEMMA ScanEffects ==
    ASSUME TypeInv, NEW s \in Scans, ScanSteps(s)
    PROVE  /\ Active(s)
           /\ \/ /\ Adds(s) /\ ~Probing(s)' /\ scans[s].at = "shutdown" /\ Probing(s)
                 /\ list' = Append(list, Result(s)) /\ ProbeEnded(s)
                 /\ scans'[s].pid = NoPid /\ scans'[s].at = "next"
              \/ /\ ProbeFails(s) \/ StartFails(s)
                 /\ ~Probing(s)' /\ list' = list /\ scans'[s].pid = NoPid /\ scans'[s].at = "next"
                 /\ ProbeEnded(s)
              \/ /\ ScanAdvances(s) /\ UNCHANGED <<list, procs>>
                 /\ ~Probing(s)' /\ scans[s].pid = NoPid /\ scans'[s].pid = NoPid
                 /\ scans'[s].at = "ended"
              \/ /\ ScanAdvances(s) /\ UNCHANGED <<list, procs>>
                 /\ scans[s].pid = NoPid /\ scans'[s].pid = NoPid /\ scans'[s].at = "manifest"
                 /\ \E exe \in Rest(s) : Takes(s, exe) /\ scans'[s].exe = exe
              \/ /\ StartsProcess(s) /\ UNCHANGED list
                 /\ Probing(s) /\ Probing(s)' /\ scans'[s].exe = scans[s].exe
                 /\ scans[s].pid = NoPid /\ scans'[s].at = "connect"
                 /\ scans'[s].pid \in Pids /\ Start(scans'[s].pid, scans[s].exe, "probe")
              \/ /\ UNCHANGED <<list, procs>> /\ Probing(s) /\ Probing(s)'
                 /\ scans'[s].exe = scans[s].exe /\ scans'[s].pid = scans[s].pid
                 /\ \/ scans[s].at = "connect" /\ scans'[s].at = "info" /\ scans'[s].peer # NoPid
                    \/ GetsInfo(s) /\ scans'[s].at = "voices" /\ scans'[s].peer = scans[s].peer
                    \/ scans[s].at = "voices" /\ scans'[s].at = "shutdown"
<1>1. scans[s] \in ScanRecord /\ NoScan.pid = NoPid
  BY DEF TypeInv, TypeOK, DiscoveryTypeOK, ScanRecord, NoScan
<1>2. scans[s].pid # NoPid => scans[s].at \in {"connect", "info", "voices", "shutdown"}
  BY DEF TypeInv, ScanShape
<1>3. DiscoveryTypeOK
  BY DEF TypeInv, TypeOK
<1>4. CASE Adds(s)
  <2>1. scans'[s] = [NoScan EXCEPT !.at = "next", !.exe = scans[s].exe]
    BY <1>3, <1>4, ScanMoves DEF Adds, ProbeEnds
  <2>2. scans'[s].at = "next" /\ scans'[s].pid = NoPid
    BY <2>1 DEF NoScan
  <2>3. list' = Append(list, Result(s)) /\ scans[s].at = "shutdown"
    BY <1>4 DEF Adds, Result
  <2>4. ProbeEnded(s)
    BY <1>4 DEF Adds, ProbeEnds, ProbeEnded, Throws, Note, NextExe
  <2> QED
    BY <1>4, <2>2, <2>3, <2>4 DEF Probing, Active
<1>5. CASE ProbeFails(s) \/ StartFails(s)
  <2>1. scans'[s] = [NoScan EXCEPT !.at = "next", !.exe = scans[s].exe]
    BY <1>3, <1>5, ScanMoves DEF ProbeFails, ProbeEnds, StartFails
  <2>2. scans'[s].at = "next" /\ scans'[s].pid = NoPid
    BY <2>1 DEF NoScan
  <2>3. list' = list /\ scans[s].at \in {"manifest", "connect", "info", "voices"}
    BY <1>5 DEF ProbeFails, ProbeEnds, StartFails
  <2>4. ProbeEnded(s)
    BY <1>2, <1>5 DEF ProbeFails, StartFails, ProbeEnds, ProbeEnded, Throws, Note, NextExe
  <2> QED
    BY <1>5, <2>2, <2>3, <2>4 DEF Probing, Active
<1>6. CASE ScanAdvances(s)
  <2>1. scans[s].at = "next" /\ scans[s].pid = NoPid /\ UNCHANGED <<list, procs>>
    BY <1>2, <1>6 DEF ScanAdvances
  <2>2. CASE Rest(s) # {}
    <3>1. PICK exe \in Rest(s) : exe \in Exes /\ Takes(s, exe)
      BY <1>3, <1>6, <2>2, TakesOneOfTheRest
    <3>2. scans'[s] = [scans[s] EXCEPT !.at = "manifest", !.exe = exe]
      BY <1>3, <3>1, ScanMoves
    <3>3. scans'[s].at = "manifest" /\ scans'[s].exe = exe /\ scans'[s].pid = NoPid
      BY <1>1, <2>1, <3>2 DEF ScanRecord
    <3> QED
      BY <1>6, <2>1, <3>1, <3>3 DEF Active
  <2>3. CASE Rest(s) = {}
    <3>1. scans'[s] = [scans[s] EXCEPT !.at = "ended"]
      BY <1>3, <1>6, <2>3, ScanMoves DEF ScanAdvances
    <3>2. scans'[s].at = "ended" /\ scans'[s].pid = NoPid
      BY <1>1, <2>1, <3>1 DEF ScanRecord
    <3> QED
      BY <1>6, <2>1, <3>2 DEF Probing, Active
  <2> QED
    BY <2>2, <2>3
<1>7. CASE StartsProcess(s)
  <2>1. PICK pid \in Pids : /\ Start(pid, scans[s].exe, "probe")
                            /\ scans'[s] = [scans[s] EXCEPT !.at = "connect", !.pid = pid]
    BY <1>3, <1>7, ScanMoves
  <2>2. scans'[s].at = "connect" /\ scans'[s].pid = pid /\ scans'[s].exe = scans[s].exe
    BY <1>1, <2>1 DEF ScanRecord
  <2>3. scans[s].at = "manifest" /\ scans[s].pid = NoPid /\ list' = list
    BY <1>2, <1>7 DEF StartsProcess
  <2> QED
    BY <1>7, <2>1, <2>2, <2>3 DEF Probing, Active
<1>8. ASSUME NEW pid \in Pids, Connects(s, pid)
      PROVE  /\ Active(s) /\ UNCHANGED <<list, procs>> /\ Probing(s) /\ Probing(s)'
             /\ scans'[s].exe = scans[s].exe /\ scans'[s].pid = scans[s].pid
             /\ scans[s].at = "connect" /\ scans'[s].at = "info" /\ scans'[s].peer # NoPid
  <2>1. scans'[s] = [scans[s] EXCEPT !.at = "info", !.peer = pid]
    BY <1>3, <1>8, ScanMoves
  <2>2. scans[s].at = "connect" /\ UNCHANGED <<list, procs>>
    BY <1>8 DEF Connects
  <2> QED
    BY <1>1, <2>1, <2>2, NoPidIsNone DEF Probing, Active, ScanRecord
<1>9. CASE GetsInfo(s)
  <2>1. scans'[s] = [scans[s] EXCEPT !.at = "voices"]
    BY <1>3, <1>9, ScanMoves DEF GetsInfo
  <2>2. scans[s].at = "info" /\ UNCHANGED <<list, procs>>
    BY <1>9 DEF GetsInfo
  <2>3. /\ scans'[s].at = "voices" /\ scans'[s].peer = scans[s].peer
        /\ scans'[s].exe = scans[s].exe /\ scans'[s].pid = scans[s].pid
    BY <1>1, <2>1 DEF ScanRecord
  <2> QED
    BY <1>9, <2>2, <2>3 DEF Probing, Active
<1>10. CASE GetsVoices(s) \/ VoicesLost(s)
  <2>1. scans[s].at = "voices" /\ UNCHANGED <<list, procs>>
    BY <1>10 DEF GetsVoices, VoicesLost
  <2>2. \/ \E voices \in SUBSET Voices : scans'[s] = [scans[s] EXCEPT !.at = "shutdown", !.voices = voices]
        \/ scans'[s] = [scans[s] EXCEPT !.at = "shutdown"]
    BY <1>3, <1>10, ScanMoves DEF VoicesLost
  <2>3. scans'[s].at = "shutdown" /\ scans'[s].exe = scans[s].exe /\ scans'[s].pid = scans[s].pid
    BY <1>1, <2>2 DEF ScanRecord
  <2> QED
    BY <2>1, <2>3 DEF Probing, Active
<1> QED
  BY <1>4, <1>5, <1>6, <1>7, <1>8, <1>9, <1>10 DEF ScanSteps, ScanGoesOn, ScanIsAnswered

\* What happens to the scans.
LEMMA EveryScanMove ==
    ASSUME TypeInv, [Next]_vars
    PROVE  \/ ScanStep
           \/ UNCHANGED scans
           \/ /\ \E s \in Scans : ScanBegins(s)
              /\ procs' = procs /\ ui' = "free" /\ registry' = registry
           \/ Closes
<1>1. CASE WindowStep
  BY <1>1 DEF WindowStep, ManagerOpens, Opens, Refreshes, Closes, Configures
<1>2. CASE DialogStep
  BY <1>2 DEF DialogStep, InstallerSteps, DialogClicks, Terminated, Extracts, ExtractFails,
     Extracted, AddsProvider, Browses, Terminates, TerminateFails, Installs, Cancels
<1>3. CASE WizardStep
  BY <1>3, WizardFrame DEF WizardStep, Opens
<1>4. CASE SaveStep
  BY <1>4, SaveFrame DEF TypeInv, TypeOK
<1> QED
  BY <1>1, <1>2, <1>3, <1>4, EveryStep, ProcessFrame, EngineFrame DEF RemovalStep, Removes, vars

\* Between the results of scans the list keeps its executables.
LEMMA ListKeepsExes ==
    ASSUME TypeInv, [Next]_vars, UNCHANGED scans
    PROVE  \/ list' = <<>>
           \/ DOMAIN list' = DOMAIN list /\ \A i \in DOMAIN list : list'[i].exe = list[i].exe
<1>1. ASSUME NEW s \in Scans, Adds(s) PROVE FALSE
  <2>1. scans'[s] = [NoScan EXCEPT !.at = "next", !.exe = scans[s].exe] /\ scans[s].at = "shutdown"
    BY <1>1, ScanMoves DEF Adds, ProbeEnds, TypeInv, TypeOK
  <2>2. scans'[s].at = "next"
    BY <2>1 DEF NoScan
  <2> QED
    BY <2>1, <2>2
<1>2. DOMAIN list = 1..Len(list) /\ \A i \in DOMAIN list : list[i] \in ListEntry
  BY ListEntries DEF TypeInv, TypeOK, ListEntry
<1>3. CASE \E i \in DOMAIN list, on \in SUBSET Voices : list' = [list EXCEPT ![i] = [list[i] EXCEPT !.on = on]]
  <2>1. PICK i \in DOMAIN list, on \in SUBSET Voices : list' = [list EXCEPT ![i] = [list[i] EXCEPT !.on = on]]
    BY <1>3
  <2>2. [list[i] EXCEPT !.on = on].exe = list[i].exe
    BY <1>2 DEF ListEntry
  <2>3. DOMAIN list' = DOMAIN list
    BY <2>1
  <2>4. ASSUME NEW j \in DOMAIN list PROVE list'[j].exe = list[j].exe
    <3>1. CASE j = i
      <4>1. list'[j] = [list[i] EXCEPT !.on = on]
        BY <2>1, <3>1
      <4> QED
        BY <2>2, <3>1, <4>1
    <3>2. CASE j # i
      BY <2>1, <3>2
    <3> QED
      BY <3>1, <3>2
  <2> QED
    BY <2>3, <2>4
<1> QED
  BY <1>1, <1>3, EveryListMove DEF ListMoves
-----------------------------------------------------------------------------
\* No two scans probe the same executable, and none one that is in the list.
ListDistinct ==
    "probedTwice" \notin past =>
       /\ \A i, j \in DOMAIN list : i # j => list[i].exe # list[j].exe
       /\ \A s \in Scans : Probing(s) => ~Listed(scans[s].exe)
       /\ \A s, t \in Scans : s # t /\ Probing(s) /\ Probing(t) => scans[s].exe # scans[t].exe

LEMMA ProbedMeansProbing ==
    ASSUME TypeInv, NEW s \in Scans
    PROVE  scans[s].at \notin {"off", "next", "ended"} <=> Probing(s)
<1>1. scans[s] \in ScanRecord
  BY DEF TypeInv, TypeOK, DiscoveryTypeOK, ScanRecord
<1> QED
  BY <1>1 DEF Probing, ScanRecord, ScanPlace

LEMMA ScanKeepsListDistinct ==
    ASSUME TypeInv, ListDistinct, NEW s \in Scans, ScanSteps(s), "probedTwice" \notin past'
    PROVE  ListDistinct'
<1>1. "probedTwice" \notin past
  <2>1. \A exe : Takes(s, exe) => past \subseteq past'
    BY DEF Takes, Note
  <2>2. past \subseteq past'
    BY <2>1 DEF ScanSteps, ScanGoesOn, ScanIsAnswered, ScanAdvances, StartsProcess, StartFails, Connects,
       GetsInfo, GetsVoices, VoicesLost, ProbeFails, ProbeEnds, Adds, Throws, Note
  <2> QED
    BY <2>2
<1>2. \A t \in Scans \ {s} : scans'[t] = scans[t]
  BY ScanMoves DEF TypeInv, TypeOK
<1>3. \A t \in Scans \ {s} : (Probing(t)' <=> Probing(t)) /\ scans'[t].exe = scans[t].exe
  BY <1>2 DEF Probing
<1>4. /\ \A i, j \in DOMAIN list : i # j => list[i].exe # list[j].exe
      /\ \A t \in Scans : Probing(t) => ~Listed(scans[t].exe)
      /\ \A t, u \in Scans : t # u /\ Probing(t) /\ Probing(u) => scans[t].exe # scans[u].exe
  BY <1>1 DEF ListDistinct
<1>5. list' = list => \A exe : Listed(exe)' <=> Listed(exe)
  BY DEF Listed
<1>6. CASE list' = list /\ ~Probing(s)'
  BY <1>3, <1>4, <1>5, <1>6 DEF ListDistinct
<1>7. CASE list' = list /\ Probing(s) /\ Probing(s)' /\ scans'[s].exe = scans[s].exe
  BY <1>3, <1>4, <1>5, <1>7 DEF ListDistinct
<1>8. ASSUME NEW exe \in Rest(s), Takes(s, exe), scans'[s].exe = exe, list' = list
      PROVE  ListDistinct'
  <2>1. ~Probed(exe)
    BY <1>8 DEF Takes, Note
  <2>2. \A t \in Scans : Probing(t) => scans[t].exe # exe
    BY <2>1, ProbedMeansProbing DEF Probed
  <2>3. ~Listed(exe)
    BY <1>8 DEF Rest
  <2>4. \A t \in Scans \ {s} : Probing(t)' => scans'[t].exe # scans'[s].exe
    BY <1>3, <1>8, <2>2
  <2> QED
    BY <1>3, <1>4, <1>5, <1>8, <2>3, <2>4 DEF ListDistinct
<1>9. CASE Adds(s) /\ list' = Append(list, Result(s)) /\ ~Probing(s)' /\ Probing(s)
  <2>1. DOMAIN list = 1..Len(list) /\ Len(list) \in Nat /\ list \in Seq(ListEntry)
    BY ListEntries DEF TypeInv, TypeOK, DiscoveryTypeOK, ListEntry
  <2>2. /\ DOMAIN list' = DOMAIN list \cup {Len(list) + 1} /\ Len(list) + 1 \notin DOMAIN list
        /\ \A i \in DOMAIN list : list'[i] = list[i]
        /\ list'[Len(list) + 1] = Result(s)
    BY <1>9, <2>1
  <2>3. Result(s).exe = scans[s].exe
    BY DEF Result
  <2>4. \A i \in DOMAIN list : list[i].exe # scans[s].exe
    BY <1>4, <1>9 DEF Listed
  <2>5. \A i, j \in DOMAIN list' : i # j => list'[i].exe # list'[j].exe
    BY <1>4, <2>2, <2>3, <2>4
  <2>6. \A t \in Scans : Probing(t)' => t # s /\ scans[t].exe # scans[s].exe /\ ~Listed(scans[t].exe)
    BY <1>3, <1>4, <1>9
  <2>7. \A exe : Listed(exe)' => Listed(exe) \/ exe = scans[s].exe
    BY <2>2, <2>3 DEF Listed
  <2>8. \A t \in Scans : Probing(t)' => ~Listed(scans[t].exe)'
    BY <1>3, <2>6, <2>7
  <2> QED
    BY <1>3, <1>4, <1>9, <2>5, <2>8 DEF ListDistinct
<1> QED
  BY <1>6, <1>7, <1>8, <1>9, ScanEffects

LEMMA ListDistinctStep ==
    ASSUME TypeInv, ListDistinct, [Next]_vars
    PROVE  ListDistinct'
<1>1. SUFFICES ASSUME "probedTwice" \notin past' PROVE ListDistinct'
  BY <1>1 DEF ListDistinct
<1>2. /\ \A i, j \in DOMAIN list : i # j => list[i].exe # list[j].exe
      /\ \A t \in Scans : Probing(t) => ~Listed(scans[t].exe)
      /\ \A t, u \in Scans : t # u /\ Probing(t) /\ Probing(u) => scans[t].exe # scans[u].exe
  BY <1>1, PastGrows DEF ListDistinct
<1>3. CASE ScanStep
  BY <1>1, <1>3, ScanKeepsListDistinct DEF ScanStep
<1>4. CASE UNCHANGED scans
  <2>1. \A t \in Scans : Probing(t)' <=> Probing(t)
    BY <1>4 DEF Probing
  <2>2. CASE list' = <<>>
    BY <1>2, <1>4, <2>1, <2>2 DEF ListDistinct, Listed
  <2>3. CASE DOMAIN list' = DOMAIN list /\ \A i \in DOMAIN list : list'[i].exe = list[i].exe
    <3>1. \A exe : Listed(exe)' <=> Listed(exe)
      BY <2>3 DEF Listed
    <3> QED
      BY <1>2, <1>4, <2>1, <2>3, <3>1 DEF ListDistinct
  <2> QED
    BY <1>4, <2>2, <2>3, ListKeepsExes
<1>5. ASSUME NEW s \in Scans, ScanBegins(s) PROVE ListDistinct'
  <2>1. scans \in [Scans -> ScanRecord]
    BY DEF TypeInv, TypeOK, DiscoveryTypeOK, ScanRecord
  <2>2. /\ \A t \in Scans \ {s} : scans'[t] = scans[t]
        /\ scans'[s].at = "next" /\ list' = <<>>
    BY <1>5, <2>1 DEF ScanBegins, NoScan
  <2>3. ~Probing(s)' /\ \A t \in Scans \ {s} : Probing(t)' <=> Probing(t)
    BY <2>2 DEF Probing
  <2> QED
    BY <1>2, <2>2, <2>3 DEF ListDistinct, Listed
<1>6. CASE Closes
  <2>1. list' = <<>> /\ \A t \in Scans : ~Probing(t)'
    BY <1>6 DEF Closes, NoScan, Probing
  <2> QED
    BY <2>1 DEF ListDistinct, Listed
<1> QED
  BY <1>3, <1>4, <1>5, <1>6, EveryScanMove
-----------------------------------------------------------------------------
\* A process that a probe started is held by its scan, or on its way out.
LEMMA ScanCleansUp ==
    ASSUME TypeInv, ProbesCleanUp, NEW s \in Scans, ScanSteps(s), "closedInProbe" \notin past,
           "killFailed" \notin past, "killFailed" \notin past',
           NEW pid \in Pids, Alive(pid)', procs'[pid].by = "probe"
    PROVE  \E t \in Scans : scans'[t].pid = pid
<1>1. procs \in [Pids -> [exe : Exes \cup {NoExe}, by : {"nobody", "probe", "engine", "user"},
                          life : {"none", "alive", "dying"}, fresh : BOOLEAN]]
  BY DEF TypeInv, TypeOK, DiscoveryTypeOK
<1>2. \A t \in Scans \ {s} : scans'[t] = scans[t]
  BY ScanMoves DEF TypeInv, TypeOK
<1>3. Alive(pid) /\ procs[pid].by = "probe" => \E t \in Scans : scans[t].pid = pid
  BY DEF ProbesCleanUp, Excused
<1>4. pid # NoPid
  BY NoPidIsNone
<1>5. CASE procs' = procs /\ scans[s].pid = NoPid
  <2>1. PICK t \in Scans : scans[t].pid = pid
    BY <1>3, <1>5 DEF Alive
  <2>2. t # s
    BY <1>4, <1>5, <2>1
  <2> QED
    BY <1>2, <2>1, <2>2
<1>6. CASE procs' = procs /\ scans'[s].pid = scans[s].pid
  BY <1>2, <1>3, <1>6 DEF Alive
<1>7. CASE procs' = Killed(procs, scans[s].pid)
  <2>1. scans[s].pid \in Pids \cup {NoPid}
    BY DEF TypeInv, TypeOK, DiscoveryTypeOK
  <2>2. Alive(pid) /\ procs[pid].by = "probe" /\ pid # scans[s].pid
    BY <1>1, <1>4, <1>7, <2>1 DEF Killed, Alive
  <2>3. PICK t \in Scans : scans[t].pid = pid
    BY <1>3, <2>2
  <2> QED
    BY <1>2, <2>2, <2>3
<1>8. CASE /\ scans[s].pid = NoPid /\ scans'[s].pid \in Pids
           /\ Start(scans'[s].pid, scans[s].exe, "probe")
  <2>1. CASE pid = scans'[s].pid
    BY <2>1
  <2>2. CASE pid # scans'[s].pid
    <3>1. procs'[pid] = procs[pid]
      BY <1>1, <1>8, <2>2 DEF Start
    <3>2. PICK t \in Scans : scans[t].pid = pid
      BY <1>3, <3>1 DEF Alive
    <3> QED
      BY <1>2, <1>4, <1>8, <3>2
  <2> QED
    BY <2>1, <2>2
<1> QED
  BY <1>5, <1>6, <1>7, <1>8, ScanEffects DEF ProbeEnded

\* A process that a probe has started: only a step of a scan starts one.
LEMMA ProbesAreStartedByScans ==
    ASSUME TypeInv, [Next]_vars, ~ScanStep, NEW p \in Pids, Alive(p)', procs'[p].by = "probe"
    PROVE  Alive(p) /\ procs[p].by = "probe"
<1>1. procs \in [Pids -> [exe : Exes \cup {NoExe}, by : {"nobody", "probe", "engine", "user"},
                          life : {"none", "alive", "dying"}, fresh : BOOLEAN]]
  BY DEF TypeInv, TypeOK, DiscoveryTypeOK
<1>2. ASSUME NEW pid \in Pids, NEW exe, NEW by \in {"engine", "user"}, Start(pid, exe, by)
      PROVE  Alive(p) /\ procs[p].by = "probe"
  BY <1>1, <1>2 DEF Start, Alive
<1>3. ASSUME NEW pid \in Pids, procs' = [procs EXCEPT ![pid] = NoProcess]
      PROVE  Alive(p) /\ procs[p].by = "probe"
  BY <1>1, <1>3 DEF Alive, NoProcess
<1>4. ASSUME NEW pid \in Pids \cup {NoPid}, procs' = Killed(procs, pid)
      PROVE  Alive(p) /\ procs[p].by = "probe"
  BY <1>1, <1>4 DEF Alive, Killed
<1>5. CASE procs' = [q \in Pids |-> [procs[q] EXCEPT !.fresh = FALSE]]
  BY <1>1, <1>5 DEF Alive
<1>6. CASE procs' = procs
  BY <1>6 DEF Alive
<1>7. CASE ProcessStep
  BY <1>3, <1>7 DEF ProcessStep, Dies, Exits, Crashes, Gone
<1>8. CASE WindowStep
  BY <1>2, <1>6, <1>8 DEF WindowStep, ManagerOpens, Opens, Refreshes, Closes, Configures
<1>9. CASE DialogStep
  <2>1. dialog.pid \in Pids \cup {NoPid}
    BY DEF TypeInv, TypeOK, DialogTypeOK
  <2> QED
    BY <1>4, <1>5, <1>6, <1>9, <2>1 DEF DialogStep, InstallerSteps, DialogClicks, Terminated, Browses, Inspected,
     Terminates, TerminateFails, Extracts, ExtractFails, Extracted, AddsProvider, Installs, Cancels
<1>10. CASE EngineStep
  BY <1>2, <1>6, <1>10 DEF EngineStep, EngineLaunches, EngineConnects, EngineLeaves
<1> QED
  BY <1>6, <1>7, <1>8, <1>9, <1>10, EveryStep, WizardFrame, SaveFrame
     DEF WizardStep, RemovalStep, Removes, vars, TypeInv, TypeOK

LEMMA ProbesCleanUpStep ==
    ASSUME TypeInv, ProbesCleanUp, [Next]_vars
    PROVE  ProbesCleanUp'
<1>1. SUFFICES ASSUME "closedInProbe" \notin past', "killFailed" \notin past', NEW pid \in Pids, Alive(pid)', procs'[pid].by = "probe"
               PROVE  \E s \in Scans : scans'[s].pid = pid
  BY <1>1 DEF ProbesCleanUp, Excused
<1>2. "closedInProbe" \notin past /\ "killFailed" \notin past
  BY <1>1, PastGrows
<1>3. CASE ScanStep
  BY <1>1, <1>2, <1>3, ScanCleansUp DEF ScanStep
<1>4. CASE ~ScanStep
  <2>1. Alive(pid) /\ procs[pid].by = "probe"
    BY <1>1, <1>4, ProbesAreStartedByScans
  <2>2. PICK s \in Scans : scans[s].pid = pid
    BY <1>2, <2>1 DEF ProbesCleanUp, Excused
  <2>3. CASE UNCHANGED scans
    BY <2>2, <2>3
  <2>4. ASSUME NEW t \in Scans, ScanBegins(t) PROVE \E u \in Scans : scans'[u].pid = pid
    <3>1. scans[t].pid = NoPid
      BY <2>4 DEF ScanBegins, TypeInv, TypeOK, DiscoveryTypeOK
    <3>2. t # s
      BY <2>2, <3>1, NoPidIsNone
    <3>3. scans'[s] = scans[s]
      BY <2>4, <3>2 DEF ScanBegins
    <3> QED
      BY <2>2, <3>3
  <2>5. ~Closes
    BY <1>1, <2>2, NoPidIsNone DEF Closes, Note
  <2> QED
    BY <1>4, <2>3, <2>4, <2>5, EveryScanMove
<1> QED
  BY <1>3, <1>4
-----------------------------------------------------------------------------
(***************************************************************************)
(* Who answers a probe.  While scans do not overlap, no window closes in   *)
(* one, nobody else starts a provider and Kill does not throw, the only    *)
(* process there is belongs to the probe, so that the answer is that of    *)
(* its executable.                                                         *)
(***************************************************************************)
Plain == ~Excused({"scansOverlapped", "closedInProbe", "launched", "configured", "killFailed"})

ProbeRunsItsExe ==
    \A s \in Scans : scans[s].pid # NoPid /\ Exists(scans[s].pid) => procs[scans[s].pid].exe = scans[s].exe

ScansTakeTurns == Plain => \A s, t \in Scans : Active(s) /\ Active(t) => s = t

OnlyProbesRun == Plain => \A pid \in Pids : Exists(pid) => procs[pid].by = "probe"

IsProvider(exe) == Answers[exe] # "none"

AnsweredAreProviders ==
    Plain => \A s \in Scans : scans[s].at \in {"voices", "shutdown"} => IsProvider(scans[s].exe)

ListedAreProviders == Plain => \A i \in DOMAIN list : IsProvider(list[i].exe)

SavedAreProviders ==
    Plain => /\ ui = "saving" => IsProvider(save.exe)
             /\ \A v \in Voices : registry.tokens[v].whole => IsProvider(registry.tokens[v].exe)

FoundInv ==
    /\ PeersAreProcesses /\ ProbeRunsItsExe /\ ScansTakeTurns /\ OnlyProbesRun
    /\ AnsweredAreProviders /\ ListedAreProviders /\ SavedAreProviders

\* The id of a process is not given away while a scan holds it.
LEMMA HeldKeepsExe ==
    ASSUME TypeInv, [Next]_vars, NEW s \in Scans, scans[s].pid \in Pids,
           procs'[scans[s].pid].life # "none"
    PROVE  Exists(scans[s].pid) /\ procs'[scans[s].pid].exe = procs[scans[s].pid].exe
<1> DEFINE pid == scans[s].pid
<1> HIDE DEF pid
<1>1. procs \in [Pids -> [exe : Exes \cup {NoExe}, by : {"nobody", "probe", "engine", "user"},
                          life : {"none", "alive", "dying"}, fresh : BOOLEAN]]
  BY DEF TypeInv, TypeOK, DiscoveryTypeOK
<1>2. pid \in Pids /\ procs'[pid].life # "none"
  BY DEF pid
<1>3. SUFFICES Exists(pid) /\ procs'[pid].exe = procs[pid].exe
  BY <1>3 DEF pid
<1>4. ASSUME NEW p \in Pids, NEW exe, NEW by, Start(p, exe, by) PROVE procs'[pid] = procs[pid]
  <2>1. p # pid
    BY <1>4 DEF Start, Unused, pid
  <2> QED
    BY <1>1, <1>2, <1>4, <2>1 DEF Start
<1>5. ASSUME NEW p \in Pids, procs' = [procs EXCEPT ![p] = NoProcess]
      PROVE  procs'[pid] = procs[pid]
  BY <1>1, <1>2, <1>5 DEF NoProcess
<1>6. ASSUME NEW p \in Pids \cup {NoPid}, procs' = Killed(procs, p)
      PROVE  procs[pid].life # "none" /\ procs'[pid].exe = procs[pid].exe
  BY <1>1, <1>2, <1>6 DEF Killed
<1>7. ASSUME procs' = [p \in Pids |-> [procs[p] EXCEPT !.fresh = FALSE]]
      PROVE  procs'[pid].life = procs[pid].life /\ procs'[pid].exe = procs[pid].exe
  BY <1>1, <1>2, <1>7
<1> QED
  BY <1>2, <1>4, <1>5, <1>6, <1>7, EveryProcessMove DEF ProcessesMove, Exists, TypeInv

LEMMA ProbeRunsItsExeStep ==
    ASSUME TypeInv, ProbeRunsItsExe, [Next]_vars
    PROVE  ProbeRunsItsExe'
<1>1. SUFFICES ASSUME NEW s \in Scans, scans'[s].pid # NoPid, procs'[scans'[s].pid].life # "none"
               PROVE  procs'[scans'[s].pid].exe = scans'[s].exe
  BY <1>1 DEF ProbeRunsItsExe, Exists
<1>2. scans \in [Scans -> ScanRecord]
  BY DEF TypeInv, TypeOK, DiscoveryTypeOK, ScanRecord
<1>3. scans[s].pid \in Pids \cup {NoPid}
  BY <1>2 DEF ScanRecord
<1>4. CASE scans'[s].pid = scans[s].pid /\ scans'[s].exe = scans[s].exe
  <2>1. scans[s].pid \in Pids
    BY <1>1, <1>3, <1>4
  <2>2. Exists(scans[s].pid) /\ procs'[scans[s].pid].exe = procs[scans[s].pid].exe
    BY <1>1, <1>4, <2>1, HeldKeepsExe
  <2> QED
    BY <1>1, <1>4, <2>2 DEF ProbeRunsItsExe
<1>5. CASE scans'[s] = scans[s]
  BY <1>4, <1>5
<1>6. ASSUME NEW t \in Scans, ScanSteps(t) PROVE procs'[scans'[s].pid].exe = scans'[s].exe
  <2>1. t # s => scans'[s] = scans[s]
    BY <1>6, ScanMoves DEF TypeInv, TypeOK
  <2>2. CASE t = s /\ StartsProcess(s)
    <3>1. PICK pid \in Pids : /\ Start(pid, scans[s].exe, "probe")
                              /\ scans'[s] = [scans[s] EXCEPT !.at = "connect", !.pid = pid]
      BY <2>2, ScanMoves DEF TypeInv, TypeOK
    <3>2. scans'[s].pid = pid /\ scans'[s].exe = scans[s].exe
      BY <1>2, <3>1 DEF ScanRecord
    <3>3. procs'[pid].exe = scans[s].exe
      BY <3>1 DEF Start, TypeInv, TypeOK, DiscoveryTypeOK
    <3> QED
      BY <3>2, <3>3
  <2>3. CASE t = s /\ ~StartsProcess(s)
    BY <1>1, <1>4, <1>6, <2>3, ScanEffects
  <2> QED
    BY <1>5, <2>1, <2>2, <2>3
<1>7. ASSUME NEW t \in Scans, ScanBegins(t) PROVE procs'[scans'[s].pid].exe = scans'[s].exe
  <2>1. t = s => scans'[s].pid = NoPid
    BY <1>2, <1>7 DEF ScanBegins, NoScan
  <2>2. t # s => scans'[s] = scans[s]
    BY <1>2, <1>7 DEF ScanBegins
  <2> QED
    BY <1>1, <1>5, <2>1, <2>2
<1>8. ~Closes
  BY <1>1 DEF Closes, NoScan
<1> QED
  BY <1>5, <1>6, <1>7, <1>8, EveryScanMove DEF ScanStep

LEMMA PeersAreProcessesStep ==
    ASSUME TypeInv, PeersAreProcesses, [Next]_vars
    PROVE  PeersAreProcesses'
<1>1. scans \in [Scans -> ScanRecord]
  BY DEF TypeInv, TypeOK, DiscoveryTypeOK, ScanRecord
<1>2. ASSUME NEW s \in Scans, ScanSteps(s) PROVE PeersAreProcesses'
  <2>1. \A t \in Scans \ {s} : scans'[t] = scans[t]
    BY <1>2, ScanMoves DEF TypeInv, TypeOK
  <2>2. scans'[s].at \in {"info", "voices"} => scans'[s].peer # NoPid
    <3>1. GetsInfo(s) => scans[s].at = "info"
      BY DEF GetsInfo
    <3> QED
      BY <1>2, <3>1, ScanEffects DEF PeersAreProcesses, Probing
  <2> QED
    BY <2>1, <2>2 DEF PeersAreProcesses
<1>3. ASSUME NEW s \in Scans, ScanBegins(s) PROVE PeersAreProcesses'
  <2>1. scans'[s].at = "next" /\ \A t \in Scans \ {s} : scans'[t] = scans[t]
    BY <1>1, <1>3 DEF ScanBegins, NoScan
  <2> QED
    BY <2>1 DEF PeersAreProcesses
<1>4. CASE Closes
  BY <1>4 DEF Closes, NoScan, PeersAreProcesses
<1>5. CASE UNCHANGED scans
  BY <1>5 DEF PeersAreProcesses
<1> QED
  BY <1>2, <1>3, <1>4, <1>5, EveryScanMove DEF ScanStep

LEMMA ScansTakeTurnsStep ==
    ASSUME TypeInv, ScansTakeTurns, [Next]_vars
    PROVE  ScansTakeTurns'
<1>1. SUFFICES ASSUME Plain' PROVE \A s, t \in Scans : Active(s)' /\ Active(t)' => s = t
  BY <1>1 DEF ScansTakeTurns
<1>2. \A s, t \in Scans : Active(s) /\ Active(t) => s = t
  BY <1>1, PastGrows DEF ScansTakeTurns, Plain, Excused
<1>3. ASSUME NEW s \in Scans, ScanSteps(s) PROVE \A t, u \in Scans : Active(t)' /\ Active(u)' => t = u
  <2>1. \A t \in Scans \ {s} : scans'[t] = scans[t]
    BY <1>3, ScanMoves DEF TypeInv, TypeOK
  <2>2. \A t \in Scans \ {s} : ~Active(t)'
    BY <1>2, <1>3, <2>1, ScanEffects DEF Active
  <2> QED
    BY <2>2
<1>4. ASSUME NEW s \in Scans, ScanBegins(s) PROVE \A t, u \in Scans : Active(t)' /\ Active(u)' => t = u
  <2>1. "scansOverlapped" \notin past'
    BY <1>1 DEF Plain, Excused
  <2>2. ~Scanning
    BY <1>4, <2>1 DEF ScanBegins, Note
  <2>3. \A t \in Scans \ {s} : scans'[t] = scans[t]
    BY <1>4 DEF ScanBegins, TypeInv, TypeOK, DiscoveryTypeOK
  <2>4. \A t \in Scans \ {s} : ~Active(t)'
    BY <2>2, <2>3 DEF Scanning, Active
  <2> QED
    BY <2>4
<1>5. CASE Closes
  BY <1>5 DEF Closes, NoScan, Active
<1>6. CASE UNCHANGED scans
  BY <1>2, <1>6 DEF Active
<1> QED
  BY <1>3, <1>4, <1>5, <1>6, EveryScanMove DEF ScanStep

LEMMA OnlyProbesRunStep ==
    ASSUME TypeInv, OnlyProbesRun, [Next]_vars
    PROVE  OnlyProbesRun'
<1>1. SUFFICES ASSUME Plain', NEW p \in Pids, Exists(p)' PROVE procs'[p].by = "probe"
  BY <1>1 DEF OnlyProbesRun
<1>2. Exists(p) => procs[p].by = "probe"
  BY <1>1, PastGrows DEF OnlyProbesRun, Plain, Excused
<1>3. procs \in [Pids -> [exe : Exes \cup {NoExe}, by : {"nobody", "probe", "engine", "user"},
                          life : {"none", "alive", "dying"}, fresh : BOOLEAN]]
  BY DEF TypeInv, TypeOK, DiscoveryTypeOK
<1>4. CASE procs' = procs
  BY <1>1, <1>2, <1>4 DEF Exists
<1>5. ASSUME NEW pid \in Pids, NEW exe, Start(pid, exe, "probe") PROVE procs'[p].by = "probe"
  BY <1>1, <1>2, <1>3, <1>5 DEF Start, Exists
<1>6. ASSUME NEW pid \in Pids, procs' = [procs EXCEPT ![pid] = NoProcess] PROVE procs'[p].by = "probe"
  BY <1>1, <1>2, <1>3, <1>6 DEF Exists, NoProcess
<1>7. ASSUME NEW pid \in Pids \cup {NoPid}, procs' = Killed(procs, pid) PROVE procs'[p].by = "probe"
  BY <1>1, <1>2, <1>3, <1>7 DEF Exists, Killed
<1>8. CASE procs' = [q \in Pids |-> [procs[q] EXCEPT !.fresh = FALSE]]
  BY <1>1, <1>2, <1>3, <1>8 DEF Exists
<1>9. "configured" \notin past' /\ "launched" \notin past'
  BY <1>1 DEF Plain, Excused
<1>10. CASE ScanStep
  <2>1. \A s \in Scans : scans[s].pid \in Pids \cup {NoPid}
    BY DEF TypeInv, TypeOK, DiscoveryTypeOK
  <2> QED
    BY <1>4, <1>5, <1>7, <1>10, <2>1, ScanEffects DEF ScanStep, ProbeEnded
<1>11. CASE ProcessStep
  BY <1>6, <1>11 DEF ProcessStep, Dies, Exits, Crashes, Gone
<1>12. CASE WindowStep
  <2>1. ~Configures
    BY <1>9 DEF Configures, Note
  <2> QED
    BY <1>4, <1>12, <2>1 DEF WindowStep, ManagerOpens, Opens, Refreshes, Closes
<1>13. CASE DialogStep
  <2>1. dialog.pid \in Pids \cup {NoPid}
    BY DEF TypeInv, TypeOK, DialogTypeOK
  <2> QED
    BY <1>4, <1>7, <1>8, <1>13, <2>1 DEF DialogStep, InstallerSteps, DialogClicks, Terminated, Browses, Inspected,
     Terminates, TerminateFails, Extracts, ExtractFails, Extracted, AddsProvider, Installs, Cancels
<1>14. CASE EngineStep
  <2>1. ~EngineLaunches
    BY <1>9 DEF EngineLaunches, Note
  <2> QED
    BY <1>4, <1>14, <2>1 DEF EngineStep, EngineConnects, EngineLeaves
<1> QED
  BY <1>4, <1>10, <1>11, <1>12, <1>13, <1>14, EveryStep, WizardFrame, SaveFrame
     DEF WizardStep, RemovalStep, Removes, vars, TypeInv, TypeOK

\* The process that answers a probe is the one it has started.
LEMMA ProbesAnswerForThemselves ==
    ASSUME TypeInv, ProbesCleanUp, FoundInv, Plain, NEW s \in Scans, GetsInfo(s)
    PROVE  IsProvider(scans[s].exe)
<1>1. /\ scans[s].at = "info" /\ Alive(scans[s].peer)
      /\ Answers[procs[scans[s].peer].exe] = "control"
  BY DEF GetsInfo, Replied
<1>2. scans[s].peer \in Pids
  BY <1>1 DEF FoundInv, PeersAreProcesses, TypeInv, TypeOK, DiscoveryTypeOK
<1>3. procs[scans[s].peer].by = "probe" /\ Exists(scans[s].peer)
  BY <1>1, <1>2 DEF FoundInv, OnlyProbesRun, Alive, Exists
<1>4. PICK t \in Scans : scans[t].pid = scans[s].peer
  BY <1>1, <1>2, <1>3 DEF ProbesCleanUp, Plain, Excused
<1>5. Active(s) /\ Active(t)
  BY <1>1, <1>2, <1>4, NoPidIsNone DEF Active, TypeInv, ScanShape
<1>6. t = s
  BY <1>5 DEF FoundInv, ScansTakeTurns
<1>7. procs[scans[s].peer].exe = scans[s].exe
  BY <1>2, <1>3, <1>4, <1>6, NoPidIsNone DEF FoundInv, ProbeRunsItsExe
<1> QED
  BY <1>1, <1>7 DEF IsProvider

LEMMA AnsweredAreProvidersStep ==
    ASSUME TypeInv, ProbesCleanUp, FoundInv, [Next]_vars
    PROVE  AnsweredAreProviders'
<1>1. SUFFICES ASSUME Plain', NEW s \in Scans, scans'[s].at \in {"voices", "shutdown"}
               PROVE  IsProvider(scans'[s].exe)
  BY <1>1 DEF AnsweredAreProviders, IsProvider
<1>2. Plain /\ scans \in [Scans -> ScanRecord]
  BY <1>1, PastGrows DEF Plain, Excused, TypeInv, TypeOK, DiscoveryTypeOK, ScanRecord
<1>3. CASE scans'[s] = scans[s]
  BY <1>1, <1>2, <1>3 DEF FoundInv, AnsweredAreProviders
<1>4. ASSUME NEW t \in Scans, ScanSteps(t) PROVE IsProvider(scans'[s].exe)
  <2>1. t # s => scans'[s] = scans[s]
    BY <1>4, ScanMoves DEF TypeInv, TypeOK
  <2>2. CASE t = s
    <3>1. scans'[s].exe = scans[s].exe /\ (GetsInfo(s) \/ scans[s].at = "voices")
      BY <1>1, <1>4, <2>2, ScanEffects DEF Probing
    <3>2. GetsInfo(s) => IsProvider(scans[s].exe)
      BY <1>2, ProbesAnswerForThemselves
    <3>3. scans[s].at = "voices" => IsProvider(scans[s].exe)
      BY <1>2 DEF FoundInv, AnsweredAreProviders
    <3> QED
      BY <3>1, <3>2, <3>3
  <2> QED
    BY <1>3, <2>1, <2>2
<1>5. ASSUME NEW t \in Scans, ScanBegins(t) PROVE IsProvider(scans'[s].exe)
  <2>1. t # s
    BY <1>1, <1>2, <1>5 DEF ScanBegins, NoScan
  <2>2. scans'[s] = scans[s]
    BY <1>2, <1>5, <2>1 DEF ScanBegins
  <2> QED
    BY <1>3, <2>2
<1>6. ~Closes
  BY <1>1 DEF Closes, NoScan
<1> QED
  BY <1>3, <1>4, <1>5, <1>6, EveryScanMove DEF ScanStep

LEMMA ListedAreProvidersStep ==
    ASSUME TypeInv, FoundInv, [Next]_vars
    PROVE  ListedAreProviders'
<1>1. SUFFICES ASSUME Plain' PROVE \A i \in DOMAIN list' : IsProvider(list'[i].exe)
  BY <1>1 DEF ListedAreProviders, IsProvider
<1>2. Plain
  BY <1>1, PastGrows DEF Plain, Excused
<1>3. \A i \in DOMAIN list : IsProvider(list[i].exe)
  BY <1>2 DEF FoundInv, ListedAreProviders
<1>4. DOMAIN list = 1..Len(list) /\ Len(list) \in Nat /\ list \in Seq(ListEntry)
  BY ListEntries DEF TypeInv, TypeOK, DiscoveryTypeOK, ListEntry
<1>5. ASSUME NEW s \in Scans, Adds(s), list' = Append(list, Result(s))
      PROVE  \A i \in DOMAIN list' : IsProvider(list'[i].exe)
  <2>1. scans[s].at = "shutdown"
    BY <1>5 DEF Adds
  <2>2. IsProvider(Result(s).exe)
    BY <1>2, <2>1 DEF FoundInv, AnsweredAreProviders, Result
  <2>3. \A i \in DOMAIN list' : i = Len(list) + 1 \/ (i \in DOMAIN list /\ list'[i] = list[i])
    BY <1>4, <1>5
  <2>4. list'[Len(list) + 1] = Result(s)
    BY <1>4, <1>5
  <2> QED
    BY <1>3, <2>2, <2>3, <2>4
<1>6. CASE \E i \in DOMAIN list, on \in SUBSET Voices : list' = [list EXCEPT ![i] = [list[i] EXCEPT !.on = on]]
  <2>1. PICK i \in DOMAIN list, on \in SUBSET Voices : list' = [list EXCEPT ![i] = [list[i] EXCEPT !.on = on]]
    BY <1>6
  <2>2. list[i] \in ListEntry
    BY ListEntries DEF TypeInv, TypeOK, ListEntry
  <2>3. [list[i] EXCEPT !.on = on].exe = list[i].exe
    BY <2>2 DEF ListEntry
  <2>4. DOMAIN list' = DOMAIN list /\ list'[i] = [list[i] EXCEPT !.on = on]
        /\ \A j \in DOMAIN list : j # i => list'[j] = list[j]
    BY <2>1
  <2> QED
    BY <1>3, <2>3, <2>4
<1>7. CASE list' = list
  BY <1>3, <1>7
<1>8. CASE list' = <<>>
  BY <1>8
<1> QED
  BY <1>5, <1>6, <1>7, <1>8, EveryListMove DEF ListMoves

\* A token that a save has written names the executable the save works on.
LEMMA SavingKeepsProviders ==
    ASSUME TypeInv, SavesVoice, IsProvider(save.exe),
           \A v \in Voices : registry.tokens[v].whole => IsProvider(registry.tokens[v].exe)
    PROVE  \A v \in Voices : registry'.tokens[v].whole => IsProvider(registry'.tokens[v].exe)
<1>1. /\ registry = [tokens |-> registry.tokens, entry |-> registry.entry]
      /\ registry.tokens \in [Voices -> [has : BOOLEAN, exe : Exes \cup {NoExe}, whole : BOOLEAN]]
  BY DEF TypeInv, TypeOK, RegistryTypeOK
<1>2. NextVoice \in Voices
  BY NextVoiceIsThere DEF SavesVoice, TypeInv, TypeOK
<1>3. ASSUME NEW t, TokenIs(NextVoice, t), t.whole => IsProvider(t.exe)
      PROVE  \A v \in Voices : registry'.tokens[v].whole => IsProvider(registry'.tokens[v].exe)
  <2>1. registry'.tokens[NextVoice] = t /\ \A v \in Voices \ {NextVoice} : registry'.tokens[v] = registry.tokens[v]
    BY <1>1, <1>2, <1>3 DEF TokenIs
  <2> QED
    BY <1>3, <2>1
<1>4. CASE registry' = registry
  BY <1>4
<1>5. CASE RegisterVoiceToken(NextVoice, save.exe)
  <2> DEFINE old == registry.tokens[NextVoice]
  <2>1. CASE TokenIs(NextVoice, [has |-> TRUE, exe |-> save.exe, whole |-> TRUE])
    BY <1>3, <2>1
  <2>2. ASSUME NEW e \in {old.exe, save.exe},
               TokenIs(NextVoice, [has |-> TRUE, exe |-> e, whole |-> old.whole])
        PROVE  \A v \in Voices : registry'.tokens[v].whole => IsProvider(registry'.tokens[v].exe)
    <3>1. old.whole => IsProvider(e)
      BY <1>2, <2>2
    <3> QED
      BY <1>3, <2>2, <3>1
  <2> QED
    BY <1>4, <1>5, <2>1, <2>2 DEF RegisterVoiceToken
<1>6. CASE UnregisterVoiceToken(NextVoice)
  <2>1. CASE TokenIs(NextVoice, NoToken)
    BY <1>3, <2>1 DEF NoToken
  <2>2. CASE TokenIs(NextVoice, [registry.tokens[NextVoice] EXCEPT !.whole = FALSE])
    <3>1. [registry.tokens[NextVoice] EXCEPT !.whole = FALSE].whole = FALSE
      BY <1>1, <1>2
    <3> QED
      BY <1>3, <2>2, <3>1
  <2> QED
    BY <1>4, <1>6, <2>1, <2>2 DEF UnregisterVoiceToken
<1> QED
  BY <1>5, <1>6 DEF SavesVoice

LEMMA SavedAreProvidersStep ==
    ASSUME TypeInv, FoundInv, [Next]_vars
    PROVE  SavedAreProviders'
<1>1. SUFFICES ASSUME Plain'
               PROVE  /\ ui' = "saving" => IsProvider(save'.exe)
                      /\ \A v \in Voices : registry'.tokens[v].whole => IsProvider(registry'.tokens[v].exe)
  BY <1>1 DEF SavedAreProviders, IsProvider
<1>2. Plain
  BY <1>1, PastGrows DEF Plain, Excused
<1>3. /\ ui = "saving" => IsProvider(save.exe)
      /\ \A v \in Voices : registry.tokens[v].whole => IsProvider(registry.tokens[v].exe)
      /\ \A i \in DOMAIN list : IsProvider(list[i].exe)
  BY <1>2 DEF FoundInv, SavedAreProviders, ListedAreProviders
<1>4. CASE SavesVoice
  <2>1. ui = "saving" /\ save'.exe = save.exe
    BY <1>4 DEF SavesVoice, Saved, TypeInv, TypeOK
  <2> QED
    BY <1>3, <1>4, <2>1, SavingKeepsProviders
<1>5. CASE Saves
  <2>1. registry' = registry /\ \E i \in DOMAIN list : save'.exe = list[i].exe
    BY <1>5 DEF Saves, NoSave
  <2> QED
    BY <1>3, <2>1
<1>6. CASE WizardStep
  <2>1. PICK w \in DOMAIN Setups : SetupSteps(w) \/ SetupClicks(w) \/ Breaks(w)
    BY <1>6 DEF WizardStep
  <2>2. save' = save /\ (ui' = "saving" => ui = "saving")
    BY <1>6, WizardFrame DEF WizardStep, Opens
  <2>3. registry = [tokens |-> registry.tokens, entry |-> registry.entry]
        /\ registry.tokens \in [Voices -> [has : BOOLEAN, exe : Exes \cup {NoExe}, whole : BOOLEAN]]
    BY DEF TypeInv, TypeOK, RegistryTypeOK
  <2>4. CASE RemovesToken(w)
    <3>1. PICK v \in Voices : TokenIs(v, NoToken)
      BY <2>4 DEF RemovesToken, TypeInv, TypeOK, SetupTypeOK
    <3>2. registry'.tokens[v] = NoToken /\ \A u \in Voices \ {v} : registry'.tokens[u] = registry.tokens[u]
      BY <2>3, <3>1 DEF TokenIs
    <3>3. NoToken.whole = FALSE
      BY DEF NoToken
    <3> QED
      BY <1>3, <2>2, <3>2, <3>3
  <2>5. CASE ~RemovesToken(w)
    <3>1. registry'.tokens = registry.tokens
      BY <2>1, <2>3, <2>5 DEF SetupSteps, SetupClicks, Breaks, Copies, CopyFails, RegistersCom, Launches,
         LaunchFails, WritesEntry, RegisterUninstallInfo, RemovesEntry, RemoveUninstallEntry,
         UnregistersCom, RemovalThrows, SpawnsRemoval, SpawnFails, StartsSetup,
         StartsUninstall, Clicks, Leaves, Dismisses, Opens
    <3> QED
      BY <1>3, <2>2, <3>1
  <2> QED
    BY <2>4, <2>5
<1>7. CASE registry' = registry /\ (ui' = "saving" => ui = "saving" /\ save' = save)
  BY <1>3, <1>7
<1>8. CASE WindowStep
  BY <1>7, <1>8, WindowFrame DEF WindowStep, ManagerOpens, Opens, Refreshes, Closes, Configures, others
<1>9. CASE DialogStep
  BY <1>7, <1>9, DialogFrame DEF DialogStep, InstallerSteps, DialogClicks, Terminated, Extracts, ExtractFails,
     Extracted, AddsProvider, Browses, Terminates, TerminateFails, Installs, Cancels
<1>10. CASE SaveStep
  BY <1>4, <1>5, <1>7, <1>10 DEF SaveStep, Toggles, SaveEnds, SaveDismissed, others
<1>11. CASE ScanStep \/ ProcessStep \/ EngineStep \/ RemovalStep \/ UNCHANGED vars
  BY <1>7, <1>11, ScanFrame, ProcessFrame, EngineFrame DEF RemovalStep, Removes, vars, others
<1> QED
  BY <1>6, <1>8, <1>9, <1>10, <1>11, EveryStep

LEMMA FoundInvStep ==
    ASSUME TypeInv, ProbesCleanUp, FoundInv, [Next]_vars
    PROVE  FoundInv'
  BY PeersAreProcessesStep, ProbeRunsItsExeStep, ScansTakeTurnsStep, OnlyProbesRunStep,
     AnsweredAreProvidersStep, ListedAreProvidersStep, SavedAreProvidersStep DEF FoundInv

LEMMA DiscoveryInit ==
    ASSUME Init
    PROVE  ListDistinct /\ ProbesCleanUp /\ FoundInv
<1>1. PICK plan \in Plans :
         /\ registry = [tokens |-> [v \in Voices |-> IF v \in plan.voices THEN TokenOf(v) ELSE NoToken],
                        entry |-> [version |-> plan.installed, located |-> plan.installed > 0]]
         /\ procs = [p \in Pids |-> NoProcess] /\ scans = [s \in Scans |-> NoScan]
         /\ list = <<>> /\ ui = "closed"
  BY DEF Init
<1>2. /\ \A s \in Scans : scans[s].at = "off" /\ scans[s].pid = NoPid
      /\ \A pid \in Pids : procs[pid].life = "none"
  BY <1>1 DEF NoScan, NoProcess
<1>3. ListDistinct
  BY <1>1, <1>2 DEF ListDistinct, Listed, Probing
<1>4. ProbesCleanUp /\ ScansTakeTurns /\ OnlyProbesRun /\ PeersAreProcesses /\ ProbeRunsItsExe
      /\ AnsweredAreProviders
  BY <1>2 DEF ProbesCleanUp, Alive, ScansTakeTurns, Active, OnlyProbesRun, Exists, PeersAreProcesses,
     ProbeRunsItsExe, AnsweredAreProviders
<1>5. ListedAreProviders
  BY <1>1 DEF ListedAreProviders
<1>6. ASSUME NEW v \in Voices, registry.tokens[v].whole PROVE IsProvider(registry.tokens[v].exe)
  <2>1. v \in plan.voices /\ registry.tokens[v] = TokenOf(v)
    BY <1>1, <1>6 DEF NoToken
  <2>2. \E e \in Exes : ProviderOf[e] = Owner[v] /\ Answers[e] # "none"
    BY <2>1, PlansAssumption
  <2>3. Answers[TokenOf(v).exe] # "none"
    BY <2>2 DEF TokenOf
  <2> QED
    BY <2>1, <2>3 DEF IsProvider
<1>7. SavedAreProviders
  BY <1>1, <1>6 DEF SavedAreProviders
<1> QED
  BY <1>3, <1>4, <1>5, <1>7 DEF FoundInv

\* MainWindow.xaml.cs:85 and ProviderDiscovery.cs:52 and :137, for every number
\* of scans, processes and executables: an executable is listed twice only if
\* two scans probed it at once, what a probe starts is held by its scan until
\* it is killed, and only executables that answer get into the list and from
\* there into tokens, while scans take turns and nobody else starts providers.
THEOREM DiscoverySoundHolds == Spec => []DiscoverySound
<1>1. TypeInv /\ ListDistinct /\ ProbesCleanUp /\ FoundInv => DiscoverySound
  <2>1. ASSUME ListDistinct PROVE ListedTwiceOnlyIfProbedTwice
    BY <2>1 DEF ListDistinct, ListedTwiceOnlyIfProbedTwice, Excused
  <2>2. ASSUME FoundInv PROVE OnlyProvidersAreVoices
    BY <2>2 DEF FoundInv, ListedAreProviders, SavedAreProviders, Plain, IsProvider, OnlyProvidersAreVoices
  <2> QED
    BY <2>1, <2>2 DEF TypeInv, DiscoverySound
<1> QED
  BY <1>1, DiscoveryInit, ListDistinctStep, ProbesCleanUpStep, FoundInvStep, TypeInvHolds, PTL DEF Spec
=============================================================================
