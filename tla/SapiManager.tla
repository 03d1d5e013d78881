----------------------------- MODULE SapiManager ----------------------------
(***************************************************************************)
(* The management application with what shares its state: the voice list   *)
(* of MainWindow.xaml.cs and the registry it is saved to, the dialog that  *)
(* installs providers, setups of other versions, and engines of running    *)
(* applications, which start and use the same providers.                   *)
(***************************************************************************)
EXTENDS SetupWizard

VARIABLE
    save            \* BtnSaveVoices_Click: the entry it works on, the voices
                    \* it has not reached, and failCount

vars == <<registry, left, past, disk, procs, host, scans, list, ui, dialog,
          setup, target, com, removal, save>>

NoSave == [exe |-> NoExe, on |-> {}, todo |-> {}, done |-> {}, fails |-> 0]

TypeOK ==
    /\ RegistryTypeOK /\ DiscoveryTypeOK /\ DialogTypeOK /\ SetupTypeOK
    /\ save \in [exe : Exes \cup {NoExe}, on : SUBSET Voices, todo : SUBSET Voices,
                 done : SUBSET Voices, fails : 0..Cardinality(Voices)]

\* A voice that was saved from the window before.
TokenOf(v) ==
    [has |-> TRUE, whole |-> TRUE,
     exe |-> CHOOSE e \in Exes : ProviderOf[e] = Owner[v] /\ Answers[e] # "none"]

\* A plan begins with packages that are whole, and with voices a provider has.
ASSUME PlansAssumption ==
    \A plan \in Plans :
       /\ plan.left \in [Chances -> Nat]
       /\ plan.installed \in Versions
       /\ plan.disk \in [Exes -> Versions]
       /\ \A e, f \in Exes : ProviderOf[e] = ProviderOf[f] => plan.disk[e] = plan.disk[f]
       /\ \A v \in Voices \cap plan.voices : \E e \in Exes : ProviderOf[e] = Owner[v] /\ Answers[e] # "none"

Init ==
    \E plan \in Plans :
       /\ left = plan.left
       /\ registry = [tokens |-> [v \in Voices |-> IF v \in plan.voices THEN TokenOf(v) ELSE NoToken],
                      entry |-> [version |-> plan.installed, located |-> plan.installed > 0]]
       /\ past = {}
       /\ disk = plan.disk
       /\ procs = [p \in Pids |-> NoProcess]
       /\ host = [e \in Engines |-> NoPid]
       /\ scans = [s \in Scans |-> NoScan]
       /\ list = <<>>
       /\ ui = "closed"
       /\ dialog = NoDialog
       /\ setup = [w \in DOMAIN Setups |-> [NoSetup EXCEPT !.at = IF w \in plan.setups THEN "off" ELSE "closed"]]
       /\ target = [f \in Files |-> plan.installed]
       /\ com = (plan.installed > 0)
       /\ removal = FALSE
       /\ save = NoSave

others == <<dialog, setup, target, com, removal, save>>
-----------------------------------------------------------------------------
(* Voices.                                                                 *)

\* The check box of a voice, bound to IsRegistered.
Toggles ==
    /\ ui = "free" /\ Spend("toggle")
    /\ \E i \in DOMAIN list : \E v \in list[i].voices :
          list' = [list EXCEPT ![i].on = IF v \in @ THEN @ \ {v} ELSE @ \cup {v}]
    /\ UNCHANGED <<others, registry, past, disk, procs, host, scans, ui>>

Uninstalling == \E w \in DOMAIN Setups : Removing(w)

Saves ==
    /\ ui = "free" /\ Spend("save") /\ ui' = "saving"
    /\ \E i \in DOMAIN list :
          save' = [NoSave EXCEPT !.exe = list[i].exe, !.on = list[i].on, !.todo = list[i].voices]
    /\ Note(IF Uninstalling THEN {"savedLate"} ELSE {})
    /\ UNCHANGED <<registry, disk, procs, host, scans, list, dialog,
                   setup, target, com, removal>>

NextVoice == CHOOSE v \in save.todo : TRUE

Saved(fails) ==
    save' = [save EXCEPT !.todo = @ \ {NextVoice}, !.done = @ \cup {NextVoice}, !.fails = @ + fails]

\* Mutant: only a voice that cannot be registered counts as failed.
SavesVoiceLeniently ==
    /\ ui = "saving" /\ save.todo # {}
    /\ IF NextVoice \in save.on THEN RegisterVoiceToken(NextVoice, save.exe)
                                ELSE UnregisterVoiceToken(NextVoice)
    /\ Saved(IF left' = left \/ NextVoice \notin save.on THEN 0 ELSE 1)
    /\ UNCHANGED <<disk, procs, host, scans, list, ui, dialog, setup, target, com, removal>>

SavesVoice ==
    /\ ui = "saving" /\ save.todo # {}
    /\ IF NextVoice \in save.on THEN RegisterVoiceToken(NextVoice, save.exe)
                                ELSE UnregisterVoiceToken(NextVoice)
    /\ Saved(IF left' = left THEN 0 ELSE 1)
    /\ UNCHANGED <<disk, procs, host, scans, list, ui, dialog, setup, target, com, removal>>

SaveEnds ==
    /\ ui = "saving" /\ save.todo = {} /\ ui' = "saved"
    /\ UNCHANGED <<registry, left, past, disk, procs, host, scans, list, others>>

SaveDismissed ==
    /\ ui = "saved" /\ ui' = "free" /\ save' = NoSave
    /\ UNCHANGED <<registry, left, past, disk, procs, host, scans, list, dialog,
                   setup, target, com, removal>>
-----------------------------------------------------------------------------
(* Engines: PipeClient::Connect, with the pipe name of the voice token.    *)

EngineConnects(e) ==
    /\ host[e] = NoPid /\ Spend("engine")
    /\ \E v \in Voices :
          /\ registry.tokens[v].whole
          /\ \E pid \in {p \in Listening(Owner[v]) : Alive(p)} : host' = [host EXCEPT ![e] = pid]
    /\ UNCHANGED <<others, registry, past, disk, procs, scans, list, ui>>

\* The pipe is not there: the executable of the token is started.
EngineLaunches ==
    /\ Spend("launch")
    /\ \E v \in Voices, pid \in Pids :
          /\ registry.tokens[v].whole
          /\ Listening(Owner[v]) = {}
          /\ Start(pid, registry.tokens[v].exe, "engine")
    /\ Note({"launched"})
    /\ UNCHANGED <<others, registry, disk, host, scans, list, ui>>

EngineLeaves(e) ==
    /\ host[e] # NoPid /\ host' = [host EXCEPT ![e] = NoPid]
    /\ UNCHANGED <<others, registry, left, past, disk, procs, scans, list, ui>>
-----------------------------------------------------------------------------
ManagerOpens ==
    /\ ui = "closed" /\ target["app"] > 0 /\ registry.entry.located
    /\ Spend("open") /\ Opens
    /\ UNCHANGED others

\* What the programs do without being asked again.
ProgramSteps ==
    \/ \E s \in Scans : ScanGoesOn(s) /\ UNCHANGED others
    \/ InstallerSteps /\ UNCHANGED <<setup, target, com, removal, save>>
    \/ SavesVoice \/ SaveEnds
    \/ \E w \in DOMAIN Setups : SetupSteps(w) /\ UNCHANGED save
    \/ Removes /\ UNCHANGED save

\* What providers do, or do not.
ProviderSteps ==
    \/ \E s \in Scans : ScanIsAnswered(s) /\ UNCHANGED others
    \/ \E pid \in Pids : (Dies(pid) \/ Exits(pid)) /\ UNCHANGED others

Environment ==
    \/ ManagerOpens
    \/ (Refreshes \/ Closes \/ Configures) /\ UNCHANGED others
    \/ DialogClicks /\ UNCHANGED <<setup, target, com, removal, save>>
    \/ Toggles \/ Saves \/ SaveDismissed
    \/ \E e \in Engines : EngineConnects(e) \/ EngineLeaves(e)
    \/ EngineLaunches
    \/ \E pid \in Pids : Crashes(pid) /\ UNCHANGED others
    \/ \E w \in DOMAIN Setups : (SetupClicks(w) \/ Breaks(w)) /\ UNCHANGED save

Next == ProgramSteps \/ ProviderSteps \/ Environment

Spec == Init /\ [][Next]_vars

\* The manager, the setups and the removal go on by themselves.  Providers need
\* not answer or exit, nothing has to fail, and users and engines may do nothing.
FairSpec == Spec /\ WF_vars(ProgramSteps /\ left' = left)
-----------------------------------------------------------------------------
(* Properties.                                                             *)

Excused(labels) == past \cap labels # {}

\* MainWindow.xaml.cs:85: an executable is in the list twice only when two
\* scans were probing it at the same time.
ListedTwiceOnlyIfProbedTwice ==
    (\E i, j \in DOMAIN list : i # j /\ list[i].exe = list[j].exe) => Excused({"probedTwice"})

\* ProviderDiscovery.cs:137: a process that a probe started is alive only
\* while the scan holds it, unless the window was closed meanwhile or Kill threw.
ProbesCleanUp ==
    \A pid \in Pids : Alive(pid) /\ procs[pid].by = "probe" =>
        \/ \E s \in Scans : scans[s].pid = pid
        \/ Excused({"closedInProbe", "killFailed"})

\* ProviderDiscovery.cs:52: the pipe name says nothing of the executable.  One
\* that is no provider gets into the list, and from there into a token an
\* engine starts, only while a provider of the same directory was running
\* for somebody else, or because a probe could not end it.
OnlyProvidersAreVoices ==
    \/ /\ \A i \in DOMAIN list : Answers[list[i].exe] # "none"
       /\ \A v \in Voices : registry.tokens[v].whole => Answers[registry.tokens[v].exe] # "none"
    \/ Excused({"scansOverlapped", "closedInProbe", "launched", "configured", "killFailed"})

\* What a scan finds is what is there, and what it started is gone after it.
DiscoverySound ==
    TypeOK /\ ListedTwiceOnlyIfProbedTwice /\ ProbesCleanUp /\ OnlyProvidersAreVoices

\* ProviderInstaller.cs:161: the files of a package are of one version unless
\* extracting it failed, a package without all of them was extracted over them,
\* or removing them left some; and when the executable of
\* a package is in use while it is extracted, its process has begun since the
\* inspection (AddProviderWindow.xaml.cs:107).
PackagesWhole ==
    /\ \/ \A e, f \in Exes : ProviderOf[e] = ProviderOf[f] => disk[e] = disk[f]
       \/ ui = "extracting"
       \/ Excused({"extractFailed", "incomplete", "leftovers"})
    /\ "lockKnown" \notin past

\* MainWindow.xaml.cs:242: voices that are reported as saved are in the
\* registry as the window showed them, unless an uninstaller is at work.
SavedMeansStored ==
    ui = "saved" /\ save.fails = 0 =>
        \/ \A v \in save.done : /\ registry.tokens[v].has <=> v \in save.on
                                /\ registry.tokens[v].has => registry.tokens[v].whole
        \/ Excused({"uninstalled"})

\* InstallerWindow.xaml.cs:151: when the uninstaller reports success no voice
\* is registered, unless the registry failed or the main window saved meanwhile.
UninstalledForgetsVoices ==
    (\E w \in DOMAIN Setups : setup[w].at = "untold") =>
        \/ \A v \in Voices : ~registry.tokens[v].has
        \/ Excused({"registryFailed", "savedLate"})

\* What the user is told of voices is what the registry holds.
VoicesAsReported == SavedMeansStored /\ UninstalledForgetsVoices

\* InstallerWindow.xaml.cs:103-127: between setups, the version in Add/Remove
\* Programs is the version of every file that is installed.
EntryMatchesFiles ==
    \/ registry.entry.version = 0
    \/ \A f \in Files : target[f] = registry.entry.version
    \/ \E w \in DOMAIN Setups : Working(w) \/ Removing(w)
    \/ Excused({"copyFailed", "setupBroken", "setupsOverlapped", "registryFailed"})

\* InstallerWindow.xaml.cs:117-127 and :157-173: between setups, an adapter that
\* has its entry is registered with COM, and what COM is told to load is there.
\* That setups were opened before the last one worked is no exception.
ComMatchesFiles ==
    \/ /\ registry.entry.version # 0 => com
       /\ com => target["dll"] # 0
    \/ \E w \in DOMAIN Setups : Working(w) \/ Removing(w)
    \/ Excused({"comFailed", "setupBroken", "setupsOverlapped", "registryFailed"})

\* provider_development.md:363: "discovery must never terminate a provider
\* that is currently serving a screen reader".
DiscoverySparesServing ==
    \A pid \in Pids : Serves(pid) => ~(procs[pid].by = "probe" /\ procs[pid].life = "dying")

\* The scan waits for the answer of a provider that lives.
Awaits(s) == scans[s].at \in {"info", "voices"} /\ Alive(scans[s].peer)

\* ProviderDiscovery.cs:146: a scan comes to an end or waits for ever for one
\* answer, which has no time limit.  Nothing else holds it up: no executable that
\* is no provider, no provider that is gone, no kill that failed, no other scan.
ScansEnd == \A s \in Scans : <>[](~Active(s) \/ Awaits(s))
=============================================================================
