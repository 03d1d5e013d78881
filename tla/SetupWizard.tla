---------------------------- MODULE SetupWizard -----------------------------
(***************************************************************************)
(* App.xaml.cs and InstallerWindow.xaml.cs: setup processes that install,  *)
(* upgrade or uninstall the adapter in Program Files.  The version that is *)
(* installed is looked at when a setup starts, and acted on when the user  *)
(* clicks.  Uninstalling leaves the removal of the directory to a command  *)
(* that runs two seconds later.  A setup has its CoreEngine.dll beside it; *)
(* without it nothing starts.                                              *)
(***************************************************************************)
EXTENDS AddProviderWindow

CONSTANT Setups     \* setup processes: [version, uninstall]

ASSUME SetupsAssumption ==
    \A w \in DOMAIN Setups : Setups[w] \in [version : Versions \ {0}, uninstall : BOOLEAN]

VARIABLES
    setup,          \* where each stands, its mode, what is still to copy or
                    \* to remove
    target,         \* version of CoreEngine.dll and of SapiManager.exe, 0 if missing
    com,            \* CoreEngine.dll is registered with COM
    removal         \* the command that deletes the directory is pending

setupVars == <<setup, target, com, removal>>

Files == {"dll", "app"}

NoSetup == [at |-> "off", mode |-> "none", files |-> {}, tokens |-> {}]

SetupPlace == {"off", "window", "copy", "com", "entry", "told",
               "uncom", "unentry", "untoken", "unfile", "untold", "closed"}

SetupTypeOK ==
    /\ setup \in [DOMAIN Setups -> [at : SetupPlace, mode : {"none", "Install", "Upgrade", "Uninstall"},
                                    files : SUBSET Files, tokens : SUBSET Voices]]
    /\ target \in [Files -> Versions]
    /\ com \in BOOLEAN /\ removal \in BOOLEAN

Working(w) == setup[w].at \in {"copy", "com", "entry"}

Removing(w) == setup[w].at \in {"uncom", "unentry", "untoken", "unfile", "untold"}

Step(w, place) == setup' = [setup EXCEPT ![w].at = place]

managerVars == <<disk, procs, host, scans, list, ui, dialog>>

\* CoreEngine.dll is loaded where an engine is, SapiManager.exe by the window
\* and by an uninstaller, which is started from where it is installed.
Used(file) ==
    IF file = "dll" THEN \E e \in Engines : host[e] # NoPid
    ELSE ui # "closed" \/ \E w \in DOMAIN Setups : setup[w].mode = "Uninstall" /\ setup[w].at # "closed"
-----------------------------------------------------------------------------
(* OnStartup.                                                              *)

\* The same version is installed again.  An older one says so and ends.
ModeOf(version) ==
    CASE registry.entry.version \in {0, version} -> "Install"
      [] registry.entry.version > version -> "none"
      [] OTHER -> "Upgrade"

StartsSetup(w) ==
    /\ setup[w].at = "off" /\ ~Setups[w].uninstall
    /\ LET mode == ModeOf(Setups[w].version) IN
       setup' = [setup EXCEPT ![w].at = IF mode = "none" THEN "closed" ELSE "window",
                              ![w].mode = mode]
    /\ UNCHANGED <<managerVars, registry, left, past, target, com, removal>>

\* From the UninstallString of Add/Remove Programs.
StartsUninstall(w) ==
    /\ setup[w].at = "off" /\ Setups[w].uninstall
    /\ registry.entry.version # 0 /\ target["app"] > 0
    /\ setup' = [setup EXCEPT ![w].at = "window", ![w].mode = "Uninstall"]
    /\ UNCHANGED <<managerVars, registry, left, past, target, com, removal>>

\* Another setup is at work when this one is clicked.  That one has worked since
\* this one was opened does not count.
Overlaps(w) ==
    removal \/ \E other \in DOMAIN Setups \ {w} : Working(other) \/ Removing(other)

\* Mutant: the uninstaller leaves CoreEngine.dll registered.
ClicksKeepingCom(w) ==
    /\ setup[w].at = "window" /\ Spend("click")
    /\ setup' = [setup EXCEPT ![w].at = IF setup[w].mode # "Uninstall" THEN "copy" ELSE "unentry",
                              ![w].files = IF setup[w].mode = "Uninstall" THEN {} ELSE Files]
    /\ Note((IF Overlaps(w) THEN {"setupsOverlapped"} ELSE {})
            \cup (IF setup[w].mode # "Uninstall" THEN {}
                  ELSE IF ui = "saving" THEN {"uninstalled", "savedLate"} ELSE {"uninstalled"}))
    /\ UNCHANGED <<managerVars, registry, target, com, removal>>

\* The mode is that of the opening: what is installed is not looked at again.
Clicks(w) ==
    /\ setup[w].at = "window" /\ Spend("click")
    /\ setup' = [setup EXCEPT ![w].at = IF setup[w].mode # "Uninstall" THEN "copy"
                                        ELSE IF target["dll"] > 0 THEN "uncom" ELSE "unentry",
                              ![w].files = IF setup[w].mode = "Uninstall" THEN {} ELSE Files]
    /\ Note((IF Overlaps(w) THEN {"setupsOverlapped"} ELSE {})
            \cup (IF setup[w].mode # "Uninstall" THEN {}
                  ELSE IF ui = "saving" THEN {"uninstalled", "savedLate"} ELSE {"uninstalled"}))
    /\ UNCHANGED <<managerVars, registry, target, com, removal>>

Leaves(w) ==
    /\ setup[w].at = "window"
    /\ Step(w, "closed")
    /\ UNCHANGED <<managerVars, registry, left, past, target, com, removal>>
-----------------------------------------------------------------------------
(* PerformInstall.                                                         *)

\* Mutant: a file that is in use is passed over.
CopiesPastLocks(w) ==
    /\ setup[w].at = "copy"
    /\ \E f \in setup[w].files :
          /\ target' = [target EXCEPT ![f] = IF Used(f) THEN @ ELSE Setups[w].version]
          /\ setup' = [setup EXCEPT ![w].files = @ \ {f},
                                    ![w].at = IF setup[w].files = {f} THEN "com" ELSE "copy"]
    /\ UNCHANGED <<managerVars, registry, left, past, com, removal>>

Copies(w) ==
    /\ setup[w].at = "copy"
    /\ \E f \in setup[w].files :
          /\ ~Used(f)
          /\ target' = [target EXCEPT ![f] = Setups[w].version]
          /\ setup' = [setup EXCEPT ![w].files = @ \ {f},
                                    ![w].at = IF setup[w].files = {f} THEN "com" ELSE "copy"]
    /\ UNCHANGED <<managerVars, registry, left, past, com, removal>>

\* File.Copy throws: the buttons are enabled again.
CopyFails(w) ==
    /\ setup[w].at = "copy"
    /\ \/ left' = left /\ \E f \in setup[w].files : Used(f)
       \/ Spend("fault")
    /\ Note({"copyFailed"})
    /\ setup' = [setup EXCEPT ![w].at = "window", ![w].files = {}]
    /\ UNCHANGED <<managerVars, registry, target, com, removal>>

\* The result of RegisterComDll is not looked at, nor is that of the entry.
RegistersCom(w) ==
    /\ setup[w].at = "com"
    /\ \/ Works /\ com' = (com \/ target["dll"] > 0)
       \/ Throws("comFailed") /\ com' = com
    /\ Step(w, "entry")
    /\ UNCHANGED <<managerVars, registry, target, removal>>

WritesEntry(w) ==
    /\ setup[w].at = "entry"
    /\ RegisterUninstallInfo(Setups[w].version)
    /\ Step(w, "told")
    /\ UNCHANGED <<managerVars, target, com, removal>>

\* The installed application is started: it shows the main window if it finds
\* itself installed, and another setup window, not followed here, if not.
Launches(w) ==
    /\ setup[w].at = "told" /\ target["app"] > 0
    /\ Step(w, "closed") /\ left' = left
    /\ IF registry.entry.located /\ ui = "closed" THEN Opens /\ UNCHANGED dialog
       ELSE past' = past /\ UNCHANGED <<managerVars, registry>>
    /\ UNCHANGED <<target, com, removal>>

\* There is nothing to start any more.
LaunchFails(w) ==
    /\ setup[w].at = "told" /\ target["app"] = 0
    /\ Step(w, "window")
    /\ UNCHANGED <<managerVars, registry, left, past, target, com, removal>>

\* The process of a setup ends in the middle of its work.
Breaks(w) ==
    /\ Working(w) \/ Removing(w)
    /\ Spend("break") /\ Note({"setupBroken"})
    /\ Step(w, "closed")
    /\ UNCHANGED <<managerVars, registry, target, com, removal>>
-----------------------------------------------------------------------------
(* PerformUninstall: no result is looked at, and success is always told.   *)

UnregistersCom(w) ==
    /\ setup[w].at = "uncom"
    /\ \/ Works /\ com' = FALSE
       \/ Throws("comFailed") /\ com' = com
    /\ Step(w, "unentry")
    /\ UNCHANGED <<managerVars, registry, target, removal>>

\* RemoveAllAdapterRegistryKeys: the entry first, then the tokens there are.
RemovesEntry(w) ==
    /\ setup[w].at = "unentry" /\ Works
    /\ RemoveUninstallEntry
    /\ setup' = [setup EXCEPT ![w].at = "untoken",
                              ![w].tokens = {v \in Voices : IsVoiceTokenRegistered(v)}]
    /\ UNCHANGED <<managerVars, target, com, removal>>

RemovesToken(w) ==
    /\ setup[w].at = "untoken" /\ setup[w].tokens # {} /\ Works
    /\ \E v \in setup[w].tokens :
          /\ setup' = [setup EXCEPT ![w].tokens = @ \ {v}]
          /\ TokenIs(v, NoToken)
    /\ UNCHANGED <<managerVars, target, com, removal>>

\* An exception anywhere in it is swallowed and the rest is left undone.
RemovalThrows(w) ==
    /\ setup[w].at \in {"unentry", "untoken"}
    /\ Throws("registryFailed")
    /\ setup' = [setup EXCEPT ![w].at = "unfile", ![w].tokens = {}]
    /\ UNCHANGED <<managerVars, registry, target, com, removal>>

SpawnsRemoval(w) ==
    /\ \/ setup[w].at = "untoken" /\ setup[w].tokens = {}
       \/ setup[w].at = "unfile"
    /\ Step(w, "untold") /\ removal' = TRUE
    /\ UNCHANGED <<managerVars, registry, left, past, target, com>>

\* cmd.exe does not start: an exception that is told, the buttons are back.
SpawnFails(w) ==
    /\ \/ setup[w].at = "untoken" /\ setup[w].tokens = {}
       \/ setup[w].at = "unfile"
    /\ Throws("spawnFailed")
    /\ Step(w, "window")
    /\ UNCHANGED <<managerVars, registry, target, com, removal>>

\* The message box is answered.
Dismisses(w) ==
    /\ setup[w].at = "untold"
    /\ Step(w, "closed")
    /\ UNCHANGED <<managerVars, registry, left, past, target, com, removal>>

\* rmdir /s deletes what is not in use, the provider packages included.
Removes ==
    /\ removal /\ removal' = FALSE
    /\ target' = [f \in Files |-> IF Used(f) THEN target[f] ELSE 0]
    /\ disk' = [e \in Exes |-> IF Locked(e) THEN disk[e] ELSE 0]
    /\ Note(IF \E f \in Files : target'[f] # 0 \/ \E e \in Exes : disk'[e] # 0
            THEN {"leftovers"} ELSE {})
    /\ UNCHANGED <<procs, host, scans, list, ui, dialog, registry, left, setup, com>>

SetupSteps(w) ==
    \/ Copies(w) \/ CopyFails(w) \/ RegistersCom(w) \/ WritesEntry(w)
    \/ Launches(w) \/ LaunchFails(w)
    \/ UnregistersCom(w) \/ RemovesEntry(w) \/ RemovesToken(w) \/ RemovalThrows(w)
    \/ SpawnsRemoval(w) \/ SpawnFails(w)

SetupClicks(w) == StartsSetup(w) \/ StartsUninstall(w) \/ Clicks(w) \/ Leaves(w) \/ Dismisses(w)
=============================================================================
