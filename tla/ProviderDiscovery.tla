-------------------------- MODULE ProviderDiscovery -------------------------
(***************************************************************************)
(* ProviderDiscovery.cs, and the scans of MainWindow.xaml.cs that call it. *)
(* A scan runs on the UI thread between two awaits; while it awaits, other *)
(* handlers run, and another scan may begin.  Providers are processes that *)
(* own the control pipe of their directory's provider id, whoever started  *)
(* them; engines use the same pipe.                                        *)
(***************************************************************************)
EXTENDS AdapterRegistry, Sequences, SequencesExt

CONSTANTS
    ProviderOf,     \* the provider id of the manifest beside each executable
    Answers,        \* what an executable does with a client of its control
                    \* pipe only: "control" answers it, "paired" (the mock
                    \* provider) waits for its audio pipe first, "none" has
                    \* no pipe
    Owner,          \* the provider of each voice
    Pids, Engines, Scans

ASSUME DiscoveryAssumption ==
    /\ Answers \in [Exes -> {"control", "paired", "none"}]
    /\ Pids \subseteq Nat \ {0}

VARIABLES
    disk,           \* version of each executable below providers, 0 if missing
    procs,          \* processes of providers
    host,           \* the process that serves each engine, 0 if none
    scans,          \* the calls of ScanProvidersAsync
    list,           \* _providers
    ui              \* what the UI thread of the manager is doing

discoveryVars == <<disk, procs, host, scans, list, ui>>

NoPid == 0

NoProcess == [exe |-> NoExe, by |-> "nobody", life |-> "none", fresh |-> FALSE]

NoScan == [at |-> "off", exe |-> NoExe, pid |-> NoPid, peer |-> NoPid, voices |-> {}]

ScanPlace == {"off", "next", "manifest", "connect", "info", "voices", "shutdown", "ended"}

DiscoveryTypeOK ==
    /\ disk \in [Exes -> Versions]
    /\ procs \in [Pids -> [exe : Exes \cup {NoExe}, by : {"nobody", "probe", "engine", "user"},
                           life : {"none", "alive", "dying"}, fresh : BOOLEAN]]
    /\ host \in [Engines -> Pids \cup {NoPid}]
    /\ scans \in [Scans -> [at : ScanPlace, exe : Exes \cup {NoExe}, pid : Pids \cup {NoPid},
                            peer : Pids \cup {NoPid}, voices : SUBSET Voices]]
    /\ list \in Seq([exe : Exes, voices : SUBSET Voices, on : SUBSET Voices])
    /\ ui \in {"closed", "free", "dialog", "killing", "extracting", "saving", "saved"}
    /\ \A s \in Scans : scans[s].at \in {"off", "ended"} => scans[s].pid = NoPid

\* A modal dialog and a message box run the dispatcher, a handler does not.
UiRuns == ui \in {"free", "dialog", "saved"}

Active(s) == scans[s].at \notin {"off", "ended"}

Scanning == \E s \in Scans : Active(s)

Move(s, place) == scans' = [scans EXCEPT ![s].at = place]
-----------------------------------------------------------------------------
(* Processes.                                                              *)

Exists(pid) == procs[pid].life # "none"

Alive(pid) == procs[pid].life = "alive"

Running(exe) == {pid \in Pids : Exists(pid) /\ procs[pid].exe = exe}

\* A running image cannot be overwritten or deleted.
Locked(exe) == Running(exe) # {}

\* The mock accepts no second client while one holds half of its session.
Held(pid) == Answers[procs[pid].exe] = "paired" /\ \E s \in Scans : scans[s].peer = pid

\* Processes with a free instance of the control pipe of a provider id; the
\* pipe of a process that is being terminated may still be there.
Listening(provider) ==
    {pid \in Pids : /\ Exists(pid) /\ ProviderOf[procs[pid].exe] = provider
                    /\ Answers[procs[pid].exe] # "none" /\ ~Held(pid)}

\* Windows does not give an id to a new process while a handle of the old one is open.
Unused(pid) ==
    /\ ~Exists(pid)
    /\ \A s \in Scans : pid \notin {scans[s].pid, scans[s].peer}

Start(pid, exe, by) ==
    /\ Unused(pid) /\ \A other \in Pids : other < pid => ~Unused(other)
    /\ disk[exe] > 0
    /\ procs' = [procs EXCEPT ![pid] = [exe |-> exe, by |-> by, life |-> "alive", fresh |-> TRUE]]

Gone(pid) ==
    /\ procs' = [procs EXCEPT ![pid] = NoProcess]
    /\ host' = [e \in Engines |-> IF host[e] = pid THEN NoPid ELSE host[e]]

\* Kill(entireProcessTree) does not wait for the process to be gone.
Killed(ps, pid) == IF pid # NoPid /\ ps[pid].life = "alive" THEN [ps EXCEPT ![pid].life = "dying"] ELSE ps

Dies(pid) ==
    /\ procs[pid].life = "dying"
    /\ Gone(pid)
    /\ UNCHANGED <<disk, scans, list, ui, registry, left, past>>

Serves(pid) == \E e \in Engines : host[e] = pid

\* A provider that serves nobody exits when its idle time is over or when it
\* is asked to; a second process of a provider that allows one exits at once.
Exits(pid) ==
    /\ Alive(pid) /\ ~Serves(pid)
    /\ Answers[procs[pid].exe] = "control" => \A s \in Scans : scans[s].peer # pid
    /\ Gone(pid)
    /\ UNCHANGED <<disk, scans, list, ui, registry, left, past>>

Crashes(pid) ==
    /\ Alive(pid) /\ Spend("crash")
    /\ Gone(pid)
    /\ UNCHANGED <<disk, scans, list, ui, registry, past>>
-----------------------------------------------------------------------------
(* ScanProvidersAsync and TryAddProviderFromExeAsync.                      *)

ScanBegins(s) ==
    /\ scans[s].at \in {"off", "ended"}
    /\ scans' = [scans EXCEPT ![s] = [NoScan EXCEPT !.at = "next"]]
    /\ list' = <<>>
    /\ Note(IF Scanning THEN {"scansOverlapped"} ELSE {})

Refreshes ==
    /\ ui = "free" /\ Spend("refresh")
    /\ \E s \in Scans : ScanBegins(s)
    /\ UNCHANGED <<disk, procs, host, ui, registry>>

Listed(exe) == \E i \in DOMAIN list : list[i].exe = exe

\* The rest of the enumeration, without what is in the list already.
Rest(s) == {e \in Exes : e > scans[s].exe /\ disk[e] > 0 /\ ~Listed(e)}

Probed(exe) == \E s \in Scans : scans[s].exe = exe /\ scans[s].at \notin {"off", "next", "ended"}

Takes(s, exe) ==
    /\ scans' = [scans EXCEPT ![s].at = "manifest", ![s].exe = exe]
    /\ Note(IF Probed(exe) THEN {"probedTwice"} ELSE {})

ScanAdvances(s) ==
    /\ UiRuns /\ scans[s].at = "next"
    /\ IF Rest(s) # {} THEN Takes(s, CHOOSE e \in Rest(s) : \A f \in Rest(s) : e =< f)
       ELSE Move(s, "ended") /\ past' = past
    /\ UNCHANGED <<disk, procs, host, list, ui, registry, left>>

NextExe(s, ps) ==
    /\ scans' = [scans EXCEPT ![s] = [NoScan EXCEPT !.at = "next", !.exe = scans[s].exe]]
    /\ procs' = ps

\* The finally block: Kill may throw, which is swallowed, and then the process
\* runs on.
ProbeEnds(s) ==
    \/ left' = left /\ past' = past /\ NextExe(s, Killed(procs, scans[s].pid))
    \/ Throws("killFailed") /\ NextExe(s, procs)

\* The manifest has been read: the process is started and looked at once.
StartsProcess(s) ==
    /\ UiRuns /\ scans[s].at = "manifest"
    /\ \E pid \in Pids :
          /\ Start(pid, scans[s].exe, "probe")
          /\ scans' = [scans EXCEPT ![s].at = "connect", ![s].pid = pid]
    /\ UNCHANGED <<disk, host, list, ui, registry, left, past>>

\* The file is gone, Process.Start fails, which it does when Pids are used up,
\* or the process has exited by then because another one of the provider is there.
StartFails(s) ==
    /\ UiRuns /\ scans[s].at = "manifest"
    /\ \/ left' = left /\ (disk[scans[s].exe] = 0 \/ \A pid \in Pids : ~Unused(pid))
       \/ left' = left /\ Listening(ProviderOf[scans[s].exe]) # {}
       \/ Spend("fault")
    /\ NextExe(s, procs)
    /\ UNCHANGED <<disk, host, list, ui, registry, past>>

Connects(s, pid) ==
    /\ UiRuns /\ scans[s].at = "connect"
    /\ pid \in Listening(ProviderOf[scans[s].exe])
    /\ scans' = [scans EXCEPT ![s].at = "info", ![s].peer = pid]
    /\ UNCHANGED <<disk, procs, host, list, ui, registry, left, past>>

Replied(s) == Alive(scans[s].peer) /\ Answers[procs[scans[s].peer].exe] = "control"

GetsInfo(s) ==
    /\ UiRuns /\ scans[s].at = "info" /\ Replied(s)
    /\ Move(s, "voices")
    /\ UNCHANGED <<disk, procs, host, list, ui, registry, left, past>>

GetsVoices(s) ==
    /\ UiRuns /\ scans[s].at = "voices" /\ Replied(s)
    /\ scans' = [scans EXCEPT ![s].at = "shutdown",
                              ![s].voices = {v \in Voices : Owner[v] = ProviderOf[scans[s].exe]}]
    /\ UNCHANGED <<disk, procs, host, list, ui, registry, left, past>>

Lost(s) == ~Alive(scans[s].peer)

\* The end of the pipe reads as an empty reply, which has no voices; the
\* exception of the shutdown command that follows is swallowed.
VoicesLost(s) ==
    /\ UiRuns /\ scans[s].at = "voices" /\ Lost(s)
    /\ Move(s, "shutdown")
    /\ UNCHANGED <<disk, procs, host, list, ui, registry, left, past>>

\* Mutant: connecting has no time limit.
ProbeFailsConnected(s) ==
    /\ UiRuns
    /\ \/ scans[s].at \in {"info", "voices"} /\ Lost(s) /\ left' = left
       \/ scans[s].at \in {"info", "voices"} /\ Replied(s) /\ Spend("fault")
    /\ NextExe(s, Killed(procs, scans[s].pid))
    /\ UNCHANGED <<disk, host, list, ui, registry, past>>

\* Connecting times out, a write to a provider that is gone throws, or a
\* reply is not JSON: the finally block kills the process all the same.
ProbeFails(s) ==
    /\ UiRuns
    /\ \/ scans[s].at = "connect" /\ ProbeEnds(s)
       \/ scans[s].at \in {"info", "voices"} /\ Lost(s) /\ ProbeEnds(s)
       \/ /\ scans[s].at \in {"info", "voices"} /\ Replied(s)
          /\ Spend("fault") /\ past' = past
          /\ NextExe(s, Killed(procs, scans[s].pid))
    /\ UNCHANGED <<disk, host, list, ui, registry>>

\* Mutant: only a probe that fails kills its process.
AddsUnkilled(s) ==
    /\ UiRuns /\ scans[s].at = "shutdown"
    /\ NextExe(s, procs)
    /\ list' = Append(list, [exe |-> scans[s].exe, voices |-> scans[s].voices,
                             on |-> {v \in scans[s].voices : IsVoiceTokenRegistered(v)}])
    /\ UNCHANGED <<disk, host, ui, registry, left, past>>

\* The result: kill the process, read which voices are registered, add to
\* the list, which may have changed since the scan looked at it.
Adds(s) ==
    /\ UiRuns /\ scans[s].at = "shutdown"
    /\ ProbeEnds(s)
    /\ list' = Append(list, [exe |-> scans[s].exe, voices |-> scans[s].voices,
                             on |-> {v \in scans[s].voices : IsVoiceTokenRegistered(v)}])
    /\ UNCHANGED <<disk, host, ui, registry>>

\* ReadLineUtf8Async has no time limit: GetsInfo and GetsVoices are up to the
\* provider, and the rest is what the scan does by itself.
ScanGoesOn(s) ==
    \/ ScanAdvances(s) \/ StartsProcess(s) \/ StartFails(s)
    \/ \E pid \in Pids : Connects(s, pid)
    \/ VoicesLost(s) \/ ProbeFails(s) \/ Adds(s)

ScanIsAnswered(s) == GetsInfo(s) \/ GetsVoices(s)

ScanSteps(s) == ScanGoesOn(s) \/ ScanIsAnswered(s)
-----------------------------------------------------------------------------
(* The window opens, closes, and starts a provider's own configuration.    *)

Opens ==
    /\ ui = "closed" /\ ui' = "free"
    /\ \E s \in Scans : ScanBegins(s)
    /\ UNCHANGED <<disk, procs, host, registry>>

\* The awaits of a scan never continue: its process is nobody's.
Closes ==
    /\ ui = "free" /\ Spend("close") /\ ui' = "closed"
    /\ scans' = [s \in Scans |-> NoScan]
    /\ list' = <<>>
    /\ Note(IF \E s \in Scans : scans[s].pid # NoPid THEN {"closedInProbe"} ELSE {})
    /\ UNCHANGED <<disk, procs, host, registry>>

Configures ==
    /\ ui = "free" /\ Spend("configure")
    /\ \E i \in DOMAIN list, pid \in Pids : Start(pid, list[i].exe, "user")
    /\ Note({"configured"})
    /\ UNCHANGED <<disk, host, scans, list, ui, registry>>
=============================================================================
