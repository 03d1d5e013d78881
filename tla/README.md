# ModernSapiAdapter in TLA+

ModernSapiAdapter lets out-of-process speech providers serve Windows SAPI 5.
A COM in-process server, CoreEngine, implements `ISpTTSEngine`; for every
engine object it talks to a provider process over two named pipes, JSON
records on the control pipe and raw PCM on the audio pipe. SapiManager, a desktop
program, installs the adapter and its providers and registers their voices; the
retired first version, in `v1`, loaded its providers as DLLs. This directory
holds models of these parts, the TLC runs that check them on small instances,
and TLAPS proofs of what matters most about them, CoreEngine's request lifecycle
first, for instances of every size.

Paths below are relative to the repository root; `SpeechWorker.cpp` and its
siblings are in `CoreEngine/`.

## 1. Inventory

### Components, their state and their operations

| component | state | operations | hard behaviour |
|---|---|---|---|
| `CSapiEngine` | `m_config`, `m_pClient`, `m_pWorker`, `m_cpSite`, `m_activeSpeakId`, `m_speakIdCounter`; `m_speakMutex`, `m_siteMutex` | `SetObjectToken`, `Speak`, session creation and retirement, `OnAudioData`, `OnSpeechEvent`, destructor | SAPI is called with no mutex held; the site changes between calls; a session is retired and replaced inside `Speak` |
| `SpeechWorker` | `m_context` under `m_requestMutex`, `m_frameAssembler`, `m_bExit`, `m_faultPublicationStarted`, `m_faulted`, two threads | `Start`, `WaitUntilFinished`, `CancelAndDrain`, `Stop`, `AudioThreadProc`, `ControlThreadProc`, `EnterFaultedState`, destructor | four kinds of thread meet in one context; a terminal event and the audio it counts arrive on different pipes; a fault is found in one region and published in another; three threads may begin the same cancellation |
| `SpeechStatePolicy`, `PcmDeliveryPolicy`, `ControlEventPolicy` | none | the decisions the worker takes | boundaries (`=`, `>=`, `>`), generations, orders of checks |
| `PcmFrameAssembler` | `m_partialFrame`, `m_completedFrame` | `Process`, `Reset` | a frame split over reads; spans that point into its buffers |
| `PipeClient` | two pipe handles, the provider's process handle, the control line buffer, `m_controlWriteMutex` | `Connect`, `SendControlMessage`, `ReadControlMessage`, `ReadAudioChunk`, `Cancel` | overlapped completion racing its own timeout; a bounded start-up window; two engines launching one provider |
| providers (`docs/ipc_protocol.md`, `docs/provider_development.md`) | the active request, bytes committed | take `sapi_speak`, write frames, send boundaries, declare a total, acknowledge or ignore a cancel | they are other people's programs: crash, silence, wrong totals, duplicate or stray records |
| `MockProvider` | session count, idle timer, current speak task | accept sessions, speak, cancel, idle shutdown | cancel is by session and not by request; the handler of a cancel waits for a task that may wait for the client; idle shutdown against a new session |
| `DllEntryAdmission`, `dllmain.cpp` | entry count, open or closing | `DllGetClassObject`, `DllCanUnloadNow` | an entry that reopens the gate while an unload decision is on its way |
| `AsyncLogger` (debug) | queue, worker state | log, quiesce for unload, resume | resume that meets a worker which is still draining |
| `SapiManager` discovery | the list of providers; a process and a pipe per probe | scan, probe, refresh, configure, close | re-entrant scans; a probe that talks to whoever answers under the provider's name, and kills what it started |
| `SapiManager` installation | package files, `Program Files`, COM registration, the Add/Remove Programs entry, voice tokens | inspect, terminate, extract, copy, register, save voices, uninstall | a step that fails half way; files in use; what was checked at the opening and used at the click |
| `v1` engine and worker | the site, an abort flag, the provider's function pointers, a thread per `Speak` | `SetObjectToken`, `Speak`, `OnAudioData`, `OnSpeechEvent`, destructor | a call into a DLL whose callbacks may come late |
| `v1` Azure provider | the synthesizer pool, a stream handler per synthesizer | `ProviderSpeak`, acquire, attach, abandon, release; SDK callbacks | an abandoned synthesis whose callbacks are still under way; a busy pool |
| `v1` SSML parser | none | `Parse`, `ReverseMapOffset` | offsets behind inserted spaces, entities and tags |
| conversions (`AudioFormatUtils`, `StringUtils`, `SapiFragmentSerializer`, `JsonValue`) | none | parse and format | none between threads |

### How they interact

```
 SAPI host --Speak, GetActions--> CSapiEngine --Start/Wait/Cancel--> SpeechWorker
     ^                                |  ^                            |        |
     |  Write, AddEvents              |  +--OnAudioData, OnSpeechEvent+        |
     +--------------------------------+          (callbacks, no mutex)         |
                                                                               v
                                 provider <==== control pipe ====> PipeClient
                                          ===== audio pipe =====>
```

* `Speak` runs under `m_speakMutex`, publishes the request in the worker,
  writes `sapi_speak`, and then waits on a condition variable until the
  request is over; it polls `GetActions` in between, outside the mutex.
* The audio thread reads PCM, counts it and frames it under `m_requestMutex`,
  releases it, asks for admission before each span, calls `Write`, and goes
  back under the mutex to give the request its credit or to begin a
  cancellation that a refused write asks for.
* The control thread reads records, lets them act on the context under the
  mutex, and forwards some to SAPI after a second admission.
* Whoever finds a fault sets `faultPending` under the mutex and calls
  `EnterFaultedState` after leaving it: fault the request, publish, cancel the
  pending I/O.

### What makes each component correct

* Worker and engine: every `Speak` returns; `S_OK` means heard and told in
  full; a cancellation ends and leaves nothing behind; one cancel per request;
  a faulted session is never used again; the composite state stays one of the
  legal ones; an idle worker is usable.
* Frame assembler: whole frames out, less than a frame kept, nothing lost.
* Pipe client: a record is delivered whole and once whatever reads are cancelled;
  bytes of a cancelled read are still reported; both pipes are of one session.
* MockProvider: the totals it declares are those of the audio it sent; a request
  is cancelled only by its own cancel, or by one that CoreEngine sent too late; a
  cancelled task ends; a provider in a session is not shut down, and one without is.
* Entry gate: `DllCanUnloadNow` says `S_OK` only when no entry from before the
  closing is inside.
* Logger: an accepted message is written once and in order; drains and rejected
  unloads end, unless another client's entry takes the request for them back.
* SapiManager: what is listed answers as a provider, what a probe started ends,
  packages and installations are of one version, and the user is told the truth
  about voices.
* `v1`: a synthesizer has one user and a callback an owner; aborts return; a word
  is where the application has it.

`PROJECT.json` lists the hazards one by one, at the line where each bites, with
the properties that cover it.

## 2. Modules

```
SpeechStatePolicy  <- PcmDeliveryPolicy  <-----------------+
        ^                                                  |
        +---- ControlEventPolicy  <- ProviderContract  <- SpeechWorker <- SapiEngine <- MCSapiEngine
                     PcmFrameAssembler  <--+                                  |  ^
                                                       SpeakService <- - - - -+  SapiEngine_proofs
                                                                                        ^
                                             Delivery_proofs -> Contract_proofs --------+

ControlStreamBuffer <- ProviderPipes <- PipeClient <------------------- ProviderSession <- ProviderSession_proofs <- Conversation_proofs
                                     <- MockProvider <- MockSynthesis <-+
AsyncLogger <- DllUnload <- DllUnload_proofs
AdapterRegistry <- ProviderDiscovery <- AddProviderWindow <- SetupWizard <- SapiManager <- SapiManager_proofs
SapiSsmlParser, SpeechWorkerV1 <- AzureProvider <- SapiEngineV1 - - -> MockProviderV1 -> SpeechWorkerV1
                                                         ^
                                                  SapiEngineV1_proofs
```

An arrow points at the module that is extended, a broken one at a module that
is instantiated: `SapiEngine` is shown to implement `SpeakService`. Every
specification at the end of a chain has an `MC` module.

| module | code | what it holds |
|---|---|---|
| `SpeechStatePolicy` | `SpeechStatePolicy.cpp`, `SpeechWorkerTypes.h` | the request context as a record, its resets and transitions, and every decision on it |
| `PcmDeliveryPolicy` | `PcmDeliveryPolicy.cpp` | what to do with a chunk, a span, a finished batch, a possible boundary |
| `ControlEventPolicy` | `ControlEventPolicy.cpp`, `SpeechEventTypes.h`, `SpeechProtocolUtils.h` | what a control record does, whether it counts as progress, whether it may be forwarded |
| `PcmFrameAssembler` | `PcmFrameAssembler.cpp` | `Process` on a partial frame and a chunk |
| `ProviderContract` | how `PipeClient.cpp` is used; the protocol documents | the pipes as queues and the provider behind them (external) |
| `SpeechWorker` | `SpeechWorker.cpp` | the worker's regions and both threads |
| `SapiEngine` | `SapiEngine.cpp` | `Speak`, the session, the destructor, the direct caller; `Spec` and all properties |
| `SpeakService` | `SapiEngine.cpp`, from outside | what a caller may rely on: one call at a time, a number for every request, a request that ends for a reason, no return before its end |
| `ControlStreamBuffer` | `ControlStreamBuffer.h` | append, extract a line, compact |
| `ProviderPipes` | `PipeServer.cs` | the pairs of pipe instances and who holds which end |
| `PipeClient` | `PipeClient.cpp`, `ScopedOverlapped.h` | `Connect` of several clients; the two overlapped reads of one, thread and kernel; the line buffer; close |
| `MockProvider` | `Program.cs` (`Main`, `ProviderLifetime`), `PipeServer.cs` | processes, the offer of a pair, the idle timer, shutdown |
| `MockSynthesis` | `Program.cs` (`ProcessSessionLineAsync` and its handlers), `SynthesisEngine.cs` | the command loop and the speak task from await to await |
| `ProviderSession` | the two together | clients and provider processes; `Spec` and properties |
| `AsyncLogger` | `AsyncLogger.cpp` | `Log`, the worker, quiescence and resumption, region by region |
| `DllUnload` | `dllmain.cpp`, `DllEntryAdmission.cpp` | the entry points, the gate and the module lock, over the logger; `Spec` and properties |
| `AdapterRegistry` | `RegistryManager.cs` | tokens, the uninstall entry, and what the machine's plan allows |
| `ProviderDiscovery` | `ProviderDiscovery.cs`, `MainWindow.xaml.cs` | scans, probes and the processes they start |
| `AddProviderWindow` | `AddProviderWindow.xaml.cs`, `ProviderInstaller.cs` | inspect, terminate, extract |
| `SetupWizard` | `App.xaml.cs`, `InstallerWindow.xaml.cs`, `ComRegistrar.cs` | setups and the uninstaller, step by step |
| `SapiManager` | `MainWindow.xaml.cs`, `App.xaml.cs` | voices and their saving, engines beside it; `Spec` and properties |
| `SapiSsmlParser` | `v1/SapiSsmlParser.Cpp`, `SynthesizerPool.cpp` (`ReverseMapOffset`) | fragments to a document of tokens with an offset map, and back |
| `SpeechWorkerV1` | `v1/CoreEngine` | the engine's and the worker's side of a call, the callbacks |
| `MockProviderV1` | `v1/MockProvider` | the mock's `ProviderSpeak` |
| `AzureProvider` | `v1/AzureEmbeddedSpeechProvider` | the pool, `ProviderSpeak`, the SDK's callbacks, the detached stopper |
| `SapiEngineV1` | | engines over either provider; `Spec` and properties |
| `MC*` | | the values and plans the runs choose from |
| `*_proofs` | | the theorems |

Sections *State*, *Actions* and *The provider* are about `SapiEngine` and what it
extends; *The other specifications* follows them.

### State

`ctx` is `m_context` field by field; `generation` also stands for
`m_generationCounter`. `carry` is the assembler's partial frame.
`faultPublicationStarted`, `faultVisible` and `exit` are the three atomics.
Ticks are reduced to two facts the code distinguishes: the inactivity limit
has elapsed since the last progress, and the deadline of the current
cancellation has passed. `site` is `m_activeSpeakId`, with `m_cpSite` set
exactly when it is not 0.

A byte of audio is the number of the request it was synthesised for. That is
what lets a property say whose audio a site was given, whose bytes a credit
counts and what is still in a pipe. Frames have `BlockAlign` bytes, so a read
can split one.

The history variables (`heard`, `stray`, `told`, `outcome`, `aborted`,
`asked`, `lateSpans`, `promised`) record what happened outside the worker; no
guard reads them, except `promised`, which bounds the boundary events per
request.

### Actions

One action is one region under `m_requestMutex`, or one thing the code does
between two regions.

* A region never waits for anything but the mutex, and nothing in the model
  reads the context outside a region except through the atomics, which have
  variables and steps of their own; so a region is one step. This includes the
  call to `CheckTerminalBoundaryLocked`, the reset of the assembler and
  the notification at its end.
* A read of a pipe is one step with the region that consumes what was read.
  Between the two only the reader knows that bytes left the pipe. A reader
  that has noticed a failed read is at a place of its own, since `Cancel` can
  make a pending read fail while the pipe holds data.
* The calls to SAPI are two steps, the capture of the site under `m_siteMutex`
  and the call, since `Speak` can take the site away in between.
* `EnterFaultedState` is three steps, `FaultsRequest`, `PublishesFault` and
  `CancelsIo`, and any thread may be in it; `pending` is the time between the
  region that set `faultPending` and the call.
* The 250 ms time-out of a read is the `LeavesLoop` disjunct: a reader between
  two reads looks at `m_bExit`.
* `NextEvent` hands a record to `HandlesEvent`, whose effect on the context
  is taken in the same step as the decision to forward; the forwarding and the
  fault, if there is one, follow as steps, in the code's order.

`Speak`, `SetObjectToken` and the destructor exclude one another through
`m_speakMutex`, so one thread, `speak`, stands for all their callers. The
thread `purge` stands for a caller of `SpeechWorker::CancelAndDrain` or `Stop`
that is not `Speak`; it makes one call.

### The provider

`ProviderContract` lets a provider do what the protocol documents allow, in
any order: take a request when it has none, refuse a second, write frames as
far as the pipe has room, declare the total before, between or after the
frames, acknowledge a cancel that finds the request active and ignore one that
does not. The constant `Env` names what else may happen: the host aborts or
destroys the engine, SAPI refuses audio, a direct caller calls, the transport
or memory fails, time passes, a request fails, and twelve departures of the
provider from its contract.

### SpeakService

Seen from SAPI, a session is a request that is idle, speaking, cancelling or
faulted. `SpeakService` allows a call, a start with a number no request had, an
end that the provider declared, a cancellation, a fault, a stop, a new session
under a request that is not in use, and a return when the request is over.
`SapiEngine` maps to it with `Service == INSTANCE SpeakService WITH ...`: the
call in progress is a `speak` thread that is not idle, the phase is
`downstreamState`, the provider's word is `upstreamFinished`. Threads, pipes,
sites, the two halves of a fault, the frame assembler and the whole provider are
hidden: their steps stutter.

### The other specifications

`ProviderSession`. One client talks, another only connects. The two pipes are
arrays of pairs, and each `CreateFile`, `WaitForConnection` and `CloseHandle` is a
step, so that a client may take an end of each of two pairs. The kernel's part
of a read is a field of `io`: it completes, fails or is aborted by itself, before,
during or after the cancellation that the thread asks for. A control record is
one byte of text and its line ending, and a read takes any prefix; a buffer of
audio is two halves, so that a cancelled write may have been read in part. Each
`await` of the command loop and of the speak task is a place. CoreEngine begins a
cancellation under a mutex (`BeginsCancel`, which makes it `talk.pending`) and writes
the command later (`SendsCancel`); if the request has ended and another has been made
meanwhile, that one is in `talk.late`. A cancellation that begins after the terminal
record was read is left to `SapiEngine`: it waits for an answer the mock does not give,
and no request follows it in the session. The control pipe is created without buffers
(`PipeServer.cs:29-34`), and its writes have no cancellation token; the system may
keep a record nevertheless. So a plan says whether the pipe is `buffered`: if not, a
record can be written only while the client has a read pending for it (`Listens`), and
the writer comes back when it has been read.

`DllUnload`. Every region of the gate's mutex and of the logger's, every wait and
every notification is a step. The one condition variable of the logger is shared
by the worker and the unloading thread, and `notify_one` wakes either. A worker
is a number: a handle that is assigned while its worker can still be joined ends
the process (`crashed`), as `std::thread` would. Clients enter, log and leave at any
time; two of them are what can withdraw the stop request of a drain.

`SapiManager`. Files, tokens and entries carry the version or the executable they
came from. A scan is a sequence of awaits, and the windows' other handlers run
at each. What the user, other programs and failures do is bounded by a plan, a
record of how often each may happen. `past` is history: it holds the labels of
what the properties except (a failed copy, a `Kill` that threw, an incomplete package,
two setups at work at the same time). A setup that was opened before another one
worked is not such a label: it goes on with the mode it saw, as the code does. A
provider that is asked (`ProviderSteps`) answers, exits or stays silent.

`SapiEngineV1`. The host's thread, the worker and the SDK's callback thread of
each synthesizer are separate; a callback takes the handler's mutex for its whole
body, as in the code. A document is a sequence of tokens with the place each came
from and by how much the characters before it have grown (`shift`). What the speech SDK
does with a document is external: silence, words, sounds and bookmarks in the order of
its tokens. `told.flaws` notes what is not a matter of the two: that the site refused
audio, which `OnAudioData` reports and the Azure handler answers with 0 bytes, and that a
synthesizer went back to the pool while the SDK was still speaking (`leftover`: the
abort path could not create its thread), so that two requests are mixed. What the
engine hands over as silence arrives as spelled-out text (`ProviderFragments`), since
the numbers of the two enumerations differ.

## 3. Runs

| run | module, environment | bounds | properties | states |
|---|---|---|---|---|
| `cancel` | `MCSapiEngine`: abort, refusal, failed request | 2 requests, total 4, pipe 4, 1 boundary event | `TypeOK`, `LifecycleMatrix`, `FaultNeedsCancel`, `HeardAll`, `ToldAll`, `CleanAtStart`, `CancelFollowsSpeak`, `AtMostOneLateSpan` | 715 000 |
| `cancel_ends` | abort, refusal, direct caller, failing sends, time, teardown; fair | 1 request, total 2, pipe 2 | `OneCancel`, `CancellationEnds` | 460 000 |
| `deviations` | abort and any one departure | 2 requests, total 2, pipe 4 | `FaultBarrier`, `PendingFaultIsPublished`, `IdleIsStartable`, `ImplementsSpeakService` | 582 000 |
| `recovery` | crash, failing creation, no memory, time, teardown; fair | 2 requests, total 2, pipe 2 | `QuarantineSticks`, `SpeakCompletes`, `DestructionCompletes` | 336 000 |
| `unload` | `MCDllUnload`: a worker that cannot start, a delivery that throws; fair | 2 clients, 1 unloading thread, 3 workers, 2 messages, 3 unloads | `LoggerSound`, `NoOldEntryInside`, `DrainWritesAll`, `LoggingComesBack` | 177 000 |
| `provider` | `MCProviderSession`: access denied, launch fails | 2 clients, 2 processes, 4 pairs, 2 tries; 2 requests of up to 2 words, pipe with a buffer or without | `FramesAreRecords`, `TotalsMatchAudio`, `CancelHitsItsRequest`, `CrossedOnlyByDuplicates`, `IdleProviderIsTimed`, `CancelledTaskMoves`, `ServedSessionSurvives` | 1 687 000 |
| `v1` | `MCSapiEngineV1`: a bad DLL, no thread, no synthesizer, refused audio, SDK failures; fair | 4 engines of 3 voices, 1 synthesizer per voice in the pool, up to 3 calls | `PoolSound`, `ParamsOutliveUse`, `NothingStray`, `ToldInFull`, `DocumentFits`, `AbortReturns` | 331 000 |
| `manager` | `MCSapiManager`: failures of registry and files, crashes, broken setups; fair | 3 executables, 3 processes, 1 engine, 2 scans, 3 setups, 3 packages (whole, incomplete, invalid), 2 versions, 6 plans | `DiscoverySound`, `PackagesWhole`, `VoicesAsReported`, `EntryMatchesFiles`, `ComMatchesFiles`, `ScansEnd` | 1 028 000 |
| `ref_quarantine`, `ref_stray_audio`, `ref_worker_at_approval`, `ref_discovery_spares` | see section 4 | | one documented claim each | violated |

The runs of `MCSapiEngine` have `BlockAlign = 2` and `ReadMax = 3`.

### Why these bounds are enough

`MCSapiEngine`

* Two requests are what cross-talk, a stale batch, a leftover of a cancelled
  request and the use of a session after a fault need.
* A total of 4 bytes with reads of at most 3 bytes and frames of 2 gives reads
  that end inside a frame, that start inside one, and a batch of more than one
  span; a pipe of 4 bytes can fill up and can be empty with a request open. The
  runs with a total of 2 have a frame that is split and one that is not.
* One boundary event per request is enough for an event on its way while
  audio completes the request.
* One departure at a time keeps apart what each of them does to the session.
  `PendingFaultIsPublished` is *not* true with two: an error log read after the
  fault can undo it (finding 1), and a second fault then finds
  `m_faultPublicationStarted` already set and stays pending. `FaultBarrier` and
  `IdleIsStartable` hold there too.
* Direct callers make one call: that is enough for three threads to race to
  the same cancellation.

`MCProviderSession`: two clients and two processes are what a duplicate launch
and a crossed pair need; two tries, the first and one of the loop, let a
client find no pipe, launch, and then connect or meet a pipe that is busy or half
open. Two words give a buffer that is written at once and one that is kept. Two requests
are what a late cancel needs. The plans
keep apart the race to connect and the conversation, whose product is too
large; `offers`, a bound of the plan, is the number of pairs that are made for it: four
for the race, one for the conversation. Of the conversations one has a pipe that keeps
records and one has a pipe that does not, where every record waits for a read.

`MCDllUnload`: two clients are what it takes to withdraw the stop request of a drain
(`StopWithdrawn`), three workers and unloads give a worker that is
stopped, one that follows, and an unload that is refused and asked for again, and two
messages one in the file while another is in a hand or in the queue. The assignment over
a joinable handle takes a third message: without faults, with two unloads and three
messages, TLC reaches `crashed`; with both faults that run is too long. The theorem is
about every number of them.

`MCSapiEngineV1`: the pool's limit is 1 instead of 2 and an audio block stands for
several, so that two engines are enough to make one wait. The fragments of the plans have
words behind a tag, behind a space the parser inserts, behind an entity and behind a
fragment of silence, and a second word in a fragment.

`MCSapiManager`: each plan is one of the things a user does with the program,
and allows what makes it go wrong: a second scan, a close in a probe, an engine that
starts the provider, a file in use, a failed call, an incomplete package, two setups of
different versions in either order.

### Where the system may stop

Deadlock is checked in `cancel_ends` and `recovery`, where time passes. In the
other runs of `MCSapiEngine` a state without a successor is one the bounds or the
environment make: no further `Speak` call once `MaxSpeaks` is used up, or a wait
that only a deadline would end. In `unload`, `provider`, `v1` and `manager`
it is the end of what clients, users and plans may still do; that nothing waits
for ever there is the business of their liveness properties, where they have
one, and `provider` has `CancelledTaskMoves` for the one wait of the provider that
could close a circle. Two states in which something does wait are within the code: a scan
whose provider never answers, and a session whose client keeps its pipe and reads no
more.

### Fairness

`SapiEngine`: weak fairness of each thread and of time, and nothing
else: the operating system schedules threads, SAPI's `Write` and `AddEvents`
return, and ticks advance. It asks nothing of the provider, which may be
silent for ever, nothing of the host, which need not call `Speak` or the
destructor again, and nothing of the pipes. The condition on the `speak`
thread is `pc["speak"] # "idle"`, so calls end but do not have to begin. A
reader that is inside a read is not stuck there: it either gets data, or a
broken pipe, or notices `exit` at the 250 ms time-out.

`DllUnload`: weak fairness of every thread that is inside the library, the
logger's workers among them, as long as the process is there; whether a client or COM
calls is its choice.
`SapiEngineV1` and `SapiManager`: as long as some thread of the program can go on,
one does, which is one weak fairness condition for all of them; it is enough
because their plans have finitely many calls. Nothing is asked of the speech SDK,
which may be silent for ever, of users, engines or crashes, and nothing of the
providers that SapiManager probes: they need not answer or exit. `ProviderSession` states no
fairness: its liveness over both pipes takes TLC longer than is useful, and what
matters of it is stated as `IdleProviderIsTimed` and `CancelledTaskMoves`.

### What the runs show

* `cancel`: `S_OK` means that the site accepted every byte and was given every
  boundary event, although the two come through different threads and the last
  one can be overtaken; no cancellation leaves audio, carried bytes or a busy
  provider to the next request; a stale batch never gives its credit to
  another request; once a request has left Speaking at most the one span that
  was on its way is written; a provider that keeps its contract is faulted only
  when a request had to be cancelled.
* `cancel_ends`: whoever begins it, one cancel is sent per request, and every
  cancellation ends.
* `deviations`: a fault is a barrier from the region that finds it, and is
  published by a thread that is on its way; no session is left idle and
  unusable; every step of the engine is one that `SpeakService` allows.
* `recovery`: a faulted worker stays faulted until its session is retired, when
  everything under CoreEngine fails; every `Speak` and every destructor ends.
* `unload`: `S_OK` means that nobody is inside who was there when the gate
  closed; messages are written once, in order, by a worker that has the file
  for itself; a drain ends with all written, and after a refusal logging comes
  back, unless a worker failed, the process ended, or another client's entry withdrew the
  stop request, which are the only ways to lose either.
* `provider`: however reads are cut, timed out and cancelled, records arrive whole. The
  total of a completed request is what was read; that of a cancelled one may be short by
  a part of one buffer, the one whose write was cancelled. A cancel
  hits its own request unless it was written after the next one. A cancelled task
  waits for nothing but the client's next read. Only duplicates cross their pipes.
* `v1`: no synthesizer is lost to the pool or shared, no callback outlives its
  call or reaches another site, and an abort returns. A request that ended well was
  handed over in full; from Azure that does not mean that the site took it.
  Words are where the application has them, further on by what the entities before them
  in their fragment add.
* `manager`: which failures and which overlaps lead to a mixed package, a false report,
  or an entry or a COM registration that does not fit its files, and that nothing else
  does. A scan ends or waits for one answer.

A property may be a conjunction of parts that are named and commented each
(`LoggerSound`, `TotalsMatchAudio`, `PoolSound`, `DocumentFits`, `DiscoverySound`,
`VoicesAsReported`). Where the code does not exclude a case the property says so in its
own words (`StopWithdrawn`, `talk.late`, `ReaderGone`, `"mixed"`, the labels of `past`), and
section 4 says what happens then. Each property has a mutant in `PROJECT.json`: a definition
of the model, the change a plausible bug would make to it, and the run that then
fails.

## 4. What the code does and its documents do not say

Each is a run that TLC ends with a counterexample.

1. `ref_quarantine` (code). `HandleLogEventLocked` sets the upstream state to
   Failed in any state and `CheckTerminalBoundaryLocked` then resets both enums;
   an error log that is read after a fault takes the worker from Faulted
   back to Idle. `docs/core_engine.md:121`: "`Faulted` is terminal for that
   worker instance."
2. `ref_stray_audio` (code). `OnAudioData` uses the site it finds; a span
   admitted before an abort can be written to the site of the next `Speak`,
   which the request-context design (2026-08-31, line 183) asks to exclude.
3. `ref_worker_at_approval`. A client that enters `DllGetClassObject` after the
   gate closed reopens it and may log; the last look of `DllCanUnloadNow` is at
   the module lock, so `S_OK` can be returned with a worker running. The logger's
   design (2026-08-24, line 15): "Ensure no logger worker is running when
   `DllCanUnloadNow` returns `S_OK`."
4. `ref_discovery_spares`. A probe kills the process it started, although an
   engine may have opened a session with it by then.
   `docs/provider_development.md:363`: "discovery must never terminate a
   provider that is currently serving a screen reader".

Seen while modelling, and left to the reader. No run is kept for these.

CoreEngine
: A cancellation ends once the bytes read are *at least* the boundary
  (`PcmDeliveryPolicy.cpp:115`; `docs/core_engine.md:144` asks for equality).
  `synthesis_cancelled` after `synthesis_complete`, both late, faults the session
  (`SpeechStatePolicy.cpp:27`; `docs/provider_development.md:192` calls the order
  legitimate). Log records do not reset the inactivity deadline
  (`ControlEventPolicy.cpp:68`; `docs/ipc_protocol.md:47` says they do). `Write`
  is called after `m_siteMutex` is released (`docs/core_engine.md:91` says under
  it). An abort that follows the handling of the completion has nothing left to
  wait for and waits out its deadline.

Pipes and the mock provider
: `UpdateAfterAudioDeliveryLocked` and `CancelAndDrain` begin a cancellation under the request mutex and
  write the command outside it (`SpeechWorker.cpp:801-803`, `:902-904`). The terminal may be read
  in between and the next `sapi_speak` written first; the mock does not look at
  the `speak_id` of a cancel (`Program.cs:214`) and ends the later request. It then
  acknowledges a cancel that CoreEngine did not ask for.
  The task writes its events without a cancellation token (`SynthesisEngine.cs:218`, `:226`)
  to a pipe that asks for no buffers (`PipeServer.cs:29-34`), and the loop that
  cancelled it waits for it (`Program.cs:220`). A client that keeps its handles but
  reads no more, as a faulted CoreEngine does until its session is retired, holds both.
  A control pipe that is left half open never recovers inside the readiness
  window. A client that opens the control pipe before the audio instance
  exists, and goes, makes `WaitForConnectionAsync` fail, and `Main` ends with all
  its sessions. The mock can send `synthesis_cancelled` after
  `synthesis_complete`, can refuse a `speak` while the last write of the previous
  one is returning, and a cancel of the refused request then reaches the
  previous task. What it reports as written after a cancel is short by a part of the buffer
  whose write was cancelled.

Entry gate and logger
: With two client threads the process can end (`crashed`): `Log` joins a stopped
  worker without the mutex and may then find another one
  that stopped meanwhile, whose handle it assigns over (`AsyncLogger.cpp:110`, `:146-159`).
  And a drain can be lost (`StopWithdrawn`):
  `ResumeAfterUnloadRejected` clears the stop request of another drain
  (`AsyncLogger.cpp:386`), which then stays as it is with its worker asleep. A message
  can stay unwritten because `notify_one` woke the thread that waits for
  quiescence. After an `S_OK` that COM does not act on, logging stays off until
  a rejected unload or a re-entry resumes it.

SapiManager
: A setup looks at the installed version when it opens (`App.xaml.cs:64`) and not again when
  its button is clicked (`InstallerWindow.xaml.cs:80-127`): one that was opened before a
  newer version was installed offers to install and puts the older one over it, entry and
  COM registration included. No document forbids it, and what is installed is
  consistent (`EntryMatchesFiles`, `ComMatchesFiles`). A `Kill` that throws is
  swallowed (`ProviderDiscovery.cs:141`, `ProviderInstaller.cs:122`): the probe's process
  lives on, and the dialog does not install while that of the package runs. A package is checked by its
  manifest only (`ProviderInstaller.cs:13-55`): one without all executables of its
  directory leaves the old ones beside the new. The mock provider accepts a session when both its pipes have a client, and
  the probe opens only the control pipe and has no timeout for its reads: the mock
  is never listed, and a provider that neither answers nor exits holds the scan
  for ever. The pipe name is that of the provider directory, so that any
  executable in it is listed while a provider of that name runs. Closing the
  window in a probe leaves the process. A provider that ends after its first
  answer is listed without voices. A failed extraction leaves files of two
  versions. The uninstaller reports success whatever failed before, and its
  delayed removal leaves files in use. A token that was stored in part counts as
  registered. `docs/sapi_manager.md:85` and `:52` speak of a `/pipe` argument and of a
  check of versions that the code does not have.

v1
: A failed `ProviderWrapper::Load` leaves its function pointers. A `Speak` whose
  thread cannot be created leaves the site and the running flag set. The
  pool removes synthesizers of other voices before it waits and not after, so
  that both can be there. Word offsets behind an escaped character
  of the same fragment are too large by what its entity is longer, where
  `v1/CoreEngine/README.md` promises precise offsets; `WordsWhereTheyWere` says
  by how much. A `Write` that the site refuses makes `OnAudioData` return false, which
  `provider_abi.h` calls a request to abort at once; the Azure handler answers the SDK with
  0 bytes and `ProviderSpeak` may still return TRUE. When the thread that should stop an
  aborted synthesis cannot be created, the `catch` returns FALSE and the synthesizer
  goes back to the pool while the SDK may still speak: the next request hears the rest of
  the old one (`"mixed"`). Whether the SDK's future waits in its destructor, which would
  prevent this and delay the abort, cannot be seen from the repository.
  `SPVA_Silence` is passed on as the number of
  `PROVIDER_ACTION_SPELL_OUT` (`v1/CoreEngine/SapiEngine.cpp:130`). The
  mock counts one block per fragment where it wrote five.

## 5. Proofs

`DllUnload_proofs`, `SapiEngineV1_proofs`, `ProviderSession_proofs` and
`SapiManager_proofs` are about the specifications they are named for,
`Conversation_proofs` is about `ProviderSession` too, and the others are about
`SapiEngine` and what it extends. Those hold for every number of requests, alignment,
read size, pipe capacity and environment. The assumptions are those of the modules:
`BlockAlignAssumption`, `ReadMaxAssumption` (both positive) and
`ProviderAssumption` (totals are whole frames, bounds are naturals, `Env` names
known behaviours). TLC evaluates them in every run.

`SapiEngine_proofs`
: `TypeCorrect` and its corollary `TypeOKHolds` (`Spec => []TypeOK`). Types are
  not inductive by themselves: `Process` needs the partial frame to be shorter
  than a frame, and `SiteAcceptsSpan` needs a span to be at hand whenever the
  audio thread is on its way to write one. `TypeInv` is `TypeOK` with these
  two facts, `PartialFrame` and `PendingSpans`. The proof has one lemma per
  action and puts them together per thread.

  `ProcessYieldsWholeFrames`: for every partial frame shorter than a frame and
  every chunk, `Process` gives spans of whole frames and a new partial frame
  shorter than a frame.
  `ProcessKeepsEveryByte`: those spans and the new partial frame, put together, are
  the old partial frame and the chunk, byte for byte.

  `LifecycleMatrixHolds` (`Spec => []LifecycleMatrix`) and `IdleIsStartableHolds`.
  The argument has two halves. `EveryStep` shows that whatever action is taken,
  its effect on `ctx` is one of nine kinds (`LifecycleStep`): it stays, a new
  session, a fault, a start, a cancellation, a count that may drain, a declared
  boundary, an error log, a stop. `MatrixStep` then shows that each of the nine
  keeps the matrix, and needs nothing else. `IdleIsStartable` is not inductive: a
  terminal event that applies to an idle context would break it. The
  strengthening `IdleIsSettled` says why none applies: an idle context either
  has its terminal already or belongs to no request, and `UpstreamTerminalAction`
  refuses both. `IdleIsStartableHolds` assumes that `"direct"` is not in
  `Env`: `Stop` resets the enums and leaves the identity of the request, and a
  terminal event for it then breaks the property. Only tests call `Stop`.
  `EngineImplementsService` (`Spec => ImplementsSpeakService`), the refinement
  that `deviations` checks on a small instance. It needs `CallInv`: only a worker
  that is being destroyed has the exit flag (`ExitIsFinal`), a call past the creation
  of its session has a live one (`CallHasSession`), no request is in use before
  `Start` or after the wait (`NoRequestOutside`), a call that cancels does not meet
  a speaking request again (`CancelledForGood`), and its number is not yet that of a
  request (`NumbersAreFresh`).
  `CallInvHolds` proves it inductive. Most steps touch the context in one of the
  nine ways of `LifecycleStep`, so that each of the nine is mapped to an action
  of `SpeakService` once; the start has a lemma of its own.

  `OneCancelHolds` (`Spec => []OneCancel`) and `AtMostOneLateSpanHolds`
  (`Spec => []AtMostOneLateSpan`). Three threads may cancel, and they send outside
  the mutex. `CancelInv` therefore follows the cancellation on its way: it is with one
  thread only, it has not been sent as long as it is there, and none has begun for a
  request that speaks or is yet to start. `EveryCancelStep` sorts the steps into three
  kinds (none begins, one begins, one is sent), `CancelInvKept` shows that each keeps
  the invariant, and the start of a request has a lemma of its own. A late span is the same argument for the audio thread:
  it asks whether a span may go, and writes it later, outside the mutex.
  `DeliveryInv` adds that a span past that question is for a request without a late
  span, and that a context with the identity of the batch has its generation too, so
  that a request that stopped speaking cannot be taken for one that speaks.

  `FaultBarrierHolds`, `PendingFaultIsPublishedHolds` and `QuarantineSticksHolds`,
  each under `[]NoLateErrorLog`: once a fault is noted in the context, no error log of
  its request is read. Without that the claims are false (finding 1), and with it they
  hold for every provider, host, failure and direct caller; requests may fail with
  error logs as long as they are not faulted already. A fault is found in one region and
  published in three later steps, by any of four threads, while `Start` looks at the
  context only. `QuarantineInv` says what the context has to show meanwhile: a thread
  on its way to publish left a mark (`faultPending`, or Faulted), a mark without
  Faulted has its thread or its disposition, and a publication that began is of a
  faulted request. `EveryMarkStep` sorts all steps into seven kinds by what they do to
  the mark. It rests on `SessionInv`: a session that is gone has no thread in it, `exit`
  is set when no direct call is under way, and only a dispatching control thread holds
  a disposition; without it a new session could inherit the fault of the old one.

`Contract_proofs`
: What a provider that keeps its contract makes true. `ContractKept` says that `Env` names
  no departure of the provider and no direct caller; the host may abort, SAPI refuse,
  requests fail, sends and memory fail, time pass, the provider crash and the engine be
  torn down. Then `CancelFollowsSpeakHolds`, `CleanAtStartHolds` and, if requests do
  not fail either, `QuarantineUnderContract`: no error log ever comes, so the quarantine
  holds of every behaviour. Both assumptions are needed: a departure leaves audio behind,
  and `Stop` frees the context while the provider is still at work.
  `ContractInv` is the inductive invariant. `SessionFits` relates the three ends of a
  session, context, pipes and provider: every event and byte in the pipes is of the
  request the provider has, no event follows the terminal one, the terminal says
  what was written, and a context that is idle has both pipes empty. It has to say
  this of the *rest* of the pipes at every moment, since a terminal event may overtake the
  audio it counts, or the audio the event. `OrderInv` follows a cancel from the thread
  that decides on it: the request it names was asked for before. Each kind of step keeps
  `SessionFits` by a lemma of its own (`EventKeepsFit`, `UpdateKeepsFit`,
  `StartKeepsFit`, `TakesSpeakFits`, ...).

`Delivery_proofs`
: `HeardAllHolds` (`Spec => []HeardAll`, with `ContractKept`): `S_OK` for a request nobody
  cancelled means that its own site accepted every byte. The terminal event and the
  audio come through two threads, and the credit is given in a later region than the one
  that read the bytes, so the end of a request says nothing by itself about what
  SAPI accepted. `DeliveredInv` is a balance (`Balanced`): what its site accepted is what
  was counted as delivered and what the audio thread is about to count, and with the
  spans on their way and the partial frame that is at most what was read. When the
  boundary is reached, delivered equals read, so nothing is on its way, and by
  `SessionFits` it is all the provider promised. The balance rests on
  `ProcessKeepsEveryByte`, on a batch going to the site of its own request as long as that
  is in use (`BatchFits`, `SiteInv`), and on the history: whatever speaks of a
  cancellation speaks of an aborted request (`AbortInv`), and one that ended well stays
  as it is (`DoneInv`). `EveryEffect` sorts the steps by what they do to the context and
  to the batch. Bytes that are accepted for the next request's site
  (finding 2) are not counted: they are of a request that was cancelled.

  `ToldAllHolds` (`Spec /\ []NoLateErrorLog => []ToldAll`, with `ContractKept`) is the same
  for the boundary events, and `ToldAllWithoutErrors` has it of every behaviour when the
  provider fails no request. The events take another way than the audio: the
  control thread reads one, decides on it in the region, admits it later under a
  second mutex and calls the site under none. `ToldBalance` adds up what the site was
  told, what the control thread carries and what is still in the pipe: together they are
  what the provider sent, unless the provider died with events unread, and then its
  terminal was lost as well, so that the request cannot end with `S_OK`. A request
  whose terminal is known has nothing with the control thread, since that thread
  read the terminal after its last event. The two admissions refuse nothing
  that counts: a request that still speaks has no fault pending (`FaultShows`, which
  needs `AudioProgress`, `EventFindsFault` and `StepProgress`: the regions find no fault
  in what a provider that keeps its contract sends), and in a call the site is that of its
  request (`SiteFollows`). `FaultShows` is where the assumption about error logs comes in.

  `FaultNeedsCancelHolds` (`Spec => []FaultNeedsCancel`, with `ContractKept` and `Calm`):
  `Calm` takes the failures out that fault a session by themselves (a crash, a failed
  write, memory, time); SAPI may refuse, the host abort and tear the engine down,
  requests fail and sessions not come about. Then there is one fault left, and
  the proof finds it: a cancel that reaches the provider after it declared its total and
  before it wrote its last byte. Both answers are sent, the completion is applied, and the
  acknowledgement is then a second terminal (`DuplicateFault`). `CalmInv` says that
  whenever a fault is marked, in some thread's hands, or about to be found by a reader
  whose read failed (`Touched`), it is this one (`Spent`): some request was aborted, the
  request is Faulted, the pipe holds no event and the provider is not busy. That also makes
  every error log early, so `CalmSessions` gives the quarantine and `ToldAll` of every
  behaviour of such a session, failed requests included.

`DllUnload_proofs`
: `NoOldEntryInsideHolds` (`Spec => NoOldEntryInside`), about `DllUnload`, for any
  number of clients, unloading threads, calls and workers. The property is about the
  step that approves an unload; the invariant `OnlyLateEntries` carries what the
  wait for the entries established from there to that step, through the quiescence
  of the logger: every entry inside found the gate closed. The lemmas
  `...KeepsPlaces` show that no step of the logger, which wakes threads of all kinds,
  moves one past the wait.

  `LoggerSoundHolds` (`Spec => []LoggerSound`: types, `MessagesInOrder` and `OneWriter`), again for
  any number of threads, workers and messages and whatever fails. `WorkersInTurn` is the
  heart of it: one worker at most is before its last write of `m_state`, and none while
  that is `Stopped`. A worker closes the file without the mutex, and this is why it
  never closes it under the next one. `NothingLost` says that the file, the message in the
  hand of the worker that delivers and the queue are the first `accepted` messages; it
  needs `OneWriter`, since a worker without the file would swallow its message.

`SapiEngineV1_proofs`
: `PoolSoundHolds`, `ParamsOutliveUseHolds` and `NothingStrayHolds`, about `SapiEngineV1`,
  for any number of engines, requests and synthesizers, both providers, any voices, any
  limit of the pool and whatever fails. The assumptions are `PlansAssumption` (a plan is a
  list of requests, no longer than the bound) and `PoolAssumption` (finitely many
  synthesizers, a limit, and voices that are not the mark of an unused synthesizer).
  The three are one argument, since each needs the others. `OneUser` is a count and as
  such not inductive; `SoleHolders`, `UsedByWorker` and `BusyMeansUsed` say who the user
  is. The callback that is under way keeps its call from leaving: an abort
  detaches the handler first, and that waits for the callback (`BoundToCall`,
  `CallbackOfCall`), while the end of a synthesis comes after its last callback. So the
  call, its site (`KeepsHolders`: no step of any thread moves the site of a call that has
  a synthesizer) and its DLL (`EngineSound`) are still there when the callback ends.
  A step either leaves the pool alone (`PoolAtRest`), moves one synthesizer
  (`OneSynthMoves`) or is the scan, which drops the idle synthesizers of other voices
  (`PurgedIsSound`) and may hand one out (`GettingMoves`). A synthesizer is given back
  at rest (`AtRest`), or with the rest of an aborted synthesis to come if no thread could be
  created to wait for it; `FreeIsQuiet` excepts that one, and `OneUser` and
  `NothingStray` do not.

`ProviderSession_proofs`
: `ServedSessionSurvivesHolds`, `IdleProviderIsTimedHolds` and
  `CrossedOnlyByDuplicatesHolds`, about `ProviderSession`, for any number of clients,
  processes, pairs and attempts, any plan and whatever fails. `PipesAssumption` is what
  they use of the constants: the processes can be counted, and a client is not one of the
  marks of a pipe's end. `Conversation_proofs` uses `ClientAssumption` too: sizes and tries
  are positive.
  The first two are about `ProviderLifetime`, which knows its sessions by a counter
  only. `LifetimeInv` says that the counter is right (`ActiveCounts`), and to keep
  it right that the pair a process is about to open has no session yet (`OfferedIsNew`)
  and that sessions are of running processes (`ServersRun`); with that, `IdleIsTimed` is
  inductive, and a timer that is late finds a counter that is not zero. What the pipes,
  the reads and the synthesis do stays inside (`Inside`) and needs one lemma for all of it.
  The third is an argument about names: a client opens two pipes by name, one after the
  other, and nothing ties the second to the first. `Uncrossed` says why it works
  with one process (`Alone`): as long as a client is between the two calls, the pair it has
  half of is still the one offered and its audio pipe is still to be had, or the process
  has exited and nothing listens (`HalfOpen`). `AudioFollows` has the same of a pair
  whose control pipe nobody has opened, and `ListensWhenOffered` ties every listening
  end to a process that offers it. The client that is left half-way when its process
  exits is the reason for the second half of `HalfOpen`: the next process is a second one,
  and the theorem promises nothing any more.

  The module ends with where anything is said at all, which the next one needs.
  `SpokenInv` says where anything may be said at all: nothing before the talker has its two
  pipes or after it has closed them (`Silence`), commands, records and audio in its own pair
  only (`AtHome`), and nothing in a pair it has left that could still be taken for it
  (`AfterTalk`).

`Conversation_proofs`
: `TotalsMatchAudioHolds` and `CancelHitsItsRequestHolds`, about the conversation of the
  talker, for every plan and every size of a read, of a record and of the buffer.
  Inside `SpokenInv`, `ConversationInv` has three parts, each of which needs the one before.
  `RequestsInv` is about numbers: at most one `speak` is on its way, and its number has
  not been used by the task, a record or a byte of audio (`Fresh`). So audio that is counted under a
  number is the audio of one task. `TotalsInv` follows a buffer on its way: what was read
  of the task's audio, and what is in the pipe, is what it has counted and the buffer that
  it is writing (`SoundCounted`). A cancelled write leaves the one half that may have been
  read (`RecordsCounted`: a difference of 0 or 1), and a record of completion stays right
  while the buffers behind it are flushed (`RecordsOfTask`). `CancelInv` is the argument
  from order that the handler relies on: a request is made when the one before has
  ended (`EarlierEnded`), a cancel in the pipe follows its request or is for the task
  (`CancelsHit`), so the task that a cancel hits was cancelled, or is over, or its
  session has ended (`CancelledByRight`). A cancel that is sent late makes the request
  that it follows one of `Reached`, the requests a cancel has been begun for or was sent
  behind; that is what the theorem promises, and all the code allows.

  `FramesAreRecordsHolds`, about the bytes of the same conversation. Nothing in the stream
  says where a record begins; the client finds line feeds, and the bytes it looks at lie in three
  places: what of its buffer is not cut yet, what a read has brought and no thread
  has taken, and what is in the pipe. `FramesInv` says that these, one behind the other
  (`Unread`), can be cut so that each piece is the next record with its line ending
  (`Framed`). A read moves bytes from one place to the next and keeps the whole; a
  record is added at its end; and a line that is cut is the first piece (`NextRecord`), since a
  line feed is the end of a record and nothing else, and `OffsetsStand` says that the
  search has passed over none. `BufferStands` has the bound: a read is
  begun with no more than one record in the buffer and adds one read. `EverythingTyped` gives
  the types that the property names.

`SapiManager_proofs`
: Everything the run `manager` checks but `ScansEnd`, for any number of executables,
  voices, processes, engines, scans, setups and packages, any versions and any plan.
  `TypeInv` is shared: a scan that holds a process is between its start and its result
  (`ScanShape`), and a save counts at most one failure per voice it is done with. The
  assumptions are about where the program begins and what it is given, not about what it
  does. `PlansAssumption`: a plan begins with packages that are whole and with voices
  some executable answers for. `SetupsAssumption`: a setup brings a version.
  `PackagesAssumption`: a package is a set of executables, all of its directory or not, with a
  version.

  `EntryMatchesFilesHolds` and `ComMatchesFilesHolds`. The setups run in processes of their
  own and look at the registry when they open, not when their button is clicked, so that
  nothing is known of what they find then. `SetupInv` does without: while no two are at
  work at the same time (`Alone`, `OneAtWork`), whatever mode a setup is in, it leaves the
  files and the entry of one version.
  A file is of the new version or still to be copied (`CopiedIsNew`), an uninstaller past
  the entry has removed it (`EntryIsGone`), and the deletion it has left to `cmd.exe`
  finds nobody installing (`RemovalIsLast`). `ComInv` follows the registration through the
  same steps: what a setup has done so far (`ComSoFar`), what is registered is there
  (`ComFileIsThere`), and only an uninstaller between its two steps has an entry without
  a registration (`EntryIsRegistered`).

  `VoicesAsReportedHolds`. A save and an uninstaller both write tokens one by one.
  `StoredSoFar` is about the voices a save has reached, `ForgottenSoFar` about those
  an uninstaller has removed, and each is disturbed by the other only, which the history
  notes (`RemovalIsNoted`, `NoSaveMeanwhile`).

  `PackagesWholeHolds`. Files are replaced one by one, while the removal of another uninstall may
  delete some. `Extraction` splits the executables into what is extracted, what is to be and
  what the package does not touch; `LocksAreNew` says that between the inspection and the
  extraction a process that runs the package's executable has begun since.
  A package without all executables of its directory, extracted over older ones,
  is an exception that the history notes. A new
  process is fresh and an id that is held is not given away (`KnownLocksShrink`).

  `DiscoverySoundHolds` has three arguments. `ListDistinct`: no two scans probe the same executable
  and none one that is listed, unless the history says so; the scan looks at the list
  when it takes an executable and adds to it several awaits later. `ProbesCleanUp` is
  inductive with `ScanShape`: only the step of a scan starts a probe's process, and all the ways
  out of a probe kill it, so that only a window that closes or a `Kill` that throws can
  lose it.
  `FoundInv` is why a pipe that is named for a directory can say something of an executable: as long as
  scans take turns (`ScansTakeTurns`) and nobody else starts a provider
  (`OnlyProbesRun`), a process that answers is held by a scan (`ProbesCleanUp`), that scan is the one that
  asks, and the process runs its executable (`ProbeRunsItsExe`, since no id is given away
  while a scan holds it). `ProbesAnswerForThemselves` is this step; from there the fact
  follows the executable into the list, the save and the token.

Model-checked only:

* every liveness property: the prover does not reason about `ENABLED`, hence
  not about fairness;
* of `ProviderSession` `CancelledTaskMoves`, which is about `ENABLED`, and of
  `SapiEngineV1` what depends on the parser (`ToldInFull`, `DocumentFits`).

What a recursive definition computes for all inputs needs induction with an
operator parameter, which the installed provers do not instantiate; that
`Process` loses no byte over a sequence of chunks is therefore proved of one call at a
time (`ProcessKeepsEveryByte`), and of a whole request through the balance.

## 6. Left out, and why

* Logging, the test hooks and pauses of debug builds, COM apartments.
* The text of a request, its fragments, the positions inside events: no
  decision of the lifecycle depends on them.
* The negotiated format: written once per session by the thread that creates
  it.
* Wrap-around of the 64-bit byte counters and request numbers: not
  reachable in the life of a session.
* `PipeClient`: the mutex and the deadline of control writes, which are one step.
* `MockProvider`: bookmarks, which go the way of word boundaries.
* `AsyncLogger::Shutdown` and `DllEntryAdmission::TryEnter`, which only tests call;
  `DllRegisterServer` and `DllUnregisterServer` beyond what a setup sees of them.
* `SapiManager`: the part of the main window that tries voices out, shortcuts, the
  manifest it writes for providers without one, texts; a second instance of the program
  beside the first, whose windows would share registry and files; the recursive copy of
  provider directories that comes with a setup (`InstallerWindow.xaml.cs:104`), of which the
  model has the files of the adapter.
* `v1`: `PcmCache`, which no project builds, `TrimTrailing`, `VoiceManager`, the
  configuration parser, the logger, the class factory and its `SapiManager`.
* The conversions (`AudioFormatUtils`, `StringUtils`, `SapiFragmentSerializer`,
  `JsonValue`): sequential, without state, and tested.
* The test suites, read for what the program is meant to do.

## 7. Plan

Done: all components of section 1, five specifications with their runs, types,
lifecycle, cancellation, quarantine, the clean start, full delivery of audio and events,
the need of a cancel for a fault, and the refinement of `SapiEngine` proved, the gate
and the logger of `DllUnload`, the pool, the parameter block and the callbacks of `v1`, the life of
a provider, the pairing of its pipes, the totals, the cancels and the framing of its conversation, and all
invariants of `SapiManager`. Next, in order:

1. `ProviderSession` against `ProviderContract`: the mock shown to keep the contract
   that the runs of `SapiEngine` assume, which needs a common alphabet of the two
   kinds of pipe.
2. The control write of `PipeClient` with its mutex and deadline.
3. What a completed request may still return once a late error log is read, and a
   bound on the events that reach a site after its `Speak` has returned.

## 8. Running it

```
tlc -workers 2 -config MCSapiEngine_cancel.cfg MCSapiEngine.tla
tlapm SapiEngine_proofs.tla
tlapm Contract_proofs.tla
tlapm Delivery_proofs.tla
tlapm DllUnload_proofs.tla
tlapm SapiEngineV1_proofs.tla
tlapm ProviderSession_proofs.tla
tlapm Conversation_proofs.tla
tlapm SapiManager_proofs.tla
```
