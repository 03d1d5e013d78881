----------------------------- MODULE SapiEngine -----------------------------
(***************************************************************************)
(* CSapiEngine (SapiEngine.cpp) around its SpeechWorker: the synchronous   *)
(* Speak call, the provider session it creates, uses and replaces, and the *)
(* destructor.  m_speakMutex serialises Speak, SetObjectToken and the      *)
(* destructor, so one thread, "speak", stands for their callers; "purge"   *)
(* stands for a caller of SpeechWorker's own Stop and CancelAndDrain.      *)
(***************************************************************************)
EXTENDS SpeechWorker

VARIABLES
    session,        \* m_config, m_pClient and m_pWorker
    speakCounter    \* m_speakIdCounter

engineVars == <<session, speakCounter>>

vars == <<ctx, carry, faultPublicationStarted, faultVisible, exit, idleElapsed,
          deadlinePassed, pc, fault, batch, disposition, cancelId, site, heard, stray,
          told, outcome, aborted, asked, lateSpans, connected, commands, events,
          audio, provider, promised, session, speakCounter>>

\* "none": configured by SetObjectToken, but without client and worker.
Session == {"unconfigured", "none", "live"}

\* The request the current or last Speak call owns.
speakId == speakCounter

IsFaulted ==
    "Faulted" \in {ctx.upstreamState, ctx.downstreamState} \/ ctx.faultPending

IsSessionActive == session = "live" /\ ~IsFaulted

Joined == \A u \in Readers : At(u, "exit")

NoOutcome == "none"

\* A direct caller keeps the worker alive until its call is over.
NoDirectCall == pc["purge"] \in {"ready", "done"} /\ fault["purge"] = "none"
-----------------------------------------------------------------------------
Init ==
    /\ ctx = FreshContext
    /\ carry = <<>>
    /\ faultPublicationStarted = FALSE
    /\ faultVisible = FALSE
    /\ exit = FALSE
    /\ idleElapsed = FALSE
    /\ deadlinePassed = FALSE
    /\ pc = [t \in Threads |-> IF t = "speak" THEN "idle"
                               ELSE IF t = "purge" THEN "ready" ELSE "exit"]
    /\ fault = [t \in Threads |-> "none"]
    /\ batch = NoBatch
    /\ disposition = NoDisposition
    /\ cancelId = [t \in Threads |-> 0]
    /\ site = 0
    /\ heard = [r \in Ids |-> 0]
    /\ stray = {}
    /\ told = [r \in Ids |-> 0]
    /\ outcome = [r \in Ids |-> NoOutcome]
    /\ aborted = {}
    /\ asked = [r \in Ids |-> 0]
    /\ lateSpans = [r \in Ids |-> 0]
    /\ ProviderInit
    /\ session = "unconfigured"
    /\ speakCounter = 0
-----------------------------------------------------------------------------
(* The session. *)

\* CreateProviderSessionLocked: the provider is launched, connected to, asked
\* for its format, and a worker with two readers is built around the pipes.
CreatesSession(place) ==
    /\ OpenPipes
    /\ session' = "live"
    /\ ctx' = FreshContext
    /\ carry' = <<>>
    /\ faultPublicationStarted' = FALSE
    /\ faultVisible' = FALSE
    /\ exit' = FALSE
    /\ idleElapsed' = FALSE
    /\ deadlinePassed' = FALSE
    /\ pc' = [pc EXCEPT !["speak"] = place, !["audio"] = "read", !["control"] = "read"]
    /\ UNCHANGED <<fault, localVars, site, historyVars, promised, speakCounter>>

\* SetObjectToken: refused once there is a session; a failed creation leaves
\* the configuration behind.
SetsObjectToken ==
    /\ pc["speak"] = "idle"
    /\ session # "live"
    /\ \/ CreatesSession("idle")
       \/ /\ "createFail" \in Env
          /\ session' = "none"
          /\ UNCHANGED <<requestVars, faultVars, exit, timeVars, pc, fault, localVars, site,
                         historyVars, providerVars, speakCounter>>

\* Speak returns result through its scope exit, which clears the site.
Returns(result) ==
    /\ outcome' = [outcome EXCEPT ![speakId] = result]
    /\ Goto("speak", "cleanup")

SpeakBegins ==
    /\ At("speak", "idle")
    /\ speakCounter < MaxSpeaks
    /\ speakCounter' = speakCounter + 1
    /\ site' = speakCounter + 1
    /\ Goto("speak", "session")
    /\ UNCHANGED <<requestVars, faultVars, exit, timeVars, fault, localVars, historyVars,
                   providerVars, session>>

FindsSessionActive ==
    /\ At("speak", "session")
    /\ IsSessionActive
    /\ Goto("speak", "start")
    /\ UNCHANGED <<requestVars, faultVars, exit, timeVars, fault, localVars, site, historyVars,
                   providerVars, engineVars>>

\* ~SpeechWorker of a faulted worker signals exit and cancels the pipe I/O.
BeginsRetirement ==
    /\ At("speak", "session")
    /\ session = "live" /\ IsFaulted
    /\ NoDirectCall
    /\ exit' = TRUE
    /\ \E hit \in PendingReads :
        pc' = [u \in Threads |-> IF u = "speak" THEN "retire"
                                 ELSE IF u \in hit THEN "failed" ELSE pc[u]]
    /\ UNCHANGED <<requestVars, faultVars, timeVars, fault, localVars, site, historyVars,
                   providerVars, engineVars>>

\* Both readers are joined; the client goes with its pipes.
Retires ==
    /\ At("speak", "retire")
    /\ Joined
    /\ ClosePipes
    /\ session' = "none"
    /\ Goto("speak", "session")
    /\ UNCHANGED <<requestVars, faultVars, exit, timeVars, fault, localVars, site, historyVars,
                   promised, speakCounter>>

RecreatesSession ==
    /\ At("speak", "session")
    /\ session = "none"
    /\ CreatesSession("start")

HasNoSession ==
    /\ At("speak", "session")
    /\ \/ session = "unconfigured"
       \/ session = "none" /\ "createFail" \in Env
    /\ Returns("E_FAIL")
    /\ UNCHANGED <<requestVars, faultVars, exit, timeVars, fault, localVars, site, heard, stray,
                   told, aborted, asked, lateSpans, providerVars, engineVars>>
-----------------------------------------------------------------------------
(* Speak on an active session. *)

Starts ==
    /\ At("speak", "start")
    /\ StartAccepted(ctx)
    /\ ctx' = [Reset(ctx) EXCEPT !.speakId = speakId, !.generation = ctx.generation + 1,
                                 !.upstreamState = "Active",
                                 !.downstreamState = "Speaking"]
    /\ carry' = <<>>
    /\ idleElapsed' = FALSE
    /\ Goto("speak", "send")
    /\ UNCHANGED <<faultVars, exit, deadlinePassed, fault, localVars, site, historyVars,
                   providerVars, engineVars>>

StartRefused ==
    /\ At("speak", "start")
    /\ ~StartAccepted(ctx)
    /\ Returns("E_FAIL")
    /\ UNCHANGED <<requestVars, faultVars, exit, timeVars, fault, localVars, site, heard, stray,
                   told, aborted, asked, lateSpans, providerVars, engineVars>>

SendsSpeak ==
    /\ At("speak", "send")
    /\ connected
    /\ commands' = Append(commands, [kind |-> "sapi_speak", speakId |-> speakId])
    /\ Goto("speak", "wait")
    /\ UNCHANGED <<requestVars, faultVars, exit, timeVars, fault, localVars, site, historyVars,
                   connected, events, audio, provider, promised, engineVars>>

SpeakSendFails ==
    /\ At("speak", "send")
    /\ SendMayFail
    /\ CallsEnterFaultedState("speak", "enter")
    /\ Returns("E_FAIL")
    /\ UNCHANGED <<requestVars, faultVars, exit, timeVars, localVars, site, heard, stray, told,
                   aborted, asked, lateSpans, providerVars, engineVars>>

\* Mutant: the state of the request instead of its result.
ResultState == ctx.upstreamState

\* What a finished wait gives the caller.
Result == IF exit THEN "E_ABORT" ELSE ctx.completionHr

\* WaitUntilFinished: the request is over, in time or not.
WaitEnds ==
    /\ At("speak", "wait")
    /\ IsWaitTerminal(ctx, exit)
    /\ Returns(Result)
    /\ UNCHANGED <<requestVars, faultVars, exit, timeVars, fault, localVars, site, heard, stray,
                   told, aborted, asked, lateSpans, providerVars, engineVars>>

WaitTimesOut ==
    /\ At("speak", "wait")
    /\ ~IsWaitTerminal(ctx, exit)
    /\ \/ CancellationTimedOut(ctx, deadlinePassed)
       \/ InactivityTimedOut(ctx, deadlinePassed, idleElapsed)
    /\ CallsEnterFaultedState("speak", "enter")
    /\ Returns("TIMEOUT")
    /\ UNCHANGED <<requestVars, faultVars, exit, timeVars, localVars, site, heard, stray, told,
                   aborted, asked, lateSpans, providerVars, engineVars>>

\* GetActions said SPVES_ABORT and the request was still speaking once the
\* mutex was held again.
ObservesAbort ==
    /\ At("speak", "wait")
    /\ "abort" \in Env
    /\ ctx.downstreamState = "Speaking"
    /\ BeginCancellationAction(ctx) = "TransitionToCancelling"
    /\ BeginsCancellation("speak")
    /\ Goto("speak", "sendCancel")
    /\ UNCHANGED <<faultVars, exit, idleElapsed, fault, batch, disposition, site, heard, stray,
                   told, outcome, asked, lateSpans, providerVars, engineVars>>

\* FinishCancellation: the cancel is sent, and then the drain awaited.
SpeakCancels ==
    /\ \/ SendsCancel("speak", "drain")
       \/ /\ CancelSendFails("speak", "cleanup")
          /\ \E result \in {"TIMEOUT", "E_FAIL"} :
                outcome' = [outcome EXCEPT ![speakId] = result]
    /\ UNCHANGED engineVars

DrainEnds ==
    /\ At("speak", "drain")
    /\ ~IsDrainingCancellation(ctx) \/ exit
    /\ Returns(Result)
    /\ UNCHANGED <<requestVars, faultVars, exit, timeVars, fault, localVars, site, heard, stray,
                   told, aborted, asked, lateSpans, providerVars, engineVars>>

\* Mutant: the caller gives up and leaves the session as it is.
DrainGivesUp ==
    /\ At("speak", "drain")
    /\ IsDrainingCancellation(ctx) /\ deadlinePassed
    /\ Returns("TIMEOUT")
    /\ UNCHANGED <<requestVars, faultVars, exit, timeVars, fault, localVars, site, heard, stray,
                   told, aborted, asked, lateSpans, providerVars, engineVars>>

DrainTimesOut ==
    /\ At("speak", "drain")
    /\ IsDrainingCancellation(ctx) /\ deadlinePassed
    /\ CallsEnterFaultedState("speak", "enter")
    /\ Returns("TIMEOUT")
    /\ UNCHANGED <<requestVars, faultVars, exit, timeVars, localVars, site, heard, stray, told,
                   aborted, asked, lateSpans, providerVars, engineVars>>

SpeakReturns ==
    /\ At("speak", "cleanup")
    /\ site' = 0
    /\ Goto("speak", "idle")
    /\ UNCHANGED <<requestVars, faultVars, exit, timeVars, fault, localVars, historyVars,
                   providerVars, engineVars>>
-----------------------------------------------------------------------------
(* The destructor. *)

BeginsDestruction ==
    /\ At("speak", "idle")
    /\ "teardown" \in Env
    /\ NoDirectCall
    /\ exit' = TRUE
    /\ \E hit \in PendingReads :
        pc' = [u \in Threads |-> IF u = "speak" THEN "destroy"
                                 ELSE IF u = "purge" THEN "done"
                                 ELSE IF u \in hit THEN "failed" ELSE pc[u]]
    /\ UNCHANGED <<requestVars, faultVars, timeVars, fault, localVars, site, historyVars,
                   providerVars, engineVars>>

Destroys ==
    /\ At("speak", "destroy")
    /\ Joined
    /\ ClosePipes
    /\ Goto("speak", "gone")
    /\ UNCHANGED <<requestVars, faultVars, exit, timeVars, fault, localVars, site, historyVars,
                   promised, engineVars>>

SpeakThread ==
    \/ SetsObjectToken \/ SpeakBegins
    \/ FindsSessionActive \/ BeginsRetirement \/ Retires \/ RecreatesSession \/ HasNoSession
    \/ Starts \/ StartRefused \/ SendsSpeak \/ SpeakSendFails
    \/ WaitEnds \/ WaitTimesOut \/ ObservesAbort \/ SpeakCancels
    \/ DrainEnds \/ DrainTimesOut \/ SpeakReturns
    \/ BeginsDestruction \/ Destroys
    \/ EnterFaultedState("speak") /\ UNCHANGED engineVars
-----------------------------------------------------------------------------
(* A direct caller of the worker makes one call, CancelAndDrain or Stop. *)

DirectCallBegins ==
    /\ "direct" \in Env
    /\ pc["purge"] = "ready"
    /\ session = "live" /\ ~exit

DrainsDirectly ==
    /\ DirectCallBegins
    /\ BeginCancellationAction(ctx) = "TransitionToCancelling"
    /\ BeginsCancellation("purge")
    /\ Goto("purge", "sendCancel")
    /\ UNCHANGED <<faultVars, exit, idleElapsed, fault, batch, disposition, site, heard, stray,
                   told, outcome, asked, lateSpans, providerVars, engineVars>>

\* Stop does not wait: it resets the request, and tells the provider after.
Stops ==
    /\ DirectCallBegins
    /\ StopResets(ctx)
    /\ ctx' = ResetToIdle(ctx)
    /\ carry' = <<>>
    /\ cancelId' = [cancelId EXCEPT !["purge"] = ctx.speakId]
    /\ aborted' = aborted \cup {ctx.speakId}
    /\ Goto("purge", "sendStop")
    /\ UNCHANGED <<faultVars, exit, timeVars, fault, batch, disposition, site, heard, stray,
                   told, outcome, asked, lateSpans, providerVars, engineVars>>

StopSends ==
    /\ At("purge", "sendStop")
    /\ \/ /\ connected
          /\ commands' = Append(commands, [kind |-> "cancel", speakId |-> cancelId["purge"]])
       \/ SendMayFail /\ UNCHANGED commands
    /\ Goto("purge", "done")
    /\ UNCHANGED <<requestVars, faultVars, exit, timeVars, fault, localVars, site, heard, stray,
                   told, outcome, aborted, asked, lateSpans, connected, events, audio, provider,
                   promised, engineVars>>

DirectDrainEnds ==
    /\ At("purge", "drain")
    /\ IF IsDrainingCancellation(ctx) /\ ~exit
       THEN deadlinePassed /\ CallsEnterFaultedState("purge", "enter")
       ELSE UNCHANGED fault
    /\ Goto("purge", "done")
    /\ UNCHANGED <<requestVars, faultVars, exit, timeVars, localVars, site, historyVars,
                   providerVars, engineVars>>

DirectCaller ==
    \/ DrainsDirectly \/ Stops \/ StopSends \/ DirectDrainEnds
    \/ /\ \/ SendsCancel("purge", "drain")
          \/ CancelSendFails("purge", "done") /\ UNCHANGED outcome
          \/ EnterFaultedState("purge")
       /\ UNCHANGED engineVars
-----------------------------------------------------------------------------
workerVars == <<ctx, carry, faultPublicationStarted, faultVisible, exit, idleElapsed,
                deadlinePassed, pc, fault, batch, disposition, cancelId, site, heard,
                stray, told, outcome, aborted, asked, lateSpans>>

\* The engine is gone: nothing more happens.
Terminated == pc["speak"] = "gone" /\ UNCHANGED vars

Next ==
    \/ (AudioThread \/ ControlThread \/ InactivityElapses \/ DeadlinePasses)
        /\ UNCHANGED engineVars
    \/ SpeakThread
    \/ DirectCaller
    \/ ProviderNext /\ UNCHANGED <<workerVars, engineVars>>
    \/ Terminated

Spec == Init /\ [][Next]_vars

\* Threads are scheduled, SAPI's Write returns, and time passes; nothing is
\* asked of the provider, of the host or of the pipes.
Fairness ==
    /\ WF_vars(AudioThread /\ UNCHANGED engineVars)
    /\ WF_vars(ControlThread /\ UNCHANGED engineVars)
    /\ WF_vars(pc["speak"] # "idle" /\ SpeakThread)
    /\ WF_vars(pc["purge"] # "ready" /\ DirectCaller)
    /\ WF_vars((InactivityElapses \/ DeadlinePasses) /\ UNCHANGED engineVars)

FairSpec == Spec /\ Fairness
-----------------------------------------------------------------------------
(* Properties. *)

Span == Seq(0 .. MaxSpeaks)

Batch == [token : [speakId : Nat, generation : Nat], spans : Seq(Span), credited : Nat,
          accepted : BOOLEAN, target : 0 .. MaxSpeaks]

\* Every variable keeps its type: the fields of SpeechWorker and CSapiEngine,
\* the places of the threads, the contents of the pipes and the history.
TypeOK ==
    /\ ctx \in Context /\ ctx.speakId \in 0 .. MaxSpeaks
    /\ carry \in Span
    /\ {faultPublicationStarted, faultVisible, exit, idleElapsed, deadlinePassed} \subseteq BOOLEAN
    /\ pc \in [Threads -> Place]
    /\ fault \in [Threads -> FaultStage]
    /\ batch \in Batch
    /\ disposition \in [event : Event, fault : BOOLEAN]
    /\ cancelId \in [Threads -> 0 .. MaxSpeaks]
    /\ site \in 0 .. MaxSpeaks
    /\ heard \in [Ids -> Nat]
    /\ told \in [Ids -> Nat]
    /\ outcome \in [Ids -> HResult \cup {NoOutcome}]
    /\ asked \in [Ids -> Nat]
    /\ lateSpans \in [Ids -> Nat]
    /\ connected \in BOOLEAN
    /\ commands \in Seq(Command)
    /\ events \in Seq(Event)
    /\ audio \in Span
    /\ provider \in Provider
    /\ promised \in [Ids -> Promise]
    /\ session \in Session
    /\ speakCounter \in 0 .. MaxSpeaks

\* The composite states no region of m_requestMutex may leave behind: an active
\* downstream without a request upstream, an active upstream without one
\* downstream, an upstream fault the downstream does not share, and a speaking
\* request whose upstream enum and upstreamFinished disagree.
LifecycleMatrix ==
    /\ ctx.downstreamState \in {"Speaking", "Cancelling"}
        => ctx.upstreamState \in {"Active", "Completed", "Cancelled"}
    /\ ctx.downstreamState = "Idle"
        => ctx.upstreamState \in {"Idle", "Completed", "Cancelled"}
    /\ ctx.downstreamState = "Faulted"
        => ctx.upstreamState \in {"Faulted", "Completed", "Cancelled"}
    /\ ctx.downstreamState = "Speaking"
        => (ctx.upstreamFinished <=> ctx.upstreamState # "Active")

\* Speak, the audio thread and the control thread leave no context that is idle
\* downstream and refuses the next Start although nothing is wrong with it.
IdleIsStartable ==
    (session = "live" /\ ctx.downstreamState = "Idle")
        => ctx.upstreamState = "Idle"

\* With a provider that keeps its contract, whose errors are those of single
\* requests, the session is faulted only when a request had to be cancelled: no
\* order of audio, events and calls makes a fault of a request left alone.
FaultNeedsCancel == (session = "live" /\ IsFaulted) => aborted # {}

\* S_OK for a request nobody cancelled: its site accepted every byte the
\* provider had for it, whatever the order of audio and terminal event; and the
\* credit a speaking request has so far was accepted by that request's own site.
HeardAll ==
    /\ \A r \in Ids :
          (outcome[r] = "S_OK" /\ r \notin aborted) => heard[r] = promised[r].audio
    /\ (ctx.downstreamState = "Speaking" /\ ctx.speakId \in Ids)
          => ctx.deliveredAudioBytes <= heard[ctx.speakId]

\* S_OK for a request nobody cancelled: before Speak returned, its site was given
\* every boundary event the provider sent for it, although audio and events come
\* through different threads and the site is called outside every mutex.
ToldAll ==
    \A r \in Ids :
        (outcome[r] = "S_OK" /\ r \notin aborted) => told[r] = promised[r].events

\* When Start would be accepted, nothing of an earlier request is left behind:
\* no audio in the pipe, no carried bytes, no provider at work; and no sapi_speak
\* reaches a provider that is still at work on another request.
CleanAtStart ==
    /\ (session = "live" /\ connected /\ StartAccepted(ctx))
          => audio = <<>> /\ carry = <<>> /\ ~provider.busy
    /\ NextCommandIs("sapi_speak") => ~provider.busy

\* Of the cancellations of one request that await its drain, at most one reaches
\* the control pipe, however Speak, the audio thread and a direct caller race to
\* begin it and whatever Stop resets in between.
OneCancel == \A r \in Ids : asked[r] <= 1

\* The cancel for a request is never in the pipe ahead of its sapi_speak.
CancelFollowsSpeak ==
    \A i, j \in 1 .. Len(commands) :
        (commands[i].kind = "cancel" /\ commands[j].kind = "sapi_speak"
            /\ commands[i].speakId = commands[j].speakId) => j < i

\* Admission is per span: once a request has left Speaking, at most the one
\* span that was already on its way is written to a site.
AtMostOneLateSpan == \A r \in Ids : lateSpans[r] <= 1

\* From the region that finds a fault to its publication, by whichever thread,
\* no request can be started on the session.
FaultBarrier ==
    (\E t \in Threads : fault[t] \in {"pending", "publish"}) => ~StartAccepted(ctx)

\* A session refused to everyone because a fault is pending has a thread that
\* is about to publish the fault.
PendingFaultIsPublished ==
    (ctx.faultPending /\ ctx.downstreamState # "Faulted")
        => \/ \E t \in Threads : fault[t] = "pending"
           \/ disposition.fault

\* A faulted worker stays faulted until its session is retired.
QuarantineSticks ==
    [][(session = "live" /\ ctx.downstreamState = "Faulted")
        => ctx'.downstreamState = "Faulted"]_vars

\* The thread of SAPI is in a Speak call; no other can begin before it returns.
Unanswered == speakCounter \in Ids /\ outcome[speakCounter] = NoOutcome

\* Every Speak call returns: the watchdog, the cancellation deadline and the
\* broken pipes between them end every wait, and every join.
SpeakCompletes == Unanswered ~> ~Unanswered

\* The destructor, once begun, joins both readers and ends.
DestructionCompletes == (pc["speak"] = "destroy") ~> (pc["speak"] = "gone")

\* A cancellation does not stay open: the boundary is reached, or the deadline
\* faults the session, whichever thread began it.
CancellationEnds ==
    (ctx.downstreamState = "Cancelling") ~> (ctx.downstreamState # "Cancelling")

\* Audio of one request is never written to the site of another.  The design asks
\* for it and the code does not do it: a run refutes it.
NoStrayAudio == stray = {}
-----------------------------------------------------------------------------
\* The threads, the pipes and the provider together are a Speak call that keeps
\* its promise: the refinement mapping reads the phase, the number and the end of
\* the request from the context, and the call from the place of its thread.
Service == INSTANCE SpeakService WITH
    Stoppable <- "direct" \in Env,
    calling <- pc["speak"] \notin {"idle", "destroy", "gone"},
    calls <- speakCounter,
    phase <- ctx.downstreamState,
    ended <- ctx.upstreamFinished,
    request <- ctx.speakId

\* CSapiEngine implements SpeakService: requests start on an idle session and with
\* a number of their own, end for one of its reasons, and no call returns before
\* its request is over.
ImplementsSpeakService == Service!Spec
=============================================================================
