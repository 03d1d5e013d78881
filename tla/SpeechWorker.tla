---------------------------- MODULE SpeechWorker ---------------------------
(***************************************************************************)
(* SpeechWorker.cpp: the request context shared by the audio thread, the   *)
(* control thread and the synchronous callers, and every region of it that *)
(* runs under m_requestMutex.  Such a region never blocks, so it is one    *)
(* action; what the code does between two regions (SAPI calls, pipe        *)
(* writes, fault publication) is a step of its own, and any other thread   *)
(* may run there.  A read of a pipe is taken together with the region that *)
(* consumes what was read: nothing but the reader sees the moment of the   *)
(* read.                                                                   *)
(***************************************************************************)
EXTENDS ProviderContract, PcmDeliveryPolicy

CONSTANT ReadMax        \* bytes one read of the audio pipe returns at most

ASSUME ReadMaxAssumption == ReadMax \in Nat \ {0}

Readers == {"audio", "control"}

Callers == {"speak", "purge"}    \* CSapiEngine::Speak; a direct caller

Threads == Readers \cup Callers

VARIABLES
    \* the worker object
    ctx,            \* m_context (m_generationCounter is ctx.generation)
    carry,          \* m_frameAssembler's partial frame
    faultPublicationStarted, faultVisible, exit,
    \* time, as far as the deadlines tell it apart
    idleElapsed,    \* SynthesisInactivityTimeoutMs since the last progress
    deadlinePassed, \* the deadline of the current cancellation
    \* the threads
    pc,             \* where each thread stands
    fault,          \* how far each thread is in EnterFaultedState
    batch,          \* the audio thread's locals while it delivers
    disposition,    \* the control thread's locals while it dispatches
    cancelId,       \* the speakId each thread is about to cancel
    \* CSapiEngine's site: m_activeSpeakId, m_cpSite being set while it is not 0
    site,
    \* history
    heard,          \* bytes of each request its own site accepted
    stray,          \* <<request, site>> for audio accepted by another's site
    told,           \* boundary events of each request its site was given
    outcome,        \* what Speak returned for each request
    aborted,        \* requests whose cancellation was begun
    asked,          \* cancels sent for each request by SendCancellation
    lateSpans       \* spans a site accepted after its request left Speaking

requestVars == <<ctx, carry>>
faultVars == <<faultPublicationStarted, faultVisible>>
timeVars == <<idleElapsed, deadlinePassed>>
localVars == <<batch, disposition, cancelId>>
historyVars == <<heard, stray, told, outcome, aborted, asked, lateSpans>>

Place ==
    {"read", "failed", "exit",                                  \* both readers
     "deliver", "write", "writing", "update",                   \* audio
     "forward", "callback", "notify",                           \* control
     "idle", "session", "retire", "start", "send", "wait",      \* Speak
     "cleanup", "destroy", "gone",
     "ready", "done", "sendStop",                               \* a direct caller
     "sendCancel", "drain"}                                     \* cancellation

FaultStage == {"none", "pending", "enter", "publish", "cancelIo"}

NoBatch ==
    [token |-> Token(FreshContext), spans |-> <<>>, credited |-> 0,
     accepted |-> TRUE, target |-> 0]

NoDisposition == [event |-> EventOf("other", 0, 0), fault |-> FALSE]

\* A thread runs its own code only when it is not inside EnterFaultedState.
At(t, place) == pc[t] = place /\ fault[t] = "none"

Goto(t, place) == pc' = [pc EXCEPT ![t] = place]

\* EnterFaultedState is called: "pending" when faultPending was set in the
\* region that found the fault, "enter" when the call comes without it.
CallsEnterFaultedState(t, stage) == fault' = [fault EXCEPT ![t] = stage]
-----------------------------------------------------------------------------
(* The locked helpers, on a context c and a partial frame k. *)

TransitionRequestToFaulted(c) ==
    [c EXCEPT !.upstreamState = "Faulted", !.downstreamState = "Faulted",
              !.completionHr = "E_FAIL"]

\* Mutant: the upstream state survives the reset.
ResetDownstream(c) == [c EXCEPT !.downstreamState = "Idle"]

ResetToIdle(c) == [c EXCEPT !.upstreamState = "Idle", !.downstreamState = "Idle"]

CheckTerminalBoundary(c, k) ==
    LET action == TerminalBoundaryAction(c, TerminalBoundaryFacts(c, k # <<>>))
    IN IF action \in {"Continue", "OverrunFault"}
       THEN [ctx |-> c, carry |-> k, fault |-> action = "OverrunFault"]
       ELSE [ctx |-> ResetToIdle(c), carry |-> <<>>, fault |-> FALSE]

\* Mutant: the boundary is stored, the upstream state is left alone.
StoresTerminalEvent(event) ==
    CheckTerminalBoundary(
        [ctx EXCEPT !.upstreamTerminalBytes = event.bytes, !.upstreamFinished = TRUE], carry)

HandleTerminalEvent(event) ==
    LET action == UpstreamTerminalAction(ctx, event.valid,
                    IsTerminalByteCountFrameAligned(event.bytes, BlockAlign))
    IN IF action # "Apply"
       THEN [ctx |-> TransitionRequestToFaulted(ctx), carry |-> carry, fault |-> TRUE]
       ELSE CheckTerminalBoundary(
                [ctx EXCEPT !.upstreamTerminalBytes = event.bytes,
                            !.upstreamFinished = TRUE,
                            !.upstreamState = IF event.type = "complete"
                                              THEN "Completed" ELSE "Cancelled"],
                carry)

\* An error log fails the request at the bytes read so far, in any state.
HandleErrorLog ==
    CheckTerminalBoundary(
        [ctx EXCEPT !.upstreamState = "Failed", !.upstreamFinished = TRUE,
                    !.completionHr = "E_FAIL",
                    !.upstreamTerminalBytes = ctx.rawAudioBytesRead],
        carry)

HandleParsedControlEvent(event) ==
    LET action == EventAction(event, ctx)
    IN IF action = "Terminal" THEN HandleTerminalEvent(event)
       ELSE IF action = "RequestErrorLog" THEN HandleErrorLog
       ELSE [ctx |-> ctx, carry |-> carry,
             fault |-> action \in {"MalformedSpeechBoundary", "FatalLog"}]

\* Mutant: the mutex is released before the fault is marked.
PublishLater(r) == ctx' = r.ctx /\ carry' = r.carry

\* The region ends with result r, found by thread t: a boundary fault sets
\* faultPending before the mutex is released.
Publish(r) ==
    /\ ctx' = IF r.fault THEN [r.ctx EXCEPT !.faultPending = TRUE] ELSE r.ctx
    /\ carry' = r.carry

BeginsCancellation(t) ==
    /\ ctx' = TransitionToCancelling(ctx)
    /\ carry' = <<>>
    /\ deadlinePassed' = FALSE
    /\ cancelId' = [cancelId EXCEPT ![t] = ctx.speakId]
    /\ aborted' = aborted \cup {ctx.speakId}
-----------------------------------------------------------------------------
(* EnterFaultedState, for the thread t that called it. *)

\* The request is faulted; only the first caller goes on to publish.
FaultsRequest(t) ==
    /\ fault[t] \in {"pending", "enter"}
    /\ ctx' = IF faultPublicationStarted
              THEN TransitionRequestToFaulted(ctx)
              ELSE [TransitionRequestToFaulted(ctx) EXCEPT !.faultPending = TRUE]
    /\ carry' = <<>>
    /\ faultPublicationStarted' = TRUE
    /\ fault' = [fault EXCEPT ![t] = IF faultPublicationStarted THEN "none" ELSE "publish"]
    /\ UNCHANGED <<faultVisible, exit, timeVars, pc, localVars, site, historyVars, providerVars>>

\* Under m_eventForwardMutex: from here on no event is admitted.
PublishesFault(t) ==
    /\ fault[t] = "publish"
    /\ faultVisible' = TRUE
    /\ ctx' = [ctx EXCEPT !.faultPending = FALSE]
    /\ fault' = [fault EXCEPT ![t] = "cancelIo"]
    /\ UNCHANGED <<carry, faultPublicationStarted, exit, timeVars, pc, localVars, site,
                   historyVars, providerVars>>

\* PipeClient::Cancel fails the reads that are pending; a reader that is not
\* inside a read at that moment is not touched.
PendingReads == SUBSET {u \in Readers : At(u, "read")}

CancelsIo(t) ==
    /\ fault[t] = "cancelIo"
    /\ \E hit \in PendingReads :
        pc' = [u \in Threads |-> IF u \in hit THEN "failed" ELSE pc[u]]
    /\ fault' = [fault EXCEPT ![t] = "none"]
    /\ UNCHANGED <<requestVars, faultVars, exit, timeVars, localVars, site, historyVars,
                   providerVars>>

EnterFaultedState(t) == FaultsRequest(t) \/ PublishesFault(t) \/ CancelsIo(t)
-----------------------------------------------------------------------------
(* Both reader threads. *)

\* The pipe is broken and holds nothing more.
ReadBreaks(u) ==
    /\ At(u, "read")
    /\ ~connected
    /\ (IF u = "audio" THEN audio ELSE events) = <<>>
    /\ Goto(u, "failed")
    /\ UNCHANGED <<requestVars, faultVars, exit, timeVars, fault, localVars, site,
                   historyVars, providerVars>>

\* A failed read ends the thread, after a fault unless the worker is stopping.
ReadFailed(u) ==
    /\ At(u, "failed")
    /\ Goto(u, "exit")
    /\ IF exit THEN UNCHANGED fault ELSE CallsEnterFaultedState(u, "enter")
    /\ UNCHANGED <<requestVars, faultVars, exit, timeVars, localVars, site, historyVars,
                   providerVars>>

\* Mutant: exit is noticed only once the pipe is broken.
LeavesBrokenLoop(u) ==
    /\ At(u, "read")
    /\ exit /\ ~connected
    /\ Goto(u, "exit")
    /\ UNCHANGED <<requestVars, faultVars, exit, timeVars, fault, localVars, site,
                   historyVars, providerVars>>

LeavesLoop(u) ==
    /\ At(u, "read")
    /\ exit
    /\ Goto(u, "exit")
    /\ UNCHANGED <<requestVars, faultVars, exit, timeVars, fault, localVars, site,
                   historyVars, providerVars>>
-----------------------------------------------------------------------------
(* The audio thread. *)

\* ReadAudioChunk returned data; the region of IngestAudioChunkLocked follows.
Reads(data) ==
    /\ At("audio", "read")
    /\ audio # <<>>
    /\ \E n \in 1 .. ReadMax : n <= Len(audio) /\ data = SubSeq(audio, 1, n)
    /\ audio' = SubSeq(audio, Len(data) + 1, Len(audio))
    /\ UNCHANGED <<connected, commands, events, provider, promised>>

Chunks == {SubSeq(audio, 1, n) : n \in 1 .. Len(audio)}

Counted(data) == [ctx EXCEPT !.rawAudioBytesRead = @ + Len(data)]

AssemblesSpeakingAudio ==
    \E data \in Chunks :
        LET framed == Process(carry, SubSeq(data, 1, BytesToFrame(ctx, Len(data))))
        IN /\ Reads(data)
           /\ ChunkAction(ctx) = "AssembleSpeakingAudio"
           /\ idleElapsed' = FALSE
           /\ IF framed.spans = <<>>
              THEN LET r == CheckTerminalBoundary(Counted(data), framed.carry)
                   IN /\ Publish(r)
                      /\ fault' = [fault EXCEPT !["audio"] = IF r.fault THEN "pending" ELSE "none"]
                      /\ UNCHANGED <<pc, batch>>
              ELSE /\ ctx' = Counted(data)
                   /\ carry' = framed.carry
                   /\ batch' = [NoBatch EXCEPT !.token = Token(ctx), !.spans = framed.spans]
                   /\ Goto("audio", "deliver")
                   /\ UNCHANGED fault
           /\ UNCHANGED <<faultVars, exit, deadlinePassed, disposition, cancelId, site,
                          historyVars>>

\* Frame assembly runs out of memory: the thread's catch clause faults the
\* session and the thread ends.
AssemblyThrows ==
    \E data \in Chunks :
        /\ "oom" \in Env
        /\ Reads(data)
        /\ ChunkAction(ctx) = "AssembleSpeakingAudio"
        /\ idleElapsed' = FALSE
        /\ ctx' = Counted(data)
        /\ Goto("audio", "exit")
        /\ CallsEnterFaultedState("audio", "enter")
        /\ UNCHANGED <<carry, faultVars, exit, deadlinePassed, localVars, site, historyVars>>

DrainsCancellationAudio ==
    \E data \in Chunks :
        LET r == CheckTerminalBoundary(Counted(data), carry)
        IN /\ Reads(data)
           /\ ChunkAction(ctx) = "DrainCancellationAudio"
           /\ idleElapsed' = FALSE
           /\ Publish(r)
           /\ UNCHANGED <<faultVars, exit, deadlinePassed, pc, fault, localVars, site,
                          historyVars>>

FaultsOnIdleAudio ==
    \E data \in Chunks :
        /\ Reads(data)
        /\ ChunkAction(ctx) = "FaultUnexpectedIdleAudio"
        /\ Publish([ctx |-> ctx, carry |-> carry, fault |-> TRUE])
        /\ CallsEnterFaultedState("audio", "pending")
        /\ UNCHANGED <<faultVars, exit, timeVars, pc, localVars, site, historyVars>>

DrainsFaultedAudio ==
    \E data \in Chunks :
        /\ Reads(data)
        /\ ChunkAction(ctx) = "DrainFaultedSessionAudio"
        /\ UNCHANGED <<requestVars, faultVars, exit, timeVars, pc, fault, localVars, site,
                       historyVars>>

\* The admission of the next span; a refused one ends the batch.
AdmitsSpan ==
    /\ At("audio", "deliver")
    /\ Goto("audio", IF SpanAllowed(ctx, batch.token) THEN "write" ELSE "update")
    /\ UNCHANGED <<requestVars, faultVars, exit, timeVars, fault, localVars, site,
                   historyVars, providerVars>>

\* OnAudioData takes the site as it is now; without one the write is refused.
CapturesSite ==
    /\ At("audio", "write")
    /\ IF site = 0
       THEN /\ batch' = [batch EXCEPT !.accepted = FALSE]
            /\ Goto("audio", "update")
       ELSE /\ batch' = [batch EXCEPT !.target = site]
            /\ Goto("audio", "writing")
    /\ UNCHANGED <<requestVars, faultVars, exit, timeVars, fault, disposition, cancelId, site,
                   historyVars, providerVars>>

\* The bytes of a span that belong to request r.
BytesOf(span, r) == Cardinality({i \in 1 .. Len(span) : span[i] = r})

SiteAcceptsSpan ==
    LET span == Head(batch.spans)
    IN /\ At("audio", "writing")
       /\ batch' = [batch EXCEPT !.spans = Tail(@), !.credited = @ + Len(span)]
       /\ Goto("audio", IF Tail(batch.spans) = <<>> THEN "update" ELSE "deliver")
       /\ heard' = [heard EXCEPT ![batch.target] = @ + BytesOf(span, batch.target)]
       /\ stray' = stray \cup {<<span[i], batch.target>> :
                                i \in {j \in 1 .. Len(span) : span[j] # batch.target}}
       /\ lateSpans' = IF ctx.downstreamState = "Speaking" /\ Token(ctx) = batch.token
                       THEN lateSpans
                       ELSE [lateSpans EXCEPT ![batch.token.speakId] = @ + 1]
       /\ UNCHANGED <<requestVars, faultVars, exit, timeVars, fault, disposition, cancelId, site,
                      told, outcome, aborted, asked, providerVars>>

\* Write fails or takes fewer bytes than it was given.
SiteRejectsSpan ==
    /\ At("audio", "writing")
    /\ "reject" \in Env
    /\ batch' = [batch EXCEPT !.accepted = FALSE]
    /\ Goto("audio", "update")
    /\ UNCHANGED <<requestVars, faultVars, exit, timeVars, fault, disposition, cancelId, site,
                   historyVars, providerVars>>

\* UpdateAfterAudioDeliveryLocked.
UpdatesAfterDelivery ==
    LET action == BatchAction(ctx, batch.token, ~batch.accepted)
        credited == [ctx EXCEPT !.deliveredAudioBytes = @ + batch.credited]
        r == CheckTerminalBoundary(
                IF action = "CreditAndCheckBoundary" THEN credited ELSE ctx, carry)
    IN /\ At("audio", "update")
       /\ batch' = NoBatch
       /\ \/ /\ action = "IgnoreStaleOrInactive"
             /\ Goto("audio", "read")
             /\ UNCHANGED <<requestVars, deadlinePassed, fault, cancelId, aborted>>
          \/ /\ action \in {"CreditAndCheckBoundary", "CheckCancellationBoundary"}
             /\ Publish(r)
             /\ Goto("audio", "read")
             /\ fault' = [fault EXCEPT !["audio"] = IF r.fault THEN "pending" ELSE "none"]
             /\ UNCHANGED <<deadlinePassed, cancelId, aborted>>
          \/ /\ action = "CreditAndBeginCancellation"
             /\ BeginCancellationAction(ctx) = "TransitionToCancelling"
             /\ ctx' = TransitionToCancelling(credited)
             /\ carry' = <<>>
             /\ deadlinePassed' = FALSE
             /\ cancelId' = [cancelId EXCEPT !["audio"] = ctx.speakId]
             /\ aborted' = aborted \cup {ctx.speakId}
             /\ Goto("audio", "sendCancel")
             /\ UNCHANGED fault
       /\ UNCHANGED <<faultVars, exit, idleElapsed, disposition, site, heard, stray, told,
                      outcome, asked, lateSpans, providerVars>>
-----------------------------------------------------------------------------
(* SendCancellation, for the thread t that began the cancellation.  A send *)
(* fails when the pipe is broken, when a fault that is being published     *)
(* cancels it, or when the provider does not take it in time; a caller     *)
(* that waits for the drain also gives up once its budget is used up.      *)

SendMayFail ==
    \/ ~connected
    \/ "sendFail" \in Env
    \/ \E t \in Threads : fault[t] = "cancelIo"

OutOfBudget(t) == t \in Callers /\ deadlinePassed

SendsCancel(t, next) ==
    /\ At(t, "sendCancel")
    /\ connected
    /\ ~OutOfBudget(t)
    /\ commands' = Append(commands, [kind |-> "cancel", speakId |-> cancelId[t]])
    /\ asked' = [asked EXCEPT ![cancelId[t]] = @ + 1]
    /\ Goto(t, next)
    /\ UNCHANGED <<requestVars, faultVars, exit, timeVars, fault, localVars, site, heard, stray,
                   told, outcome, aborted, lateSpans, connected, events, audio, provider,
                   promised>>

CancelSendFails(t, next) ==
    /\ At(t, "sendCancel")
    /\ SendMayFail \/ OutOfBudget(t)
    /\ CallsEnterFaultedState(t, "enter")
    /\ Goto(t, next)
    /\ UNCHANGED <<requestVars, faultVars, exit, timeVars, localVars, site, heard, stray, told,
                   aborted, asked, lateSpans, providerVars>>

AudioSendsCancel ==
    \/ SendsCancel("audio", "read")
    \/ CancelSendFails("audio", "read") /\ UNCHANGED outcome

AudioThread ==
    \/ ReadBreaks("audio") \/ ReadFailed("audio") \/ LeavesLoop("audio")
    \/ AssemblesSpeakingAudio \/ AssemblyThrows \/ DrainsCancellationAudio
    \/ FaultsOnIdleAudio \/ DrainsFaultedAudio
    \/ AdmitsSpan \/ CapturesSite \/ SiteAcceptsSpan \/ SiteRejectsSpan
    \/ UpdatesAfterDelivery \/ AudioSendsCancel
    \/ EnterFaultedState("audio")
-----------------------------------------------------------------------------
(* The control thread. *)

NextEvent ==
    /\ At("control", "read")
    /\ events # <<>>
    /\ events' = Tail(events)
    /\ UNCHANGED <<connected, commands, audio, provider, promised>>

\* A line that is not JSON is a failed read.
ReadsMalformedLine ==
    /\ NextEvent
    /\ Head(events).type = "malformed"
    /\ Goto("control", "failed")
    /\ UNCHANGED <<requestVars, faultVars, exit, timeVars, fault, localVars, site, historyVars>>

\* An event without a request is a fault of the session.
ReadsOrphanEvent ==
    /\ NextEvent
    /\ Head(events).type # "malformed"
    /\ Head(events).speakId = 0
    /\ ctx' = IF "Faulted" \in {ctx.upstreamState, ctx.downstreamState} THEN ctx
              ELSE [ctx EXCEPT !.faultPending = TRUE]
    /\ CallsEnterFaultedState("control", "pending")
    /\ UNCHANGED <<carry, faultVars, exit, timeVars, pc, localVars, site, historyVars>>

\* The region takes its effect first; forwarding was decided on the context
\* before it.
HandlesEvent ==
    LET event == Head(events)
        r == HandleParsedControlEvent(event)
    IN /\ NextEvent
       /\ event.type # "malformed"
       /\ event.speakId # 0
       /\ Publish(r)
       /\ idleElapsed' = (idleElapsed /\ ~RefreshesProgress(event, ctx))
       /\ IF ShouldForwardToSapi(event, ctx)
          THEN /\ disposition' = [event |-> event, fault |-> r.fault]
               /\ Goto("control", "forward")
               /\ UNCHANGED fault
          ELSE /\ fault' = [fault EXCEPT !["control"] = IF r.fault THEN "pending" ELSE "none"]
               /\ UNCHANGED <<pc, disposition>>
       /\ UNCHANGED <<faultVars, exit, deadlinePassed, batch, cancelId, site, historyVars>>

\* Mutant: a fault is forgotten once the event is dealt with.
DispatchedOnly == Goto("control", "read") /\ UNCHANGED fault /\ disposition' = NoDisposition

\* DispatchOrForwardEvent returns to the loop, through EnterFaultedState when
\* the event was found to be a fault.
Dispatched ==
    /\ Goto("control", "read")
    /\ fault' = [fault EXCEPT !["control"] = IF disposition.fault THEN "pending" ELSE "none"]
    /\ disposition' = NoDisposition

\* ForwardEventToSapi: the final admission, under m_eventForwardMutex.
AdmitsEvent ==
    /\ At("control", "forward")
    /\ IF ~faultVisible /\ FinalAdmission(disposition.event, ctx)
       THEN Goto("control", "callback") /\ UNCHANGED <<fault, disposition>>
       ELSE Dispatched
    /\ UNCHANGED <<requestVars, faultVars, exit, timeVars, batch, cancelId, site, historyVars,
                   providerVars>>

\* OnSpeechEvent takes the site as it is now: an event of a request that is no
\* longer the active one is dropped, and only boundary events reach a site.
CapturesEventSite ==
    /\ At("control", "callback")
    /\ IF disposition.event.speakId = site /\ disposition.event.type = "boundary"
       THEN Goto("control", "notify") /\ UNCHANGED <<fault, disposition>>
       ELSE Dispatched
    /\ UNCHANGED <<requestVars, faultVars, exit, timeVars, batch, cancelId, site, historyVars,
                   providerVars>>

\* AddEvents on the site that was taken, with no mutex held.
NotifiesSite ==
    /\ At("control", "notify")
    /\ told' = [told EXCEPT ![disposition.event.speakId] = @ + 1]
    /\ Dispatched
    /\ UNCHANGED <<requestVars, faultVars, exit, timeVars, batch, cancelId, site, heard, stray,
                   outcome, aborted, asked, lateSpans, providerVars>>

ControlThread ==
    \/ ReadBreaks("control") \/ ReadFailed("control") \/ LeavesLoop("control")
    \/ ReadsMalformedLine \/ ReadsOrphanEvent \/ HandlesEvent
    \/ AdmitsEvent \/ CapturesEventSite \/ NotifiesSite
    \/ EnterFaultedState("control")
-----------------------------------------------------------------------------
(* Time. *)

InactivityElapses ==
    /\ "time" \in Env
    /\ ~idleElapsed
    /\ IsActivelySynthesizing(ctx) \/ IsAwaitingTerminalAudio(ctx)
    /\ idleElapsed' = TRUE
    /\ UNCHANGED <<requestVars, faultVars, exit, deadlinePassed, pc, fault, localVars, site,
                   historyVars, providerVars>>

DeadlinePasses ==
    /\ "time" \in Env
    /\ ~deadlinePassed
    /\ IsDrainingCancellation(ctx)
    /\ deadlinePassed' = TRUE
    /\ UNCHANGED <<requestVars, faultVars, exit, idleElapsed, pc, fault, localVars, site,
                   historyVars, providerVars>>
=============================================================================
