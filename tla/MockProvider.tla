---------------------------- MODULE MockProvider ----------------------------
(***************************************************************************)
(* Program.cs and PipeServer.cs of the mock provider: Main accepts one     *)
(* session after the other, each session reads its commands, and the       *)
(* process shuts itself down after a second without a session.  A lock     *)
(* region or the code between two awaits is one action.  What a command    *)
(* does is in MockSynthesis.                                               *)
(***************************************************************************)
EXTENDS ProviderPipes

VARIABLE session    \* the session of each pair; proc holds Main's place and the
                    \* state of ProviderLifetime

Place == {"absent", "boot", "control", "audio", "accept", "opened", "exited"}

MockTypeOK ==
    /\ proc \in [Processes -> [place : Place, at : 0 .. MaxPairs, shutdown : BOOLEAN,
                               timer : {"none", "armed", "due"}, stale : BOOLEAN,
                               active : Nat]]
    /\ session \in [Pairs -> {"none", "reading", "cancelling", "ended"}]

MockInit ==
    /\ proc = [q \in Processes |-> [place |-> "absent", at |-> 0, shutdown |-> FALSE,
                                    timer |-> "none", stale |-> FALSE, active |-> 0]]
    /\ session = [p \in Pairs |-> "none"]

At(q, place) == proc[q].place = place

Absent == {q \in Processes : At(q, "absent")}

Running(q) == proc[q].place \notin {"absent", "exited"}

\* Main up to its loop, with ArmIdleShutdown.
Launched(q) == [proc EXCEPT ![q].place = "boot", ![q].timer = "armed"]
-----------------------------------------------------------------------------
(* AcceptSessionAsync.  place "control" lies between the creation of the   *)
(* two instances, "audio" before the two waits are started, "accept" in    *)
(* Task.WhenAll.                                                           *)

CreatesControl(q) ==
    /\ At(q, "boot") /\ ~proc[q].shutdown
    /\ \E p \in FreePairs :
          /\ p - 1 \notin FreePairs
          /\ pairs' = [pairs EXCEPT ![p].owner = q, ![p].control = "listening"]
          /\ proc' = [proc EXCEPT ![q].place = "control", ![q].at = p]
    /\ UNCHANGED session

CreatesAudio(q) ==
    /\ At(q, "control")
    /\ pairs' = [pairs EXCEPT ![proc[q].at].audio = "listening"]
    /\ proc' = [proc EXCEPT ![q].place = "audio"]
    /\ UNCHANGED session

Offered(q) == pairs[proc[q].at]

\* A wait on an instance whose client has come and gone fails.
StartsWaits(q) ==
    /\ At(q, "audio") /\ ~proc[q].shutdown
    /\ \A k \in Channels : Offered(q)[k] # "broken"
    /\ proc' = [proc EXCEPT ![q].place = "accept"]
    /\ UNCHANGED <<pairs, session>>

\* Mutant: the session is opened when its control pipe is.
AcceptsControl(q) ==
    /\ At(q, "accept")
    /\ Offered(q).control # "listening"
    /\ proc' = [proc EXCEPT ![q].place = "opened"]
    /\ UNCHANGED <<pairs, session>>

Accepts(q) ==
    /\ At(q, "accept")
    /\ \A k \in Channels : Offered(q)[k] # "listening"
    /\ proc' = [proc EXCEPT ![q].place = "opened"]
    /\ UNCHANGED <<pairs, session>>

\* SessionOpened, and the start of the session's task.  A timer whose second
\* has passed is on its way to the lock and finds that it was replaced.
Opens(q) ==
    /\ At(q, "opened")
    /\ proc' = [proc EXCEPT ![q].place = "boot", ![q].active = @ + 1,
                            ![q].stale = @ \/ proc[q].timer = "due", ![q].timer = "none"]
    /\ session' = [session EXCEPT ![proc[q].at] = "reading"]
    /\ UNCHANGED pairs

\* Main returns: the loop sees the shutdown, the waits are cancelled by it, or
\* one of them has failed and the other is over.  The sessions end with the
\* process.
Exits(q) ==
    /\ \/ At(q, "boot") /\ proc[q].shutdown
       \/ (At(q, "audio") \/ At(q, "accept")) /\ proc[q].shutdown
       \/ /\ At(q, "audio") /\ \E k \in Channels : Offered(q)[k] = "broken"
          /\ \A k \in Channels : Offered(q)[k] # "listening"
    /\ proc' = [proc EXCEPT ![q].place = "exited", ![q].timer = "none", ![q].stale = FALSE,
                            ![q].active = 0, ![q].at = 0]
    /\ pairs' = [p \in Pairs |-> IF pairs[p].owner = q THEN Disposed(pairs[p]) ELSE pairs[p]]
    /\ session' = [p \in Pairs |-> IF pairs[p].owner = q /\ session[p] # "none" THEN "ended"
                                   ELSE session[p]]
-----------------------------------------------------------------------------
(* ProviderLifetime.                                                       *)

\* Task.Delay of the current timer is over.
DelayEnds(q) ==
    /\ Running(q) /\ proc[q].timer = "armed"
    /\ proc' = [proc EXCEPT ![q].timer = "due"]
    /\ UNCHANGED <<pairs, session>>

\* Mutant: a timer that was replaced shuts the process down all the same.
ShutdownByAnyTimer(q) ==
    /\ Running(q)
    /\ proc[q].timer = "due" \/ proc[q].stale
    /\ proc' = [proc EXCEPT ![q].stale = FALSE, ![q].timer = "none", ![q].shutdown = TRUE]
    /\ UNCHANGED <<pairs, session>>

TryTriggerShutdown(q) ==
    /\ Running(q)
    /\ \/ /\ proc[q].timer = "due" /\ proc[q].active = 0
          /\ proc' = [proc EXCEPT ![q].timer = "none", ![q].shutdown = TRUE]
       \/ /\ proc[q].stale
          /\ proc' = [proc EXCEPT ![q].stale = FALSE]
    /\ UNCHANGED <<pairs, session>>

\* Mutant: the timer is started by the first session only.
ClosedWithoutRearming(q) == [proc[q] EXCEPT !.active = @ - 1]

\* SessionClosed: the last one starts the timer again.
Closed(q) ==
    [proc[q] EXCEPT !.active = @ - 1,
                    !.timer = IF proc[q].active = 1 THEN "armed" ELSE @,
                    !.stale = @ \/ (proc[q].active = 1 /\ proc[q].timer = "due")]

\* ReadSessionLoop ends at the end of the control stream or at a shutdown, and
\* HandleSession disposes of the control pipe and of the audio pipe.
SessionEnds(p) ==
    /\ session[p] = "reading"
    /\ \/ pairs[p].control = "broken" /\ pairs[p].commands = <<>>
       \/ proc[pairs[p].owner].shutdown
    /\ session' = [session EXCEPT ![p] = "ended"]
    /\ pairs' = [pairs EXCEPT ![p] = Disposed(@)]
    /\ proc' = [proc EXCEPT ![pairs[p].owner] = Closed(pairs[p].owner)]

ProcessSteps(q) ==
    \/ CreatesControl(q) \/ CreatesAudio(q) \/ StartsWaits(q)
    \/ Accepts(q) \/ Opens(q) \/ Exits(q)
    \/ DelayEnds(q) \/ TryTriggerShutdown(q)
=============================================================================
