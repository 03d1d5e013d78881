---------------------------- MODULE ProviderPipes ---------------------------
(***************************************************************************)
(* The named pipes between CoreEngine and a provider.  A provider offers a *)
(* pair of pipe instances, control and audio, for each session; a client   *)
(* opens the control pipe and then the audio pipe by name, so the two      *)
(* instances it gets need not be of one pair.                              *)
(***************************************************************************)
EXTENDS ControlStreamBuffer, FiniteSets

CONSTANTS
    Clients,        \* PipeClients, each of one engine
    Talker,         \* the client whose conversation is modelled
    Processes,      \* provider processes that may be launched
    MaxPairs,       \* bound: pairs of pipe instances created
    NoProcess       \* no provider process

ASSUME PipesAssumption ==
    /\ Talker \in Clients
    /\ Clients \cap {"none", "listening", "broken", "closed"} = {}
    /\ MaxPairs \in Nat
    /\ IsFiniteSet(Processes) /\ NoProcess \notin Processes

Pairs == 1 .. MaxPairs

Channels == {"control", "audio"}

\* An instance is not created, listens, is open for a client, is left by its
\* client, or is closed by the provider.
Ends == {"none", "listening", "broken", "closed"} \cup Clients

\* The shape of the text a command carries, as far as the provider tells it apart.
Shapes == {"none", "empty", "one", "two", "stall", "bad"}

VARIABLES
    pairs,          \* each pair: its process, its two instances, the commands
                    \* on the way to the provider, the bytes on the way back
                    \* and the halves of an audio write nobody has read, each
                    \* as the number of its request
    proc            \* the provider processes; their fields are MockProvider's

PairsTypeOK ==
    /\ DOMAIN pairs = Pairs
    /\ \A p \in Pairs :
          /\ pairs[p].owner \in Processes \cup {NoProcess}
          /\ \A k \in Channels : pairs[p][k] \in Ends
          /\ pairs[p].commands \in Seq([kind : {"info", "voices", "speak", "cancel", "unknown"},
                                        id : Nat, shape : Shapes])
          /\ pairs[p].replies \in Seq(Nat)
          /\ pairs[p].pcm \in Seq(Nat) /\ Len(pairs[p].pcm) <= 2

NoPair == [owner |-> NoProcess, control |-> "none", audio |-> "none",
           commands |-> <<>>, replies |-> <<>>, pcm |-> <<>>]

PairsInit == pairs = [p \in Pairs |-> NoPair]

FreePairs == {p \in Pairs : pairs[p].owner = NoProcess}

Listening(k) == {p \in Pairs : pairs[p][k] = "listening"}

Present(k) == {p \in Pairs : pairs[p][k] \notin {"none", "closed"}}

\* What CreateFile says of a pipe name that has no listening instance.
NotFound(k) == Present(k) = {}

Connected(p) == \A k \in Channels : pairs[p][k] \in Clients

\* A client's handles to the instances ps are closed.
Broken(end, c) == IF end = c THEN "broken" ELSE end

LeftBy(c, f) == [p \in Pairs |-> [f[p] EXCEPT !.control = Broken(@, c), !.audio = Broken(@, c),
                                              !.replies = IF f[p].control = c THEN <<>> ELSE @,
                                              !.pcm = IF f[p].audio = c THEN <<>> ELSE @]]

\* The provider disposes of a pair; what it wrote can still be read.
Disposed(pair) == [pair EXCEPT !.control = "closed", !.audio = "closed", !.pcm = <<>>]
=============================================================================
