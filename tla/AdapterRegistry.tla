--------------------------- MODULE AdapterRegistry --------------------------
(***************************************************************************)
(* RegistryManager.cs: the voice tokens of the adapter under HKLM and its  *)
(* entry in Add/Remove Programs.  A call writes several values one by one; *)
(* an exception between two of them leaves the rest unwritten, and the     *)
(* call answers FALSE.  Tokens of other vendors (names without the prefix  *)
(* MSA_) are left out: no call reaches them.                               *)
(***************************************************************************)
EXTENDS Naturals, FiniteSets

CONSTANTS
    Exes,           \* executables of provider directories, as 1..n in the
                    \* order the directories are enumerated
    Voices,         \* voices, each with the one token name made from its id
    MaxVersion,     \* bound: versions of packages are 1..MaxVersion
    Plans           \* how often each thing the user or the machine may do happens

ASSUME RegistryAssumption ==
    /\ IsFiniteSet(Exes) /\ Exes = 1..Cardinality(Exes)
    /\ IsFiniteSet(Voices)
    /\ MaxVersion \in Nat

VARIABLES
    registry,       \* the tokens, and the uninstall entry: its DisplayVersion
                    \* (0: no entry) and whether InstallLocation is there
    left,           \* what is left of the plan
    past            \* history: what has happened that properties except

NoExe == 0

Versions == 0..MaxVersion

NoToken == [has |-> FALSE, exe |-> NoExe, whole |-> FALSE]

NoEntry == [version |-> 0, located |-> FALSE]

\* What a plan says how often of: faults, crashes, and what users do.
Chances == {"fault", "crash", "refresh", "close", "configure", "dialog", "toggle", "save",
            "engine", "launch", "open", "break", "click"}

RegistryTypeOK ==
    /\ left \in [Chances -> Nat]
    /\ registry \in [tokens : [Voices -> [has : BOOLEAN, exe : Exes \cup {NoExe},
                                          whole : BOOLEAN]],
                     entry : [version : Versions, located : BOOLEAN]]
    /\ \A v \in Voices : ~registry.tokens[v].has => registry.tokens[v] = NoToken

Spend(what) == left[what] > 0 /\ left' = [left EXCEPT ![what] = @ - 1]

Note(labels) == past' = past \cup labels

\* What the whole machinery of exceptions comes to: a call that touches the
\* registry does its work, or a fault of the plan stops it on the way.
Works == left' = left /\ past' = past

Throws(label) == Spend("fault") /\ Note({label})

TokenIs(v, token) == registry' = [registry EXCEPT !.tokens[v] = token]
-----------------------------------------------------------------------------
IsVoiceTokenRegistered(v) == registry.tokens[v].has

\* The values of an older registration of the voice stay until overwritten.
RegisterVoiceToken(v, exe) ==
    LET old == registry.tokens[v] IN
    \/ Works /\ TokenIs(v, [has |-> TRUE, exe |-> exe, whole |-> TRUE])
    \/ Throws("registryFailed") /\ registry' = registry
    \/ /\ Throws("registryFailed")
       /\ \E e \in {old.exe, exe} : TokenIs(v, [has |-> TRUE, exe |-> e, whole |-> old.whole])

\* DeleteSubKeyTree deletes the Attributes before the token itself.
UnregisterVoiceToken(v) ==
    \/ Works /\ TokenIs(v, NoToken)
    \/ /\ Throws("registryFailed")
       /\ \/ registry' = registry
          \/ TokenIs(v, [registry.tokens[v] EXCEPT !.whole = FALSE])

\* DisplayVersion is written before InstallLocation.
RegisterUninstallInfo(version) ==
    \/ Works /\ registry' = [registry EXCEPT !.entry = [version |-> version, located |-> TRUE]]
    \/ Throws("registryFailed") /\ registry' = registry
    \/ Throws("registryFailed") /\ registry' = [registry EXCEPT !.entry.version = version]

RemoveUninstallEntry == registry' = [registry EXCEPT !.entry = NoEntry]
=============================================================================
