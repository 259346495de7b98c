-------------------------------- MODULE Config --------------------------------
(***************************************************************************)
(* Runtime settings (internal/runtimecfg): one process with its copy of    *)
(* the settings and its subscribers, on a database that other processes    *)
(* change too.                                                             *)
(*                                                                         *)
(* A load reads the version and then the settings one by one, so a commit  *)
(* can come in between. The watcher and a request that has just saved may  *)
(* load at the same time.                                                  *)
(***************************************************************************)
EXTENDS Naturals, FiniteSets

CONSTANTS
    Settings,   \* keys
    Values,     \* their values, the bootstrap value among them
    Bootstrap,  \* the value of a key that is not stored
    Savers,     \* requests that save or roll back
    Watcher,    \* the watcher
    MaxSaves,   \* bound: versions
    MaxLosses   \* bound: loads that fail

Loaders == Savers \cup {Watcher}

ASSUME ConfigAssumption ==
    /\ Bootstrap \in Values /\ Watcher \notin Savers
    /\ IsFiniteSet(Settings) /\ MaxSaves \in Nat /\ MaxLosses \in Nat

VARIABLES
    stored,  \* server_settings; a key that is not stored has Bootstrap
    latest,  \* config.version
    history, \* config_history: the settings as of each version
    held,    \* values and version in memory
    told,    \* what the subscriber of each key was told last
    load,    \* loads and the requests they belong to
    crossed, \* history: keys of which two loads had something to tell at once
    losses   \* loads that have failed so far

cfVars == <<stored, latest, history, held, told, load, crossed, losses>>

Assignments == [Settings -> Values]

\* Every variable has its type.
CFTypeOK ==
    /\ stored \in Assignments /\ told \in Assignments
    /\ latest \in 0..MaxSaves /\ losses \in 0..MaxLosses
    /\ history \in [0..MaxSaves -> Assignments]
    /\ held \in [values: Assignments, version: 0..latest]
    /\ load \in [Loaders -> [pc: {"idle", "compare", "read", "tell"}, ver: 0..MaxSaves, back: 0..MaxSaves,
                             left: SUBSET Settings, vals: Assignments]]
    /\ crossed \subseteq Settings

Default == [k \in Settings |-> Bootstrap]
First(S) == CHOOSE k \in S : TRUE  \* settings are gone through in one order
Nobody == [pc |-> "idle", ver |-> 0, back |-> 0, left |-> {}, vals |-> Default]

CFInit ==
    /\ stored = Default /\ latest = 0 /\ told = Default
    /\ history = [v \in 0..MaxSaves |-> Default]
    /\ held = [values |-> Default, version |-> 0]
    /\ load = [l \in Loaders |-> Nobody] /\ crossed = {} /\ losses = 0

database == <<stored, latest, history>>
memory == <<held, told, crossed>>

-----------------------------------------------------------------------------
(* Saving.                                                                 *)

\* Mutant: whatever the version is by now.
CommitAny(next, expected) ==
    /\ latest < MaxSaves
    /\ latest' = latest + 1 /\ stored' = next
    /\ history' = [history EXCEPT ![latest + 1] = next]

\* applyStored: in one transaction, and only on the version it was asked for.
Commit(next, expected) ==
    /\ latest = expected /\ latest < MaxSaves
    /\ latest' = latest + 1 /\ stored' = next
    /\ history' = [history EXCEPT ![latest + 1] = next]

\* Load begins: the version first.
Reading == [Nobody EXCEPT !.pc = "read", !.ver = latest', !.left = Settings]

Elsewhere(k, v) ==
    /\ stored[k] # v /\ Commit([stored EXCEPT ![k] = v], latest)
    /\ UNCHANGED <<memory, load, losses>>

\* Apply, on the version this process has shown.
Save(l, k, v) ==
    /\ load[l].pc = "idle"
    /\ Commit([stored EXCEPT ![k] = v], held.version)
    /\ load' = [load EXCEPT ![l] = Reading]
    /\ UNCHANGED <<memory, losses>>

\* Rollback compares the settings of version back with those of now, one by
\* one, before it opens the transaction.
RollBack(l, back) ==
    /\ load[l].pc = "idle" /\ back < held.version
    /\ load' = [load EXCEPT ![l] = [Nobody EXCEPT !.pc = "compare", !.ver = held.version, !.back = back,
                                                  !.left = Settings]]
    /\ UNCHANGED <<database, memory, losses>>

\* A setting that is as it was is left out: vals keeps what will be stored.
Compare(l) ==
    /\ load[l].pc = "compare" /\ load[l].left # {}
    /\ LET k == First(load[l].left)
       IN  load' = [load EXCEPT ![l].left = @ \ {k}, ![l].vals[k] = stored[k]]
    /\ UNCHANGED <<database, memory, losses>>

RolledBack(l) ==
    LET was == history[load[l].back]
        next == [k \in Settings |-> IF was[k] = load[l].vals[k] THEN stored[k] ELSE was[k]] IN
    /\ load[l].pc = "compare" /\ load[l].left = {}
    /\ \/ was # load[l].vals /\ Commit(next, load[l].ver) /\ load' = [load EXCEPT ![l] = Reading]
       \/ (latest # load[l].ver \/ was = load[l].vals) /\ load' = [load EXCEPT ![l] = Nobody]
          /\ UNCHANGED database
    /\ UNCHANGED <<memory, losses>>

-----------------------------------------------------------------------------
(* Load.                                                                   *)

\* The watcher looks at the version every few seconds.
Watch ==
    /\ load[Watcher].pc = "idle" /\ latest # held.version
    /\ load' = [load EXCEPT ![Watcher] = [Nobody EXCEPT !.pc = "read", !.ver = latest, !.left = Settings]]
    /\ UNCHANGED <<database, memory, losses>>

Read(l) ==
    /\ load[l].pc = "read" /\ load[l].left # {}
    /\ LET k == First(load[l].left)
       IN  load' = [load EXCEPT ![l].left = @ \ {k}, ![l].vals[k] = stored[k]]
    /\ UNCHANGED <<database, memory, losses>>

Fail(l) ==
    /\ load[l].pc = "read" /\ losses < MaxLosses /\ losses' = losses + 1
    /\ load' = [load EXCEPT ![l] = Nobody]
    /\ UNCHANGED <<database, memory>>

ToTell(l) == IF load[l].pc = "tell" THEN load[l].left ELSE {}

\* Values, sources and version change together; the subscribers of what has
\* changed are called after the lock is given back.
Install(l) ==
    LET news == {k \in Settings : held.values[k] # load[l].vals[k]} IN
    /\ load[l].pc = "read" /\ load[l].left = {}
    /\ held' = [values |-> load[l].vals, version |-> load[l].ver]
    /\ load' = [load EXCEPT ![l].pc = "tell", ![l].left = news]
    /\ crossed' = crossed \cup (news \cap UNION {ToTell(m) : m \in Loaders \ {l}})
    /\ UNCHANGED <<database, told, losses>>

Tell(l) ==
    \/ \E k \in load[l].left :
        /\ load[l].pc = "tell" /\ load' = [load EXCEPT ![l].left = @ \ {k}]
        /\ told' = [told EXCEPT ![k] = load[l].vals[k]]
        /\ UNCHANGED <<database, held, crossed, losses>>
    \/ /\ load[l].pc = "tell" /\ load[l].left = {}
       /\ load' = [load EXCEPT ![l] = Nobody] /\ UNCHANGED <<database, memory, losses>>

LoadStep(l) ==
    Install(l) \/ Tell(l) \/ RolledBack(l) \/ Read(l) \/ Compare(l)

CFNext ==
    \/ Watch
    \/ \E l \in Loaders : LoadStep(l) \/ Fail(l)
    \/ \E k \in Settings, v \in Values : Elsewhere(k, v) \/ \E l \in Savers : Save(l, k, v)
    \/ \E l \in Savers, back \in 0..MaxSaves : RollBack(l, back)

\* Loads go on, and the watcher keeps looking.
CFFairness == WF_cfVars(Watch) /\ \A l \in Loaders : WF_cfVars(LoadStep(l))

CFSpec == CFInit /\ [][CFNext]_cfVars /\ CFFairness

-----------------------------------------------------------------------------
(* Properties.                                                             *)

\* A rollback that is saved leaves every setting as it was in the version it
\* went back to, though it compares before its transaction begins.
RollbackRestores ==
    [][\A l \in Savers : load[l].pc = "compare" /\ latest' # latest /\ load'[l].pc = "read"
                            => stored' = history[load[l].back]]_cfVars

\* Once nobody saves any more, the process ends up with the settings that are
\* stored, and each subscriber with its own, unless two loads had something
\* different to tell it at the same time.
SettingsArrive ==
    <>[](held.values = stored /\ \A k \in Settings : told[k] = stored[k] \/ k \in crossed)

\* What processes that share one configuration may count on.
ConfigContract == []CFTypeOK /\ RollbackRestores /\ SettingsArrive

=============================================================================
