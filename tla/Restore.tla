-------------------------------- MODULE Restore --------------------------------
(***************************************************************************)
(* "viewdock backup restore" (internal/backup, cli.go and restore.go),     *)
(* with the server stopped: a snapshot replaces the database file, any     *)
(* other backup is copied row by row in one transaction.                   *)
(*                                                                         *)
(* A database is known by where its contents come from. What is at the     *)
(* destination is in Backup: here a file of it may be missing at any time. *)
(***************************************************************************)
EXTENDS Naturals

CONSTANTS
    Snapshots,  \* backups that are copies of the database file
    Exports,    \* backups that are rows
    Before,     \* the contents before the first restore
    Fresh,      \* those of a new database, without users
    Missing,    \* no file is there
    MaxSecond,  \* bound on the clock, which names safety copies
    MaxRuns     \* bound on restores

Backups == Snapshots \cup Exports
Contents == Backups \cup {Before, Fresh, Missing}

ASSUME RestoreAssumption ==
    /\ MaxSecond \in Nat /\ MaxRuns \in Nat
    /\ {Before, Fresh, Missing} \cap Backups = {} /\ Missing # Before
    /\ Fresh \notin {Before, Missing}

VARIABLES
    data,    \* the database file
    safety,  \* viewdock.db.pre-restore-<second>
    own,     \* contents of the pre-restore backups in the config directory
    cmd,     \* the command under way
    second,
    runs,
    clash    \* history: a safety copy got the name of an earlier one

rsVars == <<data, safety, own, cmd, second, runs, clash>>

RestorePcs == {"idle", "check", "copy", "fetch", "aside", "place"}

\* Every variable has its type.
RSTypeOK ==
    /\ data \in Contents
    /\ safety \in [0 .. MaxSecond -> Contents]
    /\ own \subseteq Contents
    /\ cmd \in [pc: RestorePcs, what: Contents, rows: BOOLEAN, force: BOOLEAN]
    /\ second \in 0 .. MaxSecond /\ runs \in 0 .. MaxRuns
    /\ clash \in BOOLEAN

Stop == [pc |-> "idle", what |-> Missing, rows |-> FALSE, force |-> FALSE]
Ended == cmd' = Stop
RestoreAt(pc) == cmd' = [cmd EXCEPT !.pc = pc]

RSInit ==
    /\ data = Before /\ safety = [n \in 0 .. MaxSecond |-> Missing]
    /\ own = {} /\ cmd = Stop /\ second = 0 /\ runs = 0 /\ clash = FALSE

\* A backup at the destination or one the command made itself; rows mode when
\* it is an export. A database in PostgreSQL takes rows from a snapshot too.
Command(b, force) ==
    /\ cmd.pc = "idle" /\ runs < MaxRuns
    /\ b \in Backups \cup own
    /\ runs' = runs + 1
    /\ \E rows \in IF b \in Snapshots \cup own THEN BOOLEAN ELSE {TRUE} :
          cmd' = [pc |-> IF rows THEN "check" ELSE "fetch", what |-> b,
                  rows |-> rows, force |-> force]
    /\ UNCHANGED <<data, safety, own, second, clash>>

\* runRestore, rows mode: the target is migrated, which makes it if need be,
\* and only an empty one is taken without --force.
Check ==
    /\ cmd.pc = "check"
    /\ data' = IF data = Missing THEN Fresh ELSE data
    /\ \/ data' = Fresh /\ RestoreAt("fetch")
       \/ data' # Fresh /\ cmd.force /\ RestoreAt("copy")
       \/ data' # Fresh /\ ~cmd.force /\ Ended
    /\ UNCHANGED <<safety, own, second, runs, clash>>

\* The safety backup of what is about to be replaced.
Copy ==
    /\ cmd.pc = "copy"
    /\ own' = own \cup {data} /\ RestoreAt("fetch")
    /\ UNCHANGED <<data, safety, second, runs, clash>>

\* fetchVerified: every file is there and is what the manifest says. In file
\* mode an existing database with users needs --force too.
Fetch ==
    /\ cmd.pc = "fetch"
    /\ IF cmd.rows \/ data \in {Fresh, Missing} \/ cmd.force THEN RestoreAt("aside") ELSE Ended
    /\ UNCHANGED <<data, safety, own, second, runs, clash>>

\* Mutant: the database file is overwritten.
SetAsideNot ==
    /\ cmd.pc = "aside" /\ ~cmd.rows
    /\ RestoreAt("place") /\ data' = Missing
    /\ UNCHANGED <<safety, own, second, runs, clash>>

\* The database file, checkpointed, is renamed to its safety copy.
SetAside ==
    /\ cmd.pc = "aside" /\ ~cmd.rows /\ RestoreAt("place")
    /\ data' = Missing
    /\ safety' = IF data = Missing THEN safety ELSE [safety EXCEPT ![second] = data]
    /\ clash' = (clash \/ (data # Missing /\ safety[second] # Missing))
    /\ UNCHANGED <<own, second, runs>>

\* The journal files are removed and the snapshot is renamed into place.
Place ==
    /\ cmd.pc = "place"
    /\ data' = cmd.what /\ Ended
    /\ UNCHANGED <<safety, own, second, runs, clash>>

\* restoreRows commits its transaction, if the target is still empty or
\* --force is given.
Commit ==
    /\ cmd.pc = "aside" /\ cmd.rows
    /\ data = Fresh \/ cmd.force
    /\ data' = cmd.what /\ Ended
    /\ UNCHANGED <<safety, own, second, runs, clash>>

\* An error or a crash, at any step: what was done stays.
Break ==
    /\ cmd.pc # "idle" /\ Ended
    /\ UNCHANGED <<data, safety, own, second, runs, clash>>

\* The server is started and makes a database if there is none.
StartServer ==
    /\ cmd.pc = "idle" /\ data = Missing
    /\ data' = Fresh
    /\ UNCHANGED <<safety, own, cmd, second, runs, clash>>

Tick ==
    /\ second < MaxSecond /\ second' = second + 1
    /\ UNCHANGED <<data, safety, own, cmd, runs, clash>>

RSNext ==
    \/ \E b \in Contents, force \in BOOLEAN : Command(b, force)
    \/ Check \/ Copy \/ Fetch \/ SetAside \/ Place \/ Commit \/ Break
    \/ StartServer \/ Tick

RSSpec == RSInit /\ [][RSNext]_rsVars

-----------------------------------------------------------------------------
(* Properties.                                                             *)

\* The database before the first restore is never lost: it is in place, in a
\* safety copy or in a safety backup, through failing and interrupted restores,
\* repeated ones and the way back, unless two restores within a second gave
\* their safety copies one name.
BeforeIsKept ==
    \/ data = Before \/ Before \in own
    \/ \E n \in 0 .. MaxSecond : safety[n] = Before
    \/ clash

\* Without --force a database with users stays as it is.
OnlyForceReplaces ==
    [][data \notin {Fresh, Missing} /\ data' # data => cmd.force]_rsVars

\* What an administrator who restores may count on.
RestoreContract == []RSTypeOK /\ [][UNCHANGED rsVars \/ BeforeIsKept']_rsVars /\ OnlyForceReplaces

=============================================================================
