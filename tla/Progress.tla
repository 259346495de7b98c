------------------------------ MODULE Progress ------------------------------
(***************************************************************************)
(* The position of one playback session: reported by the player, kept in   *)
(* memory, written at checkpoints (playback/checkpoint.go) and read by the *)
(* session that replaces it (progress/sqlite.go, createLocal).             *)
(*                                                                         *)
(* Positions are a few places of the film in order; which of them count as *)
(* its start, its last tenth and its end is given.                         *)
(***************************************************************************)
EXTENDS Naturals, FiniteSets

CONSTANTS
    Handlers,    \* progress requests that may run at the same time
    Length,      \* positions are 0 .. Length; 0 is within the first second
    Resumable,   \* positions beyond the first five seconds
    LastTenth,   \* positions from which the crossing checkpoint is due
    Finished,    \* positions that complete the title
    Jump,        \* a change of this many places is a jump
    MaxReports,  \* bound on reports
    MaxFaults    \* bound on failing writes

Positions == 0 .. Length

ASSUME ProgressAssumption ==
    /\ Length \in Nat /\ Jump \in Nat /\ MaxReports \in Nat /\ MaxFaults \in Nat
    /\ Resumable \subseteq Positions /\ LastTenth \subseteq Positions
    /\ Finished \subseteq Positions
    /\ "kill" \notin Handlers /\ IsFiniteSet(Handlers)

VARIABLES
    cp,        \* ResumeMS and checkpointState of the session
    row,       \* the row in playback_progress
    hist,      \* rows in watch_history
    call,      \* flushProgress calls: the handlers' and kill's
    life,      \* the session: playing, killed, and the next one
    resumed,   \* where the next session starts
    bounds,    \* reports and faults so far
    crossed,   \* history: a call began while another had a position to write,
               \* or a report came after kill
    wentBack   \* history: the title was unfinished again after it was finished

pgVars == <<cp, row, hist, call, life, resumed, bounds, crossed, wentBack>>

Flushers == Handlers \cup {"kill"}
Events == {"", "pause", "stop"}   \* "pause" for pause, seek and ended
FlushPcs == {"idle", "take", "look", "put", "note"}

\* Every variable has its type. due: 60 seconds since the last write.
PGTypeOK ==
    /\ cp \in [pos: Positions, stored: Positions, first: BOOLEAN, due: BOOLEAN, dirty: BOOLEAN]
    /\ row \in [there: BOOLEAN, pos: Positions]
    /\ hist \in Nat
    /\ call \in [Flushers -> [pc: FlushPcs, pos: Positions, note: BOOLEAN]]
    /\ life \in {"playing", "killed", "next"}
    /\ resumed \in Positions
    /\ bounds \in [reports: 0 .. MaxReports, faults: 0 .. MaxFaults]
    /\ crossed \in BOOLEAN /\ wentBack \in BOOLEAN

\* createLocal starts the session at the stored position.
PGInit ==
    /\ row \in [there: {FALSE}, pos: {0}] \cup [there: {TRUE}, pos: Positions \ {0}]
    /\ cp = [pos |-> IF row.pos \in Resumable \ Finished THEN row.pos ELSE 0,
             stored |-> 0, first |-> TRUE, due |-> FALSE, dirty |-> FALSE]
    /\ hist = 0
    /\ call = [f \in Flushers |-> [pc |-> "idle", pos |-> 0, note |-> FALSE]]
    /\ life = "playing" /\ resumed = 0
    /\ bounds = [reports |-> 0, faults |-> 0]
    /\ crossed = FALSE /\ wentBack = FALSE

Distance(a, b) == IF a < b THEN b - a ELSE a - b

\* shouldCheckpoint
ShouldCheckpoint(event, pos) ==
    \/ event # ""
    \/ cp.first
    \/ Distance(pos, cp.pos) >= Jump
    \/ pos \in LastTenth /\ cp.stored \notin LastTenth
    \/ cp.due

\* handleProgress and recordProgress: a closing player that reports the very
\* start keeps the last position.
Report(h, event, p) ==
    LET pos == IF event = "stop" /\ p = 0 /\ cp.pos \in Resumable THEN cp.pos ELSE p IN
    /\ life # "next" /\ call[h].pc = "idle"
    /\ bounds.reports < MaxReports
    /\ bounds' = [bounds EXCEPT !.reports = @ + 1]
    /\ cp' = [cp EXCEPT !.pos = pos, !.dirty = TRUE]
    /\ call' = [call EXCEPT ![h].pc = IF ShouldCheckpoint(event, pos) THEN "take" ELSE "idle"]
    /\ crossed' = (crossed \/ life = "killed")
    /\ UNCHANGED <<row, hist, life, resumed, wentBack>>

\* A minute passes.
Minute ==
    /\ life = "playing" /\ ~cp.due
    /\ cp' = [cp EXCEPT !.due = TRUE]
    /\ UNCHANGED <<row, hist, call, life, resumed, bounds, crossed, wentBack>>

\* Mutant: the session ends without a checkpoint.
KillUnsaved ==
    /\ life = "playing"
    /\ life' = "killed"
    /\ UNCHANGED <<cp, row, hist, call, resumed, bounds, crossed, wentBack>>

\* kill: its flushProgress is the first thing it does. The session is no
\* longer registered; a request that found it before may still report.
KillSession ==
    /\ life = "playing"
    /\ life' = "killed"
    /\ call' = [call EXCEPT !["kill"].pc = "take"]
    /\ UNCHANGED <<cp, row, hist, resumed, bounds, crossed, wentBack>>

\* flushProgress takes the position under the session's lock, and counts it
\* as written.
Take(f) ==
    /\ call[f].pc = "take"
    /\ IF cp.dirty
       THEN /\ cp' = [cp EXCEPT !.dirty = FALSE, !.stored = cp.pos, !.first = FALSE, !.due = FALSE]
            /\ call' = [call EXCEPT ![f].pc = "look", ![f].pos = cp.pos]
       ELSE call' = [call EXCEPT ![f].pc = "idle"] /\ UNCHANGED cp
    /\ crossed' = (crossed \/ \E g \in Flushers : call[g].pc \in {"look", "put"})
    /\ UNCHANGED <<row, hist, life, resumed, bounds, wentBack>>

\* Put first reads whether there is a row and whether it is finished.
Look(f) ==
    /\ call[f].pc = "look"
    /\ call' = [call EXCEPT ![f].pc = "put",
                            ![f].note = \/ ~row.there
                                        \/ call[f].pos \in Finished /\ row.pos \notin Finished]
    /\ UNCHANGED <<cp, row, hist, life, resumed, bounds, crossed, wentBack>>

Upsert(f) ==
    /\ call[f].pc = "put"
    /\ row' = [there |-> TRUE, pos |-> call[f].pos]
    /\ wentBack' = (wentBack \/ (row.pos \in Finished /\ call[f].pos \notin Finished))
    /\ call' = [call EXCEPT ![f].pc = IF call[f].note THEN "note" ELSE "idle"]
    /\ UNCHANGED <<cp, hist, life, resumed, bounds, crossed>>

\* The write fails: the position is dirty again and the next report or kill
\* writes it; kill itself does not come back.
PutError(f) ==
    /\ call[f].pc = "put" /\ bounds.faults < MaxFaults
    /\ bounds' = [bounds EXCEPT !.faults = @ + 1]
    /\ cp' = [cp EXCEPT !.dirty = TRUE]
    /\ call' = [call EXCEPT ![f].pc = "idle"]
    /\ UNCHANGED <<row, hist, life, resumed, crossed, wentBack>>

\* The entry in watch_history; an error there is ignored.
Note(f) ==
    /\ call[f].pc = "note"
    /\ hist' = hist + 1
    /\ call' = [call EXCEPT ![f].pc = "idle"]
    /\ UNCHANGED <<cp, row, life, resumed, bounds, crossed, wentBack>>

\* createLocal: the session that superseded this one reads where to start
\* after kill has returned.
Resume ==
    /\ life = "killed" /\ call["kill"].pc = "idle"
    /\ life' = "next"
    /\ resumed' = IF row.pos \in Resumable \ Finished THEN row.pos ELSE 0
    /\ UNCHANGED <<cp, row, hist, call, bounds, crossed, wentBack>>

PGNext ==
    \/ \E h \in Handlers, event \in Events, p \in Positions : Report(h, event, p)
    \/ Minute \/ KillSession \/ Resume
    \/ \E f \in Flushers : Take(f) \/ Look(f) \/ Upsert(f) \/ PutError(f) \/ Note(f)

PGSpec == PGInit /\ [][PGNext]_pgVars

-----------------------------------------------------------------------------
(* Properties.                                                             *)

\* The session that replaces another starts where the viewer was, at the last
\* position reported, unless that is the start or the end of the title, a
\* write failed, or two flushes were in flight at once: nothing orders their
\* writes, and kill does not wait for a write that is under way.
ResumesWhereStopped ==
    life = "next" /\ ~crossed /\ bounds.faults = 0 /\ bounds.reports > 0
        => resumed = IF cp.pos \in Resumable \ Finished THEN cp.pos ELSE 0

\* "History records starting a title and finishing it, once each", unless two
\* flushes in flight both saw the row as it was before either.
HistoryOnceEach == ~crossed /\ ~wentBack => hist <= 2

\* When nothing is being written the row is the newest position taken, or that
\* position is still marked dirty: an error does not lose it silently.
NothingForgotten ==
    (\A f \in Flushers : call[f].pc \in {"idle", "take", "note"}) /\ ~crossed
        => cp.dirty \/ cp.first \/ row.pos = cp.stored

\* What a viewer's position and history may count on.
ProgressSafe == PGTypeOK /\ ResumesWhereStopped /\ HistoryOnceEach /\ NothingForgotten

=============================================================================
