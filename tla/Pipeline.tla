------------------------------ MODULE Pipeline ------------------------------
(***************************************************************************)
(* The FFmpeg processes behind one native HLS session of internal/playback:*)
(* who may start one, who stops it, and what each of them believes.        *)
(*                                                                         *)
(* A process is started by the request that created the session, by a      *)
(* segment request that needs another part of the film, or by the goroutine*)
(* that waits for a process and sees it fail. Starts are serialised by     *)
(* jobMu; the decision to start is mostly taken before it is held.         *)
(***************************************************************************)
EXTENDS Naturals, FiniteSets

CONSTANTS
    Seekers,    \* segment requests
    Nobody,      \* jobMu is free
    MaxStarts    \* bound on started processes

ASSUME PipelineAssumption ==
    /\ MaxStarts \in Nat \ {0}
    /\ Seekers \cap (0 .. MaxStarts) = {} /\ Nobody \notin Seekers \cup (0 .. MaxStarts)

Procs == 1 .. MaxStarts
None  == 0                            \* s.cmd or s.cancel is nil
Actors == (0 .. MaxStarts) \cup Seekers  \* creator 0, waiter of process p, requests

VARIABLES
    proc,      \* the processes
    cmd,       \* s.cmd
    cancelOf,  \* the process s.cancel stops
    starts,    \* calls of startPipeline that got as far as s.cancel
    job,       \* jobMu: who starts a process, and how far it is
    waiter,    \* waitFFmpeg of each process
    flags,     \* killed, restarting, failed, cpuFallback, standby, device, live
    seek,       \* segment requests
    stray      \* history: processes an overtaken fallback or failover overlooked

plVars == <<proc, cmd, cancelOf, starts, job, waiter, flags, seek, stray>>

ProcStates == {"none", "running", "failed", "done", "stopped"}
WaiterPcs  == {"none", "wait", "failover", "fail", "fallbackJob", "failoverJob", "gone"}
SeekPcs     == {"none", "live"}  \* live: past the check of the session
JobSteps   == {"free", "begin", "spawn"}

\* device: the shared stderr names a failed device; live: still registered.
Flags == [killed: BOOLEAN, restarting: BOOLEAN, failed: BOOLEAN, cpuFallback: BOOLEAN,
          standby: BOOLEAN, device: BOOLEAN, live: BOOLEAN]

\* Every variable has its type.
PLTypeOK ==
    /\ proc \in [Procs -> ProcStates]
    /\ cmd \in 0 .. MaxStarts /\ cancelOf \in 0 .. MaxStarts /\ starts \in 0 .. MaxStarts
    /\ job \in [who: Actors \cup {Nobody}, step: JobSteps]
    /\ waiter \in [Procs -> WaiterPcs]
    /\ flags \in Flags
    /\ seek \in [Seekers -> SeekPcs]
    /\ stray \subseteq Procs

\* createLocal holds jobMu and is about to start the first process; the file
\* may or may not have a standby.
PLInit ==
    /\ proc = [p \in Procs |-> "none"]
    /\ cmd = None /\ cancelOf = None /\ starts = 0
    /\ job = [who |-> 0, step |-> "begin"]
    /\ waiter = [p \in Procs |-> "none"]
    /\ flags \in [killed: {FALSE}, restarting: {FALSE}, failed: {FALSE}, cpuFallback: {FALSE},
                  standby: BOOLEAN, device: {FALSE}, live: {FALSE}]
    /\ seek = [r \in Seekers |-> "none"]
    /\ stray = {}

Free == [who |-> Nobody, step |-> "free"]
LockJob(a) == job = Free /\ job' = [who |-> a, step |-> "begin"]
Running(p) == p # None /\ proc[p] = "running"
Idle == ~Running(cmd)

\* KillGroup and the context's cancel reach the processes of S; one that is
\* about to be spawned will not start.
Stop(S) ==
    proc' = [p \in Procs |-> IF p \in S /\ proc[p] \in {"none", "running"}
                             THEN "stopped" ELSE proc[p]]

-----------------------------------------------------------------------------
(* startPipeline, under jobMu.                                             *)

\* The path is checked, subtitles are extracted, then s.cancel is replaced.
SetCancel ==
    /\ job.step = "begin" /\ starts < MaxStarts
    /\ starts' = starts + 1 /\ cancelOf' = starts + 1
    /\ job' = [job EXCEPT !.step = "spawn"]
    /\ UNCHANGED <<proc, cmd, waiter, flags, seek, stray>>

\* A fallback or failover of a process that s.cmd no longer names.
Overlooked == IF job.who \in Procs \ {cmd} THEN {cmd} ELSE {}

\* The process runs: s.cmd, restarting and the waiter are set and jobMu freed.
\* After the first one the session is registered.
\* Only a restart has stopped the process s.cmd named so far.
Spawn ==
    /\ job.step = "spawn" /\ proc[starts] = "none"
    /\ proc' = [proc EXCEPT ![starts] = "running"]
    /\ cmd' = starts
    /\ flags' = [flags EXCEPT !.restarting = FALSE, !.live = @ \/ job.who = 0]
    /\ waiter' = [p \in Procs |-> IF p = starts THEN "wait"
                                  ELSE IF p = job.who THEN "gone" ELSE waiter[p]]
    /\ stray' = stray \cup Overlooked
    /\ job' = Free
    /\ UNCHANGED <<cancelOf, starts, seek>>

\* The start fails, and always once the context is cancelled. A request leaves
\* restarting set; a fallback goes on to the failover, which gives up.
StartError ==
    /\ job.step = "begin" \/ (job.step = "spawn" /\ proc[starts] = "stopped")
    /\ job' = Free
    /\ \/ job.who \notin Procs /\ UNCHANGED <<waiter, flags>>
       \/ /\ job.who \in Procs /\ waiter[job.who] = "fallbackJob"
          /\ waiter' = [waiter EXCEPT ![job.who] = "failover"]
          /\ UNCHANGED flags
       \/ /\ job.who \in Procs /\ waiter[job.who] = "failoverJob"
          /\ waiter' = [waiter EXCEPT ![job.who] = "fail"]
          /\ flags' = [flags EXCEPT !.restarting = FALSE]
    /\ stray' = stray \cup Overlooked
    /\ UNCHANGED <<proc, cmd, cancelOf, starts, seek>>

-----------------------------------------------------------------------------
(* The process, and the goroutine that waits for it.                       *)

\* The end of the film.
Finish(p) ==
    /\ Running(p)
    /\ proc' = [proc EXCEPT ![p] = "done"]
    /\ UNCHANGED <<cmd, cancelOf, starts, job, waiter, flags, seek, stray>>

\* The process fails on its own, because of the device or not.
Crash(p) ==
    /\ Running(p)
    /\ proc' = [proc EXCEPT ![p] = "failed"]
    /\ \E d \in BOOLEAN : flags' = [flags EXCEPT !.device = @ \/ d]
    /\ UNCHANGED <<cmd, cancelOf, starts, job, waiter, seek, stray>>

\* waitFFmpeg: the process ended. killed is read here and used later.
Notice(p) ==
    /\ waiter[p] = "wait" /\ proc[p] \in {"failed", "done", "stopped"}
    /\ LET killed == flags.killed \/ flags.restarting \/ cmd # p IN
       IF proc[p] = "done" \/ killed
       THEN waiter' = [waiter EXCEPT ![p] = "gone"] /\ UNCHANGED flags
       ELSE IF flags.device /\ ~flags.cpuFallback
       THEN /\ waiter' = [waiter EXCEPT ![p] = "fallbackJob"]
            /\ flags' = [flags EXCEPT !.cpuFallback = TRUE]
       ELSE waiter' = [waiter EXCEPT ![p] = "failover"] /\ UNCHANGED flags
    /\ UNCHANGED <<proc, cmd, cancelOf, starts, job, seek, stray>>

\* Mutant: a killed session has a failover too.
FailoverAlways(p) ==
    /\ waiter[p] = "failover"
    /\ IF flags.standby
       THEN /\ flags' = [flags EXCEPT !.standby = FALSE, !.restarting = TRUE]
            /\ waiter' = [waiter EXCEPT ![p] = "failoverJob"]
       ELSE waiter' = [waiter EXCEPT ![p] = "fail"] /\ UNCHANGED flags
    /\ UNCHANGED <<proc, cmd, cancelOf, starts, job, seek, stray>>

\* failover: once, to the standby file, unless the session was killed.
Failover(p) ==
    /\ waiter[p] = "failover"
    /\ IF flags.standby /\ ~flags.killed
       THEN /\ flags' = [flags EXCEPT !.standby = FALSE, !.restarting = TRUE]
            /\ waiter' = [waiter EXCEPT ![p] = "failoverJob"]
       ELSE waiter' = [waiter EXCEPT ![p] = "fail"] /\ UNCHANGED flags
    /\ UNCHANGED <<proc, cmd, cancelOf, starts, job, seek, stray>>

\* fallbackCPU or failover gets jobMu.
WaiterStarts(p) ==
    /\ waiter[p] \in {"fallbackJob", "failoverJob"}
    /\ LockJob(p)
    /\ UNCHANGED <<proc, cmd, cancelOf, starts, waiter, flags, seek, stray>>

Fail(p) ==
    /\ waiter[p] = "fail"
    /\ flags' = [flags EXCEPT !.failed = TRUE]
    /\ waiter' = [waiter EXCEPT ![p] = "gone"]
    /\ UNCHANGED <<proc, cmd, cancelOf, starts, job, seek, stray>>

-----------------------------------------------------------------------------
(* Segment requests.                                                       *)

\* live: the session is registered and has not failed.
Ask(r) ==
    /\ seek[r] = "none" /\ flags.live /\ ~flags.failed
    /\ seek' = [seek EXCEPT ![r] = "live"]
    /\ UNCHANGED <<proc, cmd, cancelOf, starts, job, waiter, flags, stray>>

\* ensureGenerating: the file is there, or the running process will write it
\* soon (VodSegments says when).
Wait(r) ==
    /\ seek[r] = "live" /\ job = Free
    /\ seek' = [seek EXCEPT ![r] = "none"]
    /\ UNCHANGED <<proc, cmd, cancelOf, starts, job, waiter, flags, stray>>

\* Mutant: the running process is left alone.
RestartOver(r) ==
    /\ seek[r] = "live" /\ LockJob(r)
    /\ flags' = [flags EXCEPT !.restarting = TRUE]
    /\ seek' = [seek EXCEPT ![r] = "none"]
    /\ UNCHANGED <<proc, cmd, cancelOf, starts, waiter, stray>>

\* restartGeneration: another part of the film is asked for, or nothing runs.
Restart(r) ==
    /\ seek[r] = "live" /\ LockJob(r)
    /\ flags' = [flags EXCEPT !.restarting = TRUE]
    /\ Stop({cmd, cancelOf})
    /\ seek' = [seek EXCEPT ![r] = "none"]
    /\ UNCHANGED <<cmd, cancelOf, starts, waiter, stray>>

-----------------------------------------------------------------------------
(* The end of the session.                                                 *)

\* The session is removed from the registry and killed, under s.mu.
Kill ==
    /\ flags.live
    /\ flags' = [flags EXCEPT !.live = FALSE, !.killed = TRUE]
    /\ Stop({cmd, cancelOf})
    /\ UNCHANGED <<cmd, cancelOf, starts, job, waiter, seek, stray>>

Start == SetCancel \/ Spawn \/ StartError
WaiterStep(p) == Notice(p) \/ Failover(p) \/ WaiterStarts(p) \/ Fail(p)

PLNext ==
    \/ Start
    \/ \E p \in Procs : Finish(p) \/ Crash(p) \/ WaiterStep(p)
    \/ \E r \in Seekers : Ask(r) \/ Wait(r) \/ Restart(r)
    \/ Kill

RunOn == Start \/ \E p \in Procs : WaiterStep(p)

PLSpec == PLInit /\ [][PLNext]_plVars

\* Goroutines run on.
PLFairness == WF_plVars(RunOn)

PLFairSpec == PLSpec /\ PLFairness

-----------------------------------------------------------------------------
(* Properties.                                                             *)

\* Who can still start a process: it is past every check of killed and live.
AboutToStart ==
    {p \in Procs : waiter[p] \in {"fallbackJob", "failoverJob"}}
        \cup {r \in Seekers : seek[r] = "live"} \cup ({job.who} \cap Actors)

\* Once a session is killed nobody who was not past the last check of killed
\* or of the registry by then starts a process for it any more.
KillIsFinal == [][flags.killed => AboutToStart' \subseteq AboutToStart]_plVars

\* One process writes into the directory, unless a fallback or failover was
\* overtaken by a segment request: neither stops what s.cmd names by then.
OneWriter == \A p \in Procs : Running(p) => p = cmd \/ p \in stray

\* A process that was stopped on purpose is never taken for one that failed,
\* unless a failover was overtaken and its own start then failed too: it clears
\* the restarting that protects the other.
StoppedIsNoFailure ==
    \A p \in Procs : waiter[p] \in WaiterPcs \ {"none", "wait", "gone"} =>
                        proc[p] = "failed" \/ stray # {}

\* A process that fails by itself is noticed: it is replaced, or the session
\* fails, or somebody is replacing or ending it anyway.
DeathIsNoticed ==
    (cmd # None /\ proc[cmd] = "failed")
        ~> (flags.failed \/ flags.killed \/ flags.restarting \/ Running(cmd))

\* The directory of a session has one writer, and a process that was stopped on
\* purpose is not taken for one that failed.
PipelineSafe == PLTypeOK /\ OneWriter /\ StoppedIsNoFailure

\* The end of processes: no start after a kill, no death that nobody notices.
PipelineEnds == KillIsFinal /\ DeathIsNoticed

=============================================================================
