----------------------------- MODULE VodSegments -----------------------------
(***************************************************************************)
(* The segment files of one native HLS session (playback/vod.go): a        *)
(* process writes them in order from genStartSeg on, and a request decides *)
(* from the files whether its segment is ready, will be soon, or needs the *)
(* process to be restarted at it.                                          *)
(*                                                                         *)
(* Who may start a process is in Pipeline; here a restart is one step.     *)
(***************************************************************************)
EXTENDS Integers

CONSTANTS
    Requests,    \* segment requests
    Last,        \* index of the last segment of the plan
    LookAhead,   \* segments a request waits for the running process (8 in the code)
    MaxRuns      \* bound on restarts and crashes

ASSUME VodAssumption == Last \in Nat /\ LookAhead \in Nat \ {0} /\ MaxRuns \in Nat \ {0}

Segs == 0 .. Last

VARIABLES
    segs,   \* what is on disk of each segment
    gen,    \* genStartSeg
    ff,     \* the process: running, the segment it is at, whether that has begun, or failed
    runs,   \* how many processes there were
    req     \* the requests

vsVars == <<segs, gen, ff, runs, req>>

ReqPcs == {"none", "asked", "waiting", "served", "pending"}

\* Every variable has its type. whole: what was served was a whole segment;
\* moved: another request restarted the process while this one waited.
VSTypeOK ==
    /\ segs \in [Segs -> {"none", "part", "full"}]
    /\ gen \in Segs
    /\ ff \in [on: BOOLEAN, at: Segs, begun: BOOLEAN, crashed: BOOLEAN]
    /\ runs \in 1 .. MaxRuns
    /\ req \in [Requests -> [pc: ReqPcs, n: Segs, whole: BOOLEAN, moved: BOOLEAN]]

Process(n) == [on |-> TRUE, at |-> n, begun |-> FALSE, crashed |-> FALSE]

\* prepareVOD: the first process starts where the viewer resumes.
VSInit ==
    /\ segs = [n \in Segs |-> "none"]
    /\ gen \in Segs
    /\ ff = Process(gen)
    /\ runs = 1
    /\ req = [r \in Requests |-> [pc |-> "none", n |-> 0, whole |-> TRUE, moved |-> FALSE]]

\* FFmpeg begins a segment, finishes it by beginning the next, and exits
\* after the last one.
Write ==
    /\ ff.on
    /\ IF ~ff.begun
       THEN segs' = [segs EXCEPT ![ff.at] = "part"] /\ ff' = [ff EXCEPT !.begun = TRUE]
       ELSE IF ff.at < Last
       THEN /\ segs' = [segs EXCEPT ![ff.at] = "full", ![ff.at + 1] = "part"]
            /\ ff' = [ff EXCEPT !.at = @ + 1]
       ELSE segs' = [segs EXCEPT ![ff.at] = "full"] /\ ff' = [ff EXCEPT !.on = FALSE]
    /\ UNCHANGED <<gen, runs, req>>

\* The process fails; what it was writing stays.
CrashFF ==
    /\ ff.on /\ runs < MaxRuns
    /\ ff' = [ff EXCEPT !.on = FALSE, !.crashed = TRUE]
    /\ UNCHANGED <<segs, gen, runs, req>>

\* segmentReady: the next segment has begun, or nothing is being written.
SegmentReady(n) ==
    /\ segs[n] # "none"
    /\ (~ff.on) \/ (n < Last /\ segs[n + 1] # "none")

\* highestSegOnDisk: of the files from genStartSeg on without a gap.
HighestOnDisk ==
    LET row == {n \in gen .. Last : \A m \in gen .. n : segs[m] # "none"} IN
    IF row = {} THEN -1 ELSE CHOOSE n \in row : \A m \in row : m <= n

\* hls.ShouldRestartGen
ShouldRestartGen(n) ==
    \/ ~ff.on
    \/ n < gen
    \/ HighestOnDisk < gen /\ n > gen + LookAhead
    \/ HighestOnDisk >= gen /\ n > HighestOnDisk + LookAhead

\* A player asks for a segment.
AskSegment(r, n) ==
    /\ req[r].pc \in {"none", "served", "pending"}
    /\ req' = [req EXCEPT ![r] = [pc |-> "asked", n |-> n, whole |-> TRUE, moved |-> FALSE]]
    /\ UNCHANGED <<segs, gen, ff, runs>>

\* http.ServeFile, once the segment is ready: the file as it is now.
Serve(r) ==
    /\ req[r].pc \in {"asked", "waiting"} /\ SegmentReady(req[r].n)
    /\ req' = [req EXCEPT ![r].pc = "served", ![r].whole = (segs[req[r].n] = "full")]
    /\ UNCHANGED <<segs, gen, ff, runs>>

\* ensureGenerating: wait for the running process ...
AwaitSegment(r) ==
    /\ req[r].pc = "asked" /\ ~SegmentReady(req[r].n) /\ ~ShouldRestartGen(req[r].n)
    /\ req' = [req EXCEPT ![r].pc = "waiting"]
    /\ UNCHANGED <<segs, gen, ff, runs>>

\* ... or restartGeneration. The request does not ask again while it waits.
RestartAt(r) ==
    /\ req[r].pc = "asked" /\ runs < MaxRuns
    /\ ~SegmentReady(req[r].n) /\ ShouldRestartGen(req[r].n)
    /\ gen' = req[r].n
    /\ ff' = Process(req[r].n)
    /\ runs' = runs + 1
    /\ req' = [q \in Requests |->
                 IF q = r THEN [req[q] EXCEPT !.pc = "waiting"]
                 ELSE IF req[q].pc = "waiting" THEN [req[q] EXCEPT !.moved = TRUE] ELSE req[q]]
    /\ UNCHANGED segs

\* waitReady: SEGMENT_PENDING after the wait.
TimeOut(r) ==
    /\ req[r].pc = "waiting" /\ ~SegmentReady(req[r].n)
    /\ req' = [req EXCEPT ![r].pc = "pending"]
    /\ UNCHANGED <<segs, gen, ff, runs>>

VSNext ==
    \/ Write \/ CrashFF
    \/ \E r \in Requests :
         \/ \E n \in Segs : AskSegment(r, n)
         \/ Serve(r) \/ AwaitSegment(r) \/ RestartAt(r) \/ TimeOut(r)

\* FFmpeg runs on, and a request that waits looks at the files every 150 ms.
VSFairness ==
    /\ WF_vsVars(Write)
    /\ \A r \in Requests : WF_vsVars(Serve(r))

VSFairSpec == VSInit /\ [][VSNext]_vsVars /\ VSFairness

-----------------------------------------------------------------------------
(* Properties.                                                             *)

\* While the first process runs, a request is answered with a whole segment.
\* After a restart or a crash this no longer holds: what an earlier process
\* left makes a segment that is being written, or was cut off, look ready.
FirstRunWhole ==
    runs = 1 /\ (ff.on \/ segs[Last] = "full")
        => \A r \in Requests : req[r].pc = "served" => req[r].whole

\* A request that waits gets its segment, unless the process crashes, another
\* request moves it away, or the wait ends first: the decision to wait is
\* right when it is taken, and only then.
WaitIsWorthIt ==
    \A r \in Requests :
        (req[r].pc = "waiting") ~>
            (req[r].pc # "waiting" \/ req[r].moved \/ (ff.crashed /\ segs[req[r].n] = "none"))

\* What a segment request may count on: a whole segment, and an end of its wait.
SegmentsServed == []VSTypeOK /\ [][UNCHANGED vsVars \/ FirstRunWhole']_vsVars /\ WaitIsWorthIt

=============================================================================
