----------------------------- MODULE MCPlayback -----------------------------
(***************************************************************************)
(* The four modules of playback side by side: a behaviour belongs to one   *)
(* of them, and the others stay as they are.                               *)
(***************************************************************************)
EXTENDS Playback, Pipeline, VodSegments, Progress, TLC

CONSTANTS s1, s2, d1

\* Two requests of one viewer for one title; only one of them takes a slot at
\* the admission, the other later, or never.
MCReplaces == {<<s1, s2>>, <<s2, s1>>}
MCPlays == s1 :> {"direct", "promote", "remote"} @@ s2 :> {"encode"}

VARIABLE part

mcVars == <<part, pbVars, plVars, vsVars, pgVars>>

\* Where the modules that do not run stand.
PBStill == PBInit /\ slots = 1
PLStill == PLInit /\ ~flags.standby
VSStill == VSInit /\ gen = 0
PGStill == PGInit /\ ~row.there

MCInit ==
    \/ part = "sessions" /\ PBInit /\ PLStill /\ VSStill /\ PGStill
    \/ part = "pipeline" /\ PBStill /\ PLInit /\ VSStill /\ PGStill
    \/ part = "segments" /\ PBStill /\ PLStill /\ VSInit /\ PGStill
    \/ part = "progress" /\ PBStill /\ PLStill /\ VSStill /\ PGInit

InSessions(A) == part = "sessions" /\ A /\ UNCHANGED <<part, plVars, vsVars, pgVars>>
InPipeline(A) == part = "pipeline" /\ A /\ UNCHANGED <<part, pbVars, vsVars, pgVars>>
InSegments(A) == part = "segments" /\ A /\ UNCHANGED <<part, pbVars, plVars, pgVars>>
InProgress(A) == part = "progress" /\ A /\ UNCHANGED <<part, pbVars, plVars, vsVars>>

MCNext == InSessions(PBNext) \/ InPipeline(PLNext) \/ InSegments(VSNext) \/ InProgress(PGNext)

\* PBFairness, PLFairness and VSFairness, each where its module runs.
MCFairness ==
    /\ WF_mcVars(InSessions(Onward))
    /\ WF_mcVars(InPipeline(RunOn))
    /\ WF_mcVars(InSegments(Write))
    /\ \A r \in Requests : WF_mcVars(InSegments(Serve(r)))

MCSpec == MCInit /\ [][MCNext]_mcVars /\ MCFairness

\* What has begun comes to an end: a slot is given back (Playback), a process
\* that dies is noticed and one that is killed is not started again (Pipeline),
\* and whoever waits for a segment gets a whole one or is told (VodSegments).
PlaybackEnds == SlotsComeBack /\ PipelineEnds /\ SegmentsServed

=============================================================================
