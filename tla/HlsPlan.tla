------------------------------- MODULE HlsPlan -------------------------------
(***************************************************************************)
(* The fixed timeline of a session on demand and the segments ffmpeg       *)
(* writes for it: prepareVOD cuts the title into slots, by its keyframes   *)
(* when the picture is copied and by a grid when it is encoded; a seek     *)
(* starts ffmpeg at a slot; and ffmpeg cuts by its own rule from there.    *)
(* Time is in seconds. The cutting rule is the one the comment of          *)
(* KeyframePlan gives; an encoder sets a keyframe wherever it has to cut.  *)
(***************************************************************************)
EXTENDS Integers, Sequences, FiniteSets

CONSTANTS
    Films,         \* [dur, keys: set of seconds, mode: remux | audio | video]
    Encoders,      \* what the server encodes with: cpu, nvenc or vaapi
    MaxSeeks,      \* bound: seeks
    MaxFallbacks   \* bound: an encoder's device that fails

ASSUME HlsPlanAssumption ==
    Films \subseteq [dur: Nat \ {0}, keys: SUBSET Int, mode: {"remux", "audio", "video"}]

VARIABLES
    film,     \* the title, and what the session does with it
    enc,      \* the encoder
    cuts,     \* where the playlist's slots begin, and the end of the title
    ffmpeg,   \* ffmpeg: where it is in the title, and the number it writes next
    segments, \* the segments on disk: from where to where
    seeks, fallbacks

hpVars == <<film, enc, cuts, ffmpeg, segments, seeks, fallbacks>>

Off == [on |-> FALSE, first |-> 0, at |-> 0, n |-> 0]
NoFile == <<0, 0>>
PlanSlots == 1 .. Len(cuts) - 1      \* slot i is segment i - 1

HPTypeOK ==
    /\ film.mode \in {"remux", "audio", "video"} /\ enc \in Encoders \cup {"cpu"}
    /\ ffmpeg.at \in 0 .. film.dur /\ ffmpeg.first <= ffmpeg.n
    /\ DOMAIN segments = 0 .. film.dur

HPInit ==
    /\ film \in Films /\ enc \in Encoders
    /\ cuts = <<>> /\ ffmpeg = Off /\ segments = [i \in 0 .. film.dur |-> NoFile]
    /\ seeks = 0 /\ fallbacks = 0

-----------------------------------------------------------------------------
(* hls.EqualLengthPlan, KeyframePlan and IndexForMS.                        *)

Least(S) == CHOOSE x \in S : \A y \in S : x <= y

\* The cuts after `from` while the next one is given by step, up to the end.
CutsFrom(next, dur) ==
    LET at[n \in 0 .. dur] == IF n = 0 THEN 0 ELSE next[at[n - 1]]
        count == Cardinality({n \in 0 .. dur : at[n] < dur})
    IN  [i \in 1 .. count + 1 |-> at[i - 1]]

\* The next cut of a copied picture: the first keyframe at least `length` on.
NextKey(f, length) ==
    [t \in 0 .. f.dur |-> Least({k \in f.keys : k > t /\ k >= t + length} \cup {f.dur})]

NextStep(f, length) ==
    [t \in 0 .. f.dur |-> IF t + length > f.dur THEN f.dur ELSE t + length]

KeyframesCover(f) ==
    /\ Cardinality(f.keys) >= 2
    /\ \E k \in f.keys : f.dur - k <= 2

KeyframePlan(f, length) == IF KeyframesCover(f) THEN CutsFrom(NextKey(f, length), f.dur) ELSE <<>>
EqualLengthPlan(f, length) == CutsFrom(NextStep(f, length), f.dur)

\* A slip: a position on the border belongs to the slot before it.
IndexBefore(t) ==
    LET begun == {i \in PlanSlots : cuts[i] < t}
    IN  IF begun = {} THEN 0 ELSE Cardinality(begun) - 1

IndexForMS(t) ==
    LET begun == {i \in PlanSlots : cuts[i] <= t}
    IN  IF begun = {} THEN 0 ELSE Cardinality(begun) - 1

StartForIndex(n) == cuts[n + 1]

-----------------------------------------------------------------------------
(* playback: prepareVOD, runs and seeks.                                    *)

HlsTarget(e) == IF e = "nvenc" THEN 4 ELSE 2

\* prepareVOD, with promoteNativeRemux where the keyframes cannot be used.
Prepare ==
    /\ cuts = <<>>
    /\ LET byKeys == KeyframePlan(film, 4)
           copies == film.mode # "video" /\ byKeys # <<>>
       IN  /\ cuts' = IF copies THEN byKeys ELSE EqualLengthPlan(film, HlsTarget(enc))
           /\ film' = IF copies THEN film ELSE [film EXCEPT !.mode = "video"]
    /\ UNCHANGED <<enc, ffmpeg, segments, seeks, fallbacks>>

StartAt(n) == ffmpeg' = [on |-> TRUE, first |-> n, at |-> StartForIndex(n), n |-> n]

\* startPipeline for the position the session begins at, and
\* restartGeneration for a segment that is requested.
Seek(t) ==
    /\ cuts # <<>> /\ seeks < MaxSeeks
    /\ StartAt(IndexForMS(t))
    /\ seeks' = seeks + 1
    /\ UNCHANGED <<film, enc, cuts, segments, fallbacks>>

\* fallbackCPU: the device of the encoder fails, and the run starts again.
FallBack ==
    /\ ffmpeg.on /\ film.mode # "remux" /\ enc # "cpu" /\ fallbacks < MaxFallbacks
    /\ enc' = "cpu" /\ fallbacks' = fallbacks + 1
    /\ StartAt(ffmpeg.first)
    /\ UNCHANGED <<film, cuts, segments, seeks>>

\* The -hls_time of hls.Remux and of BuildArgs.
SegmentTime == IF film.mode = "remux" THEN 4 ELSE IF enc = "cpu" THEN 2 ELSE 4

\* ffmpeg writes its next segment.
WriteSegment ==
    /\ ffmpeg.on
    /\ LET next == IF film.mode = "video" THEN NextStep(film, SegmentTime)
                   ELSE NextKey(film, SegmentTime)
           end == next[ffmpeg.at]
       IN  /\ segments' = [segments EXCEPT ![ffmpeg.n] = <<ffmpeg.at, end>>]
           /\ ffmpeg' = IF end = film.dur THEN Off ELSE [ffmpeg EXCEPT !.at = end, !.n = @ + 1]
    /\ UNCHANGED <<film, enc, cuts, seeks, fallbacks>>

HPNext == Prepare \/ FallBack \/ WriteSegment \/ \E t \in 0 .. film.dur : Seek(t)

HPSpec == HPInit /\ [][HPNext]_hpVars

-----------------------------------------------------------------------------
(* Properties.                                                             *)

WrittenSegments == {n \in DOMAIN segments : segments[n] # NoFile}

\* Claim of Plan's and KeyframePlan's comments: every segment on disk is the
\* slot the playlist gives for its number, whichever run wrote it.
SegmentsMatch ==
    \A n \in WrittenSegments : n + 1 \in PlanSlots /\ segments[n] = <<cuts[n + 1], cuts[n + 2]>>

\* The encoder cuts as the plan was made: it does where it is NVENC, or the CPU
\* and the picture is encoded, from the first run to the last.
Agreed == film.mode = "remux" \/ (fallbacks = 0 /\ (enc = "nvenc" \/ (enc = "cpu" /\ film.mode = "video")))

\* The slots cover the title without a gap, and a seek finds the slot that
\* holds the position.
SlotsCover ==
    cuts # <<>> =>
        /\ cuts[1] = 0 /\ cuts[Len(cuts)] = film.dur
        /\ \A i \in PlanSlots : cuts[i] < cuts[i + 1]
        /\ \A t \in 0 .. film.dur - 1 :
              LET n == IndexForMS(t) IN cuts[n + 1] <= t /\ t < cuts[n + 2]

\* What a player may count on: the playlist is the whole title, and the
\* segments are the playlist's, in whatever order runs and seeks wrote them.
PlanSafe == HPTypeOK /\ SlotsCover /\ (Agreed => SegmentsMatch)

=============================================================================
