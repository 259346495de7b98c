------------------------------ MODULE Timeline -------------------------------
(***************************************************************************)
(* How a watch party keeps its viewers together (sync.go): each report of  *)
(* a position is answered with a playback rate or a seek (correctLocked),  *)
(* and a majority of viewers that agree with each other but not with the   *)
(* room moves the room (realignLocked).                                    *)
(* Second is one second of the room: everyone's report, the tick, and then *)
(* the players' own progress. Distances are in steps, as far as a player   *)
(* comes in a second at the highest change of rate; the limits keep the    *)
(* order of the code's.                                                    *)
(***************************************************************************)
EXTENDS Integers, FiniteSets

CONSTANTS
    Viewers,
    Near, Exit, Hard,   \* syncTargetMS, syncExitMS and the drift limit
    Quorum,             \* quorumMin
    Cooldown, Hold, Override,  \* seekCooldown, majorityHold, hostOverride
    Widest,             \* bound: how far anyone is from the room
    MaxUpsets           \* bound: what people and networks do to positions

ASSUME LimitsInOrder ==
    /\ IsFiniteSet(Viewers) /\ {Near, Exit, Hard, Widest, Cooldown, Hold, MaxUpsets} \subseteq Nat
    /\ {Quorum, Override} \subseteq Nat \ {0}
    /\ Exit < Near /\ Near < Hard /\ Hard <= Widest

VARIABLES
    playing,
    drift,     \* where a viewer is, from where the room is
    mode,      \* the last correction of a viewer
    pace,      \* the rate a viewer plays at: slower, normal or faster
    cool,      \* seconds since the viewer was told to seek, up to Cooldown
    stalled,   \* viewers that buffer
    majority,  \* majDir, and for how long it has stood (majSince)
    quiet,     \* seconds since hostActionAt, up to Override
    moved,     \* who moved the room last, and for how long nobody has
    upsets

tmVars == <<playing, drift, mode, pace, cool, stalled, majority, quiet, moved, upsets>>

Modes == {"", "ok", "rate", "seek"}
Range0 == -Widest .. Widest

TMTypeOK ==
    /\ playing \in BOOLEAN /\ drift \in [Viewers -> Range0] /\ mode \in [Viewers -> Modes]
    /\ pace \in [Viewers -> {-1, 0, 1}] /\ cool \in [Viewers -> 0 .. Cooldown]
    /\ stalled \subseteq Viewers /\ quiet \in 0 .. Override /\ upsets \in 0 .. MaxUpsets
    /\ majority \in [dir: {-1, 0, 1}, since: 0 .. Hold]
    /\ moved \in [by: {"host", "majority", "nobody"}, ago: 0 .. Override]

\* The room has just been started, or it was restored while it played.
TMInit ==
    /\ playing = TRUE /\ drift = [m \in Viewers |-> 0] /\ mode = [m \in Viewers |-> ""]
    /\ pace = [m \in Viewers |-> 0] /\ cool = [m \in Viewers |-> Cooldown]
    /\ stalled = {} /\ majority = [dir |-> 0, since |-> 0]
    /\ quiet \in {0, Override} /\ moved = [by |-> "nobody", ago |-> quiet] /\ upsets = 0

Abs(x) == IF x < 0 THEN -x ELSE x
Sign(x) == IF x < 0 THEN -1 ELSE IF x = 0 THEN 0 ELSE 1
Bounded(x) == IF x > Widest THEN Widest ELSE IF x < -Widest THEN -Widest ELSE x
Later(n, limit) == IF n < limit THEN n + 1 ELSE limit

-----------------------------------------------------------------------------
(* correctLocked: the answer to the report of a viewer.                    *)

Seeks(m) == m \notin stalled /\ Abs(drift[m]) > Hard /\ cool[m] = Cooldown

Slows(m) ==
    /\ playing /\ m \notin stalled /\ Abs(drift[m]) <= Hard
    /\ Abs(drift[m]) > Near \/ (mode[m] = "rate" /\ Abs(drift[m]) > Exit)

Agrees(m) == playing /\ m \notin stalled /\ Abs(drift[m]) <= Hard /\ ~Slows(m)

Correction(m) ==
    IF Seeks(m) THEN IF playing THEN "seek" ELSE mode[m]
    ELSE IF Slows(m) THEN "rate" ELSE IF Agrees(m) THEN "ok" ELSE mode[m]

PaceOf(m) ==
    IF Seeks(m) \/ Agrees(m) THEN 0 ELSE IF Slows(m) THEN -Sign(drift[m]) ELSE pace[m]

-----------------------------------------------------------------------------
(* realignLocked.                                                          *)

Eligible == Viewers \ stalled
Ahead == {m \in Eligible : drift[m] > Near}
Behind == {m \in Eligible : drift[m] < -Near}
IsMajority(S) == Cardinality(S) * 3 >= 2 * Cardinality(Eligible)

Spread(S) == {Abs(drift[m] - drift[o]) : m \in S, o \in S}

\* The side a majority is on that is together, or 0.
Direction ==
    LET dir == IF IsMajority(Ahead) THEN 1 ELSE IF IsMajority(Behind) THEN -1 ELSE 0
        group == IF dir = 1 THEN Ahead ELSE Behind
    IN  IF Cardinality(Eligible) < Quorum \/ \E d \in Spread(group) : d > Hard THEN 0 ELSE dir

Smallest(S, k) ==
    CHOOSE d \in {drift[m] : m \in S} :
        /\ Cardinality({m \in S : drift[m] < d}) < k
        /\ Cardinality({m \in S : drift[m] <= d}) >= k

\* Division rounds towards zero.
Half(x) == IF x < 0 THEN -((-x) \div 2) ELSE x \div 2

Median(S) ==
    LET n == Cardinality(S)
    IN  IF n % 2 = 1 THEN Smallest(S, (n + 1) \div 2)
        ELSE Half(Smallest(S, n \div 2) + Smallest(S, n \div 2 + 1))

\* A slip: the host's last action is not waited for.
MayRealignAtOnce == playing

\* The room plays, and the host has not just acted.
MayRealign == playing /\ quiet = Override

\* The majority has stood long enough.
Realigns == MayRealign /\ Direction # 0 /\ majority.dir = Direction /\ majority.since >= Hold

Shift == IF ~Realigns THEN 0 ELSE IF Direction = 1 THEN Median(Ahead) ELSE Median(Behind)

MajorityNext ==
    IF ~MayRealign \/ Realigns THEN [dir |-> 0, since |-> 0]
    ELSE IF Direction = 0 \/ majority.dir # Direction THEN [dir |-> Direction, since |-> 0]
    ELSE [majority EXCEPT !.since = Later(@, Hold)]

-----------------------------------------------------------------------------
(* A second of the room, and what happens to it.                           *)

Progress1(m) == IF ~playing THEN 0 ELSE IF m \in stalled THEN -1 ELSE PaceOf(m)

Second ==
    /\ drift' = [m \in Viewers |->
                   Bounded((IF Seeks(m) THEN 0 ELSE drift[m]) - Shift + Progress1(m))]
    /\ mode' = [m \in Viewers |-> IF Realigns THEN "" ELSE Correction(m)]
    /\ pace' = [m \in Viewers |-> PaceOf(m)]
    /\ cool' = [m \in Viewers |-> IF Seeks(m) THEN 0 ELSE Later(cool[m], Cooldown)]
    /\ majority' = MajorityNext
    /\ quiet' = IF Realigns THEN 0 ELSE Later(quiet, Override)
    /\ moved' = IF Realigns THEN [by |-> "majority", ago |-> 0]
                ELSE [moved EXCEPT !.ago = Later(@, Override)]
    /\ UNCHANGED <<playing, stalled, upsets>>

\* handle: play, pause and seek of whoever controls the room.
Control(play, by) ==
    /\ upsets < MaxUpsets /\ upsets' = upsets + 1
    /\ playing' = play
    /\ drift' = [m \in Viewers |-> Bounded(drift[m] - by)]
    /\ mode' = [m \in Viewers |-> ""]
    /\ majority' = [dir |-> 0, since |-> 0] /\ quiet' = 0
    /\ moved' = [by |-> "host", ago |-> 0]
    /\ UNCHANGED <<pace, cool, stalled>>

\* A player jumps, or begins to buffer.
Upset(m) ==
    /\ upsets < MaxUpsets /\ upsets' = upsets + 1
    /\ \/ drift' \in {[drift EXCEPT ![m] = d] : d \in Range0} /\ UNCHANGED stalled
       \/ stalled' = stalled \cup {m} /\ UNCHANGED drift
    /\ UNCHANGED <<playing, mode, pace, cool, majority, quiet, moved>>

Buffered(m) ==
    /\ m \in stalled /\ stalled' = stalled \ {m}
    /\ UNCHANGED <<playing, drift, mode, pace, cool, majority, quiet, moved, upsets>>

TMNext ==
    \/ Second
    \/ \E play \in BOOLEAN, by \in {-Hard, 0, Hard + 1} : Control(play, by)
    \/ \E m \in Viewers : Upset(m) \/ Buffered(m)

TMFairness == WF_tmVars(Second) /\ \A m \in Viewers : WF_tmVars(Buffered(m))
TMSpec == TMInit /\ [][TMNext]_tmVars /\ TMFairness

-----------------------------------------------------------------------------
(* Properties.                                                             *)

\* A second in which a majority moves the room.
ByMajority == moved'.by = "majority" /\ moved'.ago = 0 /\ UNCHANGED <<stalled, upsets>>

\* Nobody of the majority that moves the room is thrown out of step by it, and
\* so made to seek, but a viewer who was told in the same second to seek to
\* where the room was.
MajorityIsServed ==
    [][ByMajority =>
         \E S \in SUBSET Eligible :
            /\ IsMajority(S)
            /\ \A m \in S : Seeks(m) \/ Abs(drift'[m]) <= Hard + 1]_tmVars

\* The room is not moved against the host, nor twice, within hostOverride.
HostIsHeard == [][ByMajority => moved.ago = Override]_tmVars

\* Once nobody disturbs it, everyone who plays is within the target of the room.
InStep == <>[](playing => \A m \in Viewers : Abs(drift[m]) <= Near)

\* What viewers may count on.
TimelineContract == []TMTypeOK /\ MajorityIsServed /\ HostIsHeard /\ InStep

=============================================================================
