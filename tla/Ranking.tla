------------------------------- MODULE Ranking -------------------------------
(***************************************************************************)
(* How a control plane orders the media workers for a session:             *)
(* internal/reliability keeps the outcomes of each worker and what the     *)
(* administrator prefers or excludes, internal/resilience stores that, and *)
(* internal/mesh ranks one tier of priority after the other and asks the   *)
(* workers in that order. A worker is a source of the tracker.             *)
(*                                                                         *)
(* A session counts 4, so that it can be halved twice; a tick is the half  *)
(* life, and halving at once is what decaying at the next use comes to.    *)
(* Stalls and latencies are left out, so their 30 points are always there. *)
(* Scores are in tenths.                                                   *)
(***************************************************************************)
EXTENDS Integers, Sequences, FiniteSets, FiniteSetsExt, SequencesExt

CONSTANTS
    Hosts,          \* the workers
    Tier,           \* their priorities, 1 first
    Nobody,
    MinEvidence,    \* what a narrow scope needs to be used
    MaxScopes,      \* kept for each worker
    MaxAttempts,    \* workers asked for one session (3)
    Band,           \* how far behind the best a worker still shares the load (10 points)
    Edits,          \* requests that set or clear an override
    Wishes,         \* the overrides they set
    Stored,         \* what may be stored at first
    Starts,         \* sessions asked for, in this order
    Blamed,         \* workers that players report about
    Labels,         \* where such a player is and on what it plays
    MaxReports,     \* bound: reports
    MaxHalvings,    \* bound on the clock
    MaxCrashes,
    Scenes          \* how much of each bound is used up at the start

Modes == {"prefer", "none", "avoid", "exclude"}

ASSUME RankingAssumption ==
    /\ Hosts # {} /\ IsFiniteSet(Hosts) /\ Nobody \notin Hosts /\ Blamed \subseteq Hosts
    /\ Wishes \subseteq Modes /\ Stored \subseteq [Hosts -> Modes]
    /\ Labels \subseteq SUBSET {"eu", "tv"} /\ Tier \in [Hosts -> Nat \ {0}]
    /\ Starts \subseteq Nat /\ Edits \subseteq Nat
    /\ Scenes \subseteq [edits: Nat, halvings: Nat, reports: Nat, crashes: Nat]
    /\ {MinEvidence, Band, MaxReports, MaxHalvings, MaxCrashes} \subseteq Nat
    /\ MaxScopes \in Nat \ {0, 1} /\ MaxAttempts \in Nat \ {0}

VARIABLES
    tracked,    \* Tracker.sources: the scopes of each worker
    modes,      \* Tracker.overrides
    stored,     \* source_reliability_overrides
    edit,       \* the requests of the administrator
    start,      \* the requests for a session
    halvings,
    reports,
    crashes,
    apart       \* history: workers whose edits crossed each other, or were not loaded

rkVars == <<tracked, modes, stored, edit, start, halvings, reports, crashes, apart>>

NoEdit == [pc |-> "idle", host |-> Nobody, to |-> "none"]
NoStart == [pc |-> "idle", tier |-> 1, prev |-> Nobody, base |-> <<>>, order |-> <<>>, at |-> 1, last |-> "none",
            asked |-> <<>>, barred |-> {}, saw |-> [n \in Hosts |-> [mode |-> "none", score |-> 0]]]

RKInit ==
    /\ tracked = [n \in Hosts |-> <<>>]
    /\ stored \in Stored /\ modes = stored
    /\ start = [s \in Starts |-> NoStart]
    /\ \E scene \in Scenes :
         /\ halvings = scene.halvings /\ reports = scene.reports /\ crashes = scene.crashes
         /\ edit = [e \in Edits |-> IF e <= scene.edits THEN [NoEdit EXCEPT !.pc = "over"] ELSE NoEdit]
    /\ apart = {}

-----------------------------------------------------------------------------
(* The tracker. A scope is the set of labels it is narrowed to.            *)

\* A slip: the oldest scope goes, whichever it is.
RoomAny(scopes) ==
    LET Without(x) == [k \in DOMAIN scopes \ {x} |-> scopes[k]]
    IN  IF Cardinality(DOMAIN scopes) < MaxScopes THEN {scopes}
        ELSE {Without(x) : x \in {y \in DOMAIN scopes : \A z \in DOMAIN scopes : scopes[y].at <= scopes[z].at}}

\* The oldest scope goes, the one of all viewers never does.
Room(scopes) ==
    LET narrow == DOMAIN scopes \ {{}}
        Without(x) == [k \in DOMAIN scopes \ {x} |-> scopes[k]]
    IN  IF Cardinality(DOMAIN scopes) < MaxScopes \/ narrow = {} THEN {scopes}
        ELSE {Without(x) : x \in {y \in narrow : \A z \in narrow : scopes[y].at <= scopes[z].at}}

\* One outcome in one scope.
Counted(scopes, key, good) ==
    LET old == IF key \in DOMAIN scopes THEN scopes[key] ELSE [good |-> 0, all |-> 0, at |-> 0]
        new == [good |-> old.good + (IF good THEN 4 ELSE 0), all |-> old.all + 4, at |-> halvings]
    IN  {[k \in DOMAIN r \cup {key} |-> IF k = key THEN new ELSE r[k]] :
            r \in IF key \in DOMAIN scopes THEN {scopes} ELSE Room(scopes)}

\* Observe: all viewers, then the region, the device and both.
Observed(n, labels, good) ==
    LET Step(maps, key) == IF key \subseteq labels THEN UNION {Counted(m, key, good) : m \in maps} ELSE maps
    IN  Step(Step(Step(Counted(tracked[n], {}, good), {"eu"}), {"tv"}), {"eu", "tv"})

\* 90 percent success weighs as much as two sessions.
ScoreOf(good, all) == 300 + (600 * (10 * good + 72)) \div (10 * (all + 8))

\* pickScopeLocked, for a viewer with a television: placement passes no region.
Score(n) ==
    LET scopes == tracked[n]
        Of(k) == ScoreOf(scopes[k].good, scopes[k].all)
    IN  IF {"tv"} \in DOMAIN scopes /\ scopes[{"tv"}].all >= MinEvidence THEN Of({"tv"})
        ELSE IF {} \in DOMAIN scopes THEN Of({}) ELSE ScoreOf(0, 0)

-----------------------------------------------------------------------------
(* Rank and rankTier.                                                      *)

Best(ns, m) == Max({Score(n) : n \in {n \in ns : m[n] = "none"}} \cup {-1})

Pos(base, n) == CHOOSE i \in DOMAIN base : base[i] = n
Sorted(ns, before) == CHOOSE q \in SetToSeqs(ns) : \A i, j \in DOMAIN q : i < j => <<q[i], q[j]>> \in before

\* Who comes first: by the order of the caller, or by score and then by that.
Sooner(base, a, b) == Pos(base, a) < Pos(base, b)
Better(base, a, b) == Score(a) > Score(b) \/ (Score(a) = Score(b) /\ Sooner(base, a, b))

InOrder(base, ns) == Sorted(ns, {p \in ns \X ns : Sooner(base, p[1], p[2])})
ByScore(base, ns) == Sorted(ns, {p \in ns \X ns : Better(base, p[1], p[2])})

RankTier(base) ==
    LET With(mode) == {n \in ToSet(base) : modes[n] = mode}
        behind == {n \in With("none") : Score(n) < Best(ToSet(base), modes) - Band}
    IN  InOrder(base, With("prefer")) \o InOrder(base, With("none") \ behind)
           \o ByScore(base, behind) \o ByScore(base, With("avoid"))

-----------------------------------------------------------------------------
(* CreateSession.                                                          *)

Tiers == {Tier[n] : n \in Hosts}
EarlierOver(s) == \A o \in Starts : o < s => start[o].pc = "over"

BeginRank(s, prev) ==
    /\ start[s].pc = "idle" /\ EarlierOver(s)
    /\ start' = [start EXCEPT ![s].pc = "rank", ![s].prev = prev,
                              ![s].barred = {n \in Hosts : modes[n] = "exclude"}]
    /\ UNCHANGED <<tracked, modes, stored, edit, halvings, reports, crashes, apart>>

\* The next tier, in the order the weights gave; the worker of the session
\* that is replaced is asked first whatever its tier.
RankNext(s) ==
    LET q == start[s]
        ns == {n \in Hosts : Tier[n] = q.tier}
    IN
    /\ q.pc = "rank"
    /\ \E base \in SetToSeqs(ns) :
         LET order == q.order \o RankTier(base)
             done == q.tier = Max(Tiers)
             final == IF q.prev \in ToSet(order) THEN <<q.prev>> \o RemoveAt(order, Pos(order, q.prev)) ELSE order
         IN start' = [start EXCEPT ![s] =
              [q EXCEPT !.pc = IF ~done THEN "rank" ELSE IF order = <<>> THEN "over" ELSE "try",
                        !.tier = @ + 1, !.base = @ \o base, !.order = IF done THEN final ELSE order,
                        !.saw = [n \in Hosts |-> IF n \in ns THEN [mode |-> modes[n], score |-> Score(n)] ELSE @[n]]]]
    /\ UNCHANGED <<tracked, modes, stored, edit, halvings, reports, crashes, apart>>

Closed(q) == [q EXCEPT !.pc = "over", !.tier = 1, !.prev = Nobody, !.base = <<>>, !.saw = NoStart.saw]

\* One worker answers, or does not. Full ones and refusals are no evidence.
Answers == {"made", "garbled", "full", "failed", "refused", "unreached"}
Try(s, answer) ==
    LET q == start[s]
        n == q.order[q.at]
        stop == answer \in {"made", "refused"} \/ q.at = Min({MaxAttempts, Len(q.order)})
    IN
    /\ q.pc = "try"
    /\ start' = [start EXCEPT ![s] =
         LET told == [q EXCEPT !.at = @ + 1, !.asked = Append(@, n),
                                !.last = IF answer \in {"unreached", "garbled"} THEN @ ELSE answer]
         IN  IF stop THEN Closed(told) ELSE told]
    /\ IF answer \in {"made", "garbled", "failed", "unreached"}
       THEN \E m \in Observed(n, {"eu"}, answer \in {"made", "garbled"}) : tracked' = [tracked EXCEPT ![n] = m]
       ELSE UNCHANGED tracked
    /\ UNCHANGED <<modes, stored, edit, halvings, reports, crashes, apart>>

\* FlightObserver: a player tells of a failure.
ReportFailure(n, labels) ==
    /\ reports < MaxReports /\ reports' = reports + 1
    /\ \E m \in Observed(n, labels, FALSE) : tracked' = [tracked EXCEPT ![n] = m]
    /\ UNCHANGED <<modes, stored, edit, start, halvings, crashes, apart>>

Halve ==
    /\ halvings < MaxHalvings /\ halvings' = halvings + 1
    /\ tracked' = [n \in Hosts |-> [k \in DOMAIN tracked[n] |->
                     [tracked[n][k] EXCEPT !.good = @ \div 2, !.all = @ \div 2]]]
    /\ UNCHANGED <<modes, stored, edit, start, reports, crashes, apart>>

-----------------------------------------------------------------------------
(* handlePutOverride and handleDeleteOverride: the table, then the memory. *)

Between(n) == {e \in Edits : edit[e].pc = "set" /\ edit[e].host = n}

\* The table may not answer, and nothing changes.
StoreEdit(e, n, to) ==
    /\ edit[e].pc = "idle" /\ \A o \in Edits : o < e => edit[o].pc # "idle"
    /\ \/ /\ stored' = [stored EXCEPT ![n] = to]
          /\ edit' = [edit EXCEPT ![e] = [pc |-> "set", host |-> n, to |-> to]]
          /\ apart' = IF Between(n) = {} THEN apart ELSE apart \cup {n}
       \/ edit' = [edit EXCEPT ![e].pc = "over"] /\ UNCHANGED <<stored, apart>>
    /\ UNCHANGED <<tracked, modes, start, halvings, reports, crashes>>

SetOverride(e) ==
    LET n == edit[e].host IN
    /\ edit[e].pc = "set"
    /\ modes' = [modes EXCEPT ![n] = edit[e].to]
    /\ edit' = [edit EXCEPT ![e].pc = "over"]
    /\ start' = [s \in Starts |-> [start[s] EXCEPT !.barred = @ \ {n}]]
    /\ UNCHANGED <<tracked, stored, halvings, reports, crashes, apart>>

\* The process ends and another starts: LoadOverrides reads the table, or
\* fails and is only logged.
ReloadAll ==
    /\ crashes < MaxCrashes /\ crashes' = crashes + 1
    /\ \/ modes' = stored /\ apart' = {}
       \/ modes' = [n \in Hosts |-> "none"] /\ apart' = {n \in Hosts : stored[n] # "none"}
    /\ tracked' = [n \in Hosts |-> <<>>]
    /\ edit' = [e \in Edits |-> IF edit[e].pc = "set" THEN [edit[e] EXCEPT !.pc = "over"] ELSE edit[e]]
    /\ start' = [s \in Starts |-> IF start[s].pc = "idle" THEN start[s]
                                 ELSE [NoStart EXCEPT !.pc = "over", !.last = "cut off"]]
    /\ UNCHANGED <<stored, halvings, reports>>

RKNext ==
    \/ \E s \in Starts :
         \/ \E prev \in Hosts \cup {Nobody} : BeginRank(s, prev)
         \/ RankNext(s)
         \/ \E answer \in Answers : Try(s, answer)
    \/ \E n \in Blamed, labels \in Labels : ReportFailure(n, labels)
    \/ Halve
    \/ \E e \in Edits : SetOverride(e) \/ \E n \in Hosts, to \in Wishes : StoreEdit(e, n, to)
    \/ ReloadAll

RKSpec == RKInit /\ [][RKNext]_rkVars

-----------------------------------------------------------------------------
(* Properties.                                                             *)

RKTypeOK ==
    /\ modes \in [Hosts -> Modes] /\ stored \in [Hosts -> Modes] /\ apart \subseteq Hosts
    /\ \A n \in Hosts : Cardinality(DOMAIN tracked[n]) <= MaxScopes

\* No narrow scope claims more evidence than all viewers together have, and
\* the scope of all viewers is never the one that makes room.
AllViewersHaveMost ==
    \A n \in Hosts : DOMAIN tracked[n] # {} =>
      {} \in DOMAIN tracked[n] /\ \A k \in DOMAIN tracked[n] : tracked[n][k].all <= tracked[n][{}].all

\* What the administrator set is what the process goes by, outside the two
\* steps of an edit, unless edits of one worker crossed or a load failed.
OverridesKept == \A n \in Hosts \ apart : Between(n) = {} => modes[n] = stored[n]

\* A worker that was excluded when the request came, and that nobody edited
\* since, is not asked, although the tiers are ranked one after the other and
\* the worker of a replaced session goes first.
ExcludedNotAsked == \A s \in Starts : ToSet(start[s].asked) \cap start[s].barred = {}

\* The order that is tried has every worker that was not excluded once.
EveryoneOnce ==
    \A s \in Starts : LET q == start[s] IN
      q.pc = "try" => /\ IsInjective(q.order)
                      /\ ToSet(q.order) = {n \in Hosts : q.saw[n].mode # "exclude"}

\* In a tier the preferred come first and the avoided last; of the others
\* those within the band of the best.
BestOf(q, tier) ==
    Max({q.saw[n].score : n \in {m \in Hosts : Tier[m] = tier /\ q.saw[m].mode = "none"}} \cup {-1})
Standing(q, n) ==
    CASE q.saw[n].mode = "prefer" -> 1
      [] q.saw[n].mode = "avoid" -> 4
      [] OTHER -> IF q.saw[n].score >= BestOf(q, Tier[n]) - Band THEN 2 ELSE 3

\* Why a may be asked before b.
Fairly(q, a, b) ==
    \/ Tier[a] < Tier[b]
    \/ Tier[a] = Tier[b] /\ Standing(q, a) < Standing(q, b)
    \/ /\ Tier[a] = Tier[b] /\ Standing(q, a) = Standing(q, b)
       /\ IF Standing(q, a) \in {1, 2} THEN Pos(q.base, a) < Pos(q.base, b) ELSE q.saw[a].score >= q.saw[b].score

\* Tiers are tried in order and groups in a tier; whoever is preferred or near
\* the best keeps its place in the weighted order. Only the worker of the
\* session that is replaced goes before its turn.
FairOrder ==
    \A s \in Starts : LET q == start[s] IN
      q.pc = "try" => \A i, j \in DOMAIN q.order :
        (i < j /\ q.prev \notin {q.order[i], q.order[j]}) => Fairly(q, q.order[i], q.order[j])

\* Nobody is told that there is no worker while one of the first three was not asked.
GivesUpLast ==
    \A s \in Starts : LET q == start[s] IN
      q.pc = "over" /\ q.last \in {"none", "full", "failed"} => Len(q.asked) = Min({MaxAttempts, Len(q.order)})

RankingSafe ==
    RKTypeOK /\ AllViewersHaveMost /\ OverridesKept /\ ExcludedNotAsked
    /\ EveryoneOnce /\ FairOrder /\ GivesUpLast

RankingContract == [][UNCHANGED rkVars \/ RankingSafe']_rkVars
=============================================================================
