------------------------------- MODULE Flight -------------------------------
(***************************************************************************)
(* The flight recorder of internal/diagnostics: a bounded timeline in      *)
(* memory for every playback session, and the telemetry endpoint of        *)
(* internal/playback that feeds it. A post takes its events from the       *)
(* budget of the session in one step and records each in a step of its     *)
(* own, so other sessions come in between, and may make the recorder drop  *)
(* the session. Each step reads the clock before it waits for the lock, so *)
(* its time may be a tick late. An event is its type, its time and how     *)
(* many were recorded before it; what clients claim of the time only sorts *)
(* what is shown and is left out.                                          *)
(***************************************************************************)
EXTENDS Naturals, Sequences, FiniteSets, FiniteSetsExt

CONSTANTS
    Plays,         \* playback sessions
    MaxPlays,      \* timelines kept
    MaxKept,     \* events kept of each
    NotableKeep,   \* events kept in the feed of incidents
    Bursts,        \* budgets an administrator may set; a token comes back each tick
    Every,         \* ticks between two sampled events of one session
    Retention,     \* ticks an idle timeline is kept
    SweepEvery,    \* ticks between two sweeps
    Batches,       \* requests with telemetry, numbered in the order they are admitted
    Largest,       \* bound on the events of one request
    MaxServed,     \* bound on events of the server itself
    MaxTime        \* bound on the clock

ASSUME FlightAssumption ==
    /\ Plays # {} /\ Batches \subseteq Nat /\ {MaxPlays, MaxKept, NotableKeep, Largest} \subseteq Nat \ {0}
    /\ Bursts # {} /\ Bursts \subseteq Nat \ {0} /\ IsFiniteSet(Bursts)
    /\ {Retention, SweepEvery} \subseteq Nat \ {0} /\ {Every, MaxServed, MaxTime} \subseteq Nat

VARIABLES
    clock,
    logs,       \* Recorder.sessions
    feed,       \* Recorder.notable
    swept,      \* Recorder.lastSweep
    batch,      \* what is left of each request
    served,     \* events of the server so far
    spent       \* history: events admitted for a session since its timeline began, and when that was

flVars == <<clock, logs, feed, swept, batch, served, spent>>

NoLog == [on |-> FALSE, events |-> <<>>, count |-> 0, lastAt |-> 0, sampled |-> 0,
          tokens |-> 0, refillAt |-> 0]
Nothing == [n |-> 0, since |-> 0]
Unsent == [pc |-> "idle", play |-> CHOOSE s \in Plays : TRUE, left |-> 0]

FLInit ==
    /\ clock = 1 /\ swept = 1
    /\ logs = [s \in Plays |-> NoLog]
    /\ feed = <<>>
    /\ batch = [b \in Batches |-> Unsent]
    /\ served = 0
    /\ spent = [s \in Plays |-> Nothing]

-----------------------------------------------------------------------------
(* sessionLocked and sweepLocked, on the timelines ls at time t.           *)

Timelines(ls) == {s \in Plays : ls[s].on}
Times == {t \in {clock - 1, clock} : t > 0}
LastOf(seq, n) == SubSeq(seq, IF Len(seq) > n THEN Len(seq) - n + 1 ELSE 1, Len(seq))

\* The timelines least recently active.
Idlest(ls) == {v \in Timelines(ls) : \A o \in Timelines(ls) : ls[v].lastAt <= ls[o].lastAt}

\* The timeline of s is there; if the recorder is full another one goes.
Opened(ls, s, t) ==
    LET new == [NoLog EXCEPT !.on = TRUE, !.lastAt = t] IN
    IF ls[s].on THEN {ls}
    ELSE IF Cardinality(Timelines(ls)) < MaxPlays THEN {[ls EXCEPT ![s] = new]}
    ELSE {[ls EXCEPT ![s] = new, ![v] = NoLog] : v \in Idlest(ls)}

SweepDue(t) == swept + SweepEvery <= t
Swept(ls, t) ==
    IF ~SweepDue(t) THEN ls
    ELSE [s \in Plays |-> IF ls[s].lastAt + Retention < t THEN NoLog ELSE ls[s]]
AgedFeed(events, t) ==
    LET kept[i \in 0 .. Len(events)] ==
          IF i = 0 THEN <<>>
          ELSE IF events[i].at + Retention >= t THEN Append(kept[i - 1], events[i]) ELSE kept[i - 1]
    IN  IF SweepDue(t) THEN kept[Len(events)] ELSE events

\* What was spent of the budgets of the timelines that stay.
StillSpent(old, new) == [s \in Plays |-> IF old[s].on /\ new[s].on THEN spent[s] ELSE Nothing]

-----------------------------------------------------------------------------
(* Recorder.Admit: a token bucket for each timeline.                       *)

\* A slip: tokens that came back come back again.
RefillAgain(log, burst, t) ==
    IF log.refillAt = 0 THEN [log EXCEPT !.tokens = burst, !.refillAt = t]
    ELSE IF log.refillAt < t
    THEN [log EXCEPT !.tokens = Min({burst, @ + (t - log.refillAt)})]
    ELSE log

\* A lower budget applies when time has passed.
Refill(log, burst, t) ==
    IF log.refillAt = 0 THEN [log EXCEPT !.tokens = burst, !.refillAt = t]
    ELSE IF log.refillAt < t
    THEN [log EXCEPT !.tokens = Min({burst, @ + (t - log.refillAt)}), !.refillAt = t]
    ELSE log

\* The budget is what SetIngestBudget left last.
Admit(b, s, n, burst, t) ==
    /\ batch[b].pc = "idle" /\ \A o \in Batches : o < b => batch[o].pc # "idle"
    /\ \E ls \in Opened(logs, s, t) :
         LET log == Refill(ls[s], burst, t)
             granted == Min({log.tokens, n})
         IN  /\ logs' = [ls EXCEPT ![s] = [log EXCEPT !.tokens = @ - granted]]
             /\ spent' = [StillSpent(logs, ls) EXCEPT ![s] =
                  [n |-> @.n + granted, since |-> IF ls[s].refillAt = 0 THEN t ELSE @.since]]
             /\ batch' = [batch EXCEPT ![b] =
                  [pc |-> IF granted = 0 THEN "ended" ELSE "sends", play |-> s, left |-> granted]]
    /\ UNCHANGED <<clock, feed, swept, served>>

-----------------------------------------------------------------------------
(* Recorder.RecordEvent. "buffer" stands for the sampled types, "failover"  *)
(* for the incidents, "play" for the others.                               *)

Record(s, typ, t) ==
    LET kept == Swept(logs, t) IN
    \E ls \in Opened(kept, s, t) :
        LET log == ls[s]
            e == [type |-> typ, at |-> t, n |-> log.count]
            skip == typ = "buffer" /\ log.sampled > 0 /\ t < log.sampled + Every
        IN  /\ swept' = (IF SweepDue(t) THEN t ELSE swept)
            /\ spent' = StillSpent(kept, ls)
            /\ IF skip
               THEN logs' = ls /\ feed' = AgedFeed(feed, t)
               ELSE /\ logs' = [ls EXCEPT ![s] =
                         [log EXCEPT !.events = LastOf(Append(@, e), MaxKept), !.count = @ + 1, !.lastAt = t,
                                     !.sampled = IF typ = "buffer" THEN t ELSE @]]
                    /\ feed' = (IF typ = "failover" THEN LastOf(Append(AgedFeed(feed, t), e), NotableKeep)
                                ELSE AgedFeed(feed, t))

\* One event of a request that was admitted.
Send(b, typ, t) ==
    /\ batch[b].pc = "sends"
    /\ Record(batch[b].play, typ, t)
    /\ batch' = [batch EXCEPT ![b].left = @ - 1, ![b].pc = IF batch[b].left = 1 THEN "ended" ELSE @]
    /\ UNCHANGED <<clock, served>>

\* The server's own events are not admitted first.
Serve(s, t) ==
    /\ served < MaxServed /\ served' = served + 1
    /\ Record(s, "play", t)
    /\ UNCHANGED <<clock, batch>>

Tick ==
    /\ clock < MaxTime /\ clock' = clock + 1
    /\ UNCHANGED <<logs, feed, swept, batch, served, spent>>

FLNext ==
    \/ \E b \in Batches, t \in Times :
         \/ \E s \in Plays, n \in 1 .. Largest, burst \in Bursts : Admit(b, s, n, burst, t)
         \/ \E typ \in {"buffer", "failover"} : Send(b, typ, t)
    \/ \E s \in Plays, t \in Times : Serve(s, t)
    \/ Tick

FLSpec == FLInit /\ [][FLNext]_flVars

-----------------------------------------------------------------------------
(* Properties.                                                             *)

\* The recorder stays as small as it promises.
FLTypeOK ==
    /\ Cardinality(Timelines(logs)) <= MaxPlays /\ Len(feed) <= NotableKeep
    /\ \A s \in Plays : Len(logs[s].events) <= MaxKept
    /\ \A b \in Batches : batch[b].pc \in {"idle", "sends", "ended"}

\* A timeline holds the last events that were recorded for it, none missing
\* in between, although posts of several sessions interleave and evict.
NoGap ==
    \A s \in Timelines(logs) : LET es == logs[s].events IN
      /\ Len(es) = Min({logs[s].count, MaxKept})
      /\ \A i \in DOMAIN es : es[i].n = logs[s].count - Len(es) + i - 1

\* Sampled events of one timeline are never closer than the interval, late
\* clocks included.
SampledApart ==
    \A s \in Plays : LET es == logs[s].events IN
      \A i, j \in DOMAIN es :
        i < j /\ es[i].type = "buffer" /\ es[j].type = "buffer" => es[i].at + Every <= es[j].at

\* However a client splits its posts and whatever the administrator changes,
\* it gets a burst and what came back since, as long as its timeline lives.
BudgetKept ==
    \A s \in Timelines(logs) : logs[s].refillAt > 0 => spent[s].n <= Max(Bursts) + (clock - spent[s].since)

FlightSafe == FLTypeOK /\ NoGap /\ SampledApart /\ BudgetKept

\* Timelines go when nobody asks for them: whoever records finds none that
\* was idle for the retention and one interval of the sweep.
SweptOnWrite ==
    [][served' # served \/ (\E b \in Batches : batch[b].pc = "sends" /\ batch'[b] # batch[b]) =>
          \A s \in Timelines(logs') : logs'[s].lastAt + Retention + SweepEvery >= clock]_flVars

FlightContract == [][UNCHANGED flVars \/ FlightSafe']_flVars /\ SweptOnWrite
=============================================================================
