------------------------------ MODULE Dashboard ------------------------------
(***************************************************************************)
(* The resilience dashboard (internal/resilience). Each section remembers  *)
(* its result for a while and lets one evaluation run at a time; whoever   *)
(* asks waits for it, but not longer than the timeout. An evaluation that  *)
(* is given up goes on by itself, and what it finds then is not thrown     *)
(* away everywhere: it still becomes the last known list of workers, and   *)
(* still writes to the storage.                                            *)
(*                                                                         *)
(* Snapshot asks every section in a goroutine of its own and sections      *)
(* share nothing, so a behaviour is about one of them: the workers or the  *)
(* storage probe, the two with an effect. The others return what they read.*)
(***************************************************************************)
EXTENDS Naturals

CONSTANTS
    Looks,      \* requests for the dashboard, numbered in the order they come
    KeepFor,      \* ticks a result is kept
    Timeout,    \* ticks an evaluation is waited for
    MaxTicks,
    MaxLists    \* bound on the changes of the workers

ASSUME DashboardAssumption ==
    Looks \subseteq Nat \ {0} /\ KeepFor \in Nat \ {0} /\ Timeout \in Nat /\ MaxTicks \in Nat \ {0} /\ MaxLists \in Nat

VARIABLES
    section,    \* the one this behaviour is about
    ticks,
    workers,    \* the version of the workers in the table
    wasAt,      \* history: the version at the start of each tick
    kept,       \* cached.at and cached.result
    holds,      \* who has cached.mu, 0 for nobody
    look,       \* what each request does and is answered
    eval,       \* the evaluation it started
    lastKnown,  \* lastNodes, 0 for none
    shown,      \* history: the newest list somebody was shown
    object,     \* whether the probe of the storage lies there
    overdue        \* history: an evaluation that was given up wrote something

dbVars == <<section, ticks, workers, wasAt, kept, holds, look, eval, lastKnown, shown, object, overdue>>
around == <<section, ticks, workers, wasAt>>

NoResult == [at |-> 0, status |-> "never", list |-> 0, stale |-> FALSE]

DBInit ==
    /\ section \in {"nodes", "storage"}
    /\ ticks = 1 /\ workers = 1 /\ wasAt = [t \in 1 .. MaxTicks |-> 1]
    /\ kept = NoResult /\ holds = 0
    /\ look = [l \in Looks |-> [pc |-> "idle", at |-> 0, got |-> NoResult]]
    /\ eval = [l \in Looks |-> [pc |-> "none", list |-> 0]]
    /\ lastKnown = 0 /\ shown = 0 /\ object = FALSE /\ overdue = FALSE

\* Nobody waits longer than the timeout.
ClockTick ==
    /\ ticks < MaxTicks /\ ticks' = ticks + 1
    /\ \A l \in Looks : look[l].pc = "evaluates" => ticks < look[l].at + Timeout
    /\ wasAt' = [wasAt EXCEPT ![ticks + 1] = workers]
    /\ UNCHANGED <<section, workers, kept, holds, look, eval, lastKnown, shown, object, overdue>>

Change ==
    /\ section = "nodes" /\ workers < MaxLists /\ workers' = workers + 1
    /\ UNCHANGED <<section, ticks, wasAt, kept, holds, look, eval, lastKnown, shown, object, overdue>>

-----------------------------------------------------------------------------
(* cached.get and safely.                                                  *)

LookAt(l) ==
    /\ look[l].pc = "idle" /\ \A o \in Looks : o < l => look[o].pc # "idle"
    /\ look' = [look EXCEPT ![l].pc = "waits"]
    /\ UNCHANGED <<around, kept, holds, eval, lastKnown, shown, object, overdue>>

Answer(l, res) ==
    /\ look' = [look EXCEPT ![l].pc = "done", ![l].got = res, ![l].at = ticks]
    /\ shown' = (IF res.list > shown THEN res.list ELSE shown)

\* A slip: what was once read is fresh for ever.
FreshForEver == kept.at # 0

IsFresh == kept.at # 0 /\ ticks < kept.at + KeepFor

ShowKept(l) ==
    /\ look[l].pc = "waits" /\ holds = 0 /\ IsFresh
    /\ Answer(l, kept)
    /\ UNCHANGED <<around, kept, holds, eval, lastKnown, object, overdue>>

Evaluate(l) ==
    /\ look[l].pc = "waits" /\ holds = 0 /\ ~IsFresh
    /\ holds' = l
    /\ eval' = [eval EXCEPT ![l].pc = "starts"]
    /\ look' = [look EXCEPT ![l].pc = "evaluates", ![l].at = ticks]
    /\ UNCHANGED <<around, kept, lastKnown, shown, object, overdue>>

Finish(l, res) == kept' = res /\ holds' = 0 /\ Answer(l, res)

\* The timeout ends the wait, whatever the evaluation does.
GiveUp(l) ==
    /\ look[l].pc = "evaluates"
    /\ Finish(l, [NoResult EXCEPT !.at = ticks, !.status = "down"])
    /\ UNCHANGED <<around, eval, lastKnown, object, overdue>>

\* The evaluation ends; its result goes to whoever waits, if anybody does.
Return(l, status, list, stale) ==
    /\ eval' = [eval EXCEPT ![l].pc = "over"]
    /\ IF look[l].pc = "evaluates"
       THEN Finish(l, [at |-> ticks, status |-> status, list |-> list, stale |-> stale])
       ELSE UNCHANGED <<kept, holds, look, shown>>

Late(l) == overdue' = (overdue \/ look[l].pc = "done")

-----------------------------------------------------------------------------
(* checkNodes: the list, or the last one known.                            *)

ReadList(l) ==
    /\ section = "nodes" /\ eval[l].pc = "starts"
    /\ eval' \in {[eval EXCEPT ![l] = [pc |-> "listed", list |-> workers]],
                 [eval EXCEPT ![l].pc = "unlisted"]}
    /\ UNCHANGED <<around, kept, holds, look, lastKnown, shown, object, overdue>>

KeepList(l) ==
    /\ eval[l].pc = "listed"
    /\ lastKnown' = eval[l].list /\ Late(l)
    /\ Return(l, "ok", eval[l].list, FALSE)
    /\ UNCHANGED <<around, object>>

ListLastKnown(l) ==
    /\ eval[l].pc = "unlisted"
    /\ Return(l, IF lastKnown = 0 THEN "down" ELSE "degraded", lastKnown, lastKnown # 0)
    /\ UNCHANGED <<around, lastKnown, object, overdue>>

(* checkStorage and probeStore: a small object is put and deleted. A call  *)
(* that fails may have come through.                                       *)

PutProbe(l) ==
    /\ section = "storage" /\ eval[l].pc = "starts"
    /\ \/ /\ object' = TRUE
          /\ eval' = [eval EXCEPT ![l].pc = "put"]
          /\ UNCHANGED <<kept, holds, look, shown>>
       \/ object' \in {object, TRUE} /\ Return(l, "down", 0, FALSE)
    /\ Late(l)
    /\ UNCHANGED <<around, lastKnown>>

DeleteProbe(l) ==
    /\ eval[l].pc = "put"
    /\ \/ object' = FALSE /\ Return(l, "ok", 0, FALSE)
       \/ object' \in {object, FALSE} /\ Return(l, "down", 0, FALSE)
    /\ UNCHANGED <<around, lastKnown, overdue>>

DBNext ==
    \/ ClockTick \/ Change
    \/ \E l \in Looks :
         \/ LookAt(l) \/ ShowKept(l) \/ Evaluate(l) \/ GiveUp(l)
         \/ ReadList(l) \/ KeepList(l) \/ ListLastKnown(l) \/ PutProbe(l) \/ DeleteProbe(l)

DBSpec == DBInit /\ [][DBNext]_dbVars

-----------------------------------------------------------------------------
(* Properties.                                                             *)

DBTypeOK == holds \in Looks \cup {0} /\ lastKnown \in 0 .. workers /\ shown \in 0 .. workers

\* The tick d before t, or the first.
Earlier(t, d) == IF t > d THEN t - d ELSE 1

\* A list that is not marked stale is one the workers had since the time a
\* result is kept and one timeout before the answer.
UnmarkedIsRecent ==
    \A l \in Looks : LET q == look[l] IN
      q.pc = "done" /\ q.got.status = "ok" /\ section = "nodes" =>
          q.got.list >= wasAt[Earlier(q.at, KeepFor + Timeout)]

\* The list that is kept for when the table cannot be read is the newest that
\* somebody was shown, unless an evaluation that was given up ended after it.
LastKnownIsLatest == ~overdue => lastKnown = shown

\* A probe that succeeded leaves nothing behind once every other has ended.
NothingLeft ==
    kept.status = "ok" /\ ~overdue /\ holds = 0
      /\ (\A l \in Looks : eval[l].pc \notin {"starts", "put"}) => ~object

DashboardSafe == DBTypeOK /\ UnmarkedIsRecent /\ LastKnownIsLatest /\ (section = "storage" => NothingLeft)

=============================================================================
