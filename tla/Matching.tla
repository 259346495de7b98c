------------------------------- MODULE Matching -------------------------------
(***************************************************************************)
(* Matching titles with TMDB (internal/metadata): the queue a worker       *)
(* drains every twenty seconds, and the requests of an administrator who   *)
(* matches or refreshes a title meanwhile.                                 *)
(*                                                                         *)
(* TMDB is external: for each attempt it fails, has no clear winner, or    *)
(* names one. Each statement on the database is atomic, a match is several.*)
(***************************************************************************)
EXTENDS Naturals, Sequences, FiniteSets, SequencesExt

CONSTANTS
    Movies,    \* titles of the catalogue
    Failing,   \* those whose search fails, now and always
    Unclear,   \* those without a unique winner
    Limit,     \* how many the worker takes at a time (50 in the code)
    Automatic, \* the id an automatic match finds
    Chosen,    \* the id an administrator chooses
    NoId,      \* unmatched
    Admins,    \* match requests
    Refreshers \* refresh requests

Askers == Admins \cup Refreshers

ASSUME MatchingAssumption ==
    /\ Limit \in Nat \ {0} /\ IsFiniteSet(Movies) /\ Movies # {}
    /\ Failing \cup Unclear \subseteq Movies
    /\ Automatic # Chosen /\ NoId \notin {Automatic, Chosen}
    /\ Admins \cap Refreshers = {}

VARIABLES
    tmdb,     \* tmdb_id of each title; unmatched = 1 when it has none
    lock,     \* titles with a lock on tmdb_id
    queue,    \* match_queue by created_at
    batch,    \* what DrainQueue has listed and not come to yet
    worker,   \* the title it is at
    asked,    \* requests
    wanted,   \* history: the id an administrator gave a title last
    overtaken \* history: titles an administrator matched while somebody had
              \* read their lock or id and not written yet

mtVars == <<tmdb, lock, queue, batch, worker, asked, wanted, overtaken>>

Nothing == [pc |-> "idle", t |-> CHOOSE t \in Movies : TRUE, id |-> NoId]

\* Every variable has its type.
MTTypeOK ==
    /\ tmdb \in [Movies -> {Automatic, Chosen, NoId}] /\ wanted \in [Movies -> {Chosen, NoId}]
    /\ lock \subseteq Movies /\ overtaken \subseteq Movies
    /\ IsInjective(queue) /\ Range(queue) \subseteq Movies
    /\ Range(batch) \subseteq Movies
    /\ worker \in [pc: {"idle", "list", "look", "search", "apply", "after"}, t: Movies, failed: BOOLEAN]
    /\ asked \in [Askers -> [pc: {"idle", "fetch", "lock", "dequeue"}, t: Movies,
                           id: {Automatic, Chosen, NoId}]]

MTInit ==
    /\ tmdb = [t \in Movies |-> NoId] /\ wanted = [t \in Movies |-> NoId]
    /\ lock = {} /\ queue = <<>> /\ batch = <<>>
    /\ worker = [pc |-> "idle", t |-> Nothing.t, failed |-> FALSE]
    /\ asked = [a \in Askers |-> Nothing] /\ overtaken = {}

Unmatched == {t \in Movies : tmdb[t] = NoId}
\* A title is in the queue once.
Without(t) ==
    IF t \in Range(queue) THEN RemoveAt(queue, CHOOSE i \in DOMAIN queue : queue[i] = t) ELSE queue
Worker(pc) == worker' = [worker EXCEPT !.pc = pc]

-----------------------------------------------------------------------------
(* RunOnce.                                                                *)

\* enqueueUnmatched: INSERT OR IGNORE keeps the place of those in the queue.
Enqueue ==
    /\ worker.pc = "idle" /\ Worker("list")
    /\ \E new \in SetToSeqs(Unmatched \ Range(queue)) : queue' = queue \o new
    /\ UNCHANGED <<tmdb, lock, batch, asked, wanted, overtaken>>

List ==
    /\ worker.pc = "list" /\ Worker("look")
    /\ batch' = SubSeq(queue, 1, IF Len(queue) < Limit THEN Len(queue) ELSE Limit)
    /\ UNCHANGED <<tmdb, lock, queue, asked, wanted, overtaken>>

Drained ==
    /\ worker.pc = "look" /\ batch = <<>> /\ Worker("idle")
    /\ UNCHANGED <<tmdb, lock, queue, batch, asked, wanted, overtaken>>

\* Matched by hand a moment ago and not locked yet.
Unlocked(t) == IF \E a \in Admins : asked[a].pc = "lock" /\ asked[a].t = t THEN {t} ELSE {}

\* TryAutoMatch: a locked title is left alone. Whether it has been matched
\* since it was listed is not asked.
Look ==
    /\ worker.pc = "look" /\ batch # <<>> /\ batch' = Tail(batch)
    /\ worker' = [pc |-> IF Head(batch) \in lock THEN "after" ELSE "search",
                  t |-> Head(batch), failed |-> FALSE]
    /\ overtaken' = overtaken \cup Unlocked(Head(batch))
    /\ UNCHANGED <<tmdb, lock, queue, asked, wanted>>

\* TMDB answers the search and the question for the details.
Search ==
    /\ worker.pc = "search"
    /\ worker' = [worker EXCEPT !.pc = IF worker.t \in Failing \cup Unclear THEN "after" ELSE "apply",
                                !.failed = (worker.t \in Failing)]
    /\ UNCHANGED <<tmdb, lock, queue, batch, asked, wanted, overtaken>>

\* ApplyMatch: the title is updated, then taken out of the queue.
Apply ==
    /\ worker.pc = "apply" /\ Worker("after")
    /\ tmdb' = [tmdb EXCEPT ![worker.t] = Automatic]
    /\ queue' = Without(worker.t)
    /\ UNCHANGED <<lock, batch, asked, wanted, overtaken>>

\* An error keeps its place in the queue. A title without a winner goes to
\* the end, a matched one leaves.
After ==
    /\ worker.pc = "after" /\ Worker("look")
    /\ queue' = IF worker.failed THEN queue
                ELSE IF tmdb[worker.t] = NoId /\ worker.t \in Range(queue)
                THEN Append(Without(worker.t), worker.t)
                ELSE Without(worker.t)
    /\ UNCHANGED <<tmdb, lock, batch, asked, wanted, overtaken>>

WorkerStep ==
    Enqueue \/ List \/ Drained \/ Look \/ Search \/ Apply \/ After

-----------------------------------------------------------------------------
(* The requests.                                                           *)

\* handleMatch, and handleRefresh of a matched title: the details are fetched.
Match(a, t) ==
    /\ a \in Admins /\ asked[a].pc = "idle" /\ wanted[t] = NoId
    /\ asked' = [asked EXCEPT ![a] = [pc |-> "fetch", t |-> t, id |-> Chosen]]
    /\ UNCHANGED <<tmdb, lock, queue, batch, worker, wanted, overtaken>>

Refresh(a, t) ==
    /\ a \in Refreshers /\ asked[a].pc = "idle" /\ tmdb[t] # NoId
    /\ asked' = [asked EXCEPT ![a] = [pc |-> "fetch", t |-> t, id |-> tmdb[t]]]
    /\ UNCHANGED <<tmdb, lock, queue, batch, worker, wanted, overtaken>>

\* Who has read the lock or the id of a title and not written yet.
Underway(t) ==
    \/ worker.pc \in {"search", "apply"} /\ worker.t = t
    \/ \E r \in Refreshers : asked[r].pc = "fetch" /\ asked[r].t = t /\ asked[r].id = Automatic

\* ApplyMatch updates the title ...
Update(a) ==
    LET t == asked[a].t IN
    /\ asked[a].pc = "fetch"
    /\ tmdb' = [tmdb EXCEPT ![t] = asked[a].id]
    /\ asked' = [asked EXCEPT ![a].pc = IF a \in Admins THEN "lock" ELSE "dequeue"]
    /\ wanted' = IF a \in Admins THEN [wanted EXCEPT ![t] = Chosen] ELSE wanted
    /\ overtaken' = IF a \in Admins /\ Underway(t) THEN overtaken \cup {t} ELSE overtaken
    /\ UNCHANGED <<lock, queue, batch, worker>>

\* Mutant: a match by hand is not locked.
LockNot(a) ==
    /\ asked[a].pc = "lock" /\ asked' = [asked EXCEPT ![a].pc = "dequeue"]
    /\ UNCHANGED <<tmdb, lock, queue, batch, worker, wanted, overtaken>>

\* ... locks it when it was matched by hand: the worker may look in between ...
Lock(a) ==
    LET t == asked[a].t IN
    /\ asked[a].pc = "lock"
    /\ lock' = lock \cup {t}
    /\ overtaken' = IF Underway(t) THEN overtaken \cup {t} ELSE overtaken
    /\ asked' = [asked EXCEPT ![a].pc = "dequeue"]
    /\ UNCHANGED <<tmdb, queue, batch, worker, wanted>>

\* ... and takes it out of the queue.
Dequeue(a) ==
    /\ asked[a].pc = "dequeue"
    /\ queue' = Without(asked[a].t)
    /\ asked' = [asked EXCEPT ![a] = Nothing]
    /\ UNCHANGED <<tmdb, lock, batch, worker, wanted, overtaken>>

\* An unmatched title is put into the queue again.
RefreshUnmatched(t) ==
    /\ t \in Unmatched \ Range(queue)
    /\ queue' = Append(queue, t)
    /\ UNCHANGED <<tmdb, lock, batch, worker, asked, wanted, overtaken>>

MTNext ==
    \/ WorkerStep
    \/ \E a \in Askers : Update(a) \/ Lock(a) \/ Dequeue(a)
                         \/ \E t \in Movies : Match(a, t) \/ Refresh(a, t)
    \/ \E t \in Movies : RefreshUnmatched(t)

\* The worker runs every twenty seconds.
MTSpec == MTInit /\ [][MTNext]_mtVars /\ WF_mtVars(WorkerStep)

-----------------------------------------------------------------------------
(* Properties.                                                             *)

\* What an administrator chose stays, unless the worker or a refresh had read
\* the lock or the id before the choice was locked: neither asks again before
\* it writes.
ChoiceStays ==
    \A t \in Movies : wanted[t] = Chosen => tmdb[t] = Chosen \/ t \in overtaken

\* Every title in the queue has its turn, as long as fewer titles than the
\* worker takes at a time fail for ever: those keep the front of the queue.
EveryoneHasATurn ==
    \A t \in Movies : []<>(t \in Range(queue) => worker.t = t /\ worker.pc \in {"search", "apply", "after"})

\* What an administrator and a title in the queue may count on.
MatchingContract == []MTTypeOK /\ [][UNCHANGED mtVars \/ ChoiceStays']_mtVars /\ EveryoneHasATurn

=============================================================================
