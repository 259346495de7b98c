-------------------------------- MODULE Outage --------------------------------
(***************************************************************************)
(* Signed-in requests while the database stalls and recovers: the breaker  *)
(* of internal/db that fails statements fast, and the cache of principals  *)
(* of internal/auth that serves those it has seen.                         *)
(*                                                                         *)
(* One account with one token, whose rights have a version that grows with *)
(* each change. The lookup of a principal is one statement. A server that  *)
(* stalls answers nothing and returns no error.                            *)
(***************************************************************************)
EXTENDS Naturals

CONSTANTS
    Calls,      \* requests of the account
    TripAfter,  \* failed pings that open the breaker (2 in the code)
    MaxOutages, \* bound: times the server stalls
    MaxEdits    \* bound: changes of the rights

ASSUME OutageAssumption == TripAfter \in Nat \ {0} /\ MaxOutages \in Nat /\ MaxEdits \in Nat

VARIABLES
    up,       \* the server answers
    breaker,  \* open, failed pings in a row, trip still has to cancel statements
    inflight, \* the calls whose statement is registered and not cancelled
    call,     \* the calls
    cached,   \* the entry of the account in the cache
    gen,      \* its generation counter
    rights,   \* version of the rights in the database
    settled,  \* history: the version whose change is over, invalidation included
    edit,     \* where a change of the rights is
    outages   \* stalls so far

ogVars == <<up, breaker, inflight, call, cached, gen, rights, settled, edit, outages>>

Versions == 0..MaxEdits

\* Every variable has its type.
OGTypeOK ==
    /\ up \in BOOLEAN /\ inflight \subseteq Calls /\ outages \in 0..MaxOutages
    /\ breaker \in [open: BOOLEAN, failed: 0..TripAfter, sweep: BOOLEAN]
    /\ call \in [Calls -> [pc: {"idle", "guard", "register", "run", "put", "refused", "served", "failed"},
                           got: Versions, since: Versions, late: BOOLEAN, slipped: BOOLEAN]]
    /\ cached \in [there: BOOLEAN, ver: Versions, gen: Versions, age: 0..2, late: BOOLEAN]
    /\ gen \in Versions /\ rights \in Versions /\ settled \in Versions
    /\ edit \in {"none", "saved", "counted"}

Empty == [there |-> FALSE, ver |-> 0, gen |-> 0, age |-> 2, late |-> FALSE]
Fresh == [pc |-> "idle", got |-> 0, since |-> 0, late |-> FALSE, slipped |-> FALSE]

OGInit ==
    /\ up = TRUE /\ breaker = [open |-> FALSE, failed |-> 0, sweep |-> FALSE]
    /\ inflight = {} /\ call = [r \in Calls |-> Fresh]
    /\ cached = Empty /\ gen = 0
    /\ rights = 0 /\ settled = 0 /\ edit = "none" /\ outages = 0

principals == <<cached, gen, rights, settled, edit>>
server == <<up, breaker, outages>>

-----------------------------------------------------------------------------
(* A call.                                                                 *)

\* An entry of the current generation and at most five seconds old serves it.
Begin(r) ==
    LET hit == cached.there /\ cached.age = 0 /\ cached.gen = gen IN
    /\ call[r].pc = "idle"
    /\ call' = [call EXCEPT ![r] = [Fresh EXCEPT !.since = settled, !.pc = IF hit THEN "served" ELSE "guard",
                                                 !.got = IF hit THEN cached.ver ELSE 0,
                                                 !.late = (hit /\ cached.late)]]
    /\ UNCHANGED <<server, inflight, principals>>

\* guard asks the breaker ...
Guard(r) ==
    /\ call[r].pc = "guard"
    /\ call' = [call EXCEPT ![r].pc = IF breaker.open THEN "refused" ELSE "register"]
    /\ UNCHANGED <<server, inflight, principals>>

\* ... and then registers the statement. One that comes after trip has
\* cancelled the others is not cancelled any more.
Register(r) ==
    /\ call[r].pc = "register"
    /\ inflight' = inflight \cup {r}
    /\ call' = [call EXCEPT ![r].pc = "run", ![r].slipped = (breaker.open /\ ~breaker.sweep)]
    /\ UNCHANGED <<server, principals>>

Answer(r) ==
    /\ call[r].pc = "run" /\ up
    /\ call' = [call EXCEPT ![r].pc = "put", ![r].got = rights]
    /\ inflight' = inflight \ {r}
    /\ UNCHANGED <<server, principals>>

Cancelled(r) ==
    /\ call[r].pc = "run" /\ r \notin inflight
    /\ call' = [call EXCEPT ![r].pc = "refused"]
    /\ UNCHANGED <<server, inflight, principals>>

\* put takes the generation of now, not that of the lookup.
Remember(r) ==
    /\ call[r].pc = "put"
    /\ call' = [call EXCEPT ![r].pc = "served"]
    /\ cached' = [there |-> TRUE, ver |-> call[r].got, gen |-> gen, age |-> 0,
                  late |-> call[r].got < settled]
    /\ UNCHANGED <<server, inflight, gen, rights, settled, edit>>

\* databaseUnavailable: an entry up to fifteen minutes old, of any generation.
Fallback(r) ==
    LET stale == cached.there /\ cached.age < 2 IN
    /\ call[r].pc = "refused"
    /\ call' = [call EXCEPT ![r].pc = IF stale THEN "served" ELSE "failed",
                            ![r].got = IF stale THEN cached.ver ELSE 0,
                            ![r].late = (stale /\ cached.late)]
    /\ UNCHANGED <<server, inflight, principals>>

Done(r) ==
    /\ call[r].pc \in {"served", "failed"}
    /\ call' = [call EXCEPT ![r] = Fresh]
    /\ UNCHANGED <<server, inflight, principals>>

ServeCall(r) ==
    Guard(r) \/ Register(r) \/ Answer(r) \/ Cancelled(r) \/ Remember(r) \/ Fallback(r)

-----------------------------------------------------------------------------
(* The cache.                                                              *)

\* A request that changes the rights: saved, then invalidate counts the
\* generation, then it empties the cache.
SaveRights ==
    /\ edit = "none" /\ up /\ ~breaker.open /\ rights < MaxEdits
    /\ rights' = rights + 1 /\ edit' = "saved"
    /\ UNCHANGED <<server, inflight, call, cached, gen, settled>>

CountGen ==
    /\ edit = "saved" /\ edit' = "counted" /\ gen' = gen + 1
    /\ UNCHANGED <<server, inflight, call, cached, rights, settled>>

\* Mutant: invalidate leaves the entries to their generation.
ClearNot ==
    /\ edit = "counted" /\ edit' = "none" /\ settled' = rights
    /\ UNCHANGED <<server, inflight, call, cached, gen, rights>>

Clear ==
    /\ edit = "counted" /\ edit' = "none" /\ settled' = rights /\ cached' = Empty
    /\ UNCHANGED <<server, inflight, call, gen, rights>>

GrowOld ==
    /\ cached.there /\ cached.age < 2 /\ cached' = [cached EXCEPT !.age = @ + 1]
    /\ UNCHANGED <<server, inflight, call, gen, rights, settled, edit>>

-----------------------------------------------------------------------------
(* The breaker.                                                            *)

Stall ==
    /\ up /\ outages < MaxOutages /\ up' = FALSE /\ outages' = outages + 1
    /\ UNCHANGED <<breaker, inflight, call, principals>>

Recover ==
    /\ ~up /\ up' = TRUE
    /\ UNCHANGED <<breaker, inflight, call, principals, outages>>

\* A ping of the health watcher: the first that succeeds closes the breaker,
\* the second that fails opens it. An open breaker is not tripped again.
Ping ==
    LET failed == IF breaker.failed < TripAfter THEN breaker.failed + 1 ELSE TripAfter
        trips == failed = TripAfter /\ ~breaker.open IN
    /\ ~breaker.sweep
    /\ breaker' = IF up THEN [breaker EXCEPT !.open = FALSE, !.failed = 0]
                  ELSE [open |-> breaker.open \/ trips, failed |-> failed, sweep |-> trips]
    /\ UNCHANGED <<up, inflight, call, principals, outages>>

\* trip cancels every statement that is registered.
CancelAll ==
    /\ breaker.sweep /\ breaker' = [breaker EXCEPT !.sweep = FALSE]
    /\ inflight' = {}
    /\ UNCHANGED <<up, call, principals, outages>>

HealthWatch == Ping \/ CancelAll

OGNext ==
    \/ \E r \in Calls : Begin(r) \/ ServeCall(r) \/ Done(r)
    \/ SaveRights \/ CountGen \/ Clear \/ GrowOld \/ Stall \/ Recover \/ HealthWatch

\* Nothing makes a stalled server recover.
OGFairness == WF_ogVars(HealthWatch) /\ \A r \in Calls : WF_ogVars(ServeCall(r))

OGSpec == OGInit /\ [][OGNext]_ogVars /\ OGFairness

-----------------------------------------------------------------------------
(* Properties.                                                             *)

\* Once a change of the rights is over, no call that begins is served with the
\* rights before it, neither from the cache nor during an outage, unless a
\* lookup that had read them before has put them into the cache since.
RevokedIsSeen ==
    \A r \in Calls : call[r].pc = "served" /\ ~call[r].late => call[r].got >= call[r].since

\* No call waits for ever for a server that has stalled, unless it registered
\* its statement after the others were cancelled.
NobodyHangs ==
    \A r \in Calls : []<>(call[r].pc = "run" => call[r].slipped)

\* What callers may count on while the database comes and goes.
OutageContract == []OGTypeOK /\ [][UNCHANGED ogVars \/ RevokedIsSeen']_ogVars /\ NobodyHangs

=============================================================================
