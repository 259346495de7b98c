------------------------------ MODULE Playback ------------------------------
(***************************************************************************)
(* Playback sessions of internal/playback: creation with its video slot,   *)
(* the registry, the lease, and the kill of a session, which several       *)
(* requests and the sweep may do at the same time.                         *)
(*                                                                         *)
(* A session is created by one request, in steps, because only the         *)
(* supersede and the admission are under slotMu. The process behind a      *)
(* session is in Pipeline, the position it reports in Progress.            *)
(***************************************************************************)
EXTENDS Integers, FiniteSets

CONSTANTS
    Sessions,     \* sessions, each the result of one create request
    NoSession,    \* a killer with nothing to kill
    Replaces,     \* <<n, o>>: creating n stops o (same viewer and title, or
                  \* named in replace_session_id)
    Plays,        \* the ways each may be played, see Kinds
    Deleters,     \* DELETE requests that may run at the same time
    SlotChoices,  \* capacities an administrator may set
    MaxTouches    \* bound on the requests that keep a session alive

\* How a title is played. "promote" is a native remux whose keyframes do not
\* cover the file: it becomes an encode after the admission.
Kinds == {"direct", "remux", "promote", "encode", "remote"}

ASSUME PlaybackAssumption ==
    /\ NoSession \notin Sessions
    /\ Plays \in [Sessions -> SUBSET Kinds]
    /\ Replaces \subseteq Sessions \X Sessions
    /\ SlotChoices \subseteq Nat /\ SlotChoices # {}
    /\ MaxTouches \in Nat
    /\ IsFiniteSet(Sessions)
    /\ {"sweep", "create"} \cap Deleters = {}

OnDisk == {"remux", "promote", "encode"}  \* delivered as HLS from a directory
Killers == {"sweep", "create"} \cup Deleters

VARIABLES
    slots,    \* Limiter.Slots
    active,   \* Limiter.active
    sess,     \* the sessions, and the requests that create them
    reg,      \* Registry.sessions
    slotMu,   \* the create request that holds slotMu
    todo,     \* sessions it still has to stop
    kill,     \* kill calls under way
    dead,     \* expired sessions the sweep still has to kill
    dirs,     \* session directories below the HLS cache
    touches,
    overlap,  \* history: sessions created while one they replace was being created
    evicted   \* history: sessions whose directory was evicted before they were registered

pbVars == <<slots, active, sess, reg, slotMu, todo, kill, dead, dirs,
            touches, overlap, evicted>>

Building == {"locked", "slot", "admitted", "dir", "ready"}
Phases   == {"none", "refused", "failed", "live"} \cup Building
KillPcs  == {"idle", "found", "mark", "check", "release", "clear"}
\* run: a process was started and not killed; age: 1 is past the lease, 2 past
\* the longer lease of a remote session; kills: calls of kill, at most 2 counted.
SessionRecords == [pc: Phases, kind: Kinds, held: BOOLEAN, run: BOOLEAN,
                   age: 0 .. 2, kills: 0 .. 2]
KillRecords == [pc: KillPcs, s: Sessions \cup {NoSession}]

\* Every variable has its type.
PBTypeOK ==
    /\ slots \in SlotChoices
    /\ active \in Nat
    /\ sess \in [Sessions -> SessionRecords]
    /\ reg \subseteq Sessions /\ dirs \subseteq Sessions
    /\ slotMu \in Sessions \cup {NoSession}
    /\ todo \subseteq Sessions /\ dead \subseteq Sessions
    /\ kill \in [Killers -> KillRecords]
    /\ touches \in 0 .. MaxTouches
    /\ overlap \subseteq Sessions /\ evicted \subseteq Sessions

PBInit ==
    /\ slots \in SlotChoices /\ active = 0
    /\ sess = [s \in Sessions |->
                 [pc |-> "none", kind |-> "direct", held |-> FALSE, run |-> FALSE,
                  age |-> 0, kills |-> 0]]
    /\ reg = {} /\ slotMu = NoSession /\ todo = {}
    /\ kill = [k \in Killers |-> [pc |-> "idle", s |-> NoSession]]
    /\ dead = {} /\ dirs = {} /\ touches = 0
    /\ overlap = {} /\ evicted = {}

-----------------------------------------------------------------------------
(* createLocal and createRemote.                                           *)

Step(n, pc) == sess' = [sess EXCEPT ![n].pc = pc]
Replaced(n) == {o \in Sessions : <<n, o>> \in Replaces}

\* Those of the same viewer and title; the others are named in the request.
SameTitle(n) == {o \in Replaced(n) : <<o, n>> \in Replaces}

\* The request was decided: how the title will be played. It takes slotMu and
\* reads which sessions of this viewer it replaces; one it names is one the
\* viewer has been playing.
LockSlots(n, kind) ==
    /\ sess[n].pc = "none" /\ slotMu = NoSession
    /\ \A o \in Replaced(n) \ SameTitle(n) : sess[o].pc = "live"
    /\ slotMu' = n
    /\ sess' = [sess EXCEPT ![n].pc = "locked", ![n].kind = kind]
    /\ todo' = reg \cap Replaced(n)
    /\ overlap' = IF \E o \in Sessions : sess[o].pc \in Building
                                          /\ (<<n, o>> \in Replaces \/ <<o, n>> \in Replaces)
                  THEN overlap \cup {n} ELSE overlap
    /\ UNCHANGED <<slots, active, reg, kill, dead, dirs, touches, evicted>>

\* The entry of kill(s): a second caller may come before the first is done.
Enter(k, s) ==
    /\ kill' = [kill EXCEPT ![k] = [pc |-> "mark", s |-> s]]
    /\ sess' = [sess EXCEPT ![s].kills = IF @ = 2 THEN 2 ELSE @ + 1]

\* supersedePlayback: remove a session from the registry and kill it.
Supersede(n, o) ==
    /\ slotMu = n /\ sess[n].pc = "locked" /\ kill["create"].pc = "idle"
    /\ o \in todo
    /\ todo' = todo \ {o} /\ reg' = reg \ {o}
    /\ Enter("create", o)
    /\ UNCHANGED <<slots, active, slotMu, dead, dirs, touches, overlap, evicted>>

\* NeedsVideoSlot: an encode is admitted or refused with LOAD_429.
Admit(n) ==
    /\ slotMu = n /\ sess[n].pc = "locked" /\ kill["create"].pc = "idle" /\ todo = {}
    /\ slotMu' = NoSession
    /\ \/ sess[n].kind # "encode" /\ Step(n, "admitted") /\ UNCHANGED active
       \/ /\ sess[n].kind = "encode" /\ active >= slots
          /\ Step(n, "refused") /\ UNCHANGED active
       \/ /\ sess[n].kind = "encode" /\ active < slots
          /\ active' = active + 1
          /\ sess' = [sess EXCEPT ![n].pc = "admitted", ![n].held = TRUE]
    /\ UNCHANGED <<slots, reg, todo, kill, dead, dirs, touches, overlap, evicted>>

Released == IF active > 0 THEN active - 1 ELSE 0

\* An error path of createLocal: the stream token, the directory, the plan or
\* the process. The slot goes back and the directory is removed.
Abort(n) ==
    /\ \/ sess[n].pc = "admitted" /\ sess[n].kind # "remote"
       \/ sess[n].pc \in {"dir", "slot"}
    /\ sess' = [sess EXCEPT ![n].pc = "failed", ![n].held = FALSE]
    /\ active' = IF sess[n].held THEN Released ELSE active
    /\ dirs' = dirs \ {n}
    /\ UNCHANGED <<slots, reg, slotMu, todo, kill, dead, touches, overlap, evicted>>

\* HLS.Ensure makes the session's directory.
MakeDir(n) ==
    /\ sess[n].pc = "admitted" /\ sess[n].kind \in OnDisk
    /\ dirs' = dirs \cup {n}
    /\ Step(n, IF sess[n].kind = "promote" THEN "slot" ELSE "dir")
    /\ UNCHANGED <<slots, active, reg, slotMu, todo, kill, dead, touches, overlap, evicted>>

\* promoteNativeRemux: the slot is taken here, without slotMu; a refusal is
\* an error of the request (Abort).
Promote(n) ==
    /\ sess[n].pc = "slot" /\ active < slots
    /\ active' = active + 1
    /\ sess' = [sess EXCEPT ![n].pc = "dir", ![n].held = TRUE]
    /\ UNCHANGED <<slots, reg, slotMu, todo, kill, dead, dirs, touches, overlap, evicted>>

\* startPipeline: the process writes into the directory.
StartStream(n) ==
    /\ sess[n].pc = "dir"
    /\ sess' = [sess EXCEPT ![n].pc = "ready", ![n].run = TRUE]
    /\ UNCHANGED <<slots, active, reg, slotMu, todo, kill, dead, dirs, touches, overlap, evicted>>

\* Reg.Put: from here on the sweep and other requests know the session.
Put(n) ==
    /\ \/ sess[n].pc = "ready"
       \/ sess[n].pc = "admitted" /\ sess[n].kind \notin OnDisk
    /\ reg' = reg \cup {n}
    /\ sess' = [sess EXCEPT ![n].pc = "live", ![n].age = 0]
    /\ UNCHANGED <<slots, active, slotMu, todo, kill, dead, dirs, touches, overlap, evicted>>

-----------------------------------------------------------------------------
(* Requests for a live session, and time.                                  *)

\* live: a request of the player renews the lease.
Touch(s) ==
    /\ s \in reg /\ touches < MaxTouches
    /\ touches' = touches + 1
    /\ sess' = [sess EXCEPT ![s].age = 0]
    /\ UNCHANGED <<slots, active, reg, slotMu, todo, kill, dead, dirs, overlap, evicted>>

\* Time passes without a request.
Age(s) ==
    /\ s \in reg /\ sess[s].age < IF sess[s].kind = "remote" THEN 2 ELSE 1
    /\ sess' = [sess EXCEPT ![s].age = @ + 1]
    /\ UNCHANGED <<slots, active, reg, slotMu, todo, kill, dead, dirs, touches, overlap, evicted>>

\* handleDelete finds the session and then removes it: somebody else may have
\* removed it in between, and it is killed again.
FindToDelete(d, s) ==
    /\ kill[d].pc = "idle" /\ s \in reg
    /\ kill' = [kill EXCEPT ![d] = [pc |-> "found", s |-> s]]
    /\ UNCHANGED <<slots, active, sess, reg, slotMu, todo, dead, dirs, touches, overlap, evicted>>

Delete(d) ==
    /\ kill[d].pc = "found"
    /\ reg' = reg \ {kill[d].s}
    /\ Enter(d, kill[d].s)
    /\ UNCHANGED <<slots, active, slotMu, todo, dead, dirs, touches, overlap, evicted>>

\* An administrator changes the capacity; admitted sessions keep running.
SetSlots(n) ==
    /\ n # slots /\ slots' = n
    /\ UNCHANGED <<active, sess, reg, slotMu, todo, kill, dead, dirs, touches, overlap, evicted>>

-----------------------------------------------------------------------------
(* kill and the sweep.                                                     *)

\* Mutant: the process is left to its context.
KillMarkOnly(k) ==
    /\ kill[k].pc = "mark"
    /\ kill' = [kill EXCEPT ![k].pc = "check"]
    /\ UNCHANGED <<slots, active, sess, reg, slotMu, todo, dead, dirs, touches, overlap, evicted>>

\* Under the session's lock: mark it and stop its process.
KillMark(k) ==
    /\ kill[k].pc = "mark"
    /\ sess' = [sess EXCEPT ![kill[k].s].run = FALSE]
    /\ kill' = [kill EXCEPT ![k].pc = "check"]
    /\ UNCHANGED <<slots, active, reg, slotMu, todo, dead, dirs, touches, overlap, evicted>>

\* "if s.SlotHeld", without a lock.
KillCheck(k) ==
    /\ kill[k].pc = "check"
    /\ kill' = [kill EXCEPT ![k].pc = IF sess[kill[k].s].held THEN "release" ELSE "clear"]
    /\ UNCHANGED <<slots, active, sess, reg, slotMu, todo, dead, dirs, touches, overlap, evicted>>

KillRelease(k) ==
    /\ kill[k].pc = "release"
    /\ active' = Released
    /\ sess' = [sess EXCEPT ![kill[k].s].held = FALSE]
    /\ kill' = [kill EXCEPT ![k].pc = "clear"]
    /\ UNCHANGED <<slots, reg, slotMu, todo, dead, dirs, touches, overlap, evicted>>

\* HLS.Remove; the call returns.
KillClear(k) ==
    /\ kill[k].pc = "clear"
    /\ dirs' = dirs \ {kill[k].s}
    /\ kill' = [kill EXCEPT ![k] = [pc |-> "idle", s |-> NoSession]]
    /\ UNCHANGED <<slots, active, sess, reg, slotMu, todo, dead, touches, overlap, evicted>>

KillStep(k) == KillMark(k) \/ KillCheck(k) \/ KillRelease(k) \/ KillClear(k)

Stale(s) == sess[s].age = IF sess[s].kind = "remote" THEN 2 ELSE 1

\* Registry.Expire removes every stale session at once.
Expire ==
    /\ kill["sweep"].pc = "idle" /\ dead = {}
    /\ \E s \in reg : Stale(s)
    /\ dead' = {s \in reg : Stale(s)}
    /\ reg' = reg \ dead'
    /\ UNCHANGED <<slots, active, sess, slotMu, todo, kill, dirs, touches, overlap, evicted>>

KillExpired(s) ==
    /\ kill["sweep"].pc = "idle" /\ s \in dead
    /\ dead' = dead \ {s}
    /\ Enter("sweep", s)
    /\ UNCHANGED <<slots, active, reg, slotMu, todo, dirs, touches, overlap, evicted>>

\* HLS.Evict removes the oldest other directories while the cache is too
\* large. Its list of registered ids is a moment old: a session that registered
\* since is the same as one that registers right after.
Evict(s) ==
    /\ kill["sweep"].pc = "idle" /\ dead = {}
    /\ s \in dirs \ reg
    /\ dirs' = dirs \ {s}
    /\ evicted' = evicted \cup {s}
    /\ UNCHANGED <<slots, active, sess, reg, slotMu, todo, kill, dead, touches, overlap>>

CreateStep(n) ==
    \/ \E o \in Sessions : Supersede(n, o)
    \/ Admit(n) \/ MakeDir(n) \/ Promote(n) \/ StartStream(n) \/ Put(n)

Proceed(n) == CreateStep(n) \/ Abort(n)

Sweep == Expire \/ \E s \in Sessions : KillExpired(s)

PBNext ==
    \/ \E n \in Sessions :
          \/ \E kind \in Plays[n] : LockSlots(n, kind)
          \/ Proceed(n)
          \/ Touch(n) \/ Age(n) \/ Evict(n)
    \/ \E d \in Deleters : Delete(d) \/ \E s \in Sessions : FindToDelete(d, s)
    \/ \E k \in Killers : KillStep(k)
    \/ \E n \in SlotChoices : SetSlots(n)
    \/ Sweep

Onward ==
    \/ \E n \in Sessions : Proceed(n) \/ Age(n)
    \/ \E k \in Killers : KillStep(k)
    \/ Sweep

PBSpec == PBInit /\ [][PBNext]_pbVars

\* A create request goes on or fails, a kill runs to its end, the sweep ticks
\* every five seconds and time passes for a session nobody asks for. None of
\* these can be repeated for ever, so it is enough that some of them is taken.
PBFairness == WF_pbVars(Onward)

PBFairSpec == PBSpec /\ PBFairness

-----------------------------------------------------------------------------
(* Properties.                                                             *)

Twice == {s \in Sessions : sess[s].kills = 2}
Encodes == {s \in Sessions : sess[s].run /\ sess[s].kind \in {"promote", "encode"}}

\* Every running encode is counted by the limiter, whatever order creation,
\* failure, DELETE, supersede and sweep come in, as long as no session is
\* killed by two callers: kill reads SlotHeld without a lock, and two callers
\* can release one slot twice.
EncodesAreCounted == Twice = {} => Cardinality(Encodes) <= active

\* When no session is registered, being created or being killed, every slot
\* is free: none of the error paths and none of the kill orders leaks one.
NoSlotLeaks ==
    (/\ reg = {} /\ dead = {} /\ \A k \in Killers : kill[k].pc \in {"idle", "found"}
     /\ \A s \in Sessions : sess[s].pc \notin Building) => active = 0

\* Two registered sessions of one viewer for one title come only from
\* requests that overlapped: supersedePlayback sees registered sessions, and
\* a session registers after slotMu was given up.
OneStreamEach ==
    \A n, o \in reg : <<n, o>> \in Replaces /\ n # o => n \in overlap \/ o \in overlap

\* A registered HLS session has its directory, except one whose directory the
\* cache evicted when the session was not in the list of registered ids yet.
LiveHasDirectory ==
    \A s \in reg : sess[s].kind \in OnDisk => s \in dirs \/ s \in evicted

\* A slot is given back: when the player goes away without a word, or the
\* request that took it fails, some other part of the program releases it.
SlotsComeBack == \A s \in Sessions : sess[s].held ~> ~sess[s].held

\* The slots and the sessions of playback agree, whatever order create, DELETE,
\* supersede, promotion, expiry and eviction come in.
PlaybackSafe ==
    PBTypeOK /\ EncodesAreCounted /\ NoSlotLeaks /\ OneStreamEach /\ LiveHasDirectory

=============================================================================
