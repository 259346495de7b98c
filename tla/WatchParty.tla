----------------------------- MODULE WatchParty -----------------------------
(***************************************************************************)
(* One watch party room of internal/watchtogether: its membership, host,   *)
(* owner and bans in the hub's memory, its rows in the database, and the   *)
(* requests that change both.                                              *)
(*                                                                         *)
(* The hub holds one mutex, but a request does not keep it: it checks the  *)
(* room, unlocks to authorize the caller, locks to change the room, locks  *)
(* again to copy it (persistRoom) and writes the copy with no lock held.   *)
(* Each of those pieces is an action here, so requests, the one-second     *)
(* tick and a crash interleave exactly where the code lets them.           *)
(*                                                                         *)
(* A request keeps a pointer to the room, so the room object outlives its  *)
(* entry in h.rooms: "gone" means out of h.rooms, not freed.               *)
(***************************************************************************)
EXTENDS Integers, FiniteSets

CONSTANTS
    Principals,   \* users and share guests who may enter the room
    Guests,       \* share guests: no account, admitted by a share link
    PartyOnly,    \* accounts for which the invite code is the capability
    NoOne,        \* the empty HostID
    Handlers,     \* goroutines serving requests
    Ticker,       \* the goroutine of Hub.loop
    HostGrace,    \* age beyond which the host is replaced
    MemberLease,  \* age beyond which a member is dropped
    QuorumMin,    \* eligible members a majority realignment needs
    MaxSeq,       \* bound on the room's sequence number
    MaxCrashes,   \* bound on process restarts
    DbFails       \* TRUE when database writes may fail

ASSUME PartyAssumption ==
    /\ Guests \subseteq Principals /\ PartyOnly \subseteq Principals \ Guests
    /\ NoOne \notin Principals
    /\ Ticker \notin Handlers
    /\ HostGrace \in Nat /\ MemberLease \in Nat /\ HostGrace <= MemberLease
    /\ QuorumMin \in Nat /\ MaxSeq \in Nat /\ MaxCrashes \in Nat
    /\ DbFails \in BOOLEAN

VARIABLES
    phase,      \* "none", "live" (in h.rooms) or "gone"
    members,    \* keys of room.Members
    age,        \* time since each member's LastSeen, saturating
    host,       \* room.HostID
    owner,      \* room.OwnerID
    banned,     \* room.Banned
    shared,     \* room.SharedControl
    seq,        \* room.Seq
    emptyMark,  \* room.EmptySince is set
    row,        \* the watch_rooms row, or NoRow
    rowMembers, \* the watch_room_members rows
    req,        \* what each goroutine is doing
    crashes,
    \* History variables: they record what happened and guard nothing.
    raced,      \* banned while a join of theirs was past its ban check
    hostless,   \* restored from a row whose members were already deleted
    ended       \* an administrator's EndRoom has come to its end

roomVars == <<phase, members, age, host, owner, banned, shared, seq, emptyMark>>
dbVars   == <<row, rowMembers>>
history  == <<raced, hostless, ended>>
vars     == <<roomVars, dbVars, req, crashes, history>>

Goroutines == Handlers \cup {Ticker}
MaxAge     == MemberLease + 1
Ages       == 0 .. MaxAge
Hosts      == Principals \cup {NoOne}
Accounts   == Principals \ (Guests \cup PartyOnly)

\* roomSnapshot: the durable fields, copied under the lock.
Snapshots == [host: Hosts, owner: Hosts, banned: SUBSET Principals,
              shared: BOOLEAN, seq: 0 .. MaxSeq, members: SUBSET Principals]
NoSnap == [host |-> NoOne, owner |-> NoOne, banned |-> {},
           shared |-> FALSE, seq |-> 0, members |-> {}]

\* The watch_rooms row; its members live in a table of their own.
Rows == [present: BOOLEAN, host: Hosts, owner: Hosts,
         banned: SUBSET Principals, shared: BOOLEAN, seq: 0 .. MaxSeq]
NoRow == [present |-> FALSE, host |-> NoOne, owner |-> NoOne,
          banned |-> {}, shared |-> FALSE, seq |-> 0]

Ops == {"none", "Join", "ReclaimOwner", "HandOver", "Queue", "Vote",
        "Intermission", "Control"}
CinemaOps == {"Queue", "Vote", "Intermission"}
Pcs == {"idle", "checked", "persist", "save", "deleteMembers", "deleteRoom"}
Requests == [pc: Pcs, op: Ops, who: Hosts, snap: Snapshots]
Idle == [pc |-> "idle", op |-> "none", who |-> NoOne, snap |-> NoSnap]

\* A request past its check was made by a user or a guest.
ReqOK ==
    /\ req \in [Goroutines -> Requests]
    /\ \A g \in Goroutines : req[g].pc = "checked" => req[g].who \in Principals

\* Every variable has its type. The room may be published, or kept alive by
\* a request after it left h.rooms.
TypeOK ==
    /\ phase \in {"none", "live", "gone"}
    /\ members \in SUBSET Principals
    /\ age \in [Principals -> Ages]
    /\ host \in Hosts /\ owner \in Hosts
    /\ banned \in SUBSET Principals
    /\ shared \in BOOLEAN /\ emptyMark \in BOOLEAN
    /\ seq \in 0 .. MaxSeq
    /\ row \in Rows /\ rowMembers \in SUBSET Principals
    /\ ReqOK
    /\ crashes \in 0 .. MaxCrashes
    /\ raced \in SUBSET Principals
    /\ hostless \in BOOLEAN /\ ended \in BOOLEAN

Init ==
    /\ phase = "none"
    /\ members = {} /\ age = [p \in Principals |-> 0]
    /\ host = NoOne /\ owner = NoOne
    /\ banned = {} /\ shared = FALSE /\ seq = 0 /\ emptyMark = FALSE
    /\ row = NoRow /\ rowMembers = {}
    /\ req = [g \in Goroutines |-> Idle]
    /\ crashes = 0
    /\ raced = {} /\ hostless = FALSE /\ ended = FALSE

-----------------------------------------------------------------------------
(* Pieces of the hub the actions share.                                    *)

Go(g, pc, op, who, snap) ==
    req' = [req EXCEPT ![g] = [pc |-> pc, op |-> op, who |-> who, snap |-> snap]]

Finish(g) == req' = [req EXCEPT ![g] = Idle]

\* promoteLocked: the member seen last, or nobody.
Freshest(S) == {m \in S : \A n \in S : age[m] <= age[n]}
PromoteTo(S) == IF S = {} THEN {NoOne} ELSE Freshest(S)

\* Mutant: dropLocked without its promotion.
HostsAfterDropNoPromote(D) == {host}

\* dropLocked of every member of D: only a dropped host is replaced.
HostsAfterDrop(D) == IF host \in D THEN PromoteTo(members \ D) ELSE {host}

\* Mutant: addMember that forgets the owner.
AddMemberNoOwner(p) ==
    /\ members' = members \cup {p}
    /\ age' = [age EXCEPT ![p] = 0]
    /\ host' = IF host = NoOne THEN p ELSE host
    /\ emptyMark' = FALSE
    /\ UNCHANGED <<phase, owner, banned, shared, seq>>

\* addMember: enter the room; the owner takes the host role back.
AddMember(p) ==
    /\ members' = members \cup {p}
    /\ age' = [age EXCEPT ![p] = 0]
    /\ host' = IF host = NoOne \/ p = owner THEN p ELSE host
    /\ emptyMark' = FALSE
    /\ UNCHANGED <<phase, owner, banned, shared, seq>>

\* snapshotLocked of the room as the step leaves it.
SnapshotNext == [host |-> host', owner |-> owner', banned |-> banned',
                 shared |-> shared', seq |-> seq', members |-> members']

CanControl(p) == p = host \/ shared

\* room.Seq++, up to the bound.
BumpSeq == seq < MaxSeq /\ seq' = seq + 1

-----------------------------------------------------------------------------
(* Requests that check, unlock to authorize, and then change the room.     *)

\* Hub.Create: the room is published with its creator as host and owner.
Create(g, p) ==
    /\ phase = "none" /\ req[g].pc = "idle" /\ p \notin PartyOnly
    /\ phase' = "live"
    /\ members' = {p} /\ age' = [age EXCEPT ![p] = 0]
    /\ host' = p /\ owner' = p
    /\ banned' = {} /\ shared' = FALSE /\ seq' = 0 /\ emptyMark' = FALSE
    /\ Go(g, "persist", "none", p, NoSnap)
    /\ UNCHANGED <<dbVars, crashes, history>>

\* Mutant: the ban is not looked at before the caller is authorized.
CheckNoBan(g, p, op) ==
    /\ phase = "live" /\ req[g].pc = "idle"
    /\ CASE op = "Join"         -> TRUE
         [] op = "ReclaimOwner" -> p = owner /\ p \in Accounts
         [] op = "HandOver"     -> p \in Accounts
         [] op \in {"Queue", "Intermission"} -> p = host
         [] op = "Vote"         -> p \in members
         [] op = "Control"      -> p \in members /\ CanControl(p)
    /\ Go(g, "checked", op, p, NoSnap)
    /\ UNCHANGED <<roomVars, dbVars, crashes, history>>

\* The first critical section of Join, ReclaimOwner, HandOver, the cinema
\* handlers (queue, vote, intermission) and Control.
Check(g, p, op) ==
    /\ phase = "live" /\ req[g].pc = "idle"
    /\ CASE op = "Join"         -> p \notin banned
         [] op = "ReclaimOwner" -> p = owner /\ p \notin banned /\ p \in Accounts
         [] op = "HandOver"     -> p \notin banned /\ p \in Accounts
         [] op \in {"Queue", "Intermission"} -> p = host
         [] op = "Vote"         -> p \in members
         [] op = "Control"      -> p \in members /\ CanControl(p)
    /\ Go(g, "checked", op, p, NoSnap)
    /\ UNCHANGED <<roomVars, dbVars, crashes, history>>

\* authorize refused the caller, or the request body was invalid.
Deny(g) ==
    /\ req[g].pc = "checked" /\ req[g].op # "Control"
    /\ ~(req[g].op = "Join" /\ req[g].who \in PartyOnly)
    /\ Finish(g)
    /\ UNCHANGED <<roomVars, dbVars, crashes, history>>

\* The second critical section of Join: the room pointer is used as it is.
ApplyJoin(g) ==
    /\ req[g].pc = "checked" /\ req[g].op = "Join"
    /\ AddMember(req[g].who)
    /\ Go(g, "persist", "none", req[g].who, NoSnap)
    /\ UNCHANGED <<dbVars, crashes, history>>

\* ReclaimOwner looks the room up again before it adds the owner.
ApplyReclaim(g) ==
    /\ req[g].pc = "checked" /\ req[g].op = "ReclaimOwner"
    /\ \/ /\ phase = "live"
          /\ AddMember(req[g].who)
          /\ Go(g, "persist", "none", req[g].who, NoSnap)
       \/ /\ phase # "live"
          /\ Finish(g)
          /\ UNCHANGED roomVars
    /\ UNCHANGED <<dbVars, crashes, history>>

\* HandOver: a new owner, and host at once when already in the room.
ApplyHandOver(g) ==
    /\ req[g].pc = "checked" /\ req[g].op = "HandOver"
    /\ \/ /\ phase = "live"
          /\ owner' = req[g].who
          /\ host' = IF req[g].who \in members THEN req[g].who ELSE host
          /\ Go(g, "persist", "none", req[g].who, NoSnap)
       \/ /\ phase # "live"
          /\ Finish(g)
          /\ UNCHANGED <<owner, host>>
    /\ UNCHANGED <<phase, members, age, banned, shared, seq, emptyMark,
                   dbVars, crashes, history>>

\* handleQueue, handleVote, handleIntermission: a durable change of the room
\* that this model sees only as a new sequence number.
ApplyCinema(g) ==
    /\ req[g].pc = "checked" /\ req[g].op \in CinemaOps
    /\ BumpSeq
    /\ Go(g, "persist", "none", req[g].who, NoSnap)
    /\ UNCHANGED <<phase, members, age, host, owner, banned, shared, emptyMark,
                   dbVars, crashes, history>>

\* persistRoom: a third critical section copies the room.
TakeSnapshot(g) ==
    /\ req[g].pc = "persist"
    /\ UNCHANGED <<roomVars, dbVars, crashes, history>>
    /\ Go(g, "save", "none", req[g].who, SnapshotNext)

-----------------------------------------------------------------------------
(* Hub.handle: one client message, applied in one critical section.        *)

\* hello, ping, ready, position, chat, and control by someone without it.
Touch(p) ==
    /\ phase = "live" /\ p \in members /\ age[p] # 0
    /\ age' = [age EXCEPT ![p] = 0]
    /\ UNCHANGED <<phase, members, host, owner, banned, shared, seq, emptyMark,
                   dbVars, req, crashes, history>>

\* start, play, pause and seek by someone who holds control.
HandleControl(g, p) ==
    /\ p \in members /\ phase = "live" /\ CanControl(p)
    /\ BumpSeq
    /\ age' = [age EXCEPT ![p] = 0]
    /\ UNCHANGED <<phase, members, host, owner, banned, shared, emptyMark>>
    /\ Go(g, "save", "none", p, SnapshotNext)
    /\ UNCHANGED <<dbVars, crashes, history>>

Message(g, p) == req[g].pc = "idle" /\ HandleControl(g, p)

\* settings: the host alone sets shared control, or only who sees the panel.
Settings(g, p) ==
    /\ req[g].pc = "idle" /\ phase = "live" /\ p \in members /\ p = host
    /\ BumpSeq
    /\ shared' \in BOOLEAN
    /\ age' = [age EXCEPT ![p] = 0]
    /\ UNCHANGED <<phase, members, host, owner, banned, emptyMark>>
    /\ Go(g, "save", "none", p, SnapshotNext)
    /\ UNCHANGED <<dbVars, crashes, history>>

\* Control, second half: the message is handled as if the client had sent
\* it. When the caller lost control in between, handle only answers it.
ApplyControl(g) ==
    /\ req[g].pc = "checked" /\ req[g].op = "Control"
    /\ LET p == req[g].who IN
       \/ HandleControl(g, p)
       \/ /\ phase = "live" /\ p \in members /\ ~CanControl(p)
          /\ age' = [age EXCEPT ![p] = 0]
          /\ Finish(g)
          /\ UNCHANGED <<phase, members, host, owner, banned, shared, seq,
                         emptyMark, dbVars, crashes, history>>
       \/ /\ phase # "live" \/ p \notin members
          /\ Finish(g)
          /\ UNCHANGED <<roomVars, dbVars, crashes, history>>

-----------------------------------------------------------------------------
(* Administration.                                                         *)

\* Joins of p that are past the ban check.
Entering(p) == {g \in Handlers : /\ req[g].pc = "checked" /\ req[g].who = p
                                 /\ req[g].op \in {"Join", "ReclaimOwner"}}

\* Hub.Kick, with or without a ban.
Kick(g, p, ban) ==
    /\ req[g].pc = "idle" /\ phase = "live"
    /\ p \in members \/ ban
    /\ banned' = IF ban THEN banned \cup {p} ELSE banned
    /\ members' = members \ {p}
    /\ host' \in HostsAfterDrop(members \cap {p})
    /\ IF p \in members THEN BumpSeq ELSE seq' = seq
    /\ age' = [age EXCEPT ![p] = 0]
    /\ UNCHANGED <<phase, owner, shared, emptyMark>>
    /\ Go(g, "save", "none", p, SnapshotNext)
    /\ raced' = IF ban /\ Entering(p) # {} THEN raced \cup {p} ELSE raced
    /\ UNCHANGED <<dbVars, crashes, hostless, ended>>

\* KickGuest: the share behind a guest was revoked. Nothing is persisted.
KickGuest(p) ==
    /\ phase = "live" /\ p \in members \cap Guests
    /\ members' = members \ {p}
    /\ host' \in HostsAfterDrop({p})
    /\ age' = [age EXCEPT ![p] = 0]
    /\ UNCHANGED <<phase, owner, banned, shared, seq, emptyMark,
                   dbVars, req, crashes, history>>

\* EndRoom: out of h.rooms first, out of the database afterwards.
EndRoom(g) ==
    /\ req[g].pc = "idle" /\ phase = "live"
    /\ phase' = "gone"
    /\ Go(g, "deleteMembers", "none", NoOne, NoSnap)
    /\ UNCHANGED <<members, age, host, owner, banned, shared, seq, emptyMark,
                   dbVars, crashes, history>>

-----------------------------------------------------------------------------
(* The tick and the passing of time.                                       *)

Elapse ==
    /\ phase = "live"
    /\ age' = [p \in Principals |->
                 IF p \in members /\ age[p] < MaxAge THEN age[p] + 1 ELSE age[p]]
    /\ age' # age
    /\ UNCHANGED <<phase, members, host, owner, banned, shared, seq, emptyMark,
                   dbVars, req, crashes, history>>

Kept == {m \in members : age[m] <= MemberLease}

\* Mutant: a tick that keeps a silent host for as long as it is a member.
HostsAfterTickKeep ==
    UNION { IF h # NoOne /\ h \notin Kept THEN PromoteTo(Kept) ELSE {h} :
            h \in HostsAfterDrop(members \ Kept) }

\* The tick's drops, then its check of the host that is left.
HostsAfterTick ==
    UNION { IF h # NoOne /\ (h \notin Kept \/ age[h] > HostGrace)
            THEN PromoteTo(Kept) ELSE {h} : h \in HostsAfterDrop(members \ Kept) }

\* Lapsed members leave and a missing or silent host is replaced.
TickMembers ==
    /\ req[Ticker].pc = "idle" /\ phase = "live"
    /\ members' = Kept
    /\ age' = [p \in Principals |-> IF p \in Kept THEN age[p] ELSE 0]
    /\ host' \in HostsAfterTick
    /\ hostless' = FALSE
    /\ UNCHANGED <<phase, owner, banned, shared, dbVars, crashes, raced, ended>>

\* An empty room is marked, and removed once it has been empty long enough.
TickEmpty ==
    /\ TickMembers /\ Kept = {}
    /\ emptyMark' = TRUE
    /\ UNCHANGED <<seq, req>>

\* A room with members, whose timeline stays as it is.
TickPresent ==
    /\ TickMembers /\ Kept # {}
    /\ emptyMark' = FALSE
    /\ UNCHANGED <<seq, req>>

\* realignLocked moved the timeline to the majority of the members who sent
\* a fresh report: a report is fresh for less time than the host's grace.
TickRealign ==
    /\ TickMembers
    /\ Cardinality({m \in Kept : age[m] <= HostGrace}) >= QuorumMin
    /\ emptyMark' = FALSE
    /\ BumpSeq
    /\ Go(Ticker, "save", "none", NoOne, SnapshotNext)

TickRemove ==
    /\ req[Ticker].pc = "idle" /\ phase = "live" /\ Kept = {} /\ emptyMark
    /\ phase' = "gone"
    /\ members' = {} /\ age' = [p \in Principals |-> 0]
    /\ host' = NoOne /\ hostless' = FALSE
    /\ Go(Ticker, "deleteMembers", "none", NoOne, NoSnap)
    /\ UNCHANGED <<owner, banned, shared, seq, emptyMark, dbVars, crashes, raced, ended>>

Tick == TickEmpty \/ TickPresent \/ TickRealign \/ TickRemove

-----------------------------------------------------------------------------
(* The database.                                                           *)

RowOf(s) == [present |-> TRUE, host |-> s.host, owner |-> s.owner,
             banned |-> s.banned, shared |-> s.shared, seq |-> s.seq]

\* saveTx: the row and its members are replaced in one transaction.
Save(g) ==
    /\ req[g].pc = "save"
    /\ row' = RowOf(req[g].snap)
    /\ rowMembers' = req[g].snap.members
    /\ Finish(g)
    /\ UNCHANGED <<roomVars, crashes, history>>

\* deleteRoom: two statements, no transaction.
DeleteMembers(g) ==
    /\ req[g].pc = "deleteMembers"
    /\ rowMembers' = {}
    /\ Go(g, "deleteRoom", "none", NoOne, NoSnap)
    /\ UNCHANGED <<roomVars, row, crashes, history>>

\* The foreign key takes member rows with it.
DeleteRow(g) ==
    /\ req[g].pc = "deleteRoom"
    /\ row' = NoRow /\ rowMembers' = {}
    /\ Finish(g)
    /\ ended' = (ended \/ g # Ticker)
    /\ UNCHANGED <<roomVars, crashes, raced, hostless>>

\* Errors and timeouts of the three are logged and forgotten.
DbError(g) ==
    /\ DbFails
    /\ req[g].pc \in {"save", "deleteMembers", "deleteRoom"}
    /\ Finish(g)
    /\ UNCHANGED <<roomVars, dbVars, crashes, history>>

\* What the two queries of restore find: the row and its members, or, when a
\* query fails, no room at all or a room without members.
Restored == {row} \cup {r \in {NoRow} : DbFails}
RestoredMembers == {rowMembers} \cup {S \in {{}} : DbFails}

\* The process stops at any point and starts again: restore.
Restart ==
    /\ crashes < MaxCrashes /\ phase # "none"
    /\ crashes' = crashes + 1
    /\ req' = [g \in Goroutines |-> Idle]
    /\ \E r \in Restored, found \in RestoredMembers :
         /\ phase' = IF r.present THEN "live" ELSE "gone"
         /\ members' = IF r.present THEN found ELSE {}
         /\ host' = r.host
         /\ owner' = IF r.owner = NoOne THEN r.host ELSE r.owner
         /\ banned' = r.banned /\ shared' = r.shared /\ seq' = r.seq
         /\ hostless' = (r.host \notin found \cup {NoOne})
    /\ age' \in {a \in [Principals -> Ages] : \A p \in Principals \ members' : a[p] = 0}
    /\ emptyMark' = FALSE
    /\ UNCHANGED <<dbVars, raced, ended>>

-----------------------------------------------------------------------------
Next ==
    \/ \E g \in Handlers, p \in Principals :
        \/ Create(g, p)
        \/ \E op \in Ops \ {"none"} : Check(g, p, op)
        \/ Message(g, p)
        \/ Settings(g, p)
        \/ \E ban \in BOOLEAN : Kick(g, p, ban)
    \/ \E g \in Handlers :
        \/ Deny(g) \/ ApplyJoin(g) \/ ApplyReclaim(g) \/ ApplyHandOver(g)
        \/ ApplyCinema(g) \/ ApplyControl(g) \/ TakeSnapshot(g) \/ EndRoom(g)
    \/ \E g \in Goroutines :
        Save(g) \/ DeleteMembers(g) \/ DeleteRow(g) \/ DbError(g)
    \/ \E p \in Principals : Touch(p) \/ KickGuest(p)
    \/ Elapse \/ Tick \/ Restart

Spec == Init /\ [][Next]_vars

\* Hub.loop ticks every second for as long as the process runs, and the
\* database calls of a tick end: they carry a three second timeout.
FairSpec == Spec /\ WF_vars(Tick)
                 /\ WF_vars(\/ Save(Ticker) \/ DeleteMembers(Ticker)
                            \/ DeleteRow(Ticker) \/ DbError(Ticker))

-----------------------------------------------------------------------------
(* Properties.                                                             *)

\* promoteLocked, dropLocked and addMember together: a room with members has
\* one of them as host, unless the room was restored from a row that a half
\* finished deleteRoom had left without members.
HostOK ==
    /\ host = NoOne => members = {}
    /\ ~hostless => host \in members \cup {NoOne}

\* The only banned members are those whose join had passed its ban check
\* (Join, ReclaimOwner) when Kick banned them.
OnlyRacedBansEnter == banned \cap members \subseteq raced

\* addMember and HandOver: whoever becomes the owner inside the room, or
\* enters it as the owner, is its host when the step is done.
OwnerHosts ==
    [][ (/\ crashes' = crashes
         /\ owner' \in members'
         /\ owner' # owner \/ owner' \notin members) => host' = owner' ]_vars

\* tick: a host that stays silent does not keep the room from a member who
\* is there, and a restored room does not stay without a host.
HostResponsive ==
    []<>( phase = "live" =>
            \/ host \in members /\ age[host] <= HostGrace
            \/ \A m \in members : age[m] > HostGrace )

\* Claim of docs/api.md: DELETE "ends the room for everyone".
EndedStaysEnded == ended => phase # "live"

=============================================================================
