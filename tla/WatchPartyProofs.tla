-------------------------- MODULE WatchPartyProofs --------------------------
(***************************************************************************)
(* Proofs about WatchParty, for every set of principals, guests and        *)
(* handlers and every bound: the type invariant, who hosts a room, who is  *)
(* in a room in spite of a ban, and when the owner gets the host role.     *)
(***************************************************************************)
EXTENDS WatchParty, TLAPS

-----------------------------------------------------------------------------
(* Facts about the pieces of the hub that the actions share.               *)

\* The empty request, snapshot and row have their types.
LEMMA DefaultTypes ==
    NoSnap \in Snapshots /\ NoRow \in Rows /\ Idle \in Requests
  <1>1. 0 \in 0 .. MaxSeq
    BY PartyAssumption
  <1>2. NoSnap \in Snapshots
    BY <1>1 DEF NoSnap, Snapshots, Hosts
  <1>3. NoRow \in Rows
    BY <1>1 DEF NoRow, Rows, Hosts
  <1> QED
    BY <1>2, <1>3 DEF Idle, Requests, Pcs, Ops, Hosts

\* A goroutine that moves on keeps the type of req.
LEMMA GoType ==
    ASSUME TypeOK,
           NEW g \in Goroutines, NEW pc \in Pcs, NEW op \in Ops,
           NEW who \in Hosts, NEW snap \in Snapshots,
           pc = "checked" => who \in Principals,
           Go(g, pc, op, who, snap)
    PROVE  ReqOK'
  BY DEF TypeOK, ReqOK, Go, Requests

\* A goroutine that ends its request keeps the type of req.
LEMMA FinishType ==
    ASSUME TypeOK, NEW g \in Goroutines, Finish(g)
    PROVE  ReqOK'
  BY DefaultTypes DEF TypeOK, ReqOK, Finish, Idle

\* What snapshotLocked copies has the type of a snapshot.
LEMMA SnapshotType ==
    ASSUME host' \in Hosts, owner' \in Hosts, banned' \in SUBSET Principals,
           shared' \in BOOLEAN, seq' \in 0 .. MaxSeq,
           members' \in SUBSET Principals
    PROVE  SnapshotNext \in Snapshots
  BY DEF SnapshotNext, Snapshots

\* promoteLocked chooses a member of the room it is given, and nobody only
\* when the room is empty.
LEMMA PromoteInRoom ==
    ASSUME NEW S \in SUBSET Principals, NEW h \in PromoteTo(S)
    PROVE  /\ h \in S \cup {NoOne}
           /\ h = NoOne => S = {}
  BY PartyAssumption DEF PromoteTo, Freshest

\* Dropping members leaves a host that is in the room or was not one of the
\* dropped; nobody hosts only if nobody did or nobody is left.
LEMMA DropHost ==
    ASSUME NEW D \in SUBSET Principals, members \in SUBSET Principals,
           NEW h \in HostsAfterDrop(D)
    PROVE  \/ host \in D /\ h \in (members \ D) \cup {NoOne}
                         /\ (h = NoOne => members \ D = {})
           \/ host \notin D /\ h = host
  <1>1. CASE host \in D
    <2>1. h \in PromoteTo(members \ D)
      BY <1>1 DEF HostsAfterDrop
    <2>2. /\ h \in (members \ D) \cup {NoOne}
          /\ h = NoOne => members \ D = {}
      BY <2>1, PromoteInRoom
    <2> QED
      BY <1>1, <2>2
  <1>2. CASE host \notin D
    BY <1>2 DEF HostsAfterDrop
  <1> QED
    BY <1>1, <1>2

\* After a tick the host is one of the members it kept, or nobody.
LEMMA TickHost ==
    ASSUME members \in SUBSET Principals, host = NoOne => members = {},
           NEW h \in HostsAfterTick
    PROVE  h \in Kept \cup {NoOne} /\ (h = NoOne => Kept = {})
  <1>1. Kept \in SUBSET Principals /\ Kept \subseteq members
    BY DEF Kept
  <1>2. PICK k \in HostsAfterDrop(members \ Kept) :
          h \in IF k # NoOne /\ (k \notin Kept \/ age[k] > HostGrace)
                THEN PromoteTo(Kept) ELSE {k}
    BY DEF HostsAfterTick
  <1>3. CASE k # NoOne /\ (k \notin Kept \/ age[k] > HostGrace)
    <2>1. h \in PromoteTo(Kept)
      BY <1>2, <1>3
    <2> QED
      BY <1>1, <2>1, PromoteInRoom
  <1>4. CASE ~(k # NoOne /\ (k \notin Kept \/ age[k] > HostGrace))
    <2>1. h = k
      BY <1>2, <1>4
    <2>2. k = NoOne \/ k \in Kept
      BY <1>4
    <2>3. k = NoOne => Kept = {}
      <3>1. \/ host \in members \ Kept /\ (k = NoOne => members \ (members \ Kept) = {})
            \/ host \notin members \ Kept /\ k = host
        BY <1>1, DropHost
      <3> QED
        BY <1>1, <3>1
    <2> QED
      BY <1>1, <2>1, <2>2, <2>3, PartyAssumption
  <1> QED
    BY <1>3, <1>4

-----------------------------------------------------------------------------
(* The type invariant.                                                     *)

\* A tick leaves someone who may host, or nobody, as host.
LEMMA TickHostType ==
    ASSUME TypeOK, NEW h \in HostsAfterTick
    PROVE  h \in Hosts
  <1>1. Kept \in SUBSET Principals
    BY DEF Kept, TypeOK
  <1>2. PICK k \in HostsAfterDrop(members \ Kept) :
          h \in IF k # NoOne /\ (k \notin Kept \/ age[k] > HostGrace)
                THEN PromoteTo(Kept) ELSE {k}
    BY DEF HostsAfterTick
  <1>3. k \in Hosts
    BY <1>2, DropHost DEF TypeOK, Hosts
  <1>4. \A x \in PromoteTo(Kept) : x \in Hosts
    BY <1>1, PromoteInRoom DEF Hosts
  <1> QED
    BY <1>2, <1>3, <1>4

\* addMember keeps the types of the room it changes.
LEMMA AddMemberType ==
    ASSUME TypeOK, NEW p \in Principals, AddMember(p)
    PROVE  /\ phase' \in {"none", "live", "gone"}
           /\ members' \in SUBSET Principals
           /\ age' \in [Principals -> Ages]
           /\ host' \in Hosts /\ owner' \in Hosts
           /\ banned' \in SUBSET Principals
           /\ shared' \in BOOLEAN /\ emptyMark' \in BOOLEAN
           /\ seq' \in 0 .. MaxSeq
  <1>1. 0 \in Ages
    BY PartyAssumption DEF Ages, MaxAge
  <1> QED
    BY <1>1 DEF TypeOK, AddMember, Hosts

\* Every step of the hub keeps the types of its state.
LEMMA TypeStep ==
    ASSUME TypeOK, [Next]_vars
    PROVE  TypeOK'
  <1> USE DEF roomVars, dbVars, history
  <1>a. 0 \in Ages
    BY PartyAssumption DEF Ages, MaxAge
  <1>b. Handlers \subseteq Goroutines /\ Ticker \in Goroutines
    BY DEF Goroutines
  <1>c. /\ {"idle", "checked", "persist", "save", "deleteMembers", "deleteRoom"} \subseteq Pcs
        /\ "none" \in Ops /\ NoOne \in Hosts /\ Principals \subseteq Hosts
    BY DEF Pcs, Ops, Hosts
  <1>d. BumpSeq => seq' \in 0 .. MaxSeq
    BY PartyAssumption DEF BumpSeq, TypeOK
  <1>e. \A g \in Goroutines : req[g] \in Requests /\ req[g].who \in Hosts
                              /\ req[g].snap \in Snapshots
    BY DEF TypeOK, ReqOK, Requests
  <1>1. ASSUME NEW g \in Handlers, NEW p \in Principals, Create(g, p)
        PROVE  TypeOK'
    <2>1. ReqOK'
      BY <1>1, <1>b, <1>c, GoType, DefaultTypes DEF Create
    <2>2. seq' \in 0 .. MaxSeq
      BY <1>1, PartyAssumption DEF Create
    <2> QED
      BY <1>1, <1>a, <2>1, <2>2 DEF TypeOK, Create, Hosts
  <1>2. ASSUME NEW g \in Handlers, NEW p \in Principals,
               NEW op \in Ops \ {"none"}, Check(g, p, op)
        PROVE  TypeOK'
    <2>1. ReqOK'
      BY <1>2, <1>b, <1>c, GoType, DefaultTypes DEF Check
    <2> QED
      BY <1>2, <2>1 DEF TypeOK, Check
  <1>3. ASSUME NEW g \in Goroutines, NEW p \in Principals, HandleControl(g, p)
        PROVE  TypeOK'
    <2>1. /\ age' \in [Principals -> Ages] /\ seq' \in 0 .. MaxSeq
          /\ phase' \in {"none", "live", "gone"} /\ members' \in SUBSET Principals
          /\ host' \in Hosts /\ owner' \in Hosts /\ banned' \in SUBSET Principals
          /\ shared' \in BOOLEAN /\ emptyMark' \in BOOLEAN
      BY <1>3, <1>a, <1>d DEF HandleControl, TypeOK
    <2>2. SnapshotNext \in Snapshots
      BY <2>1, SnapshotType
    <2>3. ReqOK'
      BY <1>3, <1>c, <2>2, GoType DEF HandleControl
    <2> QED
      BY <1>3, <2>1, <2>3 DEF TypeOK, HandleControl
  <1>4. ASSUME NEW g \in Handlers, NEW p \in Principals, Settings(g, p)
        PROVE  TypeOK'
    <2>1. /\ age' \in [Principals -> Ages] /\ seq' \in 0 .. MaxSeq
          /\ phase' \in {"none", "live", "gone"} /\ members' \in SUBSET Principals
          /\ host' \in Hosts /\ owner' \in Hosts /\ banned' \in SUBSET Principals
          /\ shared' \in BOOLEAN /\ emptyMark' \in BOOLEAN
      BY <1>4, <1>a, <1>d DEF Settings, TypeOK
    <2>2. SnapshotNext \in Snapshots
      BY <2>1, SnapshotType
    <2>3. ReqOK'
      BY <1>4, <1>b, <1>c, <2>2, GoType DEF Settings
    <2> QED
      BY <1>4, <2>1, <2>3 DEF TypeOK, Settings
  <1>5. ASSUME NEW g \in Handlers, NEW p \in Principals, NEW ban \in BOOLEAN,
               Kick(g, p, ban)
        PROVE  TypeOK'
    <2>1. members \cap {p} \in SUBSET Principals
      OBVIOUS
    <2>2. host' \in Hosts
      BY <1>5, <2>1, DropHost DEF Kick, TypeOK, Hosts
    <2>3. seq' \in 0 .. MaxSeq
      BY <1>5, <1>d DEF Kick, TypeOK
    <2>4. /\ age' \in [Principals -> Ages]
          /\ phase' \in {"none", "live", "gone"} /\ members' \in SUBSET Principals
          /\ owner' \in Hosts /\ banned' \in SUBSET Principals
          /\ shared' \in BOOLEAN /\ emptyMark' \in BOOLEAN
      BY <1>5, <1>a DEF Kick, TypeOK
    <2>5. SnapshotNext \in Snapshots
      BY <2>2, <2>3, <2>4, SnapshotType
    <2>6. ReqOK'
      BY <1>5, <1>b, <1>c, <2>5, GoType DEF Kick
    <2>7. raced' \in SUBSET Principals
      BY <1>5 DEF Kick, TypeOK
    <2> QED
      BY <1>5, <2>2, <2>3, <2>4, <2>6, <2>7 DEF TypeOK, Kick
  <1>6. ASSUME NEW g \in Handlers, Deny(g)
        PROVE  TypeOK'
    <2>1. ReqOK'
      BY <1>6, <1>b, FinishType DEF Deny
    <2> QED
      BY <1>6, <2>1 DEF TypeOK, Deny
  <1>7. ASSUME NEW g \in Handlers, NEW p \in Principals, AddMember(p),
               Go(g, "persist", "none", p, NoSnap),
               UNCHANGED <<dbVars, crashes, history>>
        PROVE  TypeOK'
    <2>1. ReqOK'
      BY <1>7, <1>b, <1>c, GoType, DefaultTypes
    <2> QED
      BY <1>7, <2>1, AddMemberType DEF TypeOK
  <1>8. ASSUME NEW g \in Handlers, ApplyJoin(g)
        PROVE  TypeOK'
    <2>1. req[g].who \in Principals
      BY <1>8, <1>b DEF ApplyJoin, TypeOK, ReqOK
    <2> QED
      BY <1>7, <1>8, <2>1 DEF ApplyJoin
  <1>9. ASSUME NEW g \in Handlers, ApplyReclaim(g)
        PROVE  TypeOK'
    <2>1. req[g].who \in Principals
      BY <1>9, <1>b DEF ApplyReclaim, TypeOK, ReqOK
    <2>2. CASE phase = "live"
      BY <1>7, <1>9, <2>1, <2>2 DEF ApplyReclaim
    <2>3. CASE phase # "live"
      <3>1. Finish(g) /\ UNCHANGED <<roomVars, dbVars, crashes, history>>
        BY <1>9, <2>3 DEF ApplyReclaim
      <3>2. ReqOK'
        BY <1>b, <3>1, FinishType
      <3> QED
        BY <3>1, <3>2 DEF TypeOK
    <2> QED
      BY <2>2, <2>3
  <1>10. ASSUME NEW g \in Handlers, ApplyHandOver(g)
         PROVE  TypeOK'
    <2>1. req[g].who \in Principals
      BY <1>10, <1>b DEF ApplyHandOver, TypeOK, ReqOK
    <2>2. owner' \in Hosts /\ host' \in Hosts
      BY <1>10, <1>c, <2>1 DEF ApplyHandOver, TypeOK
    <2>3. Finish(g) \/ Go(g, "persist", "none", req[g].who, NoSnap)
      BY <1>10 DEF ApplyHandOver
    <2>4. ReqOK'
      BY <1>b, <1>c, <2>1, <2>3, FinishType, GoType, DefaultTypes
    <2> QED
      BY <1>10, <2>2, <2>4 DEF ApplyHandOver, TypeOK
  <1>11. ASSUME NEW g \in Handlers, ApplyCinema(g)
         PROVE  TypeOK'
    <2>1. ReqOK'
      BY <1>11, <1>b, <1>c, <1>e, GoType, DefaultTypes DEF ApplyCinema
    <2> QED
      BY <1>11, <1>d, <2>1 DEF ApplyCinema, TypeOK
  <1>12. ASSUME NEW g \in Handlers, ApplyControl(g)
         PROVE  TypeOK'
    <2>1. req[g].who \in Principals
      BY <1>12, <1>b DEF ApplyControl, TypeOK, ReqOK
    <2>2. CASE HandleControl(g, req[g].who)
      BY <1>3, <1>b, <2>1, <2>2
    <2>3. CASE ~HandleControl(g, req[g].who)
      <3>1. Finish(g)
        BY <1>12, <2>3 DEF ApplyControl
      <3>2. ReqOK'
        BY <1>b, <3>1, FinishType
      <3> QED
        BY <1>12, <1>a, <2>1, <2>3, <3>2 DEF ApplyControl, TypeOK
    <2> QED
      BY <2>2, <2>3
  <1>13. ASSUME NEW g \in Handlers, TakeSnapshot(g)
         PROVE  TypeOK'
    <2>1. SnapshotNext \in Snapshots
      BY <1>13, SnapshotType DEF TypeOK, TakeSnapshot
    <2>2. ReqOK'
      BY <1>13, <1>b, <1>c, <1>e, <2>1, GoType DEF TakeSnapshot
    <2> QED
      BY <1>13, <2>2 DEF TypeOK, TakeSnapshot
  <1>14. ASSUME NEW g \in Handlers, EndRoom(g)
         PROVE  TypeOK'
    <2>1. ReqOK'
      BY <1>14, <1>b, <1>c, GoType, DefaultTypes DEF EndRoom
    <2> QED
      BY <1>14, <2>1 DEF TypeOK, EndRoom
  <1>15. ASSUME NEW g \in Goroutines, Save(g)
         PROVE  TypeOK'
    <2>1. ReqOK'
      BY <1>15, FinishType DEF Save
    <2>2. row' \in Rows /\ rowMembers' \in SUBSET Principals
      BY <1>15, <1>e DEF Save, RowOf, Rows, Snapshots
    <2> QED
      BY <1>15, <2>1, <2>2 DEF TypeOK, Save
  <1>16. ASSUME NEW g \in Goroutines, DeleteMembers(g)
         PROVE  TypeOK'
    <2>1. ReqOK'
      BY <1>16, <1>c, GoType, DefaultTypes DEF DeleteMembers
    <2> QED
      BY <1>16, <2>1 DEF TypeOK, DeleteMembers
  <1>17. ASSUME NEW g \in Goroutines, DeleteRow(g)
         PROVE  TypeOK'
    <2>1. ReqOK'
      BY <1>17, FinishType DEF DeleteRow
    <2> QED
      BY <1>17, <2>1, DefaultTypes DEF TypeOK, DeleteRow
  <1>18. ASSUME NEW g \in Goroutines, DbError(g)
         PROVE  TypeOK'
    <2>1. ReqOK'
      BY <1>18, FinishType DEF DbError
    <2> QED
      BY <1>18, <2>1 DEF TypeOK, DbError
  <1>19. ASSUME NEW p \in Principals, Touch(p)
         PROVE  TypeOK'
    BY <1>19, <1>a DEF TypeOK, ReqOK, Touch
  <1>20. ASSUME NEW p \in Principals, KickGuest(p)
         PROVE  TypeOK'
    <2>1. host' \in Hosts
      BY <1>20, DropHost DEF KickGuest, TypeOK, Hosts
    <2> QED
      BY <1>20, <1>a, <2>1 DEF TypeOK, ReqOK, KickGuest
  <1>21. ASSUME Elapse
         PROVE  TypeOK'
    <2>1. age' \in [Principals -> Ages]
      BY <1>21, PartyAssumption DEF Elapse, TypeOK, Ages, MaxAge
    <2> QED
      BY <1>21, <2>1 DEF TypeOK, ReqOK, Elapse
  <1>22. ASSUME TickMembers, ReqOK', seq' \in 0 .. MaxSeq, emptyMark' \in BOOLEAN
         PROVE  TypeOK'
    <2>1. host' \in Hosts
      BY <1>22, TickHostType DEF TickMembers
    <2>2. members' \in SUBSET Principals /\ age' \in [Principals -> Ages]
      BY <1>22, <1>a DEF TickMembers, TypeOK, Kept
    <2> QED
      BY <1>22, <2>1, <2>2 DEF TypeOK, TickMembers
  <1>23. ASSUME TickEmpty \/ TickPresent
         PROVE  TypeOK'
    <2>1. /\ TickMembers /\ emptyMark' \in BOOLEAN
          /\ ReqOK' /\ seq' \in 0 .. MaxSeq
      BY <1>23 DEF TickEmpty, TickPresent, TypeOK, ReqOK
    <2> QED
      BY <1>22, <2>1
  <1>24. ASSUME TickRealign
         PROVE  TypeOK'
    <2>1. /\ host' \in Hosts /\ owner' \in Hosts /\ banned' \in SUBSET Principals
          /\ members' \in SUBSET Principals /\ shared' \in BOOLEAN
          /\ seq' \in 0 .. MaxSeq
      BY <1>24, <1>d, TickHostType DEF TickRealign, TickMembers, TypeOK, Kept
    <2>2. ReqOK'
      BY <1>24, <1>b, <1>c, <2>1, SnapshotType, GoType DEF TickRealign
    <2> QED
      BY <1>22, <1>24, <2>1, <2>2 DEF TickRealign
  <1>25. ASSUME TickRemove
         PROVE  TypeOK'
    <2>1. ReqOK'
      BY <1>25, <1>b, <1>c, GoType, DefaultTypes DEF TickRemove
    <2> QED
      BY <1>25, <1>a, <1>c, <2>1 DEF TypeOK, TickRemove
  <1>26. ASSUME Restart
         PROVE  TypeOK'
    <2>1. PICK r \in Restored, found \in RestoredMembers :
            /\ phase' = IF r.present THEN "live" ELSE "gone"
            /\ members' = IF r.present THEN found ELSE {}
            /\ host' = r.host
            /\ owner' = IF r.owner = NoOne THEN r.host ELSE r.owner
            /\ banned' = r.banned /\ shared' = r.shared /\ seq' = r.seq
            /\ hostless' = (r.host \notin found \cup {NoOne})
      BY <1>26 DEF Restart
    <2>2. r \in Rows /\ found \in SUBSET Principals
      BY DefaultTypes DEF Restored, RestoredMembers, TypeOK
    <2>3. /\ phase' \in {"none", "live", "gone"} /\ members' \in SUBSET Principals
          /\ host' \in Hosts /\ owner' \in Hosts /\ banned' \in SUBSET Principals
          /\ shared' \in BOOLEAN /\ seq' \in 0 .. MaxSeq /\ hostless' \in BOOLEAN
      BY <2>1, <2>2 DEF Rows
    <2>4. ReqOK'
      BY <1>26, DefaultTypes DEF Restart, ReqOK, Idle
    <2>5. crashes' \in 0 .. MaxCrashes
      BY <1>26, PartyAssumption DEF Restart, TypeOK
    <2> QED
      BY <1>26, <2>3, <2>4, <2>5 DEF Restart, TypeOK
  <1>27. CASE UNCHANGED vars
    BY <1>27 DEF vars, TypeOK, ReqOK
  <1> QED
    BY <1>1, <1>2, <1>3, <1>4, <1>5, <1>6, <1>8, <1>9, <1>10, <1>11, <1>12,
       <1>13, <1>14, <1>15, <1>16, <1>17, <1>18, <1>19, <1>20, <1>21, <1>23,
       <1>24, <1>25, <1>26, <1>27, <1>b DEF Next, Message, Tick

\* The empty hub has the types of its state.
LEMMA TypeInit ==
    Init => TypeOK
  <1>1. 0 \in Ages /\ 0 \in 0 .. MaxSeq /\ 0 \in 0 .. MaxCrashes
    BY PartyAssumption DEF Ages, MaxAge
  <1>2. Idle.pc # "checked"
    BY DEF Idle
  <1>3. Init => ReqOK
    BY <1>2, DefaultTypes DEF Init, ReqOK
  <1> QED
    BY <1>1, <1>3, DefaultTypes DEF Init, TypeOK, Hosts

\* TypeOK is an invariant: whatever requests, ticks, database errors and
\* restarts do, the room, its rows and the requests keep their types, and
\* every request that is past its check was made by a user or a guest.
THEOREM TypeCorrect == Spec => []TypeOK
  <1>1. TypeOK /\ [Next]_vars => TypeOK'
    BY TypeStep
  <1> QED
    BY <1>1, TypeInit, PTL DEF Spec

-----------------------------------------------------------------------------
(* The host.                                                               *)

\* What a restart would make of a stored room must be a hosted room as well,
\* and so must every copy that is on its way to the database.
HostStored ==
    /\ row.host # NoOne => row.present
    /\ row.host = NoOne /\ row.present => rowMembers = {}
    /\ \A g \in Goroutines : req[g].snap.host = NoOne => req[g].snap.members = {}

HostInv == HostOK /\ HostStored

\* A step that changes no copy of the room keeps the copies hosted.
LEMMA StoredKept ==
    ASSUME TypeOK, HostStored, UNCHANGED dbVars,
           \/ UNCHANGED req
           \/ \E g \in Goroutines : Finish(g)
           \/ \E g \in Goroutines, pc \in Pcs, op \in Ops, who \in Hosts :
                Go(g, pc, op, who, NoSnap)
    PROVE  HostStored'
  BY DEF HostStored, dbVars, Finish, Go, Idle, NoSnap, TypeOK, ReqOK

\* A step that leaves a hosted room may take a snapshot of it.
LEMMA StoredSnapshot ==
    ASSUME TypeOK, HostStored, UNCHANGED dbVars, HostOK',
           NEW g \in Goroutines, NEW pc \in Pcs, NEW op \in Ops,
           NEW who \in Hosts, Go(g, pc, op, who, SnapshotNext)
    PROVE  HostStored'
  BY DEF HostStored, HostOK, dbVars, Go, SnapshotNext, TypeOK, ReqOK

\* Every step keeps the room and its copies hosted.
LEMMA HostStep ==
    ASSUME TypeOK, HostInv, [Next]_vars
    PROVE  HostInv'
  <1> USE DEF roomVars, dbVars, history, HostInv
  <1>b. Handlers \subseteq Goroutines /\ Ticker \in Goroutines
    BY DEF Goroutines
  <1>c. /\ {"idle", "checked", "persist", "save", "deleteMembers", "deleteRoom"} \subseteq Pcs
        /\ "none" \in Ops /\ NoOne \in Hosts /\ Principals \subseteq Hosts
    BY DEF Pcs, Ops, Hosts
  <1>e. \A g \in Goroutines : req[g].who \in Hosts
    BY DEF TypeOK, ReqOK, Requests
  <1>1. ASSUME NEW g \in Handlers, NEW p \in Principals, Create(g, p)
        PROVE  HostInv'
    <2>1. HostOK'
      BY <1>1, PartyAssumption DEF Create, HostOK
    <2> QED
      BY <1>1, <1>b, <1>c, <2>1, StoredKept DEF Create
  <1>2. ASSUME NEW g \in Handlers, NEW p \in Principals,
               NEW op \in Ops \ {"none"}, Check(g, p, op)
        PROVE  HostInv'
    <2>1. HostOK'
      BY <1>2 DEF Check, HostOK
    <2> QED
      BY <1>2, <1>b, <1>c, <2>1, StoredKept DEF Check
  <1>3. ASSUME NEW g \in Goroutines, NEW p \in Principals, HandleControl(g, p)
        PROVE  HostInv'
    <2>1. HostOK'
      BY <1>3 DEF HandleControl, HostOK
    <2> QED
      BY <1>3, <1>c, <2>1, StoredSnapshot DEF HandleControl
  <1>4. ASSUME NEW g \in Handlers, NEW p \in Principals, Settings(g, p)
        PROVE  HostInv'
    <2>1. HostOK'
      BY <1>4 DEF Settings, HostOK
    <2> QED
      BY <1>4, <1>b, <1>c, <2>1, StoredSnapshot DEF Settings
  <1>5. ASSUME NEW g \in Handlers, NEW p \in Principals, NEW ban \in BOOLEAN,
               Kick(g, p, ban)
        PROVE  HostInv'
    <2>1. /\ members' = members \ {p} /\ hostless' = hostless
          /\ host' \in HostsAfterDrop(members \cap {p})
      BY <1>5 DEF Kick
    <2>2. \/ /\ host \in members \cap {p}
             /\ host' \in (members \ (members \cap {p})) \cup {NoOne}
             /\ host' = NoOne => members \ (members \cap {p}) = {}
          \/ host \notin members \cap {p} /\ host' = host
      BY <2>1, DropHost DEF TypeOK
    <2>3. HostOK'
      BY <2>1, <2>2 DEF HostOK
    <2> QED
      BY <1>5, <1>b, <1>c, <2>3, StoredSnapshot DEF Kick
  <1>6. ASSUME NEW g \in Handlers, Deny(g)
        PROVE  HostInv'
    <2>1. HostOK'
      BY <1>6 DEF Deny, HostOK
    <2> QED
      BY <1>6, <1>b, <2>1, StoredKept DEF Deny
  <1>7. ASSUME NEW p \in Principals, AddMember(p), UNCHANGED hostless
        PROVE  HostOK'
    BY <1>7, PartyAssumption DEF AddMember, HostOK
  <1>8. ASSUME NEW g \in Handlers, ApplyJoin(g)
        PROVE  HostInv'
    <2>1. req[g].who \in Principals
      BY <1>8, <1>b DEF ApplyJoin, TypeOK, ReqOK
    <2>2. HostOK'
      BY <1>7, <1>8, <2>1 DEF ApplyJoin
    <2> QED
      BY <1>8, <1>b, <1>c, <1>e, <2>2, StoredKept DEF ApplyJoin
  <1>9. ASSUME NEW g \in Handlers, ApplyReclaim(g)
        PROVE  HostInv'
    <2>1. req[g].who \in Principals
      BY <1>9, <1>b DEF ApplyReclaim, TypeOK, ReqOK
    <2>2. HostOK'
      <3>1. CASE AddMember(req[g].who)
        BY <1>7, <1>9, <2>1, <3>1 DEF ApplyReclaim
      <3>2. CASE UNCHANGED roomVars
        BY <1>9, <3>2 DEF ApplyReclaim, HostOK
      <3> QED
        BY <1>9, <3>1, <3>2 DEF ApplyReclaim
    <2> QED
      BY <1>9, <1>b, <1>c, <1>e, <2>2, StoredKept DEF ApplyReclaim
  <1>10. ASSUME NEW g \in Handlers, ApplyHandOver(g)
         PROVE  HostInv'
    <2>1. req[g].who \in Principals
      BY <1>10, <1>b DEF ApplyHandOver, TypeOK, ReqOK
    <2>2. HostOK'
      BY <1>10, <2>1, PartyAssumption DEF ApplyHandOver, HostOK
    <2> QED
      BY <1>10, <1>b, <1>c, <1>e, <2>2, StoredKept DEF ApplyHandOver
  <1>11. ASSUME NEW g \in Handlers, ApplyCinema(g)
         PROVE  HostInv'
    <2>1. HostOK'
      BY <1>11 DEF ApplyCinema, HostOK
    <2> QED
      BY <1>11, <1>b, <1>c, <1>e, <2>1, StoredKept DEF ApplyCinema
  <1>12. ASSUME NEW g \in Handlers, ApplyControl(g)
         PROVE  HostInv'
    <2>1. req[g].who \in Principals
      BY <1>12, <1>b DEF ApplyControl, TypeOK, ReqOK
    <2>2. CASE HandleControl(g, req[g].who)
      BY <1>3, <1>b, <2>1, <2>2
    <2>3. CASE ~HandleControl(g, req[g].who)
      <3>1. Finish(g) /\ UNCHANGED dbVars
        BY <1>12, <2>3 DEF ApplyControl
      <3>2. HostOK'
        BY <1>12, <2>3 DEF ApplyControl, HostOK
      <3> QED
        BY <1>b, <3>1, <3>2, StoredKept
    <2> QED
      BY <2>2, <2>3
  <1>13. ASSUME NEW g \in Handlers, TakeSnapshot(g)
         PROVE  HostInv'
    <2>1. HostOK'
      BY <1>13 DEF TakeSnapshot, HostOK
    <2> QED
      BY <1>13, <1>b, <1>c, <1>e, <2>1, StoredSnapshot DEF TakeSnapshot
  <1>14. ASSUME NEW g \in Handlers, EndRoom(g)
         PROVE  HostInv'
    <2>1. HostOK'
      BY <1>14 DEF EndRoom, HostOK
    <2> QED
      BY <1>14, <1>b, <1>c, <2>1, StoredKept DEF EndRoom
  <1>15. ASSUME NEW g \in Goroutines, Save(g)
         PROVE  HostInv'
    BY <1>15 DEF Save, RowOf, Finish, Idle, NoSnap, HostOK, HostStored, TypeOK, ReqOK
  <1>16. ASSUME NEW g \in Goroutines, DeleteMembers(g)
         PROVE  HostInv'
    BY <1>16 DEF DeleteMembers, Go, NoSnap, HostOK, HostStored, TypeOK, ReqOK
  <1>17. ASSUME NEW g \in Goroutines, DeleteRow(g)
         PROVE  HostInv'
    BY <1>17 DEF DeleteRow, Finish, Idle, NoSnap, NoRow, HostOK, HostStored, TypeOK, ReqOK
  <1>18. ASSUME NEW g \in Goroutines, DbError(g)
         PROVE  HostInv'
    <2>1. HostOK'
      BY <1>18 DEF DbError, HostOK
    <2> QED
      BY <1>18, <2>1, StoredKept DEF DbError
  <1>19. ASSUME NEW p \in Principals, Touch(p)
         PROVE  HostInv'
    <2>1. HostOK'
      BY <1>19 DEF Touch, HostOK
    <2> QED
      BY <1>19, <2>1, StoredKept DEF Touch
  <1>20. ASSUME NEW p \in Principals, KickGuest(p)
         PROVE  HostInv'
    <2>1. \/ host \in {p} /\ host' \in (members \ {p}) \cup {NoOne}
                          /\ (host' = NoOne => members \ {p} = {})
          \/ host \notin {p} /\ host' = host
      BY <1>20, DropHost DEF KickGuest, TypeOK
    <2>2. HostOK'
      BY <1>20, <2>1 DEF KickGuest, HostOK
    <2> QED
      BY <1>20, <2>2, StoredKept DEF KickGuest
  <1>21. ASSUME Elapse
         PROVE  HostInv'
    <2>1. HostOK'
      BY <1>21 DEF Elapse, HostOK
    <2> QED
      BY <1>21, <2>1, StoredKept DEF Elapse
  <1>22. ASSUME TickMembers
         PROVE  HostOK'
    BY <1>22, TickHost DEF TickMembers, TypeOK, HostOK
  <1>23. ASSUME TickEmpty \/ TickPresent
         PROVE  HostInv'
    <2>1. TickMembers /\ UNCHANGED <<req, dbVars>>
      BY <1>23 DEF TickEmpty, TickPresent, TickMembers
    <2> QED
      BY <1>22, <2>1, StoredKept
  <1>24. ASSUME TickRealign
         PROVE  HostInv'
    BY <1>22, <1>24, <1>b, <1>c, StoredSnapshot DEF TickRealign, TickMembers
  <1>25. ASSUME TickRemove
         PROVE  HostInv'
    <2>1. HostOK'
      BY <1>25 DEF TickRemove, HostOK
    <2> QED
      BY <1>25, <1>b, <1>c, <2>1, StoredKept DEF TickRemove
  <1>26. ASSUME Restart
         PROVE  HostInv'
    <2>1. PICK r \in Restored, found \in RestoredMembers :
            /\ members' = IF r.present THEN found ELSE {}
            /\ host' = r.host
            /\ hostless' = (r.host \notin found \cup {NoOne})
      BY <1>26 DEF Restart
    <2>2. /\ r.host # NoOne => r.present
          /\ r.host = NoOne /\ r.present => found = {}
      BY DEF Restored, RestoredMembers, HostStored, NoRow
    <2>3. HostOK'
      BY <2>1, <2>2 DEF HostOK
    <2>4. HostStored'
      BY <1>26 DEF Restart, HostStored, Idle, NoSnap
    <2> QED
      BY <2>3, <2>4
  <1>27. CASE UNCHANGED vars
    BY <1>27, StoredKept DEF vars, HostOK
  <1> QED
    BY <1>1, <1>2, <1>3, <1>4, <1>5, <1>6, <1>8, <1>9, <1>10, <1>11, <1>12,
       <1>13, <1>14, <1>15, <1>16, <1>17, <1>18, <1>19, <1>20, <1>21, <1>23,
       <1>24, <1>25, <1>26, <1>27, <1>b DEF Next, Message, Tick

\* HostOK is an invariant: however requests, ticks and restarts interleave, a
\* room with members has a host, and the host is one of the members unless
\* the room was restored without them.
THEOREM HostCorrect == Spec => []HostOK
  <1>1. Init => HostInv
    BY DEF Init, HostInv, HostOK, HostStored, NoRow, Idle, NoSnap
  <1>2. TypeOK /\ HostInv /\ [Next]_vars => HostInv'
    BY HostStep
  <1>3. HostInv => HostOK
    BY DEF HostInv
  <1> QED
    BY <1>1, <1>2, <1>3, TypeCorrect, PTL DEF Spec

-----------------------------------------------------------------------------
(* The owner.                                                              *)

\* OwnerHosts holds of every step: whoever becomes the owner inside the room
\* (HandOver, Create), or enters it as the owner (addMember), hosts it at once.
THEOREM OwnerTakesHost == Spec => OwnerHosts
  <1> USE DEF roomVars, dbVars, history
  <1> DEFINE Takes == (/\ crashes' = crashes
                       /\ owner' \in members'
                       /\ owner' # owner \/ owner' \notin members) => host' = owner'
  <1>1. ASSUME NEW p, AddMember(p)
        PROVE  Takes
    BY <1>1 DEF AddMember
  <1>2. ASSUME owner' = owner, members' \subseteq members
        PROVE  Takes
    BY <1>2
  <1>3. ASSUME TypeOK, [Next]_vars
        PROVE  Takes
    <2>1. ASSUME NEW g \in Handlers, NEW p \in Principals, Create(g, p)
          PROVE  Takes
      BY <2>1 DEF Create
    <2>2. ASSUME NEW g \in Handlers, NEW p \in Principals,
                 \/ \E op \in Ops \ {"none"} : Check(g, p, op)
                 \/ Message(g, p) \/ Settings(g, p)
                 \/ \E ban \in BOOLEAN : Kick(g, p, ban)
          PROVE  Takes
      BY <1>2, <2>2 DEF Check, Message, HandleControl, Settings, Kick
    <2>3. ASSUME NEW g \in Handlers, ApplyJoin(g) \/ ApplyReclaim(g)
          PROVE  Takes
      BY <1>1, <1>2, <2>3 DEF ApplyJoin, ApplyReclaim
    <2>4. ASSUME NEW g \in Handlers, ApplyHandOver(g)
          PROVE  Takes
      BY <2>4 DEF ApplyHandOver
    <2>5. ASSUME NEW g \in Handlers,
                 \/ Deny(g) \/ ApplyCinema(g) \/ ApplyControl(g)
                 \/ TakeSnapshot(g) \/ EndRoom(g)
          PROVE  Takes
      BY <1>2, <2>5 DEF Deny, ApplyCinema, ApplyControl, HandleControl,
                        TakeSnapshot, EndRoom
    <2>6. ASSUME NEW g \in Goroutines,
                 Save(g) \/ DeleteMembers(g) \/ DeleteRow(g) \/ DbError(g)
          PROVE  Takes
      BY <1>2, <2>6 DEF Save, DeleteMembers, DeleteRow, DbError
    <2>7. ASSUME NEW p \in Principals, Touch(p) \/ KickGuest(p)
          PROVE  Takes
      BY <1>2, <2>7 DEF Touch, KickGuest
    <2>8. CASE Elapse
      BY <1>2, <2>8 DEF Elapse
    <2>9. CASE Tick
      <3>1. owner' = owner /\ members' \subseteq members
        BY <2>9 DEF Tick, TickEmpty, TickPresent, TickRealign, TickRemove,
                    TickMembers, Kept
      <3> QED
        BY <1>2, <3>1
    <2>10. CASE Restart
      <3>1. crashes' = crashes + 1 /\ crashes \in Nat
        BY <1>3, <2>10, PartyAssumption DEF Restart, TypeOK
      <3> QED
        BY <3>1
    <2>11. CASE UNCHANGED vars
      BY <1>2, <2>11 DEF vars
    <2> QED
      BY <1>3, <2>1, <2>2, <2>3, <2>4, <2>5, <2>6, <2>7, <2>8, <2>9, <2>10,
         <2>11 DEF Next
  <1>4. TypeOK /\ [Next]_vars => [Takes]_vars
    BY <1>3
  <1> QED
    BY <1>4, TypeCorrect, PTL DEF Spec, OwnerHosts

-----------------------------------------------------------------------------
(* Bans.                                                                   *)

\* Requests past their ban check, copies on their way to the database and
\* stored rows can bring a member back, so each has to respect the bans.
BansStored ==
    /\ \A g \in Goroutines :
         /\ req[g].pc = "checked" /\ req[g].op \in {"Join", "ReclaimOwner"} =>
              req[g].who \notin banned \/ req[g].who \in raced
         /\ req[g].snap.banned \cap req[g].snap.members \subseteq raced
    /\ row.banned \cap rowMembers \subseteq raced
    /\ \A g \in Goroutines \ Handlers : req[g].pc # "checked"

BanInv == OnlyRacedBansEnter /\ BansStored

\* A step that bans nobody and starts no request that could bring one back.
LEMMA BansKept ==
    ASSUME TypeOK, BanInv, UNCHANGED <<dbVars, banned, raced>>,
           \/ UNCHANGED req
           \/ \E g \in Goroutines : Finish(g)
           \/ \E g \in Goroutines, pc \in Pcs \ {"checked"}, op \in Ops, who \in Hosts :
                Go(g, pc, op, who, NoSnap)
    PROVE  BansStored'
  BY DEF BanInv, BansStored, dbVars, Finish, Go, Idle, NoSnap, TypeOK, ReqOK

\* A step that leaves no banned member but the raced may take a snapshot.
LEMMA BansSnapshot ==
    ASSUME TypeOK, BanInv, UNCHANGED <<dbVars, banned, raced>>,
           OnlyRacedBansEnter', NEW g \in Goroutines,
           NEW who \in Hosts, Go(g, "save", "none", who, SnapshotNext)
    PROVE  BansStored'
  BY DEF BanInv, BansStored, OnlyRacedBansEnter, dbVars, Go, SnapshotNext, TypeOK, ReqOK

\* Every step keeps the banned out, but for those whose ban raced their join.
LEMMA BanStep ==
    ASSUME TypeOK, BanInv, [Next]_vars
    PROVE  BanInv'
  <1> USE DEF roomVars, dbVars, history
  <1>a. OnlyRacedBansEnter /\ BansStored
    BY DEF BanInv
  <1>b. Handlers \subseteq Goroutines /\ Ticker \in Goroutines
    BY DEF Goroutines
  <1>c. /\ {"idle", "persist", "save", "deleteMembers", "deleteRoom"} \subseteq Pcs \ {"checked"}
        /\ "none" \in Ops /\ NoOne \in Hosts /\ Principals \subseteq Hosts
    BY DEF Pcs, Ops, Hosts
  <1>e. \A g \in Goroutines : req[g].who \in Hosts
    BY DEF TypeOK, ReqOK, Requests
  <1>f. ASSUME members' \subseteq members, UNCHANGED <<banned, raced>>
        PROVE  OnlyRacedBansEnter'
    BY <1>a, <1>f DEF OnlyRacedBansEnter
  <1>1. ASSUME NEW g \in Handlers, NEW p \in Principals, Create(g, p)
        PROVE  BanInv'
    <2>1. banned' = {} /\ UNCHANGED <<dbVars, raced>>
          /\ Go(g, "persist", "none", p, NoSnap)
      BY <1>1 DEF Create
    <2>2. OnlyRacedBansEnter'
      BY <2>1 DEF OnlyRacedBansEnter
    <2>3. BansStored'
      BY <1>a, <1>b, <2>1 DEF Go, NoSnap, BansStored, TypeOK, ReqOK
    <2> QED
      BY <2>2, <2>3 DEF BanInv
  <1>2. ASSUME NEW g \in Handlers, NEW p \in Principals,
               NEW op \in Ops \ {"none"}, Check(g, p, op)
        PROVE  BanInv'
    <2>1. OnlyRacedBansEnter'
      BY <1>2, <1>f DEF Check
    <2>2. op \in {"Join", "ReclaimOwner"} => p \notin banned
      BY <1>2 DEF Check
    <2>3. BansStored'
      BY <1>2, <1>a, <1>b, <2>2 DEF Check, Go, BansStored, NoSnap, TypeOK, ReqOK
    <2> QED
      BY <2>1, <2>3 DEF BanInv
  <1>3. ASSUME NEW g \in Goroutines, NEW p \in Principals, HandleControl(g, p)
        PROVE  BanInv'
    <2>1. OnlyRacedBansEnter'
      BY <1>3, <1>f DEF HandleControl
    <2> QED
      BY <1>3, <1>c, <2>1, BansSnapshot DEF HandleControl, BanInv
  <1>4. ASSUME NEW g \in Handlers, NEW p \in Principals, Settings(g, p)
        PROVE  BanInv'
    <2>1. OnlyRacedBansEnter'
      BY <1>4, <1>f DEF Settings
    <2> QED
      BY <1>4, <1>b, <1>c, <2>1, BansSnapshot DEF Settings, BanInv
  <1>5. ASSUME NEW g \in Handlers, NEW p \in Principals, NEW ban \in BOOLEAN,
               Kick(g, p, ban)
        PROVE  BanInv'
    <2>1. /\ banned' \subseteq banned \cup {p} /\ members' = members \ {p}
          /\ raced \subseteq raced'
          /\ UNCHANGED dbVars /\ Go(g, "save", "none", p, SnapshotNext)
      BY <1>5 DEF Kick
    <2>2. OnlyRacedBansEnter'
      BY <1>a, <2>1 DEF OnlyRacedBansEnter
    <2>3. p \in banned' => \A x \in Entering(p) : p \in raced' \/ p \in banned
      BY <1>5 DEF Kick
    <2>4. ASSUME NEW x \in Goroutines, req'[x].pc = "checked",
                 req'[x].op \in {"Join", "ReclaimOwner"}
          PROVE  req'[x].who \notin banned' \/ req'[x].who \in raced'
      <3>1. x # g /\ req'[x] = req[x]
        BY <1>b, <2>1, <2>4 DEF Go, TypeOK, ReqOK
      <3>2. req[x].who = p => x \in Entering(p)
        BY <1>a, <2>4, <3>1 DEF Entering, BansStored
      <3>3. req[x].who \notin banned \/ req[x].who \in raced
        BY <1>a, <2>4, <3>1 DEF BansStored
      <3> QED
        BY <2>1, <2>3, <3>1, <3>2, <3>3
    <2>5. ASSUME NEW x \in Goroutines
          PROVE  /\ req'[x].snap.banned \cap req'[x].snap.members \subseteq raced'
                 /\ x \notin Handlers => req'[x].pc # "checked"
      BY <1>a, <1>b, <2>1, <2>2
      DEF Go, SnapshotNext, OnlyRacedBansEnter, BansStored, TypeOK, ReqOK
    <2>6. BansStored'
      BY <1>a, <2>1, <2>4, <2>5 DEF BansStored
    <2> QED
      BY <2>2, <2>6 DEF BanInv
  <1>6. ASSUME NEW g \in Handlers, Deny(g)
        PROVE  BanInv'
    <2>1. OnlyRacedBansEnter'
      BY <1>6, <1>f DEF Deny
    <2> QED
      BY <1>6, <1>b, <2>1, BansKept DEF Deny, BanInv
  <1>7. ASSUME NEW g \in Handlers, AddMember(req[g].who), req[g].pc = "checked",
               req[g].op \in {"Join", "ReclaimOwner"}, UNCHANGED raced
        PROVE  OnlyRacedBansEnter'
    BY <1>7, <1>a, <1>b DEF AddMember, OnlyRacedBansEnter, BansStored
  <1>8. ASSUME NEW g \in Handlers, ApplyJoin(g)
        PROVE  BanInv'
    <2>1. OnlyRacedBansEnter'
      BY <1>7, <1>8 DEF ApplyJoin
    <2> QED
      BY <1>8, <1>b, <1>c, <1>e, <2>1, BansKept DEF ApplyJoin, AddMember, BanInv
  <1>9. ASSUME NEW g \in Handlers, ApplyReclaim(g)
        PROVE  BanInv'
    <2>1. OnlyRacedBansEnter'
      <3>1. CASE AddMember(req[g].who)
        BY <1>7, <1>9, <3>1 DEF ApplyReclaim
      <3>2. CASE UNCHANGED roomVars
        BY <1>9, <1>f, <3>2 DEF ApplyReclaim
      <3> QED
        BY <1>9, <3>1, <3>2 DEF ApplyReclaim
    <2> QED
      BY <1>9, <1>b, <1>c, <1>e, <2>1, BansKept DEF ApplyReclaim, AddMember, BanInv
  <1>10. ASSUME NEW g \in Handlers, ApplyHandOver(g)
         PROVE  BanInv'
    <2>1. OnlyRacedBansEnter'
      BY <1>10, <1>f DEF ApplyHandOver
    <2> QED
      BY <1>10, <1>b, <1>c, <1>e, <2>1, BansKept DEF ApplyHandOver, BanInv
  <1>11. ASSUME NEW g \in Handlers, ApplyCinema(g)
         PROVE  BanInv'
    <2>1. OnlyRacedBansEnter'
      BY <1>11, <1>f DEF ApplyCinema
    <2> QED
      BY <1>11, <1>b, <1>c, <1>e, <2>1, BansKept DEF ApplyCinema, BanInv
  <1>12. ASSUME NEW g \in Handlers, ApplyControl(g)
         PROVE  BanInv'
    <2>1. req[g].who \in Principals
      BY <1>12, <1>b DEF ApplyControl, TypeOK, ReqOK
    <2>2. CASE HandleControl(g, req[g].who)
      BY <1>3, <1>b, <2>1, <2>2
    <2>3. CASE ~HandleControl(g, req[g].who)
      <3>1. Finish(g) /\ UNCHANGED <<dbVars, banned, raced, members>>
        BY <1>12, <2>3 DEF ApplyControl
      <3>2. OnlyRacedBansEnter'
        BY <1>f, <3>1
      <3> QED
        BY <1>b, <3>1, <3>2, BansKept DEF BanInv
    <2> QED
      BY <2>2, <2>3
  <1>13. ASSUME NEW g \in Handlers, TakeSnapshot(g)
         PROVE  BanInv'
    <2>1. OnlyRacedBansEnter'
      BY <1>13, <1>f DEF TakeSnapshot
    <2> QED
      BY <1>13, <1>b, <1>c, <1>e, <2>1, BansSnapshot DEF TakeSnapshot, BanInv
  <1>14. ASSUME NEW g \in Handlers, EndRoom(g)
         PROVE  BanInv'
    <2>1. OnlyRacedBansEnter'
      BY <1>14, <1>f DEF EndRoom
    <2> QED
      BY <1>14, <1>b, <1>c, <2>1, BansKept DEF EndRoom, BanInv
  <1>15. ASSUME NEW g \in Goroutines, Save(g)
         PROVE  BanInv'
    <2>1. OnlyRacedBansEnter'
      BY <1>15, <1>f DEF Save
    <2>2. BansStored'
      BY <1>15, <1>a DEF Save, RowOf, Finish, Idle, NoSnap, BansStored, TypeOK, ReqOK
    <2> QED
      BY <2>1, <2>2 DEF BanInv
  <1>16. ASSUME NEW g \in Goroutines, DeleteMembers(g)
         PROVE  BanInv'
    <2>1. OnlyRacedBansEnter'
      BY <1>16, <1>f DEF DeleteMembers
    <2>2. BansStored'
      BY <1>16, <1>a DEF DeleteMembers, Go, NoSnap, BansStored, TypeOK, ReqOK
    <2> QED
      BY <2>1, <2>2 DEF BanInv
  <1>17. ASSUME NEW g \in Goroutines, DeleteRow(g)
         PROVE  BanInv'
    <2>1. OnlyRacedBansEnter'
      BY <1>17, <1>f DEF DeleteRow
    <2>2. BansStored'
      BY <1>17, <1>a DEF DeleteRow, Finish, Idle, NoSnap, BansStored, TypeOK, ReqOK
    <2> QED
      BY <2>1, <2>2 DEF BanInv
  <1>18. ASSUME NEW g \in Goroutines, DbError(g)
         PROVE  BanInv'
    <2>1. OnlyRacedBansEnter'
      BY <1>18, <1>f DEF DbError
    <2> QED
      BY <1>18, <2>1, BansKept DEF DbError, BanInv
  <1>19. ASSUME NEW p \in Principals, Touch(p) \/ KickGuest(p)
         PROVE  BanInv'
    <2>1. /\ members' \subseteq members
          /\ UNCHANGED <<dbVars, banned, raced, req>>
      BY <1>19 DEF Touch, KickGuest
    <2> QED
      BY <1>f, <2>1, BansKept DEF BanInv
  <1>20. ASSUME Elapse
         PROVE  BanInv'
    <2>1. OnlyRacedBansEnter'
      BY <1>20, <1>f DEF Elapse
    <2> QED
      BY <1>20, <2>1, BansKept DEF Elapse, BanInv
  <1>21. ASSUME Tick
         PROVE  BanInv'
    <2>1. members' \subseteq members /\ UNCHANGED <<dbVars, banned, raced>>
      BY <1>21 DEF Tick, TickEmpty, TickPresent, TickRealign, TickRemove,
                   TickMembers, Kept
    <2>2. OnlyRacedBansEnter'
      BY <1>f, <2>1
    <2>3. \/ UNCHANGED req
          \/ Go(Ticker, "deleteMembers", "none", NoOne, NoSnap)
          \/ Go(Ticker, "save", "none", NoOne, SnapshotNext)
      BY <1>21 DEF Tick, TickEmpty, TickPresent, TickRealign, TickRemove
    <2> QED
      BY <1>b, <1>c, <2>1, <2>2, <2>3, BansKept, BansSnapshot DEF BanInv
  <1>22. ASSUME Restart
         PROVE  BanInv'
    <2>1. PICK r \in Restored, found \in RestoredMembers :
            /\ members' = IF r.present THEN found ELSE {}
            /\ banned' = r.banned
      BY <1>22 DEF Restart
    <2>2. OnlyRacedBansEnter'
      BY <1>22, <1>a, <2>1
      DEF Restart, Restored, RestoredMembers, NoRow, OnlyRacedBansEnter, BansStored
    <2>3. BansStored'
      BY <1>22, <1>a DEF Restart, BansStored, Idle, NoSnap
    <2> QED
      BY <2>2, <2>3 DEF BanInv
  <1>23. CASE UNCHANGED vars
    BY <1>23, <1>f, BansKept DEF vars, BanInv
  <1> QED
    BY <1>1, <1>2, <1>3, <1>4, <1>5, <1>6, <1>8, <1>9, <1>10, <1>11, <1>12,
       <1>13, <1>14, <1>15, <1>16, <1>17, <1>18, <1>19, <1>20, <1>21,
       <1>22, <1>23, <1>b DEF Next, Message

\* OnlyRacedBansEnter is an invariant: a banned principal is in the room only
\* if Kick banned it while a Join or ReclaimOwner of its own had passed the
\* ban check and not yet entered the room. No other interleaving of requests,
\* saves and restarts lets a banned principal in.
THEOREM BanCorrect == Spec => []OnlyRacedBansEnter
  <1>1. Init => BanInv
    BY DEF Init, BanInv, OnlyRacedBansEnter, BansStored, NoRow, Idle, NoSnap
  <1>2. TypeOK /\ BanInv /\ [Next]_vars => BanInv'
    BY BanStep
  <1>3. BanInv => OnlyRacedBansEnter
    BY DEF BanInv
  <1> QED
    BY <1>1, <1>2, <1>3, TypeCorrect, PTL DEF Spec
=============================================================================
