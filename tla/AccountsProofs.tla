---------------------------- MODULE AccountsProofs ---------------------------
(***************************************************************************)
(* Proofs about Accounts and SignIn: what their contracts promise holds    *)
(* for every number of requests, users, Discord accounts and sessions.     *)
(***************************************************************************)
EXTENDS Accounts, SignIn, FiniteSetTheorems, TLAPS

-----------------------------------------------------------------------------
(* Accounts.                                                               *)

Doings == {"none", "disable", "enable", "delete", "roles", "add", "remove", "login", "join"}
ReqRec == [pc: ReqPC, do: Doings, by: People, to: People, put: SUBSET Roles,
           manages: BOOLEAN, flag: BOOLEAN, fresh: BOOLEAN]
Setups == {"none", "administrator", "super", "remember", "hire", "done"}

AcTyped ==
    /\ users \in SUBSET People /\ isAdmin \in SUBSET users /\ disabled \in SUBSET users
    /\ joined \in SUBSET Newcomers /\ held \in [People -> SUBSET Roles]
    /\ known \in BOOLEAN /\ expired \in BOOLEAN /\ invited \in BOOLEAN /\ raced \in BOOLEAN
    /\ setup \in Setups /\ sessions \in [People -> Nat]
    /\ req \in [Requests -> ReqRec] /\ dbFaults \in Nat

\* What each kind of request goes through, and whom it is about.
Shaped(q) ==
    /\ q.pc = "write" => q.do \notin {"none", "delete"}
    /\ q.pc \in {"syncRead", "syncWrite"} => q.do \in {"roles", "add", "remove"}
    /\ q.pc = "purge" => q.do \in {"disable", "delete"}
    /\ q.pc = "remove" => q.do \in {"delete", "join"}
    /\ q.do = "disable" => q.to \in {Original, Deputy, Staff, Guest}
    /\ q.do \in {"enable", "delete", "roles", "add", "remove"} => q.to \in {Original, Deputy, Staff}
    /\ q.do = "join" => q.to \in Newcomers
    /\ q.do = "add" => q.put = {"administrator"} /\ q.manages
    /\ setup # "done" => q.pc = "idle"
    /\ q.pc \in {"idle", "ended"} => q.do = "none"
Shapes == \A r \in Requests : Shaped(req[r])

\* The server while it is set up, and who has no roles.
SetUp ==
    /\ setup = "none" => users = {}
    /\ setup \notin {"none", "done"} => users = {Original} /\ isAdmin = {Original} /\ disabled = {}
    /\ known => setup \in {"hire", "done"}
    /\ setup \in {"remember", "hire"} /\ dbFaults = 0 => "super" \in held[Original]
Rightless ==
    /\ \A u \in People \ users : held[u] = {} /\ sessions[u] = 0
    /\ held[Guest] = {} /\ Guest \notin isAdmin
    /\ \A u \in Newcomers : held[u] = {} /\ u \notin isAdmin

\* No request takes the original administrator's rights.
Spares(q) ==
    /\ q.do \in {"disable", "delete"} => q.to # Original
    /\ q.do \in {"roles", "remove"} /\ q.to = Original => "super" \in q.put
    /\ q.pc \in {"syncRead", "syncWrite"} /\ q.to = Original => Grants(held[Original])
    /\ q.pc = "syncWrite" /\ q.to = Original => q.flag
OriginalKept ==
    known => OriginalStays /\ \A r \in Requests : Spares(req[r])

\* A request that was checked and has not written, and one that has.
Waits(q) == q.pc = "write" \/ (q.do = "delete" /\ q.pc \in {"purge", "remove"})
Wrote(q) == q.pc \in {"syncRead", "syncWrite"} \/ (q.do # "delete" /\ q.pc \in {"purge", "remove"})

\* Somebody else can administrate.
Beside(u) == Admins \ {u} # {}

\* What a check found holds until another request writes.
Checked(q) ==
    Waits(q) /\ q.fresh =>
      /\ q.do \in {"disable", "delete"} => (IsAdmin(q.to) => Beside(q.to))
      /\ q.do \in {"roles", "remove"} => Grants(q.put) \/ (IsAdmin(q.to) => Beside(q.to))
      /\ q.do \notin {"login", "join"} /\ ~q.manages => ~IsAdmin(q.to) /\ ~Grants(q.put)
      /\ q.do = "login" => q.to \notin disabled /\ sessions[q.to] < Devices
      /\ q.do = "join" => ~invited
ReadFlag(q) == q.pc = "syncWrite" /\ q.fresh => (q.flag <=> Grants(held[q.to]))
ChecksHold == \A r \in Requests : Checked(req[r]) /\ ReadFlag(req[r])

\* While nobody has written on an old check, one request at a time is between
\* its writes, and the checks of the others are old.
Alone ==
    \A r, o \in Requests :
        r # o /\ Wrote(req[r]) => ~Wrote(req[o]) /\ (Waits(req[o]) => ~req[o].fresh)
\* The flag of u is about to follow its roles.
Following(u) == \E r \in Requests : req[r].pc \in {"syncRead", "syncWrite"} /\ req[r].to = u
AdminBeside ==
    /\ setup # "none" => Admins # {}
    /\ \A u \in People : Following(u) => Grants(held[u]) \/ Beside(u)

\* ... and while no statement failed, either.
Purging(u) == \E r \in Requests : req[r].pc = "purge" /\ req[r].do = "disable" /\ req[r].to = u
Marking == \E r \in Requests : req[r].pc = "remove" /\ req[r].do = "join"
FlagFollows == setup = "done" => \A u \in users : (u \in isAdmin <=> Grants(held[u])) \/ Following(u)
SessionsEnd ==
    \A u \in users : sessions[u] <= Devices /\ (u \in disabled => sessions[u] = 0 \/ Purging(u))
OneJoined ==
    /\ joined = {} \/ invited \/ Marking
    /\ \E x \in Newcomers \cup {Original} : joined \subseteq {x}

Counted == \A u \in People : sessions[u] <= Cardinality({r \in Requests : req[r].pc = "ended"})

AcSound == AcTyped /\ Shapes /\ SetUp /\ Rightless /\ OriginalKept /\ ChecksHold /\ Counted
AcOrderly == Alone /\ AdminBeside
AcFollowed == FlagFollows /\ SessionsEnd /\ OneJoined
AcInv == AcSound /\ (raced \/ AcOrderly) /\ (raced \/ dbFaults > 0 \/ AcFollowed)

\* Who is who, and what the roles grant.
LEMMA AcFacts ==
    /\ Original # Deputy /\ Original # Staff /\ Original # Guest /\ Deputy # Staff /\ Deputy # Guest
    /\ Staff # Guest /\ Original \notin Newcomers /\ Deputy \notin Newcomers
    /\ Staff \notin Newcomers /\ Guest \notin Newcomers
    /\ Original \in People /\ Deputy \in People /\ Staff \in People /\ Guest \in People
    /\ Newcomers \subseteq People /\ IsFiniteSet(Requests)
    /\ ~Grants({}) /\ Grants({"administrator"}) /\ ~Grants({"staff"})
    /\ \A roles : "super" \in roles => Grants(roles)
    /\ \A roles, more : Grants(roles) => Grants(roles \cup more)
<1>1. /\ ~Grants({}) /\ Grants({"administrator"}) /\ ~Grants({"staff"})
      /\ \A roles : "super" \in roles => Grants(roles)
      /\ \A roles, more : Grants(roles) => Grants(roles \cup more)
  BY DEF Grants, Granting
<1> QED
  BY <1>1, AccountsAssumption DEF People

LEMMA PeopleFinite == IsFiniteSet(People)
<1>1. \A S, x : IsFiniteSet(S) => IsFiniteSet(S \cup {x})
  BY FS_AddElement
<1>2. IsFiniteSet((((Newcomers \cup {Original}) \cup {Deputy}) \cup {Staff}) \cup {Guest})
  BY <1>1, AccountsAssumption, Zenon
<1>3. People = (((Newcomers \cup {Original}) \cup {Deputy}) \cup {Staff}) \cup {Guest}
  BY DEF People
<1> QED
  BY <1>2, <1>3

LEMMA NotLastBeside ==
    ASSUME AcTyped, Cardinality(Admins) > 1, NEW u
    PROVE  Beside(u)
<1> SUFFICES ASSUME Admins \subseteq {u} PROVE FALSE
  BY DEF Beside
<1>1. IsFiniteSet({u}) /\ Cardinality({u}) = 1
  BY FS_Singleton
<1>2. Cardinality(Admins) <= Cardinality({u}) /\ IsFiniteSet(Admins)
  BY <1>1, FS_Subset
<1>3. Cardinality(Admins) \in Nat
  BY <1>2, FS_CardinalityType
<1> QED
  BY <1>1, <1>2, <1>3

LEMMA ReqTypes ==
    ASSUME AcTyped
    PROVE  \A r \in Requests :
             /\ req[r] \in ReqRec
             /\ req[r].pc \in ReqPC /\ req[r].do \in Doings /\ req[r].by \in People /\ req[r].to \in People
             /\ req[r].put \in SUBSET Roles /\ req[r].manages \in BOOLEAN /\ req[r].flag \in BOOLEAN
             /\ req[r].fresh \in BOOLEAN
BY DEF AcTyped, ReqRec

LEMMA BlankTypes ==
    /\ Unasked \in ReqRec /\ Answered \in ReqRec
    /\ Unasked.pc = "idle" /\ Unasked.do = "none" /\ Unasked.put = {} /\ Unasked.fresh
    /\ Answered.pc = "ended" /\ Answered.do = "none"
BY AcFacts DEF Unasked, Answered, ReqRec, ReqPC, Doings

\* The request r goes on as q; what the others found is old if it wrote.
Writes(r, q) == req' = [Outdated(r) EXCEPT ![r] = q]
Goes(r, q) == req' = [req EXCEPT ![r] = q]

\* The fields of the requests after a step of one of them.
OthersStay(r) ==
    \A o \in Requests \ {r} :
      /\ req'[o].pc = req[o].pc /\ req'[o].do = req[o].do /\ req'[o].by = req[o].by /\ req'[o].to = req[o].to
      /\ req'[o].put = req[o].put /\ req'[o].manages = req[o].manages /\ req'[o].flag = req[o].flag

LEMMA GoesOn ==
    ASSUME AcTyped, NEW r \in Requests, NEW q \in ReqRec, Goes(r, q)
    PROVE  /\ req' \in [Requests -> ReqRec] /\ req'[r] = q /\ OthersStay(r)
           /\ \A o \in Requests \ {r} : req'[o] = req[o]
           /\ \A o \in Requests \ {r} : req'[o].fresh => req[o].fresh \/ req[o].pc = "ended"
BY DEF AcTyped, Goes, OthersStay

LEMMA Overtakes ==
    ASSUME AcTyped, NEW r \in Requests, NEW q \in ReqRec, Writes(r, q)
    PROVE  /\ req' \in [Requests -> ReqRec] /\ req'[r] = q /\ OthersStay(r)
           /\ \A o \in Requests \ {r} : req[o].pc = "ended" \/ ~req'[o].fresh
           /\ \A o \in Requests \ {r} : req'[o].fresh => req[o].fresh \/ req[o].pc = "ended"
<1>1. PICK old \in [Requests -> ReqRec] : old = Outdated(r)
  <2>1. \A o \in Requests : [req[o] EXCEPT !.fresh = @ /\ (o = r \/ req[o].pc = "ended")] \in ReqRec
    <3> TAKE o \in Requests
    <3>1. PICK b \in BOOLEAN : b = (req[o].fresh /\ (o = r \/ req[o].pc = "ended"))
      OBVIOUS
    <3>2. PICK w \in ReqRec : w = req[o]
      BY ReqTypes
    <3>3. [w EXCEPT !.fresh = b] \in ReqRec
      BY DEF ReqRec
    <3> QED
      BY <3>1, <3>2, <3>3
  <2> QED
    BY <2>1 DEF Outdated
<1>2. req' = [old EXCEPT ![r] = q]
  BY <1>1 DEF Writes
<1>3. \A o \in Requests : old[o] = [req[o] EXCEPT !.fresh = @ /\ (o = r \/ req[o].pc = "ended")]
  BY <1>1 DEF Outdated
<1>4. ASSUME NEW o \in Requests \ {r}
      PROVE  /\ req'[o].pc = req[o].pc /\ req'[o].do = req[o].do /\ req'[o].by = req[o].by /\ req'[o].to = req[o].to
             /\ req'[o].put = req[o].put /\ req'[o].manages = req[o].manages /\ req'[o].flag = req[o].flag
             /\ req[o].pc = "ended" \/ ~req'[o].fresh
  <2>1. req'[o] = [req[o] EXCEPT !.fresh = req[o].fresh /\ (o = r \/ req[o].pc = "ended")]
    BY <1>2, <1>3
  <2>2. PICK w \in ReqRec : w = req[o]
    BY ReqTypes
  <2>3. PICK b \in BOOLEAN : b = (req[o].fresh /\ (o = r \/ req[o].pc = "ended"))
    OBVIOUS
  <2>4. req'[o] = [w EXCEPT !.fresh = b]
    BY <2>1, <2>2, <2>3
  <2> QED
    BY <2>2, <2>3, <2>4 DEF ReqRec
<1>5. req' \in [Requests -> ReqRec] /\ req'[r] = q
  BY <1>2
<1> QED
  BY <1>4, <1>5 DEF OthersStay

\* Sessions are made by requests that end with that.
LEMMA CountedKept ==
    ASSUME AcTyped, Counted, NEW r \in Requests, NEW q \in ReqRec, OthersStay(r), req'[r] = q,
           req[r].pc = "ended" => q.pc = "ended",
           \A u \in People : sessions'[u] \in Nat /\ sessions'[u] <= sessions[u]
    PROVE  Counted'
<1> DEFINE Ended == {o \in Requests : req[o].pc = "ended"}
           After == {o \in Requests : req'[o].pc = "ended"}
<1>1. Ended \subseteq After
  BY DEF OthersStay
<1>2. IsFiniteSet(After) /\ IsFiniteSet(Ended)
  BY AcFacts, FS_Subset
<1>3. Cardinality(Ended) <= Cardinality(After) /\ Cardinality(Ended) \in Nat /\ Cardinality(After) \in Nat
  BY <1>1, <1>2, FS_Subset, FS_CardinalityType
<1>4. \A u \in People : sessions[u] \in Nat /\ sessions[u] <= Cardinality(Ended)
  BY DEF Counted, AcTyped
<1>5. \A u \in People : sessions'[u] <= Cardinality(After)
  <2> HIDE DEF Ended, After
  <2> QED
    BY <1>3, <1>4
<1> QED
  BY <1>5 DEF Counted

LEMMA CountedUp ==
    ASSUME AcTyped, Counted, NEW r \in Requests, NEW q \in ReqRec, OthersStay(r), req'[r] = q,
           req[r].pc # "ended", q.pc = "ended", NEW v \in People,
           sessions' = [sessions EXCEPT ![v] = @ + 1]
    PROVE  Counted'
<1> DEFINE Ended == {o \in Requests : req[o].pc = "ended"}
           After == {o \in Requests : req'[o].pc = "ended"}
<1>1. After = Ended \cup {r} /\ r \notin Ended
  BY DEF OthersStay
<1>2. IsFiniteSet(Ended)
  BY AcFacts, FS_Subset
<1>3. Cardinality(After) = Cardinality(Ended) + 1 /\ Cardinality(Ended) \in Nat
  BY <1>1, <1>2, FS_AddElement, FS_CardinalityType
<1>4. \A u \in People : sessions[u] \in Nat /\ sessions[u] <= Cardinality(Ended)
  BY DEF Counted, AcTyped
<1>5. \A u \in People : sessions'[u] = IF u = v THEN sessions[u] + 1 ELSE sessions[u]
  BY DEF AcTyped
<1>6. \A u \in People : sessions'[u] <= Cardinality(After)
  <2> HIDE DEF Ended, After
  <2> QED
    BY <1>3, <1>4, <1>5
<1> QED
  BY <1>6 DEF Counted

\* One request is between its writes.
LEMMA AloneAfter ==
    ASSUME AcTyped, Alone, NEW r \in Requests, NEW q \in ReqRec, OthersStay(r), req'[r] = q,
           \A o \in Requests \ {r} : req'[o].fresh => req[o].fresh \/ req[o].pc = "ended",
           Wrote(q) => \A o \in Requests \ {r} : ~Wrote(req[o]) /\ (Waits(req[o]) => ~req'[o].fresh),
           Waits(q) /\ q.fresh => \A o \in Requests \ {r} : ~Wrote(req[o])
    PROVE  Alone'
<1> SUFFICES ASSUME NEW a \in Requests, NEW o \in Requests, a # o, Wrote(req'[a])
             PROVE  ~Wrote(req'[o]) /\ (Waits(req'[o]) => ~req'[o].fresh)
  BY DEF Alone, Wrote, Waits
<1>1. \A x \in Requests \ {r} : /\ Wrote(req'[x]) <=> Wrote(req[x])
                                /\ Waits(req'[x]) <=> Waits(req[x])
  BY DEF OthersStay, Wrote, Waits
<1>2. \A x \in Requests : Waits(req[x]) => req[x].pc # "ended"
  BY DEF Waits
<1>3. CASE a = r
  BY <1>1, <1>3
<1>4. CASE a # r /\ o = r
  BY <1>1, <1>4
<1>5. CASE a # r /\ o # r
  BY <1>1, <1>2, <1>5 DEF Alone
<1> QED
  BY <1>3, <1>4, <1>5

\* A request that writes on a new check does so alone.
LEMMA FirstToWrite ==
    ASSUME Alone, NEW r \in Requests, Waits(req[r]), req[r].fresh
    PROVE  \A o \in Requests \ {r} : ~Wrote(req[o])
BY DEF Alone
LEMMA OnlyOneWrote ==
    ASSUME Alone, NEW r \in Requests, Wrote(req[r])
    PROVE  \A o \in Requests \ {r} : ~Wrote(req[o]) /\ (Waits(req[o]) => ~req[o].fresh)
BY DEF Alone

\* The parts of a step that does not touch accounts, roles or flags.
Untouched == UNCHANGED <<users, held, isAdmin, disabled, known, setup>>

LEMMA UntouchedSame ==
    ASSUME Untouched
    PROVE  /\ Admins' = Admins /\ \A u : IsAdmin(u)' <=> IsAdmin(u)
           /\ \A u : Beside(u)' <=> Beside(u)
BY DEF Untouched, Admins, IsAdmin, Beside

LEMMA UntouchedSound ==
    ASSUME AcSound, NEW r \in Requests, NEW q \in ReqRec, Untouched, setup = "done",
           Goes(r, q) \/ Writes(r, q), invited' \in BOOLEAN, invited' = invited \/ Writes(r, q),
           expired' \in BOOLEAN, joined' = joined, raced' \in BOOLEAN, dbFaults' \in Nat, dbFaults <= dbFaults',
           sessions' \in [People -> Nat], \A u \in People : sessions'[u] <= sessions[u],
           Shaped(q), known => Spares(q), Checked(q)', ReadFlag(q)',
           req[r].pc = "ended" => q.pc = "ended"
    PROVE  AcSound'
<1>1. AcTyped /\ Shapes /\ SetUp /\ Rightless /\ OriginalKept /\ ChecksHold /\ Counted
  BY DEF AcSound
<1>2. /\ req' \in [Requests -> ReqRec] /\ req'[r] = q /\ OthersStay(r)
      /\ \A o \in Requests \ {r} :
            \/ req[o].pc = "ended"
            \/ ~req'[o].fresh
            \/ invited' = invited /\ req'[o] = req[o]
  BY <1>1, GoesOn, Overtakes
<1>3. AcTyped'
  BY <1>1, <1>2 DEF AcTyped, Untouched
<1>4. Shapes'
  <2> SUFFICES ASSUME NEW o \in Requests PROVE Shaped(req[o])'
    BY DEF Shapes
  <2>1. CASE o = r
    BY <1>2, <2>1 DEF Shaped, Untouched
  <2>2. CASE o # r
    BY <1>1, <1>2, <2>2 DEF Shapes, Shaped, Untouched, OthersStay
  <2> QED
    BY <2>1, <2>2
<1>5. SetUp'
  BY <1>1 DEF SetUp, Untouched
<1>6. Rightless'
  <2>1. \A u \in People \ users : sessions'[u] = 0
    BY <1>1 DEF Rightless, AcTyped
  <2> QED
    BY <1>1, <2>1 DEF Rightless, Untouched
<1>7. OriginalKept'
  <2> SUFFICES ASSUME known PROVE OriginalStays' /\ \A o \in Requests : Spares(req[o])'
    BY DEF OriginalKept, Untouched
  <2>1. OriginalStays'
    BY <1>1, UntouchedSame DEF OriginalKept, OriginalStays, Untouched, AcTyped
  <2>2. ASSUME NEW o \in Requests PROVE Spares(req[o])'
    <3>1. CASE o = r
      BY <1>2, <3>1 DEF Spares, Untouched
    <3>2. CASE o # r
      BY <1>1, <1>2, <3>2 DEF OriginalKept, Spares, Untouched, OthersStay
    <3> QED
      BY <3>1, <3>2
  <2> QED
    BY <2>1, <2>2
<1>8. ChecksHold'
  <2> SUFFICES ASSUME NEW o \in Requests PROVE Checked(req[o])' /\ ReadFlag(req[o])'
    BY DEF ChecksHold
  <2>1. CASE o = r
    BY <1>2, <2>1 DEF Checked, ReadFlag, Waits, Beside, Admins, IsAdmin
  <2>2. CASE o # r /\ req[o].pc = "ended"
    BY <1>2, <2>2 DEF OthersStay, Checked, ReadFlag, Waits
  <2>3. CASE o # r /\ ~req'[o].fresh
    BY <1>2, <2>3 DEF Checked, ReadFlag
  <2>4. CASE o # r /\ invited' = invited /\ req'[o] = req[o]
    <3>1. Checked(req[o]) /\ ReadFlag(req[o]) /\ req[o].to \in People
      BY <1>1, ReqTypes DEF ChecksHold
    <3>2. sessions'[req[o].to] <= sessions[req[o].to] /\ sessions'[req[o].to] \in Nat /\ sessions[req[o].to] \in Nat
      BY <1>1, <3>1 DEF AcTyped
    <3>3. Devices \in Nat
      BY AccountsAssumption
    <3>4. sessions[req[o].to] < Devices => sessions'[req[o].to] < Devices
      BY <3>2, <3>3
    <3>5. Checked(req[o])'
      BY <2>4, <3>1, <3>4, UntouchedSame DEF Checked, Waits, Untouched
    <3>6. ReadFlag(req[o])'
      BY <2>4, <3>1 DEF ReadFlag, Untouched
    <3> QED
      BY <3>5, <3>6
  <2> QED
    BY <1>2, <2>1, <2>2, <2>3, <2>4
<1>9. Counted'
  <2>1. \A u \in People : sessions'[u] \in Nat /\ sessions'[u] <= sessions[u]
    OBVIOUS
  <2> QED
    BY <1>1, <1>2, <2>1, CountedKept
<1> QED
  BY <1>3, <1>4, <1>5, <1>6, <1>7, <1>8, <1>9 DEF AcSound

\* ... and of one that writes accounts, roles or flags.
LEMMA WriterSound ==
    ASSUME AcSound, NEW r \in Requests, NEW q \in ReqRec, setup = "done", Writes(r, q), UNCHANGED <<setup, known, expired, invited>>,
           users' \in SUBSET People, isAdmin' \in SUBSET users', disabled' \in SUBSET users',
           joined' \in SUBSET Newcomers, held' \in [People -> SUBSET Roles], sessions' \in [People -> Nat],
           raced' \in BOOLEAN, dbFaults' \in Nat, dbFaults <= dbFaults',
           Rightless', Counted',
           known => OriginalStays' /\ Spares(q)' /\ (Grants(held[Original]) => Grants(held'[Original])),
           Shaped(q), Checked(q)', ReadFlag(q)'
    PROVE  AcSound'
<1>1. AcTyped /\ Shapes /\ SetUp /\ OriginalKept
  BY DEF AcSound
<1>2. /\ req' \in [Requests -> ReqRec] /\ req'[r] = q /\ OthersStay(r)
      /\ \A o \in Requests \ {r} : req[o].pc = "ended" \/ ~req'[o].fresh
  BY <1>1, Overtakes
<1>3. AcTyped'
  BY <1>1, <1>2 DEF AcTyped
<1>4. Shapes'
  <2> SUFFICES ASSUME NEW o \in Requests PROVE Shaped(req[o])'
    BY DEF Shapes
  <2>1. CASE o = r
    BY <1>2, <2>1 DEF Shaped
  <2>2. CASE o # r
    BY <1>1, <1>2, <2>2 DEF Shapes, Shaped, OthersStay
  <2> QED
    BY <2>1, <2>2
<1>5. SetUp'
  BY <1>1 DEF SetUp
<1>7. OriginalKept'
  <2> SUFFICES ASSUME known PROVE OriginalStays' /\ \A o \in Requests : Spares(req[o])'
    BY DEF OriginalKept
  <2>2. ASSUME NEW o \in Requests PROVE Spares(req[o])'
    <3>1. CASE o = r
      BY <1>2, <3>1 DEF Spares
    <3>2. CASE o # r
      BY <1>1, <1>2, <3>2 DEF OriginalKept, Spares, OthersStay
    <3> QED
      BY <3>1, <3>2
  <2> QED
    BY <2>2
<1>8. ChecksHold'
  <2> SUFFICES ASSUME NEW o \in Requests PROVE Checked(req[o])' /\ ReadFlag(req[o])'
    BY DEF ChecksHold
  <2>1. CASE o = r
    BY <1>2, <2>1 DEF Checked, ReadFlag, Waits, Beside, Admins, IsAdmin
  <2>2. CASE o # r /\ req[o].pc = "ended"
    BY <1>2, <2>2 DEF OthersStay, Checked, ReadFlag, Waits
  <2>3. CASE o # r /\ ~req'[o].fresh
    BY <1>2, <2>3 DEF Checked, ReadFlag
  <2> QED
    BY <1>2, <2>1, <2>2, <2>3
<1> QED
  BY <1>3, <1>4, <1>5, <1>7, <1>8 DEF AcSound

LEMMA UntouchedOrderly ==
    ASSUME AcTyped, AcOrderly, NEW r \in Requests, NEW q \in ReqRec, Untouched, OthersStay(r), req'[r] = q,
           \A o \in Requests \ {r} : req'[o].fresh => req[o].fresh \/ req[o].pc = "ended",
           Wrote(q) => Wrote(req[r]), Waits(q) /\ q.fresh => \A o \in Requests \ {r} : ~Wrote(req[o]),
           q.pc \in {"syncRead", "syncWrite"} => req[r].pc \in {"syncRead", "syncWrite"} /\ q.to = req[r].to
    PROVE  AcOrderly'
<1>1. Alone'
  <2>1. Wrote(q) => \A o \in Requests \ {r} : ~Wrote(req[o]) /\ (Waits(req[o]) => ~req'[o].fresh)
    <3> SUFFICES ASSUME Wrote(req[r]), NEW o \in Requests \ {r}
                 PROVE  ~Wrote(req[o]) /\ (Waits(req[o]) => ~req'[o].fresh)
      OBVIOUS
    <3>1. ~Wrote(req[o]) /\ (Waits(req[o]) => ~req[o].fresh)
      BY OnlyOneWrote DEF AcOrderly
    <3>2. Waits(req[o]) => req[o].pc # "ended"
      BY DEF Waits
    <3> QED
      BY <3>1, <3>2
  <2> QED
    BY <2>1, AloneAfter DEF AcOrderly
<1>2. AdminBeside'
  <2>1. (setup # "none" => Admins # {})'
    BY UntouchedSame DEF AcOrderly, AdminBeside, Untouched
  <2>2. ASSUME NEW u \in People, Following(u)' PROVE (Grants(held[u]) \/ Beside(u))'
    <3>1. Following(u)
      <4>1. PICK o \in Requests : req'[o].pc \in {"syncRead", "syncWrite"} /\ req'[o].to = u
        BY <2>2 DEF Following
      <4>2. req[o].pc \in {"syncRead", "syncWrite"} /\ req[o].to = u
        BY <4>1 DEF OthersStay
      <4> QED
        BY <4>2 DEF Following
    <3> QED
      BY <3>1, UntouchedSame DEF AcOrderly, AdminBeside, Untouched
  <2> QED
    BY <2>1, <2>2 DEF AdminBeside
<1> QED
  BY <1>1, <1>2 DEF AcOrderly

LEMMA UntouchedFollowed ==
    ASSUME AcTyped, AcFollowed, NEW r \in Requests, NEW q \in ReqRec, Untouched, OthersStay(r), req'[r] = q,
           req[r].pc \in {"syncRead", "syncWrite"} => q.pc \in {"syncRead", "syncWrite"} /\ q.to = req[r].to,
           req[r].pc = "purge" /\ req[r].do = "disable" => sessions'[req[r].to] = 0,
           req[r].pc = "remove" /\ req[r].do = "join" => invited',
           joined' = joined, invited => invited', sessions' \in [People -> Nat],
           \A u \in People : sessions'[u] <= sessions[u]
    PROVE  AcFollowed'
<1>1. FlagFollows'
  <2> SUFFICES ASSUME setup = "done", NEW u \in users PROVE (u \in isAdmin <=> Grants(held[u])) \/ Following(u)'
    BY DEF FlagFollows, Untouched
  <2>1. CASE Following(u)
    <3>1. PICK o \in Requests : req[o].pc \in {"syncRead", "syncWrite"} /\ req[o].to = u
      BY <2>1 DEF Following
    <3>2. req'[o].pc \in {"syncRead", "syncWrite"} /\ req'[o].to = u
      BY <3>1 DEF OthersStay
    <3> QED
      BY <3>2 DEF Following
  <2> QED
    BY <2>1 DEF AcFollowed, FlagFollows
<1>2. SessionsEnd'
  <2> SUFFICES ASSUME NEW u \in users
               PROVE  sessions'[u] <= Devices /\ (u \in disabled => sessions'[u] = 0 \/ Purging(u)')
    BY DEF SessionsEnd, Untouched
  <2>1. /\ u \in People /\ sessions'[u] \in Nat /\ sessions[u] \in Nat /\ sessions'[u] <= sessions[u]
        /\ Devices \in Nat /\ sessions[u] <= Devices
    BY AccountsAssumption DEF AcTyped, AcFollowed, SessionsEnd
  <2>2. sessions'[u] <= Devices /\ (sessions[u] = 0 => sessions'[u] = 0)
    BY <2>1
  <2>3. CASE Purging(u)
    <3>1. PICK o \in Requests : req[o].pc = "purge" /\ req[o].do = "disable" /\ req[o].to = u
      BY <2>3 DEF Purging
    <3>2. CASE o = r
      BY <3>1, <3>2, <2>2
    <3>3. CASE o # r
      <4>1. req'[o].pc = "purge" /\ req'[o].do = "disable" /\ req'[o].to = u
        BY <3>1, <3>3 DEF OthersStay
      <4> QED
        BY <4>1, <2>2 DEF Purging
    <3> QED
      BY <3>2, <3>3
  <2> QED
    BY <2>2, <2>3 DEF AcFollowed, SessionsEnd
<1>3. OneJoined'
  <2>1. CASE Marking
    <3>1. PICK o \in Requests : req[o].pc = "remove" /\ req[o].do = "join"
      BY <2>1 DEF Marking
    <3>2. invited' \/ Marking'
      BY <3>1 DEF Marking, OthersStay
    <3> QED
      BY <3>2 DEF OneJoined, AcFollowed
  <2> QED
    BY <2>1 DEF OneJoined, AcFollowed
<1> QED
  BY <1>1, <1>2, <1>3 DEF AcFollowed

-----------------------------------------------------------------------------
(* Requests arrive.                                                        *)

LEMMA AdmittedInv ==
    ASSUME AcInv, NEW r \in Requests, NEW q \in ReqRec, Admitted(r, q), q.fresh,
           Waits(q), Shaped(q), known => Spares(q), Checked(q)
    PROVE  AcInv'
<1>1. PICK b \in BOOLEAN : b = ~Halfway(r)
  OBVIOUS
<1>2. PICK n : n = [q EXCEPT !.fresh = b]
  OBVIOUS
<1>3. /\ n \in ReqRec /\ n.pc = q.pc /\ n.do = q.do /\ n.by = q.by /\ n.to = q.to /\ n.put = q.put
      /\ n.manages = q.manages /\ n.flag = q.flag /\ n.fresh = b
  BY <1>2 DEF ReqRec
<1>4. Goes(r, n) /\ Untouched /\ setup = "done" /\ req[r].pc = "idle"
      /\ UNCHANGED <<sessions, expired, invited, joined, dbFaults, raced>>
  BY <1>1, <1>2 DEF Admitted, Goes, Untouched
<1>5. AcSound /\ AcTyped
  BY DEF AcInv, AcSound
<1>6. /\ invited' \in BOOLEAN /\ expired' \in BOOLEAN /\ raced' \in BOOLEAN /\ dbFaults' \in Nat /\ dbFaults <= dbFaults'
      /\ sessions' \in [People -> Nat] /\ \A u \in People : sessions'[u] <= sessions[u]
  BY <1>4, <1>5 DEF AcTyped
<1>7. Shaped(n) /\ (known => Spares(n)) /\ Waits(n)
  BY <1>3 DEF Shaped, Spares, Waits
<1>8. Checked(n)'
  <2> SUFFICES ASSUME n.fresh PROVE Checked(n)'
    BY DEF Checked
  <2>1. Checked(n)
    BY <1>3 DEF Checked, Waits
  <2>2. Checked(n)' <=> Checked(n)
    BY <1>4, UntouchedSame DEF Checked, Untouched
  <2> QED
    BY <2>1, <2>2
<1>9. ReadFlag(n)'
  BY <1>7 DEF ReadFlag, Waits
<1>10. AcSound'
  BY <1>3, <1>4, <1>5, <1>6, <1>7, <1>8, <1>9, UntouchedSound
<1>11. /\ OthersStay(r) /\ req'[r] = n
       /\ \A o \in Requests \ {r} : req'[o].fresh => req[o].fresh \/ req[o].pc = "ended"
  BY <1>3, <1>4, <1>5, GoesOn
<1>12. ~Wrote(n) /\ n.pc \notin {"syncRead", "syncWrite"}
  BY <1>7 DEF Waits, Wrote
<1>13. n.fresh => \A o \in Requests \ {r} : ~Wrote(req[o])
  BY <1>1, <1>3 DEF Halfway, Wrote
<1>14. AcOrderly => AcOrderly'
  BY <1>3, <1>4, <1>5, <1>11, <1>12, <1>13, UntouchedOrderly
<1>15. AcFollowed => AcFollowed'
  BY <1>3, <1>4, <1>5, <1>6, <1>11, UntouchedFollowed
<1> QED
  BY <1>4, <1>10, <1>14, <1>15 DEF AcInv

LEMMA AskChangeInv ==
    ASSUME AcInv, NEW r \in Requests, NEW by \in {Original, Deputy, Staff}, NEW to \in {Original, Deputy, Staff},
           NEW do \in {"add", "disable", "enable", "delete", "roles", "remove"}, NEW put \in SUBSET Roles,
           do = "add" => put = {"administrator"}, do \in {"disable", "enable", "delete"} => put = {},
           AskChange(r, by, do, to, put)
    PROVE  AcInv'
<1>1. PICK m \in BOOLEAN : m = (by \in isAdmin \/ Grants(held[by]))
  OBVIOUS
<1>2. PICK q : q = [Unasked EXCEPT !.pc = IF do = "delete" THEN "purge" ELSE "write",
                                   !.do = do, !.by = by, !.to = to, !.put = put, !.manages = m]
  OBVIOUS
<1>3. /\ q.pc = (IF do = "delete" THEN "purge" ELSE "write") /\ q.do = do /\ q.by = by /\ q.to = to
      /\ q.put = put /\ q.manages = m /\ q.fresh = TRUE /\ q.flag = FALSE
      /\ q \in ReqRec
  <2>1. by \in People /\ to \in People /\ put \in SUBSET Roles /\ do \in Doings
    BY AcFacts DEF Doings
  <2> QED
    BY <1>2, <2>1 DEF Unasked, ReqRec, ReqPC
<1>4. PICK n : n = [q EXCEPT !.put = Written(q)]
  OBVIOUS
<1>5. /\ by \in users \ disabled /\ to \in users /\ (do = "enable" => to \in disabled)
      /\ Allowed(q) /\ Admitted(r, n)
  BY <1>1, <1>2, <1>4 DEF AskChange
<1>6. AcSound /\ AcTyped /\ OriginalKept
  BY DEF AcInv, AcSound
<1>7. Written(q) \in SUBSET Roles
  <2>1. held[to] \in SUBSET Roles /\ put \in SUBSET Roles
    BY <1>6, AcFacts DEF AcTyped
  <2>2. \A some \in SUBSET Roles : Kept(q, some) \in SUBSET Roles
    BY DEF Kept, Roles
  <2>3. held[q.to] \ put \in SUBSET Roles
    BY <1>3, <2>1
  <2> QED
    BY <1>3, <2>1, <2>2, <2>3 DEF Written
<1>8. /\ n.pc = q.pc /\ n.do = do /\ n.by = by /\ n.to = to /\ n.put = Written(q) /\ n.manages = m
      /\ n.fresh = TRUE /\ n.flag = FALSE /\ n \in ReqRec
  BY <1>3, <1>4, <1>7 DEF ReqRec
<1>9. Waits(n) /\ n.fresh
  BY <1>3, <1>8 DEF Waits
<1>10. setup = "done" /\ by # Guest /\ to # Guest
  BY <1>5, AcFacts DEF Admitted
<1>11. Shaped(n)
  <2>1. do = "add" => Written(q) = {"administrator"} /\ m
    BY <1>3, <1>5, AcFacts DEF Written, Allowed, MayAssign
  <2> QED
    BY <1>3, <1>8, <1>10, <2>1 DEF Shaped
<1>12. known => Spares(n)
  <2>1. known /\ do \in {"disable", "delete"} => to # Original
    BY <1>3, <1>5 DEF Allowed, Superadmin
  <2>2. known /\ do \in {"roles", "remove"} /\ to = Original => "super" \in Written(q)
    BY <1>3 DEF Written, Kept
  <2> QED
    BY <1>3, <1>8, <2>1, <2>2 DEF Spares
<1>13. m <=> IsAdmin(by)
  BY <1>1 DEF IsAdmin
<1>14. ~m => ~IsAdmin(to)
  <2>1. do = "enable" => by # to
    BY <1>5
  <2>2. do \in {"disable", "delete"} => by # to
    BY <1>3, <1>5 DEF Allowed
  <2>3. do \in {"disable", "delete", "enable", "roles", "remove"} => MayModify(q)
    BY <1>3, <1>5 DEF Allowed
  <2>4. do = "add" => MayAssign(q)
    BY <1>3, <1>5 DEF Allowed
  <2> QED
    BY <1>3, <1>13, <2>1, <2>2, <2>3, <2>4 DEF MayModify, MayAssign
<1>15. ~m => ~Grants(Written(q))
  <2> SUFFICES ASSUME ~m, Grants(Written(q)) PROVE FALSE
    OBVIOUS
  <2>1. ~IsAdmin(to) /\ ~(known /\ to = Original)
    BY <1>6, <1>14 DEF OriginalKept, OriginalStays, Admins, IsAdmin
  <2>2. do \in {"disable", "enable", "delete"} => ~Grants(Written(q))
    BY <1>3, AcFacts DEF Written
  <2>3. do \in {"roles", "add"} => ~Grants(put)
    BY <1>3, <1>5 DEF Allowed, MayAssign
  <2>4. do = "add" => Written(q) = put
    BY <1>3 DEF Written
  <2>5. do = "roles" => Written(q) = put
    BY <1>3, <2>1 DEF Written, Kept
  <2>6. do = "remove" => Written(q) = held[to] \ put
    BY <1>3, <2>1 DEF Written, Kept
  <2>7. ~Grants(held[to])
    BY <2>1 DEF IsAdmin
  <2>8. ~Grants(held[to] \ put)
    BY <2>7 DEF Grants
  <2> QED
    BY <2>2, <2>3, <2>4, <2>5, <2>6, <2>8
<1>16. do \in {"disable", "delete"} => (IsAdmin(to) => Beside(to))
  BY <1>3, <1>5, <1>6, NotLastBeside DEF Allowed, NotLast
<1>17. do \in {"roles", "remove"} => Grants(Written(q)) \/ (IsAdmin(to) => Beside(to))
  BY <1>3, <1>5, <1>6, NotLastBeside DEF Allowed, NotLast
<1>18. Checked(n)
  BY <1>8, <1>14, <1>15, <1>16, <1>17 DEF Checked
<1> QED
  BY <1>5, <1>8, <1>9, <1>11, <1>12, <1>18, AdmittedInv

LEMMA AskLoginInv ==
    ASSUME AcInv, NEW r \in Requests, NEW u \in {Deputy, Guest}, AskLogin(r, u)
    PROVE  AcInv'
<1>1. PICK q : q = [Unasked EXCEPT !.pc = "write", !.do = "login", !.by = u, !.to = u]
  OBVIOUS
<1>2. /\ q.pc = "write" /\ q.do = "login" /\ q.to = u /\ q.put = {} /\ q.fresh = TRUE /\ q \in ReqRec
  BY <1>1, AcFacts DEF Unasked, ReqRec, ReqPC, Doings
<1>3. Allowed(q) /\ Admitted(r, q)
  BY <1>1 DEF AskLogin
<1>4. setup = "done"
  BY <1>3 DEF Admitted
<1>5. Shaped(q) /\ Spares(q) /\ Waits(q)
  BY <1>2, <1>4 DEF Shaped, Spares, Waits
<1>6. Checked(q)
  BY <1>2, <1>3 DEF Checked, Allowed
<1> QED
  BY <1>2, <1>3, <1>5, <1>6, AdmittedInv

LEMMA AskJoinInv ==
    ASSUME AcInv, NEW r \in Requests, NEW u \in Newcomers, AskJoin(r, u)
    PROVE  AcInv'
<1>1. PICK q : q = [Unasked EXCEPT !.pc = "write", !.do = "join", !.by = u, !.to = u]
  OBVIOUS
<1>2. /\ q.pc = "write" /\ q.do = "join" /\ q.to = u /\ q.put = {} /\ q.fresh = TRUE /\ q \in ReqRec
  BY <1>1, AcFacts DEF Unasked, ReqRec, ReqPC, Doings
<1>3. Allowed(q) /\ Admitted(r, q)
  BY <1>1 DEF AskJoin
<1>4. setup = "done"
  BY <1>3 DEF Admitted
<1>5. Shaped(q) /\ Spares(q) /\ Waits(q)
  BY <1>2, <1>4 DEF Shaped, Spares, Waits
<1>6. Checked(q)
  BY <1>2, <1>3 DEF Checked, Allowed
<1> QED
  BY <1>2, <1>3, <1>5, <1>6, AdmittedInv

LEMMA SweepInv ==
    ASSUME AcInv, NEW r \in Requests, Sweep(r)
    PROVE  AcInv'
<1>1. PICK q : q = [Unasked EXCEPT !.pc = "write", !.do = "disable", !.to = Guest]
  OBVIOUS
<1>2. /\ q.pc = "write" /\ q.do = "disable" /\ q.to = Guest /\ q.put = {} /\ q.fresh = TRUE /\ q \in ReqRec
  BY <1>1, AcFacts DEF Unasked, ReqRec, ReqPC, Doings
<1>3. Admitted(r, q)
  BY <1>1 DEF Sweep
<1>4. setup = "done"
  BY <1>3 DEF Admitted
<1>5. Shaped(q) /\ Spares(q) /\ Waits(q)
  BY <1>2, <1>4, AcFacts DEF Shaped, Spares, Waits
<1>6. ~IsAdmin(Guest)
  BY AcFacts DEF AcInv, AcSound, Rightless, IsAdmin
<1>7. Checked(q)
  BY <1>2, <1>6, AcFacts DEF Checked
<1> QED
  BY <1>2, <1>3, <1>5, <1>7, AdmittedInv

-----------------------------------------------------------------------------
(* The steps of a request.                                                 *)

LEMMA SyncReadInv ==
    ASSUME AcInv, NEW r \in Requests, SyncRead(r)
    PROVE  AcInv'
<1>1. AcSound /\ AcTyped /\ Shapes /\ OriginalKept
  BY DEF AcInv, AcSound
<1>2. PICK g \in BOOLEAN : g = Grants(held[req[r].to])
  BY DEF Grants
<1>3. PICK w \in ReqRec : w = req[r]
  BY <1>1, ReqTypes
<1>4. PICK q : q = [w EXCEPT !.pc = "syncWrite", !.flag = g, !.fresh = TRUE]
  OBVIOUS
<1>5. /\ q.pc = "syncWrite" /\ q.flag = g /\ q.fresh = TRUE /\ q.do = w.do /\ q.to = w.to /\ q.put = w.put
      /\ q.manages = w.manages /\ q \in ReqRec
  BY <1>4 DEF ReqRec, ReqPC
<1>6. Goes(r, q) /\ Untouched /\ UNCHANGED <<sessions, expired, invited, joined, dbFaults, raced>>
      /\ w.pc = "syncRead"
  <2>1. req' = [req EXCEPT ![r] = [req[r] EXCEPT !.pc = "syncWrite", !.flag = g, !.fresh = TRUE]]
    BY <1>2 DEF SyncRead
  <2> QED
    BY <1>3, <1>4, <2>1 DEF SyncRead, Goes, Untouched
<1>7. Shaped(w) /\ (known => Spares(w)) /\ setup = "done"
  BY <1>1, <1>3, <1>6 DEF Shapes, Shaped, OriginalKept
<1>8. Shaped(q) /\ ~Waits(q) /\ Wrote(w)
  BY <1>5, <1>6, <1>7 DEF Shaped, Waits, Wrote
<1>9. known => Spares(q)
  BY <1>2, <1>3, <1>5, <1>6, <1>7 DEF Spares
<1>10. Checked(q)' /\ ReadFlag(q)'
  BY <1>2, <1>3, <1>5, <1>6, <1>8 DEF Checked, ReadFlag, Untouched, Waits
<1>11. /\ OthersStay(r) /\ req'[r] = q
       /\ \A o \in Requests \ {r} : req'[o].fresh => req[o].fresh \/ req[o].pc = "ended"
  BY <1>1, <1>5, <1>6, GoesOn
<1>12. /\ invited' \in BOOLEAN /\ expired' \in BOOLEAN /\ raced' \in BOOLEAN /\ dbFaults' \in Nat /\ dbFaults <= dbFaults'
       /\ sessions' \in [People -> Nat] /\ \A u \in People : sessions'[u] <= sessions[u]
  BY <1>1, <1>6 DEF AcTyped
<1>13. AcSound'
  BY <1>1, <1>3, <1>5, <1>6, <1>7, <1>8, <1>9, <1>10, <1>12, UntouchedSound
<1>14. AcOrderly => AcOrderly'
  BY <1>1, <1>3, <1>5, <1>6, <1>8, <1>11, UntouchedOrderly
<1>15. AcFollowed => AcFollowed'
  BY <1>1, <1>3, <1>5, <1>6, <1>11, <1>12, UntouchedFollowed
<1> QED
  BY <1>6, <1>13, <1>14, <1>15 DEF AcInv

LEMMA PurgeInv ==
    ASSUME AcInv, NEW r \in Requests, Purge(r)
    PROVE  AcInv'
<1>1. AcSound /\ AcTyped /\ Shapes /\ OriginalKept
  BY DEF AcInv, AcSound
<1>2. PICK w \in ReqRec : w = req[r]
  BY <1>1, ReqTypes
<1>3. PICK q : q = IF w.do = "delete" THEN [w EXCEPT !.pc = "remove"] ELSE Answered
  OBVIOUS
<1>4. /\ q \in ReqRec
      /\ w.do = "delete" => /\ q.pc = "remove" /\ q.do = w.do /\ q.to = w.to /\ q.put = w.put
                            /\ q.manages = w.manages /\ q.fresh = w.fresh
      /\ w.do # "delete" => q = Answered
  BY <1>3, BlankTypes DEF ReqRec, ReqPC
<1>5. Goes(r, q) /\ Untouched /\ UNCHANGED <<expired, invited, joined, raced>> /\ w.pc = "purge"
  <2>1. req' = [req EXCEPT ![r] = IF req[r].do = "delete" THEN [req[r] EXCEPT !.pc = "remove"] ELSE Answered]
    BY DEF Purge
  <2> QED
    BY <1>2, <1>3, <2>1 DEF Purge, Goes, Untouched
<1>6. Shaped(w) /\ (known => Spares(w)) /\ setup = "done" /\ Checked(w) /\ w.do \in {"disable", "delete"} /\ w.to \in People
  BY <1>1, <1>2, <1>5 DEF Shapes, Shaped, OriginalKept, AcSound, ChecksHold, ReqRec
<1>7. /\ dbFaults' \in Nat /\ dbFaults <= dbFaults'
      /\ (sessions' = [sessions EXCEPT ![w.to] = 0] /\ dbFaults' = dbFaults) \/ (dbFaults' > 0 /\ sessions' = sessions)
  BY <1>1, <1>2 DEF Purge, DbFault, NoFault, AcTyped
<1>8. /\ sessions' \in [People -> Nat] /\ \A u \in People : sessions'[u] <= sessions[u]
      /\ dbFaults' = 0 => sessions'[w.to] = 0
  BY <1>1, <1>6, <1>7 DEF AcTyped
<1>9. Shaped(q) /\ (known => Spares(q)) /\ (Waits(q) => Waits(w) /\ w.do = "delete") /\ ~Wrote(q)
  BY <1>4, <1>5, <1>6, BlankTypes DEF Shaped, Spares, Waits, Wrote
<1>10. Checked(q)' /\ ReadFlag(q)'
  <2>1. ReadFlag(q)'
    BY <1>4, <1>5, <1>6, BlankTypes DEF ReadFlag
  <2>2. ASSUME Waits(q), q.fresh PROVE Checked(q)'
    <3>1. w.do = "delete" /\ Waits(w) /\ w.fresh
      BY <1>4, <1>9, <2>2
    <3>2. Checked(q)
      BY <1>4, <1>6, <3>1 DEF Checked
    <3> QED
      BY <1>4, <1>5, <3>1, <3>2, UntouchedSame DEF Checked
  <2> QED
    BY <2>1, <2>2 DEF Checked, Waits
<1>11. /\ OthersStay(r) /\ req'[r] = q
       /\ \A o \in Requests \ {r} : req'[o].fresh => req[o].fresh \/ req[o].pc = "ended"
  BY <1>1, <1>4, <1>5, GoesOn
<1>12. invited' \in BOOLEAN /\ expired' \in BOOLEAN /\ raced' \in BOOLEAN
  BY <1>1, <1>5 DEF AcTyped
<1>13. AcSound'
  BY <1>1, <1>2, <1>4, <1>5, <1>6, <1>7, <1>8, <1>9, <1>10, <1>12, UntouchedSound
<1>14. ASSUME AcOrderly PROVE AcOrderly'
  <2>1. Waits(q) /\ q.fresh => \A o \in Requests \ {r} : ~Wrote(req[o])
    BY <1>2, <1>4, <1>9, <1>14, FirstToWrite DEF AcOrderly
  <2>2. q.pc \notin {"syncRead", "syncWrite"}
    BY <1>9 DEF Wrote
  <2> QED
    BY <1>1, <1>2, <1>4, <1>5, <1>9, <1>11, <1>14, <2>1, <2>2, UntouchedOrderly
<1>15. ASSUME AcFollowed, dbFaults' = 0 PROVE AcFollowed'
  BY <1>1, <1>2, <1>4, <1>5, <1>8, <1>11, <1>15, UntouchedFollowed
<1>16. dbFaults > 0 => dbFaults' > 0
  BY <1>1, <1>7 DEF AcTyped
<1>17. dbFaults' > 0 \/ dbFaults' = 0
  BY <1>7
<1> QED
  BY <1>5, <1>13, <1>14, <1>15, <1>16, <1>17 DEF AcInv

LEMMA WriterOrderly ==
    ASSUME AcTyped, AcOrderly, NEW r \in Requests, NEW q \in ReqRec, OthersStay(r), req'[r] = q,
           \A o \in Requests \ {r} : req[o].pc = "ended" \/ ~req'[o].fresh,
           \A o \in Requests \ {r} : ~Wrote(req[o]),
           ~Waits(q), Admins' # {},
           q.pc \in {"syncRead", "syncWrite"} => Grants(held'[q.to]) \/ Admins' \ {q.to} # {}
    PROVE  AcOrderly'
<1>1. \A o \in Requests \ {r} : Waits(req[o]) => ~req'[o].fresh
  BY DEF Waits
<1>2. Alone'
  BY <1>1, AloneAfter DEF AcOrderly
<1>3. ASSUME NEW u \in People, Following(u)' PROVE (Grants(held[u]) \/ Beside(u))'
  <2>1. PICK o \in Requests : req'[o].pc \in {"syncRead", "syncWrite"} /\ req'[o].to = u
    BY <1>3 DEF Following
  <2>2. o = r
    BY <2>1 DEF OthersStay, Wrote
  <2> QED
    BY <2>1, <2>2 DEF Beside
<1> QED
  BY <1>2, <1>3 DEF AcOrderly, AdminBeside

\* What follows a write of r that becomes q.
LEMMA FlagFrame ==
    ASSUME FlagFollows, setup = "done", NEW r \in Requests, NEW q, OthersStay(r), req'[r] = q,
           \A u \in users' : \/ u \in isAdmin' <=> Grants(held'[u])
                             \/ q.pc \in {"syncRead", "syncWrite"} /\ q.to = u
                             \/ /\ u \in users /\ ~(u \in isAdmin <=> Grants(held[u]))
                                /\ ~(req[r].pc \in {"syncRead", "syncWrite"} /\ req[r].to = u)
    PROVE  FlagFollows'
<1> SUFFICES ASSUME NEW u \in users' PROVE (u \in isAdmin' <=> Grants(held'[u])) \/ Following(u)'
  BY DEF FlagFollows
<1>1. CASE q.pc \in {"syncRead", "syncWrite"} /\ q.to = u
  BY <1>1 DEF Following
<1>2. CASE /\ u \in users /\ ~(u \in isAdmin <=> Grants(held[u]))
           /\ ~(req[r].pc \in {"syncRead", "syncWrite"} /\ req[r].to = u)
  <2>1. PICK o \in Requests : req[o].pc \in {"syncRead", "syncWrite"} /\ req[o].to = u
    BY <1>2 DEF FlagFollows, Following
  <2>2. req'[o].pc \in {"syncRead", "syncWrite"} /\ req'[o].to = u
    BY <1>2, <2>1 DEF OthersStay
  <2> QED
    BY <2>2 DEF Following
<1> QED
  BY <1>1, <1>2

LEMMA SessionsFrame ==
    ASSUME NEW r \in Requests, NEW q, OthersStay(r), req'[r] = q,
           \A u \in users' : /\ sessions'[u] <= Devices
                             /\ \/ u \notin disabled' \/ sessions'[u] = 0
                                \/ q.pc = "purge" /\ q.do = "disable" /\ q.to = u
                                \/ Purging(u) /\ req[r].pc # "purge"
    PROVE  SessionsEnd'
<1> SUFFICES ASSUME NEW u \in users', u \in disabled', Purging(u), req[r].pc # "purge" PROVE Purging(u)'
  BY DEF SessionsEnd, Purging
<1>1. PICK o \in Requests : req[o].pc = "purge" /\ req[o].do = "disable" /\ req[o].to = u
  BY DEF Purging
<1>2. req'[o].pc = "purge" /\ req'[o].do = "disable" /\ req'[o].to = u
  BY <1>1 DEF OthersStay
<1> QED
  BY <1>2 DEF Purging

LEMMA JoinedFrame ==
    ASSUME OneJoined, NEW r \in Requests, OthersStay(r), ~(req[r].pc = "remove" /\ req[r].do = "join"),
           UNCHANGED <<joined, invited>>
    PROVE  OneJoined'
<1>1. Marking => Marking'
  BY DEF Marking, OthersStay
<1> QED
  BY <1>1 DEF OneJoined

\* What a request that is about to write is.
LEMMA AboutToWrite ==
    ASSUME AcInv, NEW r \in Requests, Write(r)
    PROVE  /\ AcSound /\ AcTyped /\ Shapes /\ OriginalKept /\ Rightless /\ Counted
           /\ req[r] \in ReqRec /\ req[r].pc = "write" /\ setup = "done" /\ Waits(req[r])
           /\ Shaped(req[r]) /\ Checked(req[r]) /\ (known => Spares(req[r])) /\ req[r].to \in People
           /\ UNCHANGED <<known, setup, expired, invited, dbFaults>> /\ dbFaults' \in Nat /\ dbFaults <= dbFaults'
           /\ raced' \in BOOLEAN /\ (~raced' => ~raced /\ req[r].fresh) /\ (raced' \/ (raced' = FALSE))
           /\ ~raced' => AcOrderly /\ \A o \in Requests \ {r} : ~Wrote(req[o])
           /\ ~raced' /\ dbFaults' = 0 => AcFollowed
<1>1. AcSound /\ AcTyped /\ Shapes /\ OriginalKept /\ Rightless /\ Counted /\ ChecksHold
  BY DEF AcInv, AcSound
<1>2. req[r] \in ReqRec /\ req[r].to \in People /\ req[r].fresh \in BOOLEAN
  BY <1>1, ReqTypes
<1>3. /\ req[r].pc = "write" /\ UNCHANGED <<known, setup, expired, invited, dbFaults>>
      /\ raced' = (raced \/ ~req[r].fresh)
  BY DEF Write
<1>4. Shaped(req[r]) /\ Checked(req[r]) /\ (known => Spares(req[r]))
  BY <1>1 DEF Shapes, ChecksHold, OriginalKept
<1>5. setup = "done" /\ Waits(req[r])
  BY <1>3, <1>4 DEF Shaped, Waits
<1>6. dbFaults' \in Nat /\ dbFaults <= dbFaults' /\ raced \in BOOLEAN
  BY <1>1, <1>3 DEF AcTyped
<1>7. raced' \in BOOLEAN /\ (~raced' => ~raced /\ req[r].fresh)
  BY <1>2, <1>3, <1>6
<1>8. ~raced' => AcOrderly
  BY <1>7 DEF AcInv
<1>9. ~raced' => \A o \in Requests \ {r} : ~Wrote(req[o])
  BY <1>5, <1>7, <1>8, FirstToWrite DEF AcOrderly
<1>10. ~raced' /\ dbFaults' = 0 => AcFollowed
  BY <1>3, <1>7 DEF AcInv
<1> QED
  BY <1>1, <1>2, <1>3, <1>4, <1>5, <1>6, <1>7, <1>8, <1>9, <1>10

LEMMA WriteGoneInv ==
    ASSUME AcInv, NEW r \in Requests, Write(r), req[r].do # "join", req[r].to \notin users
    PROVE  AcInv'
<1>1. /\ AcSound /\ AcTyped /\ req[r].pc = "write" /\ setup = "done"
      /\ raced' \in BOOLEAN /\ dbFaults' \in Nat /\ dbFaults <= dbFaults'
      /\ UNCHANGED <<known, setup, expired, invited, dbFaults>>
      /\ ~raced' => AcOrderly
      /\ ~raced' /\ dbFaults' = 0 => AcFollowed
  BY AboutToWrite
<1>2. Goes(r, Answered) /\ Untouched /\ UNCHANGED <<sessions, joined>>
  BY <1>1 DEF Write, Goes, Untouched
<1>3. /\ Answered \in ReqRec /\ Answered.pc = "ended" /\ Shaped(Answered) /\ Spares(Answered)
      /\ ~Waits(Answered) /\ ~Wrote(Answered) /\ Checked(Answered)' /\ ReadFlag(Answered)'
  BY <1>1, BlankTypes DEF Shaped, Spares, Waits, Wrote, Checked, ReadFlag
<1>4. invited' \in BOOLEAN /\ expired' \in BOOLEAN /\ sessions' \in [People -> Nat]
      /\ \A u \in People : sessions'[u] <= sessions[u]
  BY <1>1, <1>2 DEF AcTyped
<1>5. AcSound'
  BY <1>1, <1>2, <1>3, <1>4, UntouchedSound
<1>6. /\ OthersStay(r) /\ req'[r] = Answered
      /\ \A o \in Requests \ {r} : req'[o].fresh => req[o].fresh \/ req[o].pc = "ended"
  BY <1>1, <1>2, <1>3, GoesOn
<1>7. ~raced' => AcOrderly'
  BY <1>1, <1>2, <1>3, <1>6, UntouchedOrderly
<1>8. ~raced' /\ dbFaults' = 0 => AcFollowed'
  BY <1>1, <1>2, <1>3, <1>4, <1>6, UntouchedFollowed
<1>9. dbFaults' > 0 \/ dbFaults' = 0
  BY <1>1
<1> QED
  BY <1>5, <1>7, <1>8, <1>9 DEF AcInv

LEMMA WriteSessionInv ==
    ASSUME AcInv, NEW r \in Requests, Write(r), req[r].do = "login", req[r].to \in users, WriteSession(r)
    PROVE  AcInv'
<1>1. /\ AcSound /\ AcTyped /\ Rightless /\ Counted /\ OriginalKept /\ req[r].pc = "write" /\ setup = "done"
      /\ raced' \in BOOLEAN /\ dbFaults' \in Nat /\ dbFaults <= dbFaults'
      /\ UNCHANGED <<known, setup, expired, invited, dbFaults>> /\ req[r].to \in People
      /\ ~raced' => AcOrderly /\ (\A o \in Requests \ {r} : ~Wrote(req[o])) /\ req[r].fresh
      /\ ~raced' /\ dbFaults' = 0 => AcFollowed
      /\ Checked(req[r]) /\ Waits(req[r])
  BY AboutToWrite
<1>2. PICK v \in People : v = req[r].to
  BY <1>1
<1>3. /\ Writes(r, Answered) /\ Untouched /\ UNCHANGED joined
      /\ sessions' = [sessions EXCEPT ![v] = @ + 1]
  BY <1>1, <1>2 DEF WriteSession, Writes, Untouched
<1>4. /\ Answered \in ReqRec /\ Answered.pc = "ended" /\ Answered.do = "none"
      /\ Shaped(Answered) /\ Spares(Answered)' /\ ~Waits(Answered) /\ Checked(Answered)' /\ ReadFlag(Answered)'
  BY <1>1, BlankTypes DEF Shaped, Spares, Waits, Checked, ReadFlag
<1>5. /\ OthersStay(r) /\ req'[r] = Answered
      /\ \A o \in Requests \ {r} : req[o].pc = "ended" \/ ~req'[o].fresh
  BY <1>1, <1>3, <1>4, Overtakes
<1>6. /\ sessions' \in [People -> Nat]
      /\ \A u \in People : sessions'[u] = IF u = v THEN sessions[u] + 1 ELSE sessions[u]
  BY <1>1, <1>3 DEF AcTyped
<1>7. Counted'
  BY <1>1, <1>3, <1>4, <1>5, CountedUp
<1>8. Rightless'
  BY <1>1, <1>2, <1>3, <1>6 DEF Rightless, Untouched
<1>9. known => OriginalStays'
  BY <1>1, <1>3, UntouchedSame DEF OriginalKept, OriginalStays, Untouched
<1>10. AcSound'
  <2>1. /\ users' \in SUBSET People /\ isAdmin' \in SUBSET users' /\ disabled' \in SUBSET users'
        /\ joined' \in SUBSET Newcomers /\ held' \in [People -> SUBSET Roles] /\ held' = held
    BY <1>1, <1>3 DEF AcTyped, Untouched
  <2> QED
    BY <1>1, <1>3, <1>4, <1>6, <1>7, <1>8, <1>9, <2>1, WriterSound
<1>11. ~raced' => AcOrderly'
  <2>1. ~raced' => Admins' # {}
    BY <1>1, <1>3, UntouchedSame DEF AcOrderly, AdminBeside
  <2> QED
    BY <1>1, <1>4, <1>5, <2>1, WriterOrderly
<1>12. ASSUME ~raced', dbFaults' = 0 PROVE AcFollowed'
  <2>1. AcFollowed
    BY <1>1, <1>12
  <2>2. FlagFollows'
    BY <1>1, <1>3, <1>5, <2>1, FlagFrame DEF AcFollowed, FlagFollows, Following, Untouched, OthersStay
  <2>3. sessions[v] < Devices /\ v \notin disabled
    BY <1>1, <1>2, <1>12 DEF Checked
  <2>4. SessionsEnd'
    <3>1. ASSUME NEW u \in users'
          PROVE  /\ sessions'[u] <= Devices
                 /\ \/ u \notin disabled' \/ sessions'[u] = 0
                    \/ Purging(u) /\ req[r].pc # "purge"
      <4>1. u \in People /\ u \in users /\ disabled' = disabled /\ sessions[u] \in Nat /\ Devices \in Nat
        BY <1>1, <1>3, AccountsAssumption DEF AcTyped, Untouched
      <4>2. sessions[u] <= Devices /\ (u \in disabled => sessions[u] = 0 \/ Purging(u))
        BY <2>1, <4>1 DEF AcFollowed, SessionsEnd
      <4>3. CASE u = v
        BY <1>6, <2>3, <4>1, <4>3
      <4>4. CASE u # v
        BY <1>1, <1>6, <4>1, <4>2, <4>4
      <4> QED
        BY <4>3, <4>4
    <3> QED
      BY <1>5, <3>1, SessionsFrame
  <2>5. OneJoined'
    BY <1>1, <1>3, <1>5, <2>1, JoinedFrame DEF AcFollowed
  <2> QED
    BY <2>2, <2>4, <2>5 DEF AcFollowed
<1>13. dbFaults' > 0 \/ dbFaults' = 0
  BY <1>1
<1> QED
  BY <1>10, <1>11, <1>12, <1>13 DEF AcInv

LEMMA WriteUserInv ==
    ASSUME AcInv, NEW r \in Requests, Write(r), req[r].do = "join", WriteUser(r)
    PROVE  AcInv'
<1>1. /\ AcSound /\ AcTyped /\ Rightless /\ Counted /\ OriginalKept /\ req[r].pc = "write" /\ setup = "done"
      /\ raced' \in BOOLEAN /\ dbFaults' \in Nat /\ dbFaults <= dbFaults'
      /\ UNCHANGED <<known, setup, expired, invited, dbFaults>> /\ req[r] \in ReqRec
      /\ ~raced' => AcOrderly /\ (\A o \in Requests \ {r} : ~Wrote(req[o])) /\ req[r].fresh
      /\ ~raced' /\ dbFaults' = 0 => AcFollowed
      /\ Checked(req[r]) /\ Waits(req[r]) /\ Shaped(req[r])
  BY AboutToWrite
<1>2. PICK w \in ReqRec : w = req[r]
  BY <1>1
<1>3. PICK v : v = w.to
  OBVIOUS
<1>4. v \in Newcomers /\ v \in People /\ v # Original /\ v # Guest
  BY <1>1, <1>2, <1>3, AcFacts DEF Shaped
<1>5. PICK q : q = [w EXCEPT !.pc = "remove"]
  OBVIOUS
<1>6. q \in ReqRec /\ q.pc = "remove" /\ q.do = "join" /\ q.to = v
  BY <1>2, <1>3, <1>5 DEF ReqRec, ReqPC
<1>7. /\ Writes(r, q) /\ UNCHANGED <<held, isAdmin, disabled, sessions>>
      /\ users' = users \cup {v} /\ joined' = joined \cup {v}
  BY <1>2, <1>3, <1>5 DEF WriteUser, Writes
<1>8. /\ Shaped(q) /\ Spares(q)' /\ ~Waits(q) /\ Checked(q)' /\ ReadFlag(q)'
  BY <1>1, <1>4, <1>6 DEF Shaped, Spares, Waits, Checked, ReadFlag
<1>9. /\ OthersStay(r) /\ req'[r] = q
      /\ \A o \in Requests \ {r} : req[o].pc = "ended" \/ ~req'[o].fresh
  BY <1>1, <1>6, <1>7, Overtakes
<1>10. Counted'
  <2>1. \A u \in People : sessions'[u] \in Nat /\ sessions'[u] <= sessions[u]
    BY <1>1, <1>7 DEF AcTyped
  <2> QED
    BY <1>1, <1>6, <1>9, <2>1, CountedKept
<1>11. Rightless'
  BY <1>1, <1>7 DEF Rightless
<1>12. Admins' = Admins
  BY <1>1, <1>4, <1>7, AcFacts DEF Admins, Rightless, AcTyped
<1>13. known => OriginalStays'
  BY <1>1, <1>7, <1>12 DEF OriginalKept, OriginalStays
<1>14. AcSound'
  <2>1. /\ users' \in SUBSET People /\ isAdmin' \in SUBSET users' /\ disabled' \in SUBSET users'
        /\ joined' \in SUBSET Newcomers /\ held' \in [People -> SUBSET Roles] /\ held' = held
        /\ sessions' \in [People -> Nat]
    BY <1>1, <1>4, <1>7 DEF AcTyped
  <2> QED
    BY <1>1, <1>6, <1>7, <1>8, <1>10, <1>11, <1>13, <2>1, WriterSound
<1>15. ~raced' => AcOrderly'
  <2>1. ~raced' => Admins' # {}
    BY <1>1, <1>12 DEF AcOrderly, AdminBeside
  <2> QED
    BY <1>1, <1>6, <1>8, <1>9, <2>1, WriterOrderly
<1>16. ASSUME ~raced', dbFaults' = 0 PROVE AcFollowed'
  <2>1. AcFollowed
    BY <1>1, <1>16
  <2>2. FlagFollows'
    <3>1. ASSUME NEW u \in users'
          PROVE  \/ u \in isAdmin' <=> Grants(held'[u])
                 \/ /\ u \in users /\ ~(u \in isAdmin <=> Grants(held[u]))
                    /\ ~(req[r].pc \in {"syncRead", "syncWrite"} /\ req[r].to = u)
      <4>1. CASE u = v
        BY <1>1, <1>4, <1>7, <4>1, AcFacts DEF Rightless
      <4>2. CASE u # v
        BY <1>1, <1>7, <4>2
      <4> QED
        BY <4>1, <4>2
    <3> QED
      BY <1>1, <1>9, <2>1, <3>1, FlagFrame DEF AcFollowed
  <2>3. SessionsEnd'
    <3>1. ASSUME NEW u \in users'
          PROVE  /\ sessions'[u] <= Devices
                 /\ \/ u \notin disabled' \/ sessions'[u] = 0
                    \/ Purging(u) /\ req[r].pc # "purge"
      <4>1. CASE u \in users
        BY <1>1, <1>7, <2>1, <4>1 DEF AcFollowed, SessionsEnd
      <4>2. CASE u \notin users
        <5>1. u \in People \ users
          BY <1>4, <1>7, <4>2
        <5> QED
          BY <1>1, <1>7, <5>1, AccountsAssumption DEF Rightless
      <4> QED
        BY <4>1, <4>2
    <3> QED
      BY <1>9, <3>1, SessionsFrame
  <2>4. OneJoined'
    <3>1. ~invited
      BY <1>1, <1>2, <1>6, <1>16 DEF Checked
    <3>2. ~Marking
      <4> SUFFICES ASSUME NEW o \in Requests, req[o].pc = "remove", req[o].do = "join" PROVE FALSE
        BY DEF Marking
      <4>1. Wrote(req[o]) /\ o # r
        BY <1>1 DEF Wrote
      <4> QED
        BY <1>1, <1>16, <4>1
    <3>3. joined = {}
      BY <2>1, <3>1, <3>2 DEF AcFollowed, OneJoined
    <3>4. Marking'
      BY <1>6, <1>9 DEF Marking
    <3> QED
      BY <1>4, <1>7, <3>3, <3>4 DEF OneJoined
  <2> QED
    BY <2>2, <2>3, <2>4 DEF AcFollowed
<1>17. dbFaults' > 0 \/ dbFaults' = 0
  BY <1>1
<1> QED
  BY <1>14, <1>15, <1>16, <1>17 DEF AcInv

LEMMA WriteFlagInv ==
    ASSUME AcInv, NEW r \in Requests, Write(r), req[r].do \in {"disable", "enable"}, req[r].to \in users, WriteFlag(r)
    PROVE  AcInv'
<1>1. /\ AcSound /\ AcTyped /\ Rightless /\ Counted /\ OriginalKept /\ req[r].pc = "write" /\ setup = "done"
      /\ raced' \in BOOLEAN /\ dbFaults' \in Nat /\ dbFaults <= dbFaults'
      /\ UNCHANGED <<known, setup, expired, invited, dbFaults>> /\ req[r] \in ReqRec
      /\ ~raced' => AcOrderly /\ (\A o \in Requests \ {r} : ~Wrote(req[o])) /\ req[r].fresh
      /\ ~raced' /\ dbFaults' = 0 => AcFollowed
      /\ Checked(req[r]) /\ Waits(req[r]) /\ Shaped(req[r]) /\ (known => Spares(req[r]))
  BY AboutToWrite
<1>2. PICK w \in ReqRec : w = req[r]
  BY <1>1
<1>3. PICK v : v = w.to
  OBVIOUS
<1>4. v \in users /\ v \in People
  BY <1>1, <1>2, <1>3 DEF AcTyped
<1>5. PICK q : q = IF w.do = "disable" THEN [w EXCEPT !.pc = "purge"] ELSE Answered
  OBVIOUS
<1>6. /\ q \in ReqRec
      /\ w.do = "disable" => q.pc = "purge" /\ q.do = "disable" /\ q.to = v
      /\ w.do = "enable" => q = Answered
  BY <1>2, <1>3, <1>5, BlankTypes DEF ReqRec, ReqPC
<1>7. /\ Writes(r, q) /\ UNCHANGED <<users, held, isAdmin, sessions, joined>>
      /\ disabled' = IF w.do = "disable" THEN disabled \cup {v} ELSE disabled \ {v}
  BY <1>2, <1>3, <1>5 DEF WriteFlag, Writes
<1>8. /\ Shaped(q) /\ (known => Spares(q)') /\ ~Waits(q) /\ Checked(q)' /\ ReadFlag(q)'
      /\ q.pc \notin {"syncRead", "syncWrite"}
  <2>1. CASE w.do = "disable"
    <3>1. v \in {Original, Deputy, Staff, Guest}
      BY <1>1, <1>2, <1>3, <2>1 DEF Shaped
    <3>2. Shaped(q)
      BY <1>1, <1>6, <2>1, <3>1 DEF Shaped
    <3>3. known => v # Original
      BY <1>1, <1>2, <1>3, <2>1 DEF Spares
    <3> QED
      BY <1>6, <2>1, <3>2, <3>3 DEF Spares, Waits, Checked, ReadFlag
  <2>2. CASE w.do = "enable"
    BY <1>1, <1>6, <2>2, BlankTypes DEF Shaped, Spares, Waits, Checked, ReadFlag
  <2> QED
    BY <1>1, <1>2, <2>1, <2>2
<1>9. known => v # Original \/ w.do = "enable"
  BY <1>1, <1>2, <1>3 DEF Spares
<1>10. /\ OthersStay(r) /\ req'[r] = q
       /\ \A o \in Requests \ {r} : req[o].pc = "ended" \/ ~req'[o].fresh
  BY <1>1, <1>6, <1>7, Overtakes
<1>11. Counted'
  <2>1. \A u \in People : sessions'[u] \in Nat /\ sessions'[u] <= sessions[u]
    BY <1>1, <1>7 DEF AcTyped
  <2> QED
    BY <1>1, <1>6, <1>10, <2>1, CountedKept
<1>12. Rightless'
  BY <1>1, <1>7 DEF Rightless
<1>13. /\ Admins \ {v} \subseteq Admins' /\ (w.do = "enable" => Admins \subseteq Admins')
       /\ ~IsAdmin(v) => Admins' = Admins
  BY <1>7 DEF Admins, IsAdmin
<1>14. known => OriginalStays'
  <2> SUFFICES ASSUME known PROVE OriginalStays'
    OBVIOUS
  <2>1. Original \in Admins'
    BY <1>1, <1>2, <1>9, <1>13 DEF OriginalKept, OriginalStays
  <2> QED
    BY <1>1, <1>7, <2>1 DEF OriginalKept, OriginalStays
<1>15. AcSound'
  <2>1. /\ users' \in SUBSET People /\ isAdmin' \in SUBSET users' /\ disabled' \in SUBSET users'
        /\ joined' \in SUBSET Newcomers /\ held' \in [People -> SUBSET Roles] /\ held' = held
        /\ sessions' \in [People -> Nat]
    BY <1>1, <1>4, <1>7 DEF AcTyped
  <2> QED
    BY <1>1, <1>6, <1>7, <1>8, <1>11, <1>12, <1>14, <2>1, WriterSound
<1>16. ~raced' => AcOrderly'
  <2> SUFFICES ASSUME ~raced' PROVE AcOrderly'
    OBVIOUS
  <2>1. Admins # {}
    BY <1>1 DEF AcOrderly, AdminBeside
  <2>2. w.do = "disable" => (IsAdmin(v) => Admins \ {v} # {})
    BY <1>1, <1>2, <1>3 DEF Checked, Beside
  <2>3. Admins' # {}
    BY <1>1, <1>2, <1>13, <2>1, <2>2
  <2> QED
    BY <1>1, <1>6, <1>8, <1>10, <2>3, WriterOrderly
<1>17. ASSUME ~raced', dbFaults' = 0 PROVE AcFollowed'
  <2>1. AcFollowed
    BY <1>1, <1>17
  <2>2. FlagFollows'
    BY <1>1, <1>7, <1>10, <2>1, FlagFrame DEF AcFollowed
  <2>3. SessionsEnd'
    <3>1. ASSUME NEW u \in users'
          PROVE  /\ sessions'[u] <= Devices
                 /\ \/ u \notin disabled' \/ sessions'[u] = 0
                    \/ q.pc = "purge" /\ q.do = "disable" /\ q.to = u
                    \/ Purging(u) /\ req[r].pc # "purge"
      <4>1. sessions[u] <= Devices /\ (u \in disabled => sessions[u] = 0 \/ Purging(u))
        BY <1>7, <2>1 DEF AcFollowed, SessionsEnd
      <4>2. CASE u = v /\ w.do = "disable"
        BY <1>6, <1>7, <4>1, <4>2
      <4>3. CASE u # v \/ w.do # "disable"
        BY <1>1, <1>7, <4>1, <4>3
      <4> QED
        BY <4>2, <4>3
    <3> QED
      BY <1>10, <3>1, SessionsFrame
  <2>4. OneJoined'
    BY <1>1, <1>7, <1>10, <2>1, JoinedFrame DEF AcFollowed
  <2> QED
    BY <2>2, <2>3, <2>4 DEF AcFollowed
<1>18. dbFaults' > 0 \/ dbFaults' = 0
  BY <1>1
<1> QED
  BY <1>15, <1>16, <1>17, <1>18 DEF AcInv

LEMMA WriteRolesInv ==
    ASSUME AcInv, NEW r \in Requests, Write(r), req[r].do \in {"roles", "add", "remove"}, req[r].to \in users,
           WriteRoles(r)
    PROVE  AcInv'
<1>1. /\ AcSound /\ AcTyped /\ Rightless /\ Counted /\ OriginalKept /\ req[r].pc = "write" /\ setup = "done"
      /\ raced' \in BOOLEAN /\ dbFaults' \in Nat /\ dbFaults <= dbFaults'
      /\ UNCHANGED <<known, setup, expired, invited, dbFaults>> /\ req[r] \in ReqRec
      /\ ~raced' => AcOrderly /\ (\A o \in Requests \ {r} : ~Wrote(req[o])) /\ req[r].fresh
      /\ ~raced' /\ dbFaults' = 0 => AcFollowed
      /\ Checked(req[r]) /\ Waits(req[r]) /\ Shaped(req[r]) /\ (known => Spares(req[r]))
  BY AboutToWrite
<1>2. PICK w \in ReqRec : w = req[r]
  BY <1>1
<1>3. PICK v : v = w.to
  OBVIOUS
<1>4. v \in users /\ v \in People /\ v \in {Original, Deputy, Staff} /\ v # Guest /\ v \notin Newcomers
  BY <1>1, <1>2, <1>3, AcFacts DEF AcTyped, Shaped
<1>5. PICK q : q = [w EXCEPT !.pc = "syncRead"]
  OBVIOUS
<1>6. /\ q \in ReqRec /\ q.pc = "syncRead" /\ q.do = w.do /\ q.to = v /\ q.put = w.put
      /\ q.manages = w.manages
  BY <1>2, <1>3, <1>5 DEF ReqRec, ReqPC
<1>7. PICK new : new = IF w.do = "add" THEN held[v] \cup w.put ELSE w.put
  OBVIOUS
<1>8. /\ Writes(r, q) /\ UNCHANGED <<users, disabled, isAdmin, sessions, joined>>
      /\ held' = [held EXCEPT ![v] = new]
  BY <1>2, <1>3, <1>5, <1>7 DEF WriteRoles, Writes
<1>9. new \in SUBSET Roles /\ held[v] \in SUBSET Roles
  BY <1>1, <1>2, <1>4, <1>7 DEF AcTyped, ReqRec
<1>10. \A u \in People : held'[u] = IF u = v THEN new ELSE held[u]
  BY <1>1, <1>8 DEF AcTyped
<1>11. known /\ v = Original => Grants(new) /\ (w.do \in {"roles", "remove"} => "super" \in new)
                                /\ ("super" \in held[v] => "super" \in new)
  <2> SUFFICES ASSUME known, v = Original
               PROVE  Grants(new) /\ (w.do \in {"roles", "remove"} => "super" \in new)
                      /\ ("super" \in held[v] => "super" \in new)
    OBVIOUS
  <2>1. CASE w.do = "add"
    <3>1. w.put = {"administrator"}
      BY <1>1, <1>2, <2>1 DEF Shaped
    <3> QED
      BY <1>7, <2>1, <3>1 DEF Grants, Granting
  <2>2. CASE w.do # "add"
    BY <1>1, <1>2, <1>3, <1>7, <2>2, AcFacts DEF Spares
  <2> QED
    BY <2>1, <2>2
<1>12. /\ Shaped(q) /\ ~Waits(q) /\ Checked(q)' /\ ReadFlag(q)'
  BY <1>1, <1>2, <1>4, <1>6 DEF Shaped, Waits, Checked, ReadFlag
<1>13. known => Spares(q)'
  <2> SUFFICES ASSUME known PROVE Spares(q)'
    OBVIOUS
  <2>1. q.do \in {"roles", "remove"} /\ q.to = Original => "super" \in q.put
    BY <1>1, <1>2, <1>3, <1>6 DEF Spares
  <2>2. v = Original => Grants(held'[Original])
    BY <1>4, <1>10, <1>11
  <2> QED
    BY <1>1, <1>2, <1>6, <2>1, <2>2 DEF Spares
<1>14. /\ OthersStay(r) /\ req'[r] = q
       /\ \A o \in Requests \ {r} : req[o].pc = "ended" \/ ~req'[o].fresh
  BY <1>1, <1>6, <1>8, Overtakes
<1>15. Counted'
  <2>1. \A u \in People : sessions'[u] \in Nat /\ sessions'[u] <= sessions[u]
    BY <1>1, <1>8 DEF AcTyped
  <2> QED
    BY <1>1, <1>6, <1>14, <2>1, CountedKept
<1>16. Rightless'
  BY <1>1, <1>4, <1>8, <1>10, AcFacts DEF Rightless
<1>17. /\ Admins' \ {v} = Admins \ {v}
       /\ v \in Admins' <=> v \in users \ disabled /\ (v \in isAdmin \/ Grants(new))
  BY <1>1, <1>4, <1>8, <1>10 DEF Admins, AcTyped
<1>18. known => OriginalStays' /\ (Grants(held[Original]) => Grants(held'[Original]))
  <2> SUFFICES ASSUME known PROVE OriginalStays' /\ (Grants(held[Original]) => Grants(held'[Original]))
    OBVIOUS
  <2>1. Original \in Admins /\ (dbFaults = 0 => "super" \in held[Original])
    BY <1>1 DEF OriginalKept, OriginalStays
  <2>2. CASE v = Original
    <3>1. held'[Original] = new /\ Grants(new) /\ ("super" \in held[Original] => "super" \in new)
      BY <1>4, <1>10, <1>11, <2>2
    <3>2. Original \in Admins'
      BY <1>17, <2>1, <2>2, <3>1 DEF Admins
    <3> QED
      BY <1>1, <2>1, <3>1, <3>2 DEF OriginalStays
  <2>3. CASE v # Original
    <3>1. held'[Original] = held[Original] /\ Original \in Admins'
      BY <1>10, <1>17, <2>1, <2>3, AcFacts
    <3> QED
      BY <1>1, <2>1, <3>1 DEF OriginalStays
  <2> QED
    BY <2>2, <2>3
<1>19. AcSound'
  <2>1. /\ users' \in SUBSET People /\ isAdmin' \in SUBSET users' /\ disabled' \in SUBSET users'
        /\ joined' \in SUBSET Newcomers /\ held' \in [People -> SUBSET Roles]
        /\ sessions' \in [People -> Nat]
    BY <1>1, <1>4, <1>8, <1>9 DEF AcTyped
  <2> QED
    BY <1>1, <1>6, <1>8, <1>12, <1>13, <1>15, <1>16, <1>18, <2>1, WriterSound
<1>20. ~raced' => AcOrderly'
  <2> SUFFICES ASSUME ~raced' PROVE AcOrderly'
    OBVIOUS
  <2>1. Admins # {}
    BY <1>1 DEF AcOrderly, AdminBeside
  <2>2. Grants(new) \/ (IsAdmin(v) => Admins \ {v} # {})
    <3>1. CASE w.do = "add"
      <4>1. w.put = {"administrator"}
        BY <1>1, <1>2, <3>1 DEF Shaped
      <4> QED
        BY <1>7, <3>1, <4>1 DEF Grants, Granting
    <3>2. CASE w.do # "add"
      BY <1>1, <1>2, <1>3, <1>7, <3>2 DEF Checked, Beside
    <3> QED
      BY <3>1, <3>2
  <2>3. ~IsAdmin(v) => v \notin Admins
    BY DEF IsAdmin, Admins
  <2>4. Grants(new) \/ Admins \ {v} # {}
    BY <2>1, <2>2, <2>3
  <2>5. Admins' # {}
    BY <1>17, <2>1, <2>4 DEF Admins
  <2>6. Grants(held'[v]) \/ Admins' \ {v} # {}
    BY <1>4, <1>10, <1>17, <2>4
  <2> QED
    BY <1>1, <1>6, <1>12, <1>14, <2>5, <2>6, WriterOrderly
<1>21. ASSUME ~raced', dbFaults' = 0 PROVE AcFollowed'
  <2>1. AcFollowed
    BY <1>1, <1>21
  <2>2. FlagFollows'
    <3>1. ASSUME NEW u \in users'
          PROVE  \/ u \in isAdmin' <=> Grants(held'[u])
                 \/ q.pc \in {"syncRead", "syncWrite"} /\ q.to = u
                 \/ /\ u \in users /\ ~(u \in isAdmin <=> Grants(held[u]))
                    /\ ~(req[r].pc \in {"syncRead", "syncWrite"} /\ req[r].to = u)
      <4>1. CASE u = v
        BY <1>6, <4>1
      <4>2. CASE u # v
        <5>1. held'[u] = held[u] /\ isAdmin' = isAdmin /\ u \in users
          BY <1>1, <1>8, <1>10, <4>2 DEF AcTyped
        <5> QED
          BY <1>1, <5>1
      <4> QED
        BY <4>1, <4>2
    <3> QED
      BY <1>1, <1>14, <2>1, <3>1, FlagFrame DEF AcFollowed
  <2>3. SessionsEnd'
    BY <1>1, <1>8, <1>14, <2>1, SessionsFrame DEF AcFollowed, SessionsEnd
  <2>4. OneJoined'
    BY <1>1, <1>8, <1>14, <2>1, JoinedFrame DEF AcFollowed
  <2> QED
    BY <2>2, <2>3, <2>4 DEF AcFollowed
<1>22. dbFaults' > 0 \/ dbFaults' = 0
  BY <1>1
<1> QED
  BY <1>19, <1>20, <1>21, <1>22 DEF AcInv

LEMMA WriteInv ==
    ASSUME AcInv, NEW r \in Requests, Write(r)
    PROVE  AcInv'
<1>1. \/ req[r].do = "join" /\ WriteUser(r)
      \/ req[r].do # "join" /\ req[r].to \notin users
      \/ req[r].to \in users /\ req[r].do \in {"disable", "enable"} /\ WriteFlag(r)
      \/ req[r].to \in users /\ req[r].do \in {"roles", "add", "remove"} /\ WriteRoles(r)
      \/ req[r].to \in users /\ req[r].do = "login" /\ WriteSession(r)
  BY DEF Write
<1> QED
  BY <1>1, WriteUserInv, WriteGoneInv, WriteFlagInv, WriteRolesInv, WriteSessionInv

LEMMA SyncWriteInv ==
    ASSUME AcInv, NEW r \in Requests, SyncWrite(r)
    PROVE  AcInv'
<1>1. AcSound /\ AcTyped /\ Shapes /\ OriginalKept /\ Rightless /\ Counted /\ ChecksHold
  BY DEF AcInv, AcSound
<1>2. PICK w \in ReqRec : w = req[r]
  BY <1>1, ReqTypes
<1>3. PICK v : v = w.to
  OBVIOUS
<1>4. /\ w.pc = "syncWrite" /\ Shaped(w) /\ setup = "done" /\ Wrote(w) /\ (known => Spares(w)) /\ ReadFlag(w)
      /\ v \in {Original, Deputy, Staff} /\ v \in People /\ v # Guest /\ v \notin Newcomers
      /\ w.fresh \in BOOLEAN /\ w.flag \in BOOLEAN
  <2>1. w.pc = "syncWrite" /\ Shaped(w) /\ (known => Spares(w)) /\ ReadFlag(w)
    BY <1>1, <1>2 DEF SyncWrite, Shapes, OriginalKept, ChecksHold
  <2> QED
    BY <1>3, <2>1, AcFacts DEF Shaped, Wrote, ReqRec
<1>5. /\ Writes(r, Answered) /\ UNCHANGED <<users, held, disabled, known, setup, sessions, expired, invited, joined>>
      /\ raced' = (raced \/ ~w.fresh)
      /\ \/ isAdmin' = (IF w.flag THEN isAdmin \cup {v} ELSE isAdmin \ {v}) \cap users /\ dbFaults' = dbFaults
         \/ dbFaults' = dbFaults + 1 /\ isAdmin' = isAdmin
  BY <1>2, <1>3 DEF SyncWrite, Writes, DbFault, NoFault
<1>6. /\ raced' \in BOOLEAN /\ (~raced' => ~raced /\ w.fresh) /\ dbFaults' \in Nat /\ dbFaults <= dbFaults'
      /\ dbFaults' = 0 => dbFaults = 0 /\ isAdmin' = (IF w.flag THEN isAdmin \cup {v} ELSE isAdmin \ {v}) \cap users
  <2>1. raced \in BOOLEAN /\ dbFaults \in Nat
    BY <1>1 DEF AcTyped
  <2>2. raced' \in BOOLEAN /\ (~raced' => ~raced /\ w.fresh)
    BY <1>4, <1>5, <2>1, Zenon
  <2>3. dbFaults' \in Nat /\ dbFaults <= dbFaults' /\ (dbFaults' = 0 => dbFaults = 0 /\ dbFaults' # dbFaults + 1)
    BY <1>5, <2>1
  <2> QED
    BY <1>5, <2>2, <2>3
<1>7. isAdmin \in SUBSET users /\ isAdmin' \in SUBSET users
  BY <1>1, <1>5 DEF AcTyped
<1>8. /\ Answered \in ReqRec /\ Answered.pc = "ended" /\ Answered.do = "none"
      /\ Shaped(Answered) /\ Spares(Answered)' /\ ~Waits(Answered) /\ Checked(Answered)' /\ ReadFlag(Answered)'
  BY <1>4, BlankTypes DEF Shaped, Spares, Waits, Checked, ReadFlag
<1>9. /\ OthersStay(r) /\ req'[r] = Answered
      /\ \A o \in Requests \ {r} : req[o].pc = "ended" \/ ~req'[o].fresh
  BY <1>1, <1>5, <1>8, Overtakes
<1>10. Counted'
  <2>1. \A u \in People : sessions'[u] \in Nat /\ sessions'[u] <= sessions[u]
    BY <1>1, <1>5 DEF AcTyped
  <2> QED
    BY <1>1, <1>8, <1>9, <2>1, CountedKept
<1>11. \A u : u # v => (u \in isAdmin' <=> u \in isAdmin)
  BY <1>5, <1>7
<1>12. Rightless'
  BY <1>1, <1>4, <1>5, <1>11 DEF Rightless
<1>13. /\ Admins' \ {v} = Admins \ {v} /\ (isAdmin \subseteq isAdmin' => Admins \subseteq Admins')
       /\ Grants(held[v]) => Admins' = Admins
  BY <1>5, <1>11 DEF Admins
<1>14. known => OriginalStays'
  <2> SUFFICES ASSUME known PROVE OriginalStays'
    OBVIOUS
  <2>1. Original \in Admins /\ (dbFaults = 0 => "super" \in held[Original])
    BY <1>1 DEF OriginalKept, OriginalStays
  <2>2. v = Original => Grants(held[v])
    BY <1>2, <1>3, <1>4 DEF Spares
  <2>3. Original \in Admins'
    BY <1>13, <2>1, <2>2
  <2> QED
    BY <1>5, <1>6, <2>1, <2>3 DEF OriginalStays
<1>15. AcSound'
  <2>1. /\ users' \in SUBSET People /\ isAdmin' \in SUBSET users' /\ disabled' \in SUBSET users'
        /\ joined' \in SUBSET Newcomers /\ held' \in [People -> SUBSET Roles] /\ held' = held
        /\ sessions' \in [People -> Nat]
    BY <1>1, <1>5, <1>7 DEF AcTyped
  <2> QED
    BY <1>1, <1>4, <1>5, <1>6, <1>8, <1>10, <1>12, <1>14, <2>1, WriterSound
<1>16. ~raced' => AcOrderly'
  <2> SUFFICES ASSUME ~raced' PROVE AcOrderly'
    OBVIOUS
  <2>1. AcOrderly /\ w.fresh
    BY <1>6 DEF AcInv
  <2>2. \A o \in Requests \ {r} : ~Wrote(req[o])
    BY <1>2, <1>4, <2>1, OnlyOneWrote DEF AcOrderly
  <2>3. Admins # {} /\ (Grants(held[v]) \/ Admins \ {v} # {})
    <3>1. Following(v)
      BY <1>2, <1>3, <1>4 DEF Following
    <3> QED
      BY <1>4, <2>1, <3>1 DEF AcOrderly, AdminBeside, Beside
  <2>4. Admins' # {}
    BY <1>13, <2>3
  <2> QED
    BY <1>1, <1>8, <1>9, <2>1, <2>2, <2>4, WriterOrderly
<1>17. ASSUME ~raced', dbFaults' = 0 PROVE AcFollowed'
  <2>1. AcFollowed /\ w.fresh
    BY <1>6, <1>17 DEF AcInv
  <2>2. FlagFollows'
    <3>1. ASSUME NEW u \in users'
          PROVE  \/ u \in isAdmin' <=> Grants(held'[u])
                 \/ /\ u \in users /\ ~(u \in isAdmin <=> Grants(held[u]))
                    /\ ~(req[r].pc \in {"syncRead", "syncWrite"} /\ req[r].to = u)
      <4>1. CASE u = v
        <5>1. w.flag <=> Grants(held[v])
          BY <1>3, <1>4, <2>1 DEF ReadFlag
        <5>2. u \in users /\ held' = held
          BY <1>5
        <5> QED
          BY <1>6, <1>17, <4>1, <5>1, <5>2
      <4>2. CASE u # v
        <5>1. held'[u] = held[u] /\ (u \in isAdmin' <=> u \in isAdmin) /\ u \in users /\ req[r].to # u
          BY <1>2, <1>3, <1>5, <1>11, <4>2
        <5> QED
          BY <5>1
      <4> QED
        BY <4>1, <4>2
    <3> QED
      BY <1>4, <1>9, <2>1, <3>1, FlagFrame DEF AcFollowed
  <2>3. SessionsEnd'
    BY <1>2, <1>4, <1>5, <1>9, <2>1, SessionsFrame DEF AcFollowed, SessionsEnd
  <2>4. OneJoined'
    BY <1>2, <1>4, <1>5, <1>9, <2>1, JoinedFrame DEF AcFollowed
  <2> QED
    BY <2>2, <2>3, <2>4 DEF AcFollowed
<1>18. dbFaults' > 0 \/ dbFaults' = 0
  BY <1>6
<1> QED
  BY <1>15, <1>16, <1>17, <1>18 DEF AcInv

\* The row of an account goes.
LEMMA RemoveAccountInv ==
    ASSUME AcInv, NEW r \in Requests, RemoveUser(r), req[r].do = "delete"
    PROVE  AcInv'
<1>1. AcSound /\ AcTyped /\ Shapes /\ OriginalKept /\ Rightless /\ Counted /\ ChecksHold
  BY DEF AcInv, AcSound
<1>2. PICK w \in ReqRec : w = req[r]
  BY <1>1, ReqTypes
<1>3. PICK v : v = w.to
  OBVIOUS
<1>4. /\ w.pc = "remove" /\ w.do = "delete" /\ Shaped(w) /\ setup = "done" /\ Waits(w) /\ (known => Spares(w))
      /\ Checked(w) /\ v \in {Original, Deputy, Staff} /\ v \in People /\ v # Guest /\ v \notin Newcomers
      /\ w.fresh \in BOOLEAN /\ (known => v # Original)
  <2>1. w.pc = "remove" /\ w.do = "delete" /\ Shaped(w) /\ (known => Spares(w)) /\ Checked(w)
    BY <1>1, <1>2 DEF RemoveUser, Shapes, OriginalKept, ChecksHold
  <2> QED
    BY <1>3, <2>1, AcFacts DEF Shaped, Waits, Spares, ReqRec
<1>5. /\ Writes(r, Answered) /\ UNCHANGED <<known, setup, expired, joined, dbFaults, invited>>
      /\ raced' = (raced \/ ~w.fresh)
      /\ users' = users \ {v} /\ isAdmin' = isAdmin \ {v} /\ disabled' = disabled \ {v}
      /\ held' = [held EXCEPT ![v] = {}] /\ sessions' = [sessions EXCEPT ![v] = 0]
  BY <1>2, <1>3 DEF RemoveUser, Writes, NoFault
<1>6. /\ raced' \in BOOLEAN /\ (~raced' => ~raced /\ w.fresh) /\ dbFaults' \in Nat /\ dbFaults <= dbFaults'
  <2>1. raced \in BOOLEAN /\ dbFaults \in Nat
    BY <1>1 DEF AcTyped
  <2>2. raced' \in BOOLEAN /\ (~raced' => ~raced /\ w.fresh)
    BY <1>4, <1>5, <2>1, Zenon
  <2> QED
    BY <1>5, <2>1, <2>2
<1>7. /\ held' \in [People -> SUBSET Roles] /\ sessions' \in [People -> Nat]
      /\ \A u \in People : /\ held'[u] = IF u = v THEN {} ELSE held[u]
                           /\ sessions'[u] = IF u = v THEN 0 ELSE sessions[u]
  BY <1>1, <1>5 DEF AcTyped
<1>8. /\ Answered \in ReqRec /\ Answered.pc = "ended" /\ Answered.do = "none"
      /\ Shaped(Answered) /\ Spares(Answered)' /\ ~Waits(Answered) /\ Checked(Answered)' /\ ReadFlag(Answered)'
  BY <1>4, BlankTypes DEF Shaped, Spares, Waits, Checked, ReadFlag
<1>9. /\ OthersStay(r) /\ req'[r] = Answered
      /\ \A o \in Requests \ {r} : req[o].pc = "ended" \/ ~req'[o].fresh
  BY <1>1, <1>5, <1>8, Overtakes
<1>10. Counted'
  <2>1. \A u \in People : sessions'[u] \in Nat /\ sessions'[u] <= sessions[u]
    <3> TAKE u \in People
    <3>1. sessions[u] \in Nat
      BY <1>1 DEF AcTyped
    <3> QED
      BY <1>7, <3>1
  <2> QED
    BY <1>1, <1>8, <1>9, <2>1, CountedKept
<1>11. Rightless'
  BY <1>1, <1>4, <1>5, <1>7, AcFacts DEF Rightless
<1>12. Admins' = Admins \ {v}
  BY <1>1, <1>5, <1>7 DEF Admins, AcTyped
<1>13. known => OriginalStays' /\ (Grants(held[Original]) => Grants(held'[Original]))
  <2> SUFFICES ASSUME known PROVE OriginalStays' /\ (Grants(held[Original]) => Grants(held'[Original]))
    OBVIOUS
  <2>1. held'[Original] = held[Original] /\ v # Original
    BY <1>4, <1>7, AcFacts
  <2>2. Original \in Admins'
    BY <1>1, <1>12, <2>1 DEF OriginalKept, OriginalStays
  <2> QED
    BY <1>1, <1>5, <2>1, <2>2 DEF OriginalKept, OriginalStays
<1>14. AcSound'
  <2>1. /\ users' \in SUBSET People /\ isAdmin' \in SUBSET users' /\ disabled' \in SUBSET users'
        /\ joined' \in SUBSET Newcomers
    BY <1>1, <1>5 DEF AcTyped
  <2> QED
    BY <1>1, <1>4, <1>5, <1>6, <1>7, <1>8, <1>10, <1>11, <1>13, <2>1, WriterSound
<1>15. ~raced' => AcOrderly'
  <2> SUFFICES ASSUME ~raced' PROVE AcOrderly'
    OBVIOUS
  <2>1. AcOrderly /\ w.fresh
    BY <1>6 DEF AcInv
  <2>2. \A o \in Requests \ {r} : ~Wrote(req[o])
    BY <1>2, <1>4, <2>1, FirstToWrite DEF AcOrderly
  <2>3. Admins # {} /\ (IsAdmin(v) => Admins \ {v} # {})
    BY <1>3, <1>4, <2>1 DEF AcOrderly, AdminBeside, Beside, Checked
  <2>4. Admins' # {}
    BY <1>12, <2>3 DEF Admins, IsAdmin
  <2> QED
    BY <1>1, <1>8, <1>9, <2>1, <2>2, <2>4, WriterOrderly
<1>16. ASSUME ~raced', dbFaults' = 0 PROVE AcFollowed'
  <2>1. AcFollowed
    BY <1>5, <1>6, <1>16 DEF AcInv
  <2>2. FlagFollows'
    <3>1. ASSUME NEW u \in users'
          PROVE  \/ u \in isAdmin' <=> Grants(held'[u])
                 \/ /\ u \in users /\ ~(u \in isAdmin <=> Grants(held[u]))
                    /\ ~(req[r].pc \in {"syncRead", "syncWrite"} /\ req[r].to = u)
      <4>1. u # v /\ u \in users /\ u \in People /\ (u \in isAdmin' <=> u \in isAdmin)
        BY <1>1, <1>5 DEF AcTyped
      <4> QED
        BY <1>2, <1>4, <1>7, <4>1
    <3> QED
      BY <1>4, <1>9, <2>1, <3>1, FlagFrame DEF AcFollowed
  <2>3. SessionsEnd'
    <3>1. ASSUME NEW u \in users'
          PROVE  /\ sessions'[u] <= Devices
                 /\ \/ u \notin disabled' \/ sessions'[u] = 0
                    \/ Purging(u) /\ req[r].pc # "purge"
      <4>1. u # v /\ u \in users /\ u \in People /\ (u \in disabled' <=> u \in disabled)
        BY <1>1, <1>5 DEF AcTyped
      <4>2. sessions[u] <= Devices /\ (u \in disabled => sessions[u] = 0 \/ Purging(u))
        BY <2>1, <4>1 DEF AcFollowed, SessionsEnd
      <4> QED
        BY <1>2, <1>4, <1>7, <4>1, <4>2
    <3> QED
      BY <1>9, <3>1, SessionsFrame
  <2>4. OneJoined'
    BY <1>2, <1>4, <1>5, <1>9, <2>1, JoinedFrame DEF AcFollowed
  <2> QED
    BY <2>2, <2>3, <2>4 DEF AcFollowed
<1>17. dbFaults' > 0 \/ dbFaults' = 0
  BY <1>6
<1> QED
  BY <1>5, <1>14, <1>15, <1>16, <1>17 DEF AcInv

\* The invite is marked, or is not.
LEMMA MarkInv ==
    ASSUME AcInv, NEW r \in Requests, RemoveUser(r), req[r].do # "delete"
    PROVE  AcInv'
<1>1. AcSound /\ AcTyped /\ Shapes
  BY DEF AcInv, AcSound
<1>2. /\ req[r].pc = "remove" /\ Shaped(req[r]) /\ req[r].do = "join" /\ setup = "done"
  BY <1>1 DEF RemoveUser, Shapes, Shaped
<1>3. /\ Writes(r, Answered) /\ Untouched /\ UNCHANGED <<sessions, expired, joined, raced>>
      /\ (invited' = TRUE /\ dbFaults' = dbFaults) \/ (dbFaults' = dbFaults + 1 /\ invited' = invited)
  BY <1>2 DEF RemoveUser, Writes, Untouched, DbFault, NoFault
<1>4. /\ Answered \in ReqRec /\ Answered.pc = "ended" /\ Shaped(Answered) /\ Spares(Answered)
      /\ ~Waits(Answered) /\ ~Wrote(Answered) /\ Checked(Answered)' /\ ReadFlag(Answered)'
  BY <1>2, BlankTypes DEF Shaped, Spares, Waits, Wrote, Checked, ReadFlag
<1>5. /\ invited' \in BOOLEAN /\ expired' \in BOOLEAN /\ sessions' \in [People -> Nat] /\ raced' \in BOOLEAN
      /\ \A u \in People : sessions'[u] <= sessions[u]
  <2>1. expired \in BOOLEAN /\ invited \in BOOLEAN /\ raced \in BOOLEAN /\ sessions \in [People -> Nat]
    BY <1>1 DEF AcTyped
  <2>2. invited' \in BOOLEAN /\ expired' \in BOOLEAN /\ raced' \in BOOLEAN
    BY <1>3, <2>1, Zenon
  <2>3. sessions' \in [People -> Nat] /\ \A u \in People : sessions'[u] <= sessions[u]
    BY <1>3, <2>1
  <2> QED
    BY <2>2, <2>3
<1>6. dbFaults' \in Nat /\ dbFaults <= dbFaults' /\ (dbFaults' = 0 => dbFaults = 0 /\ dbFaults' # dbFaults + 1)
  BY <1>1, <1>3 DEF AcTyped
<1>7. AcSound'
  BY <1>1, <1>2, <1>3, <1>4, <1>5, <1>6, UntouchedSound
<1>8. /\ OthersStay(r) /\ req'[r] = Answered
      /\ \A o \in Requests \ {r} : req'[o].fresh => req[o].fresh \/ req[o].pc = "ended"
  BY <1>1, <1>3, <1>4, Overtakes
<1>9. AcOrderly => AcOrderly'
  BY <1>1, <1>2, <1>3, <1>4, <1>8, UntouchedOrderly
<1>10. AcFollowed /\ dbFaults' = 0 => AcFollowed'
  BY <1>1, <1>2, <1>3, <1>4, <1>5, <1>6, <1>8, UntouchedFollowed
<1>11. dbFaults' > 0 \/ dbFaults' = 0
  BY <1>6
<1>12. dbFaults > 0 => dbFaults' > 0
  BY <1>1, <1>6 DEF AcTyped
<1> QED
  BY <1>3, <1>7, <1>9, <1>10, <1>11, <1>12 DEF AcInv

-----------------------------------------------------------------------------
(* The server is set up, and a guest's time ends.                          *)

\* While it is set up nobody asks for anything.
LEMMA NobodyAsks ==
    ASSUME AcTyped, Shapes, setup # "done"
    PROVE  \A r \in Requests : req[r].pc = "idle" /\ req[r].do = "none"
BY DEF Shapes, Shaped

LEMMA SettingUp ==
    ASSUME AcInv, setup # "done", UNCHANGED <<sessions, expired, invited, joined, req, raced>>,
           AcTyped', SetUp', Rightless', (known => OriginalStays)', Admins' # {},
           dbFaults <= dbFaults',
           dbFaults' = 0 => FlagFollows'
    PROVE  AcInv'
<1>1. AcSound /\ AcTyped /\ Shapes /\ Counted
  BY DEF AcInv, AcSound
<1>2. \A r \in Requests : req'[r].pc = "idle" /\ req'[r].do = "none" /\ req[r].pc = "idle"
  BY <1>1, NobodyAsks
<1>3. Shapes'
  BY <1>2 DEF Shapes, Shaped
<1>4. OriginalKept'
  BY <1>2 DEF OriginalKept, Spares
<1>5. ChecksHold'
  BY <1>2 DEF ChecksHold, Checked, ReadFlag, Waits
<1>6. Counted'
  BY <1>1 DEF Counted
<1>7. AcSound'
  BY <1>3, <1>4, <1>5, <1>6 DEF AcSound
<1>8. AcOrderly'
  BY <1>2 DEF AcOrderly, Alone, AdminBeside, Following, Wrote
<1>9. ASSUME AcFollowed, dbFaults' = 0 PROVE AcFollowed'
  <2>1. \A u \in People : sessions'[u] = 0
    <3>1. {o \in Requests : req[o].pc = "ended"} = {}
      BY <1>2
    <3>2. \A u \in People : sessions[u] \in Nat /\ sessions[u] <= 0
      BY <1>1, <3>1, FS_EmptySet DEF Counted, AcTyped
    <3> QED
      BY <3>2
  <2>2. SessionsEnd'
    <3>1. \A u \in users' : u \in People /\ 0 <= Devices
      BY AccountsAssumption DEF AcTyped
    <3> QED
      BY <2>1, <3>1 DEF SessionsEnd
  <2>3. OneJoined'
    BY <1>9, <1>2 DEF AcFollowed, OneJoined, Marking
  <2> QED
    BY <1>9, <2>2, <2>3 DEF AcFollowed
<1>10. dbFaults > 0 => dbFaults' > 0
  BY <1>1 DEF AcTyped
<1>11. dbFaults' > 0 \/ dbFaults' = 0
  BY DEF AcTyped
<1> QED
  BY <1>7, <1>8, <1>9, <1>10, <1>11 DEF AcInv

LEMMA CreateAdminInv == ASSUME AcInv, CreateAdmin PROVE AcInv'
<1>1. AcTyped /\ SetUp /\ Rightless
  BY DEF AcInv, AcSound
<1>2. /\ setup = "none" /\ users' = {Original} /\ isAdmin' = {Original} /\ setup' = "administrator"
      /\ UNCHANGED <<held, disabled, known, sessions, expired, invited, joined, req, dbFaults, raced>>
      /\ users = {} /\ disabled = {} /\ known = FALSE
  BY <1>1 DEF CreateAdmin, SetUp, AcTyped
<1>3. AcTyped'
  BY <1>1, <1>2, AcFacts DEF AcTyped, Setups
<1>4. SetUp' /\ Rightless'
  BY <1>1, <1>2, AcFacts DEF SetUp, Rightless
<1>5. Original \in Admins'
  BY <1>2 DEF Admins
<1>6. FlagFollows'
  BY <1>2 DEF FlagFollows
<1>7. dbFaults <= dbFaults'
  BY <1>1, <1>2 DEF AcTyped
<1> QED
  BY <1>2, <1>3, <1>4, <1>5, <1>6, <1>7, SettingUp

LEMMA AssignFirstInv ==
    ASSUME AcInv, NEW role \in {"administrator", "super"}, NEW next,
           next = (IF role = "administrator" THEN "super" ELSE "remember"), AssignFirst(role, next)
    PROVE  AcInv'
<1>1. AcTyped /\ SetUp /\ Rightless
  BY DEF AcInv, AcSound
<1>2. /\ setup = role /\ setup' = next /\ setup # "done" /\ setup' \in {"super", "remember"}
      /\ UNCHANGED <<users, isAdmin, disabled, known, sessions, expired, invited, joined, req, raced>>
      /\ users = {Original} /\ isAdmin = {Original} /\ disabled = {} /\ known = FALSE
      /\ \/ held' = [held EXCEPT ![Original] = @ \cup {role}] /\ dbFaults' = dbFaults
         \/ dbFaults' = dbFaults + 1 /\ held' = held
  BY <1>1 DEF AssignFirst, SetUp, AcTyped, DbFault, NoFault
<1>3. /\ dbFaults' \in Nat /\ dbFaults <= dbFaults'
      /\ dbFaults' = 0 => held' = [held EXCEPT ![Original] = @ \cup {role}]
  BY <1>1, <1>2 DEF AcTyped
<1>4. /\ held' \in [People -> SUBSET Roles] /\ \A u \in People : u # Original => held'[u] = held[u]
      /\ dbFaults' = 0 => role \in held'[Original]
  BY <1>1, <1>2, <1>3, AcFacts DEF AcTyped, Roles
<1>5. AcTyped'
  BY <1>1, <1>2, <1>3, <1>4 DEF AcTyped, Setups
<1>6. SetUp' /\ Rightless'
  BY <1>1, <1>2, <1>4, AcFacts DEF SetUp, Rightless
<1>7. Original \in Admins'
  BY <1>2 DEF Admins
<1>8. FlagFollows'
  BY <1>2 DEF FlagFollows
<1> QED
  BY <1>2, <1>3, <1>5, <1>6, <1>7, <1>8, SettingUp

LEMMA RememberInv == ASSUME AcInv, RememberOriginal PROVE AcInv'
<1>1. AcTyped /\ SetUp /\ Rightless
  BY DEF AcInv, AcSound
<1>2. /\ setup = "remember" /\ setup' = "hire"
      /\ UNCHANGED <<users, held, isAdmin, disabled, sessions, expired, invited, joined, req, raced>>
      /\ users = {Original} /\ isAdmin = {Original} /\ disabled = {} /\ known = FALSE
      /\ known' \in BOOLEAN /\ (dbFaults' = dbFaults \/ dbFaults' = dbFaults + 1)
  BY <1>1 DEF RememberOriginal, SetUp, AcTyped, DbFault, NoFault
<1>3. dbFaults' \in Nat /\ dbFaults <= dbFaults' /\ (dbFaults' = 0 => dbFaults = 0)
  BY <1>1, <1>2 DEF AcTyped
<1>4. AcTyped'
  BY <1>1, <1>2, <1>3 DEF AcTyped, Setups
<1>5. dbFaults' = 0 => "super" \in held'[Original]
  BY <1>1, <1>2, <1>3 DEF SetUp
<1>6. SetUp' /\ Rightless'
  BY <1>1, <1>2, <1>5 DEF SetUp, Rightless
<1>7. Original \in Admins'
  BY <1>2 DEF Admins
<1>8. FlagFollows' /\ OriginalStays'
  BY <1>2, <1>5, <1>7 DEF FlagFollows, OriginalStays
<1> QED
  BY <1>2, <1>3, <1>4, <1>6, <1>7, <1>8, SettingUp

LEMMA HireInv == ASSUME AcInv, Hire PROVE AcInv'
<1>1. AcTyped /\ SetUp /\ Rightless /\ OriginalKept
  BY DEF AcInv, AcSound
<1>2. /\ setup = "hire" /\ setup' = "done"
      /\ users' = users \cup {Deputy, Staff, Guest} /\ isAdmin' = isAdmin \cup {Deputy}
      /\ held' = [held EXCEPT ![Deputy] = {"administrator"}, ![Staff] = {"staff"}]
      /\ UNCHANGED <<disabled, known, sessions, expired, invited, joined, req, dbFaults, raced>>
      /\ users = {Original} /\ isAdmin = {Original} /\ disabled = {}
  BY <1>1 DEF Hire, SetUp
<1>3. PICK first : first = [held EXCEPT ![Deputy] = {"administrator"}]
  OBVIOUS
<1>4. held' = [first EXCEPT ![Staff] = {"staff"}] /\ first \in [People -> SUBSET Roles]
  BY <1>1, <1>2, <1>3 DEF AcTyped, Roles
<1>5. /\ held' \in [People -> SUBSET Roles]
      /\ held'[Deputy] = {"administrator"} /\ held'[Staff] = {"staff"}
      /\ \A u \in People \ {Deputy, Staff} : held'[u] = held[u]
  BY <1>1, <1>3, <1>4, AcFacts DEF AcTyped, Roles
<1>6. AcTyped'
  BY <1>1, <1>2, <1>5, AcFacts DEF AcTyped, Setups
<1>7. SetUp' /\ Rightless'
  BY <1>1, <1>2, <1>5, AcFacts DEF SetUp, Rightless
<1>8. Original \in Admins'
  BY <1>2 DEF Admins
<1>9. (known => OriginalStays)'
  BY <1>1, <1>2, <1>5, <1>8, AcFacts DEF OriginalKept, OriginalStays
<1>10. ASSUME dbFaults' = 0 PROVE FlagFollows'
  <2>1. Grants(held'[Original])
    BY <1>1, <1>2, <1>5, <1>10, AcFacts DEF SetUp
  <2>2. Grants(held'[Deputy]) /\ ~Grants(held'[Staff]) /\ ~Grants(held'[Guest])
    BY <1>1, <1>5, AcFacts DEF Rightless
  <2> QED
    BY <1>2, <2>1, <2>2, AcFacts DEF FlagFollows
<1>11. dbFaults <= dbFaults'
  BY <1>1, <1>2 DEF AcTyped
<1> QED
  BY <1>2, <1>6, <1>7, <1>8, <1>9, <1>10, <1>11, SettingUp

LEMMA ExpireInv == ASSUME AcInv, Expire PROVE AcInv'
<1>1. /\ expired' = TRUE
      /\ UNCHANGED <<users, held, isAdmin, disabled, known, setup, sessions, invited, joined, req, dbFaults, raced>>
  BY DEF Expire
<1>2. AcSound'
  <2>1. AcTyped' /\ Shapes' /\ SetUp' /\ Rightless' /\ Counted'
    BY <1>1 DEF AcInv, AcSound, AcTyped, Shapes, Shaped, SetUp, Rightless, Counted
  <2>2. OriginalKept'
    BY <1>1 DEF AcInv, AcSound, OriginalKept, OriginalStays, Spares, Admins
  <2>3. ChecksHold'
    BY <1>1 DEF AcInv, AcSound, ChecksHold, Checked, ReadFlag, Beside, Admins, IsAdmin
  <2> QED
    BY <2>1, <2>2, <2>3 DEF AcSound
<1>3. AcOrderly => AcOrderly'
  BY <1>1 DEF AcOrderly, Alone, AdminBeside, Following, Beside, Admins
<1>4. AcFollowed => AcFollowed'
  BY <1>1 DEF AcFollowed, FlagFollows, Following, SessionsEnd, Purging, OneJoined, Marking
<1> QED
  BY <1>1, <1>2, <1>3, <1>4 DEF AcInv

-----------------------------------------------------------------------------
(* The contract of the accounts.                                           *)

LEMMA AccountsStart == ACStart => AcInv
<1> SUFFICES ASSUME ACStart PROVE AcInv
  OBVIOUS
<1>1. /\ users = {} /\ held = [u \in People |-> {}] /\ isAdmin = {} /\ disabled = {}
      /\ known = FALSE /\ setup = "none" /\ sessions = [u \in People |-> 0]
      /\ expired = FALSE /\ invited = FALSE /\ joined = {}
      /\ req = [r \in Requests |-> Unasked] /\ dbFaults = 0 /\ raced = FALSE
  BY DEF ACStart
<1>2. AcTyped
  BY <1>1, BlankTypes DEF AcTyped, Setups
<1>3. \A r \in Requests : req[r].pc = "idle" /\ req[r].do = "none"
  BY <1>1, BlankTypes
<1>4. Shapes /\ SetUp /\ Rightless /\ OriginalKept
  BY <1>1, <1>3, AcFacts DEF Shapes, Shaped, SetUp, Rightless, OriginalKept
<1>5. ChecksHold
  BY <1>3 DEF ChecksHold, Checked, ReadFlag, Waits
<1>6. Counted
  <2>1. {r \in Requests : req[r].pc = "ended"} = {}
    BY <1>3
  <2> QED
    BY <1>1, <2>1, FS_EmptySet DEF Counted
<1>7. AcOrderly
  BY <1>1, <1>3 DEF AcOrderly, Alone, AdminBeside, Following, Wrote
<1>8. AcFollowed
  BY <1>1 DEF AcFollowed, FlagFollows, SessionsEnd, OneJoined
<1> QED
  BY <1>2, <1>4, <1>5, <1>6, <1>7, <1>8 DEF AcInv, AcSound

LEMMA ChangeInv ==
    ASSUME AcInv, NEW r \in Requests, NEW by \in {Original, Deputy, Staff}, NEW to \in {Original, Deputy, Staff},
           Change(r, by, to)
    PROVE  AcInv'
<1>1. AcTyped /\ {"administrator"} \in SUBSET Roles /\ {"super"} \in SUBSET Roles /\ {} \in SUBSET Roles
      /\ \A role \in held[to] : {role} \in SUBSET Roles
  BY AcFacts DEF AcInv, AcSound, AcTyped, Roles
<1>2. CASE AskChange(r, by, "add", to, {"administrator"})
  BY <1>1, <1>2, AskChangeInv
<1>3. ASSUME NEW do \in {"disable", "enable", "delete"}, AskChange(r, by, do, to, {}) PROVE AcInv'
  BY <1>1, <1>3, AskChangeInv
<1>4. ASSUME NEW roles \in {{}, {"super"}}, AskChange(r, by, "roles", to, roles) PROVE AcInv'
  BY <1>1, <1>4, AskChangeInv
<1>5. ASSUME NEW role \in held[to], AskChange(r, by, "remove", to, {role}) PROVE AcInv'
  BY <1>1, <1>5, AskChangeInv
<1> QED
  BY <1>2, <1>3, <1>4, <1>5 DEF Change

LEMMA AccountsNext == AcInv /\ [ACNext]_acVars => AcInv'
<1> SUFFICES ASSUME AcInv, [ACNext]_acVars PROVE AcInv'
  OBVIOUS
<1>1. CASE UNCHANGED acVars
  <2>1. AcSound' <=> AcSound
    BY <1>1 DEF acVars, AcSound, AcTyped, Shapes, Shaped, SetUp, Rightless, OriginalKept, OriginalStays, Spares,
       ChecksHold, Checked, ReadFlag, Beside, Admins, IsAdmin, Counted
  <2>2. AcOrderly' <=> AcOrderly
    BY <1>1 DEF acVars, AcOrderly, Alone, AdminBeside, Following, Beside, Admins
  <2>3. AcFollowed' <=> AcFollowed
    BY <1>1 DEF acVars, AcFollowed, FlagFollows, Following, SessionsEnd, Purging, OneJoined, Marking
  <2>4. raced' = raced /\ dbFaults' = dbFaults
    BY <1>1 DEF acVars
  <2> QED
    BY <2>1, <2>2, <2>3, <2>4 DEF AcInv
<1>2. CASE AssignFirst("administrator", "super")
  BY <1>2, AssignFirstInv
<1>3. CASE AssignFirst("super", "remember")
  BY <1>3, AssignFirstInv
<1>4. CASE CreateAdmin \/ RememberOriginal \/ Hire \/ Expire
  BY <1>4, CreateAdminInv, RememberInv, HireInv, ExpireInv
<1>5. ASSUME NEW r \in Requests, RequestStep(r) PROVE AcInv'
  <2>1. CASE RemoveUser(r)
    BY <2>1, RemoveAccountInv, MarkInv
  <2> QED
    BY <1>5, <2>1, WriteInv, SyncReadInv, SyncWriteInv, PurgeInv DEF RequestStep
<1>6. ASSUME NEW r \in Requests, Sweep(r) PROVE AcInv'
  BY <1>6, SweepInv
<1>7. ASSUME NEW r \in Requests, NEW u \in Newcomers, AskJoin(r, u) PROVE AcInv'
  BY <1>7, AskJoinInv
<1>8. ASSUME NEW r \in Requests, NEW u \in {Deputy, Guest}, AskLogin(r, u) PROVE AcInv'
  BY <1>8, AskLoginInv
<1>9. ASSUME NEW r \in Requests, NEW by \in {Original, Deputy, Staff}, NEW to \in {Original, Deputy, Staff},
             Change(r, by, to)
      PROVE AcInv'
  BY <1>9, ChangeInv
<1> QED
  BY <1>1, <1>2, <1>3, <1>4, <1>5, <1>6, <1>7, <1>8, <1>9 DEF ACNext

LEMMA AccountsAreSafe == AcInv => AccountsSafe
<1> SUFFICES ASSUME AcInv PROVE AccountsSafe
  OBVIOUS
<1>1. AcTyped /\ Counted /\ OriginalKept
  BY DEF AcInv, AcSound
<1>2. ACTypeOK
  <2>1. Cardinality(Requests) \in Nat
    BY AcFacts, FS_CardinalityType
  <2>2. Cardinality({r \in Requests : req[r].pc = "ended"}) <= Cardinality(Requests)
        /\ Cardinality({r \in Requests : req[r].pc = "ended"}) \in Nat
    BY AcFacts, FS_Subset, FS_CardinalityType
  <2>3. \A u \in People : sessions[u] \in Nat /\ sessions[u] <= Cardinality({r \in Requests : req[r].pc = "ended"})
    BY <1>1 DEF Counted, AcTyped
  <2>4. \A u \in People : sessions[u] \in 0 .. Cardinality(Requests)
    BY <2>1, <2>2, <2>3
  <2> QED
    BY <1>1, <2>4, ReqTypes DEF ACTypeOK, AcTyped
<1>3. OriginalStays
  BY <1>1 DEF OriginalKept, OriginalStays
<1>4. AdminStays
  BY DEF AcInv, AcOrderly, AdminBeside, AdminStays
<1>5. CASE raced \/ dbFaults > 0
  BY <1>2, <1>3, <1>4, <1>5 DEF AccountsSafe, FlagAgrees, SessionsFit, InviteOnce
<1>6. CASE AcFollowed
  <2>1. FlagAgrees
    BY <1>6 DEF AcFollowed, FlagFollows, Following, FlagAgrees, Busy
  <2>2. SessionsFit
    BY <1>6 DEF AcFollowed, SessionsEnd, Purging, SessionsFit, Busy
  <2>3. InviteOnce
    <3>1. PICK x : joined \subseteq {x}
      BY <1>6 DEF AcFollowed, OneJoined
    <3>2. IsFiniteSet({x}) /\ Cardinality({x}) = 1
      BY FS_Singleton
    <3>3. Cardinality(joined) <= 1
      BY <3>1, <3>2, FS_Subset
    <3> QED
      BY <3>3 DEF InviteOnce
  <2> QED
    BY <1>2, <1>3, <1>4, <2>1, <2>2, <2>3 DEF AccountsSafe
<1> QED
  BY <1>5, <1>6 DEF AcInv

\* Only what r does moves r on.
LEMMA OthersWait ==
    ASSUME AcTyped, NEW r \in Requests, req'[r].pc # req[r].pc, req[r].pc \in {"write", "remove"}, ACNext
    PROVE  Write(r) \/ RemoveUser(r)
<1>1. ASSUME NEW o \in Requests, NEW q \in ReqRec, Admitted(o, q) PROVE FALSE
  BY <1>1 DEF Admitted, AcTyped
<1>2. ASSUME NEW o \in Requests, NEW q, req' = [req EXCEPT ![o] = q] PROVE o = r
  BY <1>2 DEF AcTyped
<1>3. ASSUME NEW o \in Requests, NEW q, req' = [Outdated(o) EXCEPT ![o] = q] PROVE o = r
  <2> SUFFICES ASSUME o # r PROVE FALSE
    OBVIOUS
  <2>1. req'[r] = [req[r] EXCEPT !.fresh = req[r].fresh /\ (r = o \/ req[r].pc = "ended")]
    BY <1>3 DEF Outdated
  <2>2. PICK w \in ReqRec : w = req[r]
    BY ReqTypes
  <2>3. req'[r].pc = w.pc
    BY <2>1, <2>2 DEF ReqRec
  <2> QED
    BY <2>2, <2>3
<1>4. ASSUME NEW o \in Requests, RequestStep(o) PROVE Write(r) \/ RemoveUser(r)
  <2>1. SyncRead(o) => o = r
    <3> SUFFICES ASSUME SyncRead(o), o # r PROVE FALSE
      OBVIOUS
    <3>0. r \in DOMAIN req
      BY DEF AcTyped
    <3>1. PICK e : e = [req EXCEPT ![o].pc = "syncWrite"]
      OBVIOUS
    <3>2. PICK f : f = [e EXCEPT ![o].flag = Grants(held[req[o].to])]
      OBVIOUS
    <3>3. req' = [f EXCEPT ![o].fresh = TRUE]
      BY <3>1, <3>2 DEF SyncRead
    <3>4. req'[r] = req[r]
      BY <3>0, <3>1, <3>2, <3>3
    <3> QED
      BY <3>4
  <2>2. SyncWrite(o) => o = r
    BY <1>3 DEF SyncWrite
  <2>3. Purge(o) => o = r
    BY <1>2 DEF Purge
  <2>4. RemoveUser(o) => o = r
    BY <1>3 DEF RemoveUser
  <2>5. Write(o) => o = r
    BY <1>2, <1>3 DEF Write, WriteUser, WriteFlag, WriteRoles, WriteSession
  <2> QED
    BY <1>4, <2>1, <2>2, <2>3, <2>4, <2>5 DEF RequestStep, SyncRead, SyncWrite, Purge
<1>5. ASSUME NEW o \in Requests, NEW q, Admitted(o, q) PROVE FALSE
  BY <1>5 DEF Admitted, AcTyped
<1>6. ASSUME NEW o \in Requests, Sweep(o) PROVE FALSE
  BY <1>5, <1>6 DEF Sweep
<1>7. ASSUME NEW o \in Requests, NEW u, AskJoin(o, u) \/ AskLogin(o, u) PROVE FALSE
  BY <1>5, <1>7 DEF AskJoin, AskLogin
<1>8. ASSUME NEW o \in Requests, NEW by, NEW to, Change(o, by, to) PROVE FALSE
  BY <1>5, <1>8 DEF Change, AskChange
<1>9. CASE CreateAdmin \/ AssignFirst("administrator", "super") \/ AssignFirst("super", "remember")
           \/ RememberOriginal \/ Hire \/ Expire
  BY <1>9 DEF CreateAdmin, AssignFirst, RememberOriginal, Hire, Expire
<1> QED
  BY <1>4, <1>6, <1>7, <1>8, <1>9 DEF ACNext

LEMMA CeilingHolds ==
    ASSUME AcInv, ACNext, NEW r \in Requests, req[r].pc \in {"write", "remove"}, req'[r].pc # req[r].pc,
           ~req[r].manages, req[r].fresh
    PROVE  Admins' = Admins
<1>1. AcTyped /\ Rightless /\ Shaped(req[r]) /\ Checked(req[r]) /\ req[r].to \in People
  BY ReqTypes DEF AcInv, AcSound, Shapes, ChecksHold
<1>2. CASE Write(r)
  <2>1. req[r].pc = "write" /\ Waits(req[r])
    BY <1>2 DEF Write, Waits
  <2>2. CASE req[r].do = "join"
    <3>1. /\ users' = users \cup {req[r].to} /\ UNCHANGED <<held, isAdmin, disabled>>
          /\ req[r].to \in Newcomers
      BY <1>1, <1>2, <2>2 DEF Write, WriteUser, Shaped
    <3> QED
      BY <1>1, <3>1, AcFacts DEF Admins, Rightless
  <2>3. CASE req[r].do = "login" \/ (req[r].to \notin users /\ req[r].do # "join")
    BY <1>2, <2>3 DEF Write, WriteSession, Admins
  <2>4. CASE req[r].do \in {"disable", "enable", "roles", "add", "remove"} /\ req[r].to \in users
    <3>1. ~IsAdmin(req[r].to) /\ ~Grants(req[r].put)
      BY <1>1, <2>1, <2>4 DEF Checked
    <3>2. CASE req[r].do \in {"disable", "enable"}
      <4>1. /\ UNCHANGED <<users, held, isAdmin>>
            /\ disabled' = disabled \cup {req[r].to} \/ disabled' = disabled \ {req[r].to}
        BY <1>2, <2>4, <3>2 DEF Write, WriteFlag
      <4> QED
        BY <3>1, <4>1 DEF Admins, IsAdmin
    <3>3. CASE req[r].do \in {"roles", "add", "remove"}
      <4>1. /\ UNCHANGED <<users, disabled, isAdmin>> /\ req[r].do # "add"
            /\ held' = [held EXCEPT ![req[r].to] = req[r].put]
        BY <1>1, <1>2, <2>4, <3>3 DEF Write, WriteRoles, Shaped
      <4>2. \A u \in People : held'[u] = IF u = req[r].to THEN req[r].put ELSE held[u]
        BY <1>1, <4>1 DEF AcTyped
      <4> QED
        BY <1>1, <3>1, <4>1, <4>2 DEF Admins, IsAdmin, AcTyped
    <3> QED
      BY <2>4, <3>2, <3>3
  <2> QED
    BY <1>1, <2>1, <2>2, <2>3, <2>4, ReqTypes DEF Shaped, Doings
<1>3. CASE RemoveUser(r)
  <2>1. req[r].pc = "remove"
    BY <1>3 DEF RemoveUser
  <2>2. CASE req[r].do # "delete"
    BY <1>3, <2>2 DEF RemoveUser, Admins
  <2>3. CASE req[r].do = "delete"
    <3>1. ~IsAdmin(req[r].to)
      BY <1>1, <2>1, <2>3 DEF Checked, Waits
    <3>2. /\ users' = users \ {req[r].to} /\ isAdmin' = isAdmin \ {req[r].to} /\ disabled' = disabled \ {req[r].to}
          /\ held' = [held EXCEPT ![req[r].to] = {}]
      BY <1>3, <2>3 DEF RemoveUser
    <3>3. \A u \in People : held'[u] = IF u = req[r].to THEN {} ELSE held[u]
      BY <1>1, <3>2 DEF AcTyped
    <3> QED
      BY <1>1, <3>1, <3>2, <3>3, AcFacts DEF Admins, IsAdmin, AcTyped
  <2> QED
    BY <2>2, <2>3
<1> QED
  BY <1>1, <1>2, <1>3, OthersWait

\* What Accounts promises (auth/service.go, rbac.go, ceiling.go): the original
\* administrator keeps the account and the role whatever races; somebody can
\* administrate, flags follow roles, sessions fit and an invite is used once as
\* long as no request has written on a check another overtook; and who does not
\* manage administrators leaves them as they are.
THEOREM AccountsKeepContract == ACSpec => AccountsContract
<1>1. ACStart => AcInv
  BY AccountsStart
<1>2. AcInv /\ [ACNext]_acVars => AcInv'
  BY AccountsNext
<1>3. AcInv => AccountsSafe
  BY AccountsAreSafe
<1>4. AcInv /\ [ACNext]_acVars =>
        [\A r \in Requests :
           req[r].pc \in {"write", "remove"} /\ req'[r].pc # req[r].pc /\ ~req[r].manages /\ req[r].fresh
             => Admins' = Admins]_acVars
  BY CeilingHolds
<1>5. AcInv' => AccountsSafe'
  BY <1>3, PTL
<1>6. AcInv /\ [ACNext]_acVars => [UNCHANGED acVars \/ AccountsSafe']_acVars
  BY <1>2, <1>5
<1> QED
  BY <1>1, <1>2, <1>4, <1>6, PTL DEF ACSpec, AccountsContract, Ceiling

-----------------------------------------------------------------------------
(* SignIn.                                                                 *)

FlowPC == {"idle", "take", "linkcheck", "linkuser", "lookup", "upsert", "insert", "role", "linknew", "over"}
FlowRec == [pc : FlowPC, who : Discords \cup {NoOne}, links : {NoOne, Member}, listed : BOOLEAN,
            took : BOOLEAN, user : Newbies \cup {NoOne}]
ChorePC == {"idle", "unlink", "associate", "link", "set", "save", "over"}
ChoreRec == [pc : ChorePC, user : Persons \cup {NoOne}, super : Discords \cup {NoOne}, login : BOOLEAN,
             listed : SUBSET Discords, open : BOOLEAN]

\* What a flow carries at each of its statements: a Discord account from its
\* start, the user to link, and the user it created.
Carries(q) ==
    /\ q.pc \notin {"idle", "over"} => q.who \in Discords
    /\ q.pc \in {"linkcheck", "linkuser"} => q.links = Member
    /\ q.pc \in {"role", "linknew"} => q.user \in existing /\ q.user \in Newbies

\* Who unlinks has a password, and no setting is saved with the sign-in on and
\* no account of the administrator.
Means(q) ==
    /\ q.pc = "unlink" => q.user \in {Root, Member}
    /\ q.pc \in {"associate", "link", "set"} => q.super \in Discords
    /\ q.pc = "save" /\ q.login => super # NoOne

SiTyped ==
    /\ identity \in [Persons -> Discords \cup {NoOne}]
    /\ existing \in SUBSET Persons /\ admins \in SUBSET existing /\ orphans \in SUBSET Newbies
    /\ super \in Discords \cup {NoOne} /\ drops \in 0 .. MaxDrops
    /\ conf \in [login : BOOLEAN, open : BOOLEAN, listed : SUBSET Discords]
    /\ ticket \in [there : BOOLEAN, links : {NoOne, Member}]
    /\ flow \in [Flows -> FlowRec] /\ chore \in [Chores -> ChoreRec]
    /\ reread \in BOOLEAN /\ lateUnlinks \in SUBSET Chores

\* Created by f, and not yet linked.
Creating(f, u) == flow[f].user = u /\ flow[f].pc \in {"role", "linknew"}
WayIn ==
    \A u \in existing : HasPassword(u) \/ identity[u] # NoOne \/ u \in orphans
                        \/ \E f \in Flows : Creating(f, u)

\* As long as no state was read twice one flow has taken it, and has not
\* deleted it while it is there.
OneTaker ==
    /\ \A f, g \in Flows : flow[f].took /\ flow[g].took => f = g
    /\ ticket.there => \A f \in Flows : flow[f].took => flow[f].pc = "take"

\* Every unlink that waits while the sign-in is on was overtaken by it.
Overtaken == \A c \in Chores : chore[c].pc = "unlink" => c \in lateUnlinks

SiInv ==
    /\ SiTyped /\ WayIn /\ OneAccountEach /\ SuperadminSet
    /\ \A f \in Flows : Carries(flow[f])
    /\ \A c \in Chores : Means(chore[c])
    /\ reread \/ OneTaker
    /\ ~conf.login \/ Overtaken

THEOREM SignInStart == SIInit => SiInv
<1> SUFFICES ASSUME SIInit PROVE SiInv
  OBVIOUS
<1>1. PICK on \in BOOLEAN, set \in BOOLEAN, before \in SUBSET {Another(Newbies)} :
        LET d == Another(Discords) IN
         /\ on => set
         /\ super = (IF set THEN d ELSE NoOne)
         /\ identity = [u \in Persons |-> IF u = Root THEN super
                                         ELSE IF u \in before THEN Another(Discords \ {d}) ELSE NoOne]
         /\ existing = {Root, Member} \cup before
         /\ conf = [login |-> on, open |-> TRUE, listed |-> {super} \ {NoOne}]
  BY DEF SIInit
<1>2. Another(Newbies) \in Newbies
  BY SignInAssumption DEF Another
<1>3. PICK d : d = Another(Discords) /\ d \in Discords
  BY SignInAssumption DEF Another
<1>4. PICK e : e = Another(Discords \ {d}) /\ e \in Discords /\ e # d
  BY SignInAssumption DEF Another
<1>5. /\ super = (IF set THEN d ELSE NoOne)
      /\ identity = [u \in Persons |-> IF u = Root THEN super ELSE IF u \in before THEN e ELSE NoOne]
      /\ existing = {Root, Member} \cup before
      /\ conf = [login |-> on, open |-> TRUE, listed |-> {super} \ {NoOne}]
  BY <1>1, <1>3, <1>4
<1>6. before \subseteq Newbies /\ \A u, v \in before : u = v
  BY <1>2
<1>7. Root \in Persons /\ Member \in Persons /\ Newbies \subseteq Persons /\ Root \notin Newbies
  BY SignInAssumption DEF Persons
<1>8. flow = [f \in Flows |-> Idle] /\ chore = [c \in Chores |-> NoChore]
  BY DEF SIInit
<1>9. Idle \in FlowRec /\ Idle.pc = "idle" /\ Idle.took = FALSE
  BY DEF Idle, FlowRec, FlowPC
<1>10. NoChore \in ChoreRec /\ NoChore.pc = "idle"
  BY DEF NoChore, ChoreRec, ChorePC
<1>11. SiTyped
  <2>1. identity \in [Persons -> Discords \cup {NoOne}] /\ super \in Discords \cup {NoOne}
    BY <1>3, <1>4, <1>5
  <2>2. existing \in SUBSET Persons /\ admins \in SUBSET existing
    BY <1>5, <1>6, <1>7 DEF SIInit
  <2>3. conf \in [login : BOOLEAN, open : BOOLEAN, listed : SUBSET Discords]
    BY <1>5, <2>1
  <2>4. flow \in [Flows -> FlowRec] /\ chore \in [Chores -> ChoreRec]
    BY <1>8, <1>9, <1>10
  <2>6. ticket \in [there : BOOLEAN, links : {NoOne, Member}]
    <3>1. PICK u \in {NoOne, Member} : ticket = [there |-> TRUE, links |-> u]
      BY DEF SIInit
    <3> QED
      BY <3>1
  <2>5. /\ orphans \in SUBSET Newbies
        /\ reread \in BOOLEAN /\ lateUnlinks \in SUBSET Chores /\ drops \in 0 .. MaxDrops
    <3>1. drops = 0 /\ orphans = {} /\ reread = FALSE /\ lateUnlinks = {}
      BY DEF SIInit
    <3>2. reread \in BOOLEAN /\ orphans \in SUBSET Newbies /\ lateUnlinks \in SUBSET Chores
      BY <3>1
    <3>3. MaxDrops \in Nat
      BY SignInAssumption
    <3> QED
      BY <3>1, <3>2, <3>3
  <2> QED
    BY <2>1, <2>2, <2>3, <2>4, <2>5, <2>6 DEF SiTyped
<1>12. WayIn
  <2> SUFFICES ASSUME NEW u \in existing PROVE HasPassword(u) \/ identity[u] # NoOne
    BY DEF WayIn
  <2>1. CASE u \in before
    BY <2>1, <1>4, <1>5, <1>6, <1>7, SignInAssumption
  <2>2. CASE u \notin before
    BY <2>2, <1>5 DEF HasPassword
  <2> QED
    BY <2>1, <2>2
<1>13. OneAccountEach
  BY <1>3, <1>4, <1>5, <1>6, <1>7, SignInAssumption DEF OneAccountEach
<1>14. SuperadminSet
  <2>1. on => set
    BY <1>1
  <2> QED
    BY <2>1, <1>3, <1>5, SignInAssumption DEF SuperadminSet
<1>15. /\ \A f \in Flows : Carries(flow[f])
       /\ \A c \in Chores : Means(chore[c])
       /\ OneTaker /\ Overtaken
  BY <1>8, <1>9, <1>10 DEF Carries, Means, OneTaker, Overtaken
<1> QED
  BY <1>11, <1>12, <1>13, <1>14, <1>15 DEF SiInv

-----------------------------------------------------------------------------
(* What a step of a flow may do to the parts of the invariant.             *)

\* A flow that goes on carries what it had; one that is over nothing.
LEMMA StepGoes ==
    ASSUME SiTyped, NEW f \in Flows, NEW pc \in FlowPC, Step(f, pc)
    PROVE  \E q \in FlowRec :
             /\ flow' = [flow EXCEPT ![f] = q] /\ q.pc = pc /\ q.took = flow[f].took
             /\ pc # "over" => q.who = flow[f].who /\ q.links = flow[f].links /\ q.user = flow[f].user
<1>1. PICK w \in FlowRec : w = flow[f]
  BY DEF SiTyped
<1>2. CASE pc = "over"
  <2>1. PICK q : q = [Idle EXCEPT !.pc = "over", !.took = w.took]
    OBVIOUS
  <2>2. flow' = [flow EXCEPT ![f] = q]
    BY <1>1, <1>2, <2>1 DEF Step
  <2>3. q \in FlowRec /\ q.pc = "over" /\ q.took = w.took
    BY <2>1 DEF Idle, FlowRec, FlowPC
  <2> QED
    BY <1>1, <1>2, <2>2, <2>3
<1>3. CASE pc # "over"
  <2>1. PICK q : q = [w EXCEPT !.pc = pc]
    OBVIOUS
  <2>2. flow' = [flow EXCEPT ![f] = q]
    BY <1>1, <1>3, <2>1 DEF Step, SiTyped
  <2>3. q \in FlowRec /\ q.pc = pc /\ q.took = w.took /\ q.who = w.who /\ q.links = w.links /\ q.user = w.user
    BY <2>1 DEF FlowRec
  <2> QED
    BY <1>1, <2>2, <2>3
<1> QED
  BY <1>2, <1>3

\* Users are never deleted here, so the other flows carry what they carried.
LEMMA CarriesStay ==
    ASSUME SiInv, NEW f \in Flows, NEW q \in FlowRec, flow' = [flow EXCEPT ![f] = q],
           existing \subseteq existing',
           q.pc \notin {"idle", "over"} => q.who \in Discords,
           q.pc \in {"linkcheck", "linkuser"} => q.links = Member,
           q.pc \in {"role", "linknew"} => q.user \in existing' /\ q.user \in Newbies
    PROVE  flow' \in [Flows -> FlowRec] /\ \A g \in Flows : Carries(flow[g])'
<1>1. flow' \in [Flows -> FlowRec] /\ flow'[f] = q /\ \A g \in Flows \ {f} : flow'[g] = flow[g]
  BY DEF SiInv, SiTyped
<1>2. ASSUME NEW g \in Flows PROVE Carries(flow[g])'
  <2>1. CASE g = f
    BY <1>1, <2>1 DEF Carries
  <2>2. CASE g # f
    BY <1>1, <2>2 DEF Carries, SiInv
  <2> QED
    BY <2>1, <2>2
<1> QED
  BY <1>1, <1>2

\* A flow that does not hold the state leaves it to who took it.
LEMMA TakerStays ==
    ASSUME SiInv, NEW f \in Flows, NEW q \in FlowRec, flow' = [flow EXCEPT ![f] = q],
           q.took = flow[f].took, flow[f].pc # "take", UNCHANGED <<ticket, reread>>
    PROVE  (reread \/ OneTaker)'
<1>1. flow'[f] = q /\ \A g \in Flows \ {f} : flow'[g] = flow[g]
  BY DEF SiInv, SiTyped
<1>2. SUFFICES ASSUME OneTaker PROVE OneTaker'
  BY DEF SiInv
<1>3. \A g \in Flows : flow'[g].took = flow[g].took
  BY <1>1
<1>4. ASSUME ticket.there, NEW g \in Flows, flow[g].took PROVE flow'[g].pc = "take"
  BY <1>1, <1>2, <1>4 DEF OneTaker
<1> QED
  BY <1>2, <1>3, <1>4 DEF OneTaker

\* Who has a way in keeps it when no account is taken away and whom the flow
\* was creating is done with.
LEMMA WayInStays ==
    ASSUME SiInv, NEW f \in Flows, NEW q \in FlowRec, flow' = [flow EXCEPT ![f] = q],
           existing' = existing, orphans \subseteq orphans',
           \A u \in Persons : identity[u] # NoOne => identity'[u] # NoOne,
           \A u \in existing : Creating(f, u) =>
             (q.user = u /\ q.pc \in {"role", "linknew"}) \/ identity'[u] # NoOne \/ u \in orphans'
    PROVE  WayIn'
<1>1. flow'[f] = q /\ \A g \in Flows \ {f} : flow'[g] = flow[g]
  BY DEF SiInv, SiTyped
<1>2. ASSUME NEW u \in existing
      PROVE  HasPassword(u) \/ identity'[u] # NoOne \/ u \in orphans' \/ \E g \in Flows : Creating(g, u)'
  <2>1. u \in Persons
    BY DEF SiInv, SiTyped
  <2>2. CASE Creating(f, u)
    BY <1>1, <2>2 DEF Creating
  <2>3. ASSUME NEW g \in Flows, g # f, Creating(g, u) PROVE Creating(g, u)'
    BY <1>1, <2>3 DEF Creating
  <2> QED
    BY <2>1, <2>2, <2>3 DEF SiInv, WayIn
<1> QED
  BY <1>2 DEF WayIn, HasPassword

\* A link that MayLink lets through is nobody else's.
LEMMA LinkIsFree ==
    ASSUME SiInv, NEW u \in Persons, NEW d \in Discords, MayLink(u, d), identity' = [identity EXCEPT ![u] = d]
    PROVE  /\ identity' \in [Persons -> Discords \cup {NoOne}] /\ OneAccountEach'
           /\ \A v \in Persons : identity[v] # NoOne => identity'[v] # NoOne
           /\ identity'[u] # NoOne
<1>1. /\ identity' \in [Persons -> Discords \cup {NoOne}] /\ identity'[u] = d
      /\ \A v \in Persons \ {u} : identity'[v] = identity[v]
  BY DEF SiInv, SiTyped
<1>2. \A v \in Persons \ {u} : identity[v] # d
  BY DEF MayLink, Holder
<1>3. d # NoOne
  BY SignInAssumption
<1> QED
  BY <1>1, <1>2, <1>3 DEF SiInv, OneAccountEach

\* The settings and the chores are not the business of a flow.
LEMMA SettingsStay ==
    ASSUME SiInv, UNCHANGED others
    PROVE  /\ SuperadminSet' /\ (~conf.login \/ Overtaken)' /\ \A c \in Chores : Means(chore[c])'
           /\ super' \in Discords \cup {NoOne} /\ lateUnlinks' \in SUBSET Chores
           /\ conf' \in [login : BOOLEAN, open : BOOLEAN, listed : SUBSET Discords]
           /\ chore' \in [Chores -> ChoreRec]
BY DEF SiInv, SiTyped, others, SuperadminSet, Overtaken, Means

-----------------------------------------------------------------------------
(* The steps of a flow.                                                    *)

LEMMA ListedOrNot ==
    ASSUME NEW d, NEW S
    PROVE  \E b \in BOOLEAN : b = (d \in S)
<1>1. CASE d \in S
  <2>1. TRUE = (d \in S)
    BY <1>1
  <2> WITNESS TRUE \in BOOLEAN
  <2> QED
    BY <2>1
<1>2. CASE ~(d \in S)
  <2>1. FALSE = (d \in S)
    BY <1>2
  <2> WITNESS FALSE \in BOOLEAN
  <2> QED
    BY <2>1
<1> QED
  BY <1>1, <1>2

LEMMA CallbackKeeps ==
    ASSUME SiInv, NEW f \in Flows, NEW d \in Discords, Callback(f, d)
    PROVE  SiInv'
<1>1. PICK w \in FlowRec : w = flow[f]
  BY DEF SiInv, SiTyped
<1>2. PICK b \in BOOLEAN : b = (d \in conf.listed)
  BY ListedOrNot
<1>3. ticket.links \in {NoOne, Member}
  BY DEF SiInv, SiTyped
<1>4. PICK q : q = [w EXCEPT !.pc = "take", !.who = d, !.links = ticket.links, !.listed = b, !.took = TRUE]
  OBVIOUS
<1>5. q \in FlowRec /\ q.pc = "take" /\ q.who = d /\ q.took = TRUE
  BY <1>3, <1>4 DEF FlowRec, FlowPC
<1>6. flow' = [flow EXCEPT ![f] = q]
  BY <1>1, <1>2, <1>4 DEF Callback, SiInv, SiTyped
<1>7. UNCHANGED <<others, identity, existing, admins, ticket, drops, orphans>>
  BY DEF Callback
<1>8. w.pc = "idle" /\ ticket.there /\ reread' = (reread \/ \E o \in Flows : flow[o].pc = "take")
  BY <1>1 DEF Callback
<1>9. flow' \in [Flows -> FlowRec] /\ \A g \in Flows : Carries(flow[g])'
  BY <1>5, <1>6, <1>7, CarriesStay
<1>10. (reread \/ OneTaker)'
  <2> SUFFICES ASSUME ~reread' PROVE OneTaker'
    OBVIOUS
  <2>1. OneTaker /\ \A g \in Flows : flow[g].pc # "take"
    BY <1>8 DEF SiInv
  <2>2. \A g \in Flows : ~flow[g].took
    BY <1>8, <2>1 DEF OneTaker
  <2>3. flow'[f] = q /\ \A g \in Flows \ {f} : flow'[g] = flow[g]
    BY <1>6 DEF SiInv, SiTyped
  <2> QED
    BY <1>5, <2>2, <2>3 DEF OneTaker
<1>11. WayIn'
  <2>1. \A u \in existing : ~Creating(f, u)
    BY <1>1, <1>8 DEF Creating
  <2> QED
    BY <1>5, <1>6, <1>7, <2>1, WayInStays
<1>12. reread' \in BOOLEAN
  BY <1>8 DEF SiInv, SiTyped
<1>13. SiTyped'
  BY <1>7, <1>9, <1>12, SettingsStay DEF SiInv, SiTyped
<1>14. OneAccountEach'
  BY <1>7 DEF SiInv, OneAccountEach
<1> QED
  BY <1>7, <1>9, <1>10, <1>11, <1>13, <1>14, SettingsStay DEF SiInv

LEMMA DeleteKeeps ==
    ASSUME SiInv, NEW f \in Flows, DeleteState(f)
    PROVE  SiInv'
<1>1. UNCHANGED <<others, identity, existing, admins, drops, orphans, reread>>
  BY DEF DeleteState
<1>2. PICK pc \in {"over", IF flow[f].links # NoOne THEN "linkcheck" ELSE "lookup"} : Step(f, pc)
  BY DEF DeleteState
<1>3. pc \in {"over", "linkcheck", "lookup"} /\ (pc = "linkcheck" => flow[f].links # NoOne)
  BY <1>2
<1>4. PICK q \in FlowRec :
             /\ flow' = [flow EXCEPT ![f] = q] /\ q.pc = pc /\ q.took = flow[f].took
             /\ pc # "over" => q.who = flow[f].who /\ q.links = flow[f].links /\ q.user = flow[f].user
  BY <1>2, <1>3, StepGoes DEF FlowPC, SiInv
<1>5. flow[f].pc = "take" /\ ticket' = [ticket EXCEPT !.there = FALSE]
  BY DEF DeleteState
<1>6. ~ticket'.there /\ ticket' \in [there : BOOLEAN, links : {NoOne, Member}]
  BY <1>5 DEF SiInv, SiTyped
<1>7. flow' \in [Flows -> FlowRec] /\ \A g \in Flows : Carries(flow[g])'
  <2>1. q.pc # "over" => q.who \in Discords
    BY <1>4, <1>5 DEF SiInv, Carries
  <2>2. q.pc = "linkcheck" => q.links = Member
    BY <1>3, <1>4 DEF FlowRec
  <2> QED
    BY <1>1, <1>3, <1>4, <2>1, <2>2, CarriesStay
<1>8. (reread \/ OneTaker)'
  <2>1. \A g \in Flows : flow'[g].took = flow[g].took
    BY <1>4 DEF SiInv, SiTyped
  <2> QED
    BY <1>1, <1>6, <2>1 DEF SiInv, OneTaker
<1>9. WayIn'
  <2>1. \A u \in existing : ~Creating(f, u)
    BY <1>5 DEF Creating
  <2> QED
    BY <1>1, <1>4, <2>1, WayInStays
<1>10. SiTyped'
  BY <1>1, <1>6, <1>7, SettingsStay DEF SiInv, SiTyped
<1>11. OneAccountEach'
  BY <1>1 DEF SiInv, OneAccountEach
<1> QED
  BY <1>1, <1>7, <1>8, <1>9, <1>10, <1>11, SettingsStay DEF SiInv

\* What is left when a flow moves on and changes no account.
LEMMA MovesOn ==
    ASSUME SiInv, NEW f \in Flows, NEW q \in FlowRec, flow' = [flow EXCEPT ![f] = q],
           q.took = flow[f].took, flow[f].pc \notin {"take", "role", "linknew"},
           q.pc \notin {"idle", "over"} => q.who \in Discords,
           q.pc \in {"linkcheck", "linkuser"} => q.links = Member,
           q.pc \notin {"role", "linknew"},
           UNCHANGED <<others, existing, admins, ticket, drops, orphans, reread>>,
           identity' \in [Persons -> Discords \cup {NoOne}], OneAccountEach',
           \A u \in Persons : identity[u] # NoOne => identity'[u] # NoOne
    PROVE  SiInv'
<1>1. flow' \in [Flows -> FlowRec] /\ \A g \in Flows : Carries(flow[g])'
  BY CarriesStay
<1>2. (reread \/ OneTaker)'
  BY TakerStays
<1>3. WayIn'
  <2>1. \A u \in existing : ~Creating(f, u)
    BY DEF Creating
  <2> QED
    BY <2>1, WayInStays
<1>4. SiTyped'
  BY <1>1, SettingsStay DEF SiInv, SiTyped
<1> QED
  BY <1>1, <1>2, <1>3, <1>4, SettingsStay DEF SiInv

\* The accounts as they are.
LEMMA AccountsStay ==
    ASSUME SiInv, UNCHANGED identity
    PROVE  /\ identity' \in [Persons -> Discords \cup {NoOne}] /\ OneAccountEach'
           /\ \A u \in Persons : identity[u] # NoOne => identity'[u] # NoOne
BY DEF SiInv, SiTyped, OneAccountEach

LEMMA ActivityKeeps ==
    ASSUME SiInv, NEW f \in Flows, NEW d \in Discords, Activity(f, d)
    PROVE  SiInv'
<1>1. PICK w \in FlowRec : w = flow[f]
  BY DEF SiInv, SiTyped
<1>2. PICK b \in BOOLEAN : b = (d \in conf.listed)
  BY ListedOrNot
<1>3. PICK q : q = [w EXCEPT !.pc = "lookup", !.who = d, !.listed = b]
  OBVIOUS
<1>4. q \in FlowRec /\ q.pc = "lookup" /\ q.who = d /\ q.took = w.took
  BY <1>3 DEF FlowRec, FlowPC
<1>5. flow' = [flow EXCEPT ![f] = q]
  BY <1>1, <1>2, <1>3 DEF Activity, SiInv, SiTyped
<1>6. UNCHANGED <<others, identity, existing, admins, ticket, drops, orphans, reread>> /\ w.pc = "idle"
  BY <1>1 DEF Activity
<1> QED
  BY <1>1, <1>4, <1>5, <1>6, AccountsStay, MovesOn

\* A flow that steps to a statement it has the account for.
LEMMA StepKeeps ==
    ASSUME SiInv, NEW f \in Flows, NEW pc \in FlowPC, Step(f, pc),
           flow[f].pc \notin {"idle", "over", "take", "role", "linknew"},
           pc \notin {"linkcheck", "role", "linknew"}, pc = "linkuser" => flow[f].links = Member,
           UNCHANGED <<others, existing, admins, ticket, drops, orphans, reread>>,
           identity' \in [Persons -> Discords \cup {NoOne}], OneAccountEach',
           \A u \in Persons : identity[u] # NoOne => identity'[u] # NoOne
    PROVE  SiInv'
<1>1. PICK q \in FlowRec :
             /\ flow' = [flow EXCEPT ![f] = q] /\ q.pc = pc /\ q.took = flow[f].took
             /\ pc # "over" => q.who = flow[f].who /\ q.links = flow[f].links /\ q.user = flow[f].user
  BY StepGoes DEF SiInv
<1>2. flow[f].who \in Discords
  BY DEF SiInv, Carries
<1> QED
  BY <1>1, <1>2, MovesOn

LEMMA LookingKeeps ==
    ASSUME SiInv, NEW f \in Flows, LinkCheck(f) \/ Lookup(f)
    PROVE  SiInv'
<1>1. UNCHANGED <<others, identity, existing, admins, ticket, drops, orphans, reread>>
  BY DEF LinkCheck, Lookup
<1>2. CASE LinkCheck(f)
  <2>1. PICK pc \in {"linkuser", "over"} : Step(f, pc)
    BY <1>2 DEF LinkCheck
  <2>2. flow[f].pc = "linkcheck" /\ flow[f].links = Member
    BY <1>2 DEF LinkCheck, SiInv, Carries
  <2> QED
    BY <1>1, <2>1, <2>2, AccountsStay, StepKeeps DEF FlowPC
<1>3. CASE Lookup(f)
  <2>1. PICK pc \in {"upsert", "over"} : Step(f, pc)
    BY <1>3 DEF Lookup
  <2>2. flow[f].pc = "lookup"
    BY <1>3 DEF Lookup
  <2> QED
    BY <1>1, <2>1, <2>2, AccountsStay, StepKeeps DEF FlowPC
<1> QED
  BY <1>2, <1>3

LEMMA LinkUserKeeps ==
    ASSUME SiInv, NEW f \in Flows, LinkUser(f)
    PROVE  SiInv'
<1>1. UNCHANGED <<others, existing, admins, ticket, drops, orphans, reread>>
  BY DEF LinkUser
<1>2. Step(f, "over") /\ flow[f].pc = "linkuser" /\ flow[f].links = Member /\ flow[f].who \in Discords
  BY DEF LinkUser, SiInv, Carries
<1>3. Member \in Persons
  BY DEF Persons
<1>4. /\ identity' \in [Persons -> Discords \cup {NoOne}] /\ OneAccountEach'
      /\ \A u \in Persons : identity[u] # NoOne => identity'[u] # NoOne
  <2>1. CASE MayLink(Member, flow[f].who)
    <3>1. identity' = [identity EXCEPT ![Member] = flow[f].who]
      BY <1>2, <2>1 DEF LinkUser
    <3> QED
      BY <1>2, <1>3, <2>1, <3>1, LinkIsFree
  <2>2. CASE ~MayLink(Member, flow[f].who)
    <3>1. UNCHANGED identity
      BY <1>2, <2>2 DEF LinkUser
    <3> QED
      BY <3>1, AccountsStay
  <2> QED
    BY <2>1, <2>2
<1> QED
  BY <1>1, <1>2, <1>4, StepKeeps DEF FlowPC

LEMMA UpsertKeeps ==
    ASSUME SiInv, NEW f \in Flows, UpsertUser(f)
    PROVE  SiInv'
<1>1. UNCHANGED <<others, identity, existing, admins, ticket, drops, orphans, reread>> /\ flow[f].pc = "upsert"
  BY DEF UpsertUser
<1>2. CASE Step(f, "over")
  BY <1>1, <1>2, AccountsStay, StepKeeps DEF FlowPC
<1>3. CASE flow' = [flow EXCEPT ![f].pc = "insert", ![f].listed = flow[f].who \in conf.listed]
  <2>1. PICK w \in FlowRec : w = flow[f]
    BY DEF SiInv, SiTyped
  <2>2. PICK b \in BOOLEAN : b = (w.who \in conf.listed)
    BY ListedOrNot
  <2>3. PICK q : q = [w EXCEPT !.pc = "insert", !.listed = b]
    OBVIOUS
  <2>4. q \in FlowRec /\ q.pc = "insert" /\ q.who = w.who /\ q.took = w.took
    BY <2>3 DEF FlowRec, FlowPC
  <2>5. flow' = [flow EXCEPT ![f] = q]
    <3>1. PICK e : e = [flow EXCEPT ![f].pc = "insert"]
      OBVIOUS
    <3>2. flow' = [e EXCEPT ![f].listed = b]
      BY <1>3, <2>1, <2>2, <3>1
    <3> QED
      BY <2>1, <2>3, <3>1, <3>2 DEF SiInv, SiTyped
  <2>6. w.who \in Discords
    BY <1>1, <2>1 DEF SiInv, Carries
  <2> QED
    BY <1>1, <2>1, <2>4, <2>5, <2>6, AccountsStay, MovesOn
<1> QED
  BY <1>2, <1>3 DEF UpsertUser

LEMMA InsertKeeps ==
    ASSUME SiInv, NEW f \in Flows, InsertUser(f)
    PROVE  SiInv'
<1>1. UNCHANGED <<others, identity, admins, ticket, drops, orphans, reread>> /\ flow[f].pc = "insert"
  BY DEF InsertUser
<1>2. PICK n : n = Another(Newbies \ existing) /\ n \in Newbies \ existing
  BY DEF InsertUser, Another
<1>3. existing' = existing \cup {n}
  BY <1>2 DEF InsertUser
<1>4. PICK w \in FlowRec : w = flow[f]
  BY DEF SiInv, SiTyped
<1>5. PICK q : q = [w EXCEPT !.pc = "role", !.user = n]
  OBVIOUS
<1>6. q \in FlowRec /\ q.pc = "role" /\ q.who = w.who /\ q.took = w.took /\ q.user = n
  BY <1>2, <1>5 DEF FlowRec, FlowPC
<1>7. flow' = [flow EXCEPT ![f] = q]
  <2>1. PICK e : e = [flow EXCEPT ![f].pc = "role"]
    OBVIOUS
  <2>2. flow' = [e EXCEPT ![f].user = n]
    BY <1>2, <2>1 DEF InsertUser
  <2> QED
    BY <1>4, <1>5, <2>1, <2>2 DEF SiInv, SiTyped
<1>8. w.who \in Discords
  BY <1>1, <1>4 DEF SiInv, Carries
<1>9. flow' \in [Flows -> FlowRec] /\ \A g \in Flows : Carries(flow[g])'
  BY <1>2, <1>3, <1>6, <1>7, <1>8, CarriesStay
<1>10. (reread \/ OneTaker)'
  BY <1>1, <1>4, <1>6, <1>7, TakerStays
<1>11. flow'[f] = q /\ \A g \in Flows \ {f} : flow'[g] = flow[g]
  BY <1>7 DEF SiInv, SiTyped
<1>12. WayIn'
  <2>1. ASSUME NEW u \in existing' PROVE HasPassword(u) \/ identity'[u] # NoOne \/ u \in orphans' \/ \E g \in Flows : Creating(g, u)'
    <3>1. CASE u = n
      BY <1>6, <1>11, <3>1 DEF Creating
    <3>2. CASE u \in existing
      <4>1. \A g \in Flows : Creating(g, u) => Creating(g, u)'
        BY <1>1, <1>11 DEF Creating
      <4> QED
        BY <1>1, <3>2, <4>1 DEF SiInv, WayIn
    <3> QED
      BY <1>3, <3>1, <3>2
  <2> QED
    BY <2>1 DEF WayIn, HasPassword
<1>13. n \in Persons
  BY <1>2 DEF Persons
<1>14. SiTyped'
  BY <1>1, <1>3, <1>9, <1>13, SettingsStay DEF SiInv, SiTyped
<1> QED
  BY <1>1, <1>9, <1>10, <1>12, <1>14, AccountsStay, SettingsStay DEF SiInv

LEMMA AssignKeeps ==
    ASSUME SiInv, NEW f \in Flows, AssignRole(f)
    PROVE  SiInv'
<1>1. UNCHANGED <<others, identity, existing, ticket, orphans, reread>> /\ flow[f].pc = "role" /\ Step(f, "linknew")
  BY DEF AssignRole
<1>2. PICK q \in FlowRec :
             /\ flow' = [flow EXCEPT ![f] = q] /\ q.pc = "linknew" /\ q.took = flow[f].took
             /\ q.who = flow[f].who /\ q.links = flow[f].links /\ q.user = flow[f].user
  BY <1>1, StepGoes DEF SiInv, FlowPC
<1>3. flow[f].who \in Discords /\ flow[f].user \in existing /\ flow[f].user \in Newbies
  BY <1>1 DEF SiInv, Carries
<1>4. flow' \in [Flows -> FlowRec] /\ \A g \in Flows : Carries(flow[g])'
  BY <1>1, <1>2, <1>3, CarriesStay
<1>5. (reread \/ OneTaker)'
  BY <1>1, <1>2, TakerStays
<1>6. WayIn'
  <2>1. \A u \in existing : Creating(f, u) => q.user = u /\ q.pc \in {"role", "linknew"}
    BY <1>2 DEF Creating
  <2> QED
    BY <1>1, <1>2, <2>1, WayInStays
<1>7. admins' \in SUBSET existing /\ drops' \in 0 .. MaxDrops
  <2>1. CASE Drop /\ UNCHANGED admins
    BY <2>1, SignInAssumption DEF Drop, SiInv, SiTyped
  <2>2. CASE admins' = (IF flow[f].listed THEN admins \cup {flow[f].user} ELSE admins) /\ UNCHANGED drops
    BY <1>3, <2>2 DEF SiInv, SiTyped
  <2> QED
    BY <2>1, <2>2 DEF AssignRole
<1>8. SiTyped'
  BY <1>1, <1>4, <1>7, SettingsStay DEF SiInv, SiTyped
<1> QED
  BY <1>1, <1>4, <1>5, <1>6, <1>8, AccountsStay, SettingsStay DEF SiInv

LEMMA LinkNewKeeps ==
    ASSUME SiInv, NEW f \in Flows, LinkNew(f)
    PROVE  SiInv'
<1>1. UNCHANGED <<others, existing, admins, ticket, reread>> /\ flow[f].pc = "linknew" /\ Step(f, "over")
  BY DEF LinkNew
<1>2. PICK q \in FlowRec :
             flow' = [flow EXCEPT ![f] = q] /\ q.pc = "over" /\ q.took = flow[f].took
  BY <1>1, StepGoes DEF SiInv, FlowPC
<1>3. PICK u : u = flow[f].user /\ u \in Newbies /\ u \in Persons
  BY <1>1 DEF SiInv, Carries, Persons
<1>4. PICK d \in Discords : d = flow[f].who
  BY <1>1 DEF SiInv, Carries
<1>5. flow' \in [Flows -> FlowRec] /\ \A g \in Flows : Carries(flow[g])'
  BY <1>1, <1>2, CarriesStay
<1>6. (reread \/ OneTaker)'
  BY <1>1, <1>2, TakerStays
<1>7. /\ identity' \in [Persons -> Discords \cup {NoOne}] /\ OneAccountEach'
      /\ \A v \in Persons : identity[v] # NoOne => identity'[v] # NoOne
      /\ orphans \subseteq orphans' /\ orphans' \in SUBSET Newbies /\ drops' \in 0 .. MaxDrops
      /\ identity'[u] # NoOne \/ u \in orphans'
  <2>1. CASE MayLink(u, d) /\ identity' = [identity EXCEPT ![u] = d] /\ UNCHANGED <<orphans, drops>>
    <3>1. orphans \subseteq orphans' /\ orphans' \in SUBSET Newbies /\ drops' \in 0 .. MaxDrops
      BY <2>1 DEF SiInv, SiTyped
    <3> QED
      BY <1>3, <2>1, <3>1, LinkIsFree
  <2>2. CASE (Drop \/ UNCHANGED drops) /\ orphans' = orphans \cup {u} /\ UNCHANGED identity
    <3>1. drops' \in 0 .. MaxDrops
      BY <2>2, SignInAssumption DEF Drop, SiInv, SiTyped
    <3>2. orphans \subseteq orphans' /\ orphans' \in SUBSET Newbies /\ u \in orphans'
      BY <1>3, <2>2 DEF SiInv, SiTyped
    <3> QED
      BY <2>2, <3>1, <3>2, AccountsStay
  <2> QED
    BY <1>3, <1>4, <2>1, <2>2 DEF LinkNew
<1>8. WayIn'
  <2>1. \A v \in existing : Creating(f, v) => identity'[v] # NoOne \/ v \in orphans'
    BY <1>3, <1>7 DEF Creating
  <2> QED
    BY <1>1, <1>2, <1>7, <2>1, WayInStays
<1>9. SiTyped'
  BY <1>1, <1>5, <1>7, SettingsStay DEF SiInv, SiTyped
<1> QED
  BY <1>1, <1>5, <1>6, <1>7, <1>8, <1>9, SettingsStay DEF SiInv

-----------------------------------------------------------------------------
(* The steps of the users and the administrator.                           *)

\* The flows are not the business of a chore.
LEMMA FlowsStay ==
    ASSUME SiInv, UNCHANGED chores,
           \A u \in Persons : identity[u] # NoOne => HasPassword(u) \/ identity'[u] # NoOne
    PROVE  /\ WayIn' /\ (\A f \in Flows : Carries(flow[f])') /\ (reread \/ OneTaker)'
           /\ existing' \in SUBSET Persons /\ admins' \in SUBSET existing' /\ orphans' \in SUBSET Newbies
           /\ drops' \in 0 .. MaxDrops /\ ticket' \in [there : BOOLEAN, links : {NoOne, Member}]
           /\ flow' \in [Flows -> FlowRec] /\ reread' \in BOOLEAN
<1>1. UNCHANGED <<existing, admins, ticket, flow, drops, orphans, reread>>
  BY DEF chores
<1>2. \A f \in Flows : Carries(flow[f])'
  BY <1>1 DEF SiInv, Carries
<1>3. (reread \/ OneTaker)'
  BY <1>1 DEF SiInv, OneTaker
<1>4. WayIn'
  <2>1. \A u \in existing : u \in Persons
    BY DEF SiInv, SiTyped
  <2>2. \A u \in existing : HasPassword(u) \/ identity'[u] # NoOne \/ u \in orphans
                            \/ \E f \in Flows : Creating(f, u)
    BY <2>1 DEF SiInv, WayIn
  <2>3. \A f \in Flows, u \in existing : Creating(f, u) => Creating(f, u)'
    BY <1>1 DEF Creating
  <2> QED
    BY <1>1, <2>2, <2>3 DEF WayIn, HasPassword
<1> QED
  BY <1>1, <1>2, <1>3, <1>4 DEF SiInv, SiTyped

\* The setting of the administrator's account is never emptied.
LEMMA MeansStay ==
    ASSUME SiInv, NEW c \in Chores, NEW q \in ChoreRec, chore' = [chore EXCEPT ![c] = q],
           super # NoOne => super' # NoOne,
           q.pc = "unlink" => q.user \in {Root, Member},
           q.pc \in {"associate", "link", "set"} => q.super \in Discords,
           q.pc = "save" /\ q.login => super' # NoOne
    PROVE  chore' \in [Chores -> ChoreRec] /\ \A o \in Chores : Means(chore[o])'
<1>1. chore' \in [Chores -> ChoreRec] /\ chore'[c] = q /\ \A o \in Chores \ {c} : chore'[o] = chore[o]
  BY DEF SiInv, SiTyped
<1>2. ASSUME NEW o \in Chores PROVE Means(chore[o])'
  <2>1. CASE o = c
    BY <1>1, <2>1 DEF Means
  <2>2. CASE o # c
    BY <1>1, <2>2 DEF Means, SiInv
  <2> QED
    BY <2>1, <2>2
<1> QED
  BY <1>1, <1>2

\* What is left when a chore moves on and the settings stay.
LEMMA ChoreMovesOn ==
    ASSUME SiInv, NEW c \in Chores, NEW q \in ChoreRec, chore' = [chore EXCEPT ![c] = q],
           UNCHANGED <<conf, chores>>,
           super' \in Discords \cup {NoOne}, super # NoOne => super' # NoOne,
           q.pc = "unlink" => q.user \in {Root, Member} /\ ~conf.login,
           q.pc \in {"associate", "link", "set"} => q.super \in Discords,
           q.pc = "save" /\ q.login => super' # NoOne,
           lateUnlinks' = lateUnlinks \/ (lateUnlinks' = lateUnlinks \ {c} /\ q.pc # "unlink"),
           identity' \in [Persons -> Discords \cup {NoOne}], OneAccountEach',
           \A u \in Persons : identity[u] # NoOne => HasPassword(u) \/ identity'[u] # NoOne
    PROVE  SiInv'
<1>1. chore' \in [Chores -> ChoreRec] /\ \A o \in Chores : Means(chore[o])'
  BY MeansStay
<1>2. chore'[c] = q /\ \A o \in Chores \ {c} : chore'[o] = chore[o]
  BY DEF SiInv, SiTyped
<1>3. (~conf.login \/ Overtaken)'
  <2>1. SUFFICES ASSUME conf.login PROVE Overtaken'
    OBVIOUS
  <2>2. Overtaken
    BY <2>1 DEF SiInv
  <2>3. q.pc # "unlink"
    BY <2>1
  <2>4. ASSUME NEW o \in Chores, chore'[o].pc = "unlink" PROVE o \in lateUnlinks'
    <3>1. o # c /\ chore[o].pc = "unlink"
      BY <1>2, <2>3, <2>4
    <3> QED
      BY <2>2, <3>1 DEF Overtaken
  <2> QED
    BY <2>4 DEF Overtaken
<1>4. SuperadminSet'
  BY DEF SiInv, SuperadminSet
<1>5. lateUnlinks' \in SUBSET Chores /\ conf' \in [login : BOOLEAN, open : BOOLEAN, listed : SUBSET Discords]
  BY DEF SiInv, SiTyped
<1>6. SiTyped'
  BY <1>1, <1>5, FlowsStay DEF SiTyped
<1> QED
  BY <1>1, <1>3, <1>4, <1>6, FlowsStay DEF SiInv

LEMMA ChoreTypes ==
    ASSUME SiInv, NEW c \in Chores
    PROVE  \E w \in ChoreRec : w = chore[c]
BY DEF SiInv, SiTyped

LEMMA AskUnlinkKeeps ==
    ASSUME SiInv, NEW c \in Chores, NEW u \in Persons, AskUnlink(c, u)
    PROVE  SiInv'
<1>1. PICK w \in ChoreRec : w = chore[c]
  BY ChoreTypes
<1>2. PICK q : q = [w EXCEPT !.pc = "unlink", !.user = u]
  OBVIOUS
<1>3. q \in ChoreRec /\ q.pc = "unlink" /\ q.user = u
  BY <1>2 DEF ChoreRec, ChorePC
<1>4. chore' = [chore EXCEPT ![c] = q]
  BY <1>1, <1>2 DEF AskUnlink, SiInv, SiTyped
<1>5. UNCHANGED <<identity, conf, super, lateUnlinks, chores>> /\ ~conf.login /\ u \in {Root, Member}
  BY DEF AskUnlink, HasPassword
<1>6. super' \in Discords \cup {NoOne}
  BY <1>5 DEF SiInv, SiTyped
<1> QED
  BY <1>3, <1>4, <1>5, <1>6, AccountsStay, ChoreMovesOn

LEMMA OverRec == [NoChore EXCEPT !.pc = "over"] \in ChoreRec /\ [NoChore EXCEPT !.pc = "over"].pc = "over"
BY DEF NoChore, ChoreRec, ChorePC

LEMMA UnlinkKeeps ==
    ASSUME SiInv, NEW c \in Chores, Unlink(c)
    PROVE  SiInv'
<1>1. PICK q \in ChoreRec : q = [NoChore EXCEPT !.pc = "over"] /\ q.pc = "over"
  BY OverRec
<1>2. chore' = [chore EXCEPT ![c] = q] /\ lateUnlinks' = lateUnlinks \ {c} /\ UNCHANGED <<conf, super, chores>>
  BY <1>1 DEF Unlink
<1>3. PICK u : u = chore[c].user /\ HasPassword(u) /\ u \in Persons
  BY DEF Unlink, SiInv, Means, HasPassword, Persons
<1>4. identity' = [identity EXCEPT ![u] = NoOne]
  BY <1>3 DEF Unlink
<1>5. identity' \in [Persons -> Discords \cup {NoOne}] /\ \A v \in Persons \ {u} : identity'[v] = identity[v]
  BY <1>4 DEF SiInv, SiTyped
<1>6. identity'[u] = NoOne
  BY <1>3, <1>4 DEF SiInv, SiTyped
<1>7. OneAccountEach'
  BY <1>5, <1>6 DEF SiInv, OneAccountEach
<1>8. super' \in Discords \cup {NoOne}
  BY <1>2 DEF SiInv, SiTyped
<1> QED
  BY <1>1, <1>2, <1>3, <1>5, <1>7, <1>8, ChoreMovesOn

LEMMA PutKeeps ==
    ASSUME SiInv, NEW c \in Chores, NEW login \in BOOLEAN, NEW open \in BOOLEAN,
           NEW d \in Discords \cup {NoOne}, Put(c, login, open, d)
    PROVE  SiInv'
<1>1. PICK id : id = (IF d # NoOne THEN d ELSE SuperId) /\ id \in Discords \cup {NoOne}
  <2>1. SuperId \in Discords \cup {NoOne}
    BY DEF SuperId, SiInv, SiTyped, Persons
  <2> QED
    BY <2>1
<1>2. PICK pc : pc = (IF id # NoOne THEN "associate" ELSE IF login THEN "over" ELSE "save")
  OBVIOUS
<1>3. PICK q : q = [pc |-> pc, user |-> Root, super |-> id, login |-> login, open |-> open,
                    listed |-> conf.listed \cup ({id} \ {NoOne})]
  OBVIOUS
<1>4. chore' = [chore EXCEPT ![c] = q] /\ UNCHANGED <<identity, conf, super, lateUnlinks, chores>>
  BY <1>1, <1>2, <1>3 DEF Put
<1>5. conf.listed \cup ({id} \ {NoOne}) \in SUBSET Discords
  BY <1>1 DEF SiInv, SiTyped
<1>6. pc \in ChorePC /\ Root \in Persons
  BY <1>2 DEF ChorePC, Persons
<1>7. q \in ChoreRec /\ q.pc = pc /\ q.super = id /\ q.login = login
  BY <1>1, <1>3, <1>5, <1>6 DEF ChoreRec
<1>8. pc # "unlink" /\ pc \notin {"link", "set"} /\ (pc = "associate" => id \in Discords) /\ (pc = "save" => ~login)
  BY <1>1, <1>2
<1>9. super' \in Discords \cup {NoOne}
  BY <1>4 DEF SiInv, SiTyped
<1> QED
  BY <1>4, <1>7, <1>8, <1>9, AccountsStay, ChoreMovesOn

\* A chore that goes on to another statement.
LEMMA ChoreGoes ==
    ASSUME SiInv, NEW c \in Chores, NEW pc \in ChorePC, chore' = [chore EXCEPT ![c].pc = pc]
    PROVE  \E q \in ChoreRec : /\ chore' = [chore EXCEPT ![c] = q] /\ q.pc = pc
                               /\ q.super = chore[c].super /\ q.login = chore[c].login
<1>1. PICK w \in ChoreRec : w = chore[c]
  BY ChoreTypes
<1>2. PICK q : q = [w EXCEPT !.pc = pc]
  OBVIOUS
<1>3. q \in ChoreRec /\ q.pc = pc /\ q.super = w.super /\ q.login = w.login
  BY <1>2 DEF ChoreRec
<1>4. chore' = [chore EXCEPT ![c] = q]
  BY <1>1, <1>2 DEF SiInv, SiTyped
<1> QED
  BY <1>1, <1>3, <1>4

LEMMA AssociateKeeps ==
    ASSUME SiInv, NEW c \in Chores, AssociateCheck(c) \/ AssociateLink(c) \/ AssociateSet(c)
    PROVE  SiInv'
<1>1. chore[c].super \in Discords
  BY DEF AssociateCheck, AssociateLink, AssociateSet, SiInv, Means
<1>2. Root \in Persons /\ super \in Discords \cup {NoOne}
  BY DEF Persons, SiInv, SiTyped
<1>3. CASE AssociateCheck(c)
  <2>1. UNCHANGED <<identity, conf, super, lateUnlinks, chores>>
    BY <1>3 DEF AssociateCheck
  <2>2. PICK pc \in {"link", "over"} : chore' = [chore EXCEPT ![c].pc = pc]
    BY <1>3 DEF AssociateCheck
  <2>4. pc \in ChorePC
    BY DEF ChorePC
  <2>3. PICK q \in ChoreRec : /\ chore' = [chore EXCEPT ![c] = q] /\ q.pc = pc
                              /\ q.super = chore[c].super /\ q.login = chore[c].login
    BY <2>2, <2>4, ChoreGoes
  <2> QED
    BY <1>1, <1>2, <2>1, <2>2, <2>3, AccountsStay, ChoreMovesOn
<1>4. CASE AssociateLink(c)
  <2>1. UNCHANGED <<conf, super, lateUnlinks, chores>>
    BY <1>4 DEF AssociateLink
  <2>2. CASE MayLink(Root, chore[c].super)
    <3>1. identity' = [identity EXCEPT ![Root] = chore[c].super] /\ chore' = [chore EXCEPT ![c].pc = "set"]
      BY <1>4, <2>2 DEF AssociateLink
    <3>2. PICK q \in ChoreRec : /\ chore' = [chore EXCEPT ![c] = q] /\ q.pc = "set"
                                /\ q.super = chore[c].super /\ q.login = chore[c].login
      BY <3>1, ChoreGoes DEF ChorePC
    <3>3. /\ identity' \in [Persons -> Discords \cup {NoOne}] /\ OneAccountEach'
          /\ \A v \in Persons : identity[v] # NoOne => identity'[v] # NoOne
      BY <1>1, <1>2, <2>2, <3>1, LinkIsFree
    <3> QED
      BY <1>1, <1>2, <2>1, <3>2, <3>3, ChoreMovesOn
  <2>3. CASE ~MayLink(Root, chore[c].super)
    <3>1. PICK q \in ChoreRec : q = [NoChore EXCEPT !.pc = "over"] /\ q.pc = "over"
      BY OverRec
    <3>2. UNCHANGED identity /\ chore' = [chore EXCEPT ![c] = q]
      BY <1>4, <2>3, <3>1 DEF AssociateLink
    <3> QED
      BY <1>2, <2>1, <3>1, <3>2, AccountsStay, ChoreMovesOn
  <2> QED
    BY <2>2, <2>3
<1>5. CASE AssociateSet(c)
  <2>1. UNCHANGED <<identity, conf, lateUnlinks, chores>> /\ super' = chore[c].super
    BY <1>5 DEF AssociateSet
  <2>2. chore' = [chore EXCEPT ![c].pc = "save"]
    BY <1>5 DEF AssociateSet
  <2>3. PICK q \in ChoreRec : /\ chore' = [chore EXCEPT ![c] = q] /\ q.pc = "save"
                              /\ q.super = chore[c].super /\ q.login = chore[c].login
    BY <2>2, ChoreGoes DEF ChorePC
  <2>4. super' # NoOne
    BY <1>1, <2>1, SignInAssumption
  <2> QED
    BY <1>1, <2>1, <2>3, <2>4, AccountsStay, ChoreMovesOn
<1> QED
  BY <1>3, <1>4, <1>5

LEMMA SaveKeeps ==
    ASSUME SiInv, NEW c \in Chores, Save(c)
    PROVE  SiInv'
<1>1. PICK q \in ChoreRec : q = [NoChore EXCEPT !.pc = "over"] /\ q.pc = "over"
  BY OverRec
<1>2. chore' = [chore EXCEPT ![c] = q] /\ UNCHANGED <<identity, super, chores>>
  BY <1>1 DEF Save
<1>3. PICK w \in ChoreRec : w = chore[c]
  BY ChoreTypes
<1>4. conf' = [login |-> w.login, open |-> w.open, listed |-> w.listed] /\ conf'.login = w.login
  BY <1>3 DEF Save
<1>5. conf' \in [login : BOOLEAN, open : BOOLEAN, listed : SUBSET Discords]
  BY <1>4 DEF ChoreRec
<1>6. w.login => super # NoOne
  BY <1>3 DEF Save, SiInv, Means
<1>7. chore' \in [Chores -> ChoreRec] /\ \A o \in Chores : Means(chore[o])'
  BY <1>1, <1>2, MeansStay
<1>8. lateUnlinks' = (IF conf'.login THEN {o \in Chores : chore[o].pc = "unlink"} ELSE lateUnlinks)
  BY DEF Save
<1>9. (~conf.login \/ Overtaken)'
  <2>1. SUFFICES ASSUME conf'.login PROVE Overtaken'
    OBVIOUS
  <2>2. lateUnlinks' = {o \in Chores : chore[o].pc = "unlink"}
    BY <1>8, <2>1
  <2>3. chore'[c].pc = "over" /\ \A o \in Chores \ {c} : chore'[o] = chore[o]
    BY <1>1, <1>2 DEF SiInv, SiTyped
  <2> QED
    BY <2>2, <2>3 DEF Overtaken
<1>10. SuperadminSet'
  BY <1>2, <1>4, <1>6 DEF SuperadminSet
<1>11. lateUnlinks' \in SUBSET Chores
  BY <1>8 DEF SiInv, SiTyped
<1>12. \A u \in Persons : identity[u] # NoOne => HasPassword(u) \/ identity'[u] # NoOne
  BY <1>2
<1>13. super' \in Discords \cup {NoOne}
  BY <1>2 DEF SiInv, SiTyped
<1>14. SiTyped'
  BY <1>2, <1>5, <1>7, <1>11, <1>12, <1>13, AccountsStay, FlowsStay DEF SiTyped
<1> QED
  BY <1>2, <1>7, <1>9, <1>10, <1>12, <1>14, AccountsStay, FlowsStay DEF SiInv

-----------------------------------------------------------------------------
(* Together.                                                               *)

THEOREM SignInNext == SiInv /\ [SINext]_siVars => SiInv'
<1>1. ASSUME SiInv, SINext PROVE SiInv'
  <2>1. ASSUME NEW f \in Flows, NEW d \in Discords, Callback(f, d) \/ Activity(f, d) PROVE SiInv'
    BY <1>1, <2>1, CallbackKeeps, ActivityKeeps
  <2>2. ASSUME NEW f \in Flows, DeleteState(f) \/ LinkCheck(f) \/ LinkUser(f) \/ Lookup(f) \/ UpsertUser(f)
        PROVE  SiInv'
    BY <1>1, <2>2, DeleteKeeps, LookingKeeps, LinkUserKeeps, UpsertKeeps
  <2>3. ASSUME NEW f \in Flows, InsertUser(f) \/ AssignRole(f) \/ LinkNew(f) PROVE SiInv'
    BY <1>1, <2>3, InsertKeeps, AssignKeeps, LinkNewKeeps
  <2>4. ASSUME NEW c \in Chores, NEW u \in Persons, AskUnlink(c, u) PROVE SiInv'
    BY <1>1, <2>4, AskUnlinkKeeps
  <2>5. ASSUME NEW c \in Chores, NEW login \in BOOLEAN, NEW open \in BOOLEAN,
               NEW d \in Discords \cup {NoOne}, Put(c, login, open, d)
        PROVE  SiInv'
    BY <1>1, <2>5, PutKeeps
  <2>6. ASSUME NEW c \in Chores, Unlink(c) \/ AssociateCheck(c) \/ AssociateLink(c) \/ AssociateSet(c) \/ Save(c)
        PROVE  SiInv'
    BY <1>1, <2>6, UnlinkKeeps, AssociateKeeps, SaveKeeps
  <2> QED
    BY <1>1, <2>1, <2>2, <2>3, <2>4, <2>5, <2>6 DEF SINext
<1>2. ASSUME SiInv, UNCHANGED siVars PROVE SiInv'
  <2>1. UNCHANGED <<others, identity, existing, admins, ticket, flow, drops, orphans, reread>>
    BY <1>2 DEF siVars, others
  <2>2. UNCHANGED chores
    BY <2>1 DEF chores
  <2>3. \A u \in Persons : identity[u] # NoOne => HasPassword(u) \/ identity'[u] # NoOne
    BY <2>1
  <2>4. SiTyped'
    BY <1>2, <2>1, <2>2, <2>3, AccountsStay, FlowsStay, SettingsStay DEF SiTyped
  <2> QED
    BY <1>2, <2>1, <2>2, <2>3, <2>4, AccountsStay, FlowsStay, SettingsStay DEF SiInv
<1> QED
  BY <1>1, <1>2

LEMMA SignInIsSafe == SiInv => SignInSafe
<1> SUFFICES ASSUME SiInv PROVE SignInSafe
  OBVIOUS
<1>1. SITypeOK
  BY DEF SiInv, SiTyped, SITypeOK
<1>2. NobodyLockedOut
  BY DEF SiInv, WayIn, NobodyLockedOut, Creating
<1>3. StateOnce
  <2> SUFFICES ASSUME ~reread PROVE Cardinality({f \in Flows : flow[f].took}) <= 1
    BY DEF StateOnce
  <2>1. \A f, g \in Flows : flow[f].took /\ flow[g].took => f = g
    BY DEF SiInv, OneTaker
  <2>2. PICK x : {f \in Flows : flow[f].took} \subseteq {x}
    BY <2>1
  <2>3. IsFiniteSet({x}) /\ Cardinality({x}) = 1
    BY FS_Singleton
  <2>4. Cardinality({f \in Flows : flow[f].took}) <= 1
    BY <2>2, <2>3, FS_Subset
  <2> QED
    BY <2>4
<1> QED
  BY <1>1, <1>2, <1>3 DEF SiInv, SignInSafe

\* While the sign-in is on only an overtaken unlink takes an account away.
LEMMA OnlyLateUnlinks ==
    ASSUME SiInv, [SINext]_siVars, conf.login, NEW u \in Persons, identity[u] # NoOne, identity'[u] = NoOne
    PROVE  \E c \in lateUnlinks : chore[c].user = u /\ chore[c].pc = "unlink"
<1>1. ASSUME NEW f \in Flows, NEW v \in Persons, NEW d \in Discords, MayLink(v, d),
             identity' = [identity EXCEPT ![v] = d]
      PROVE  FALSE
  BY <1>1, LinkIsFree
<1>2. ~UNCHANGED identity
  OBVIOUS
<1>3. ASSUME NEW f \in Flows, LinkUser(f) PROVE FALSE
  <2>1. flow[f].links = Member /\ flow[f].who \in Discords /\ Member \in Persons
    BY <1>3 DEF LinkUser, SiInv, Carries, Persons
  <2> QED
    BY <1>1, <1>2, <1>3, <2>1 DEF LinkUser
<1>4. ASSUME NEW f \in Flows, LinkNew(f) PROVE FALSE
  <2>1. flow[f].user \in Persons /\ flow[f].who \in Discords
    BY <1>4 DEF LinkNew, SiInv, Carries, Persons
  <2> QED
    BY <1>1, <1>2, <1>4, <2>1 DEF LinkNew
<1>5. ASSUME NEW c \in Chores, AssociateLink(c) PROVE FALSE
  <2>1. chore[c].super \in Discords /\ Root \in Persons
    BY <1>5 DEF AssociateLink, SiInv, Means, Persons
  <2>2. MayLink(Root, chore[c].super) /\ identity' = [identity EXCEPT ![Root] = chore[c].super]
    BY <1>2, <1>5 DEF AssociateLink
  <2> QED
    BY <2>1, <2>2, LinkIsFree
<1>6. PICK c \in Chores : Unlink(c)
  BY <1>2, <1>3, <1>4, <1>5 DEF SINext, siVars, Callback, Activity, DeleteState, LinkCheck, Lookup, UpsertUser,
     InsertUser, AssignRole, AskUnlink, Put, AssociateCheck, AssociateSet, Save
<1>7. chore[c].pc = "unlink" /\ identity' = [identity EXCEPT ![chore[c].user] = NoOne]
  BY <1>6 DEF Unlink
<1>8. chore[c].user = u
  BY <1>2, <1>7 DEF SiInv, SiTyped
<1>9. c \in lateUnlinks
  BY <1>7 DEF SiInv, Overtaken
<1> QED
  BY <1>7, <1>8, <1>9

\* What SignIn promises (auth/discord.go): nobody is left without a way in but
\* whose link failed as it was created, a Discord account opens one ViewDock
\* account, the sign-in is never on without its administrator, a login state is
\* used once unless it was read again before it was deleted, and while the
\* sign-in is on nobody loses the account except to an unlink it overtook.
THEOREM SignInKeepsContract == SISpec => SignInContract
<1>1. SIInit => SiInv
  BY SignInStart
<1>2. SiInv /\ [SINext]_siVars => SiInv'
  BY SignInNext
<1>3. SiInv => SignInSafe
  BY SignInIsSafe
<1>4. SiInv /\ [SINext]_siVars =>
        [conf.login => \A u \in Persons : identity[u] # NoOne /\ identity'[u] = NoOne =>
           \E c \in lateUnlinks : chore[c].user = u /\ chore[c].pc = "unlink"]_siVars
  BY OnlyLateUnlinks
<1>5. SiInv' => SignInSafe'
  BY <1>3, PTL
<1>6. SiInv /\ [SINext]_siVars => [UNCHANGED siVars \/ SignInSafe']_siVars
  BY <1>2, <1>5
<1> QED
  BY <1>1, <1>2, <1>4, <1>6, PTL DEF SISpec, SignInContract, KeptWhileOn

=============================================================================
