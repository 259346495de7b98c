------------------------------ MODULE Households -------------------------------
(***************************************************************************)
(* Households (users/households.go and households_admin.go): who owns      *)
(* them, who belongs to them and with which age limit. Owners, people with *)
(* an invite and administrators send requests that check and then write.   *)
(* The database keeps one household per owner and one row per household    *)
(* and member, and nothing more.                                           *)
(***************************************************************************)
EXTENDS Integers, FiniteSets

CONSTANTS
    Homes,         \* ids of households
    First, Second, \* two of them: one that there is and one that there may be
    Ann, Bob, Cat, \* its owner, a child in it, and somebody else
    Posts,         \* requests, each made once
    MaxHomeFaults  \* bound on statements that fail

Folk == {Ann, Bob, Cat}
NoOwner == "nobody"

ASSUME HouseholdsAssumption ==
    /\ First \in Homes /\ Second \in Homes /\ First # Second
    /\ Ann # Bob /\ Ann # Cat /\ Bob # Cat /\ NoOwner \notin Folk
    /\ Posts \subseteq Nat /\ MaxHomeFaults \in Nat

VARIABLES
    owner,       \* households.owner_id, NoOwner: there is no such household
    member,      \* the role of each in each household, or "none"
    limit,       \* the age limit that goes with it; 0: none
    invite,      \* the invite to First: "open", "used" or "gone"
    post,        \* requests
    homeFaults,
    stale,       \* history: a request wrote after another had, since its check
    guests       \* history: who joined by the invite

hhVars == <<owner, member, limit, invite, post, homeFaults, stale, guests>>

MemberRoles == {"owner", "adult", "child"}
Ages == {0, 12}

Blank == [pc |-> "idle", do |-> "none", home |-> First, into |-> First, who |-> Ann, from |-> Ann,
          role |-> "none", age |-> 0, fresh |-> TRUE]
Done == [Blank EXCEPT !.pc = "ended"]
PostPC == {"idle", "write", "join", "release", "ended"}

HHTypeOK ==
    /\ owner \in [Homes -> Folk \cup {NoOwner}]
    /\ member \in [Homes -> [Folk -> MemberRoles \cup {"none"}]]
    /\ limit \in [Homes -> [Folk -> Ages]]
    /\ \A r \in Posts : post[r].pc \in PostPC

HHStart ==
    /\ \E o \in {NoOwner, Cat} :
         /\ owner = [h \in Homes |-> CASE h = First -> Ann [] h = Second -> o [] OTHER -> NoOwner]
         /\ member = [h \in Homes |-> [u \in Folk |->
              CASE h = First /\ u = Ann -> "owner" [] h = First /\ u = Bob -> "child"
                [] h = Second /\ u = o -> "owner" [] OTHER -> "none"]]
    /\ limit = [h \in Homes |-> [u \in Folk |-> IF h = First /\ u = Bob THEN 12 ELSE 0]]
    /\ invite = "open"
    /\ post = [r \in Posts |-> Blank]
    /\ homeFaults = 0 /\ stale = FALSE /\ guests = {}

Exists(h) == owner[h] # NoOwner
InAny(u) == \E h \in Homes : member[h][u] # "none"
HomeFault == homeFaults < MaxHomeFaults /\ homeFaults' = homeFaults + 1

-----------------------------------------------------------------------------
(* A request arrives and is checked. The ceiling on whom an administrator  *)
(* may change is Accounts' MayModify.                                      *)

Aged(r) == [o \in Posts |-> [post[o] EXCEPT !.fresh = @ /\ (o = r \/ post[o].pc = "ended")]]

Midway(r) == \E o \in Posts \ {r} : post[o].pc \in {"join", "release"}

Take(r, q) ==
    /\ post[r].pc = "idle" /\ \A o \in Posts : o < r => post[o].pc # "idle"
    /\ post' = [post EXCEPT ![r] = [q EXCEPT !.pc = "write", !.fresh = ~Midway(r)]]
    /\ UNCHANGED <<owner, member, limit, invite, homeFaults, stale, guests>>

\* A slip: whoever has a household may have another one.
FreeAnyway(u) == TRUE

\* "user already belongs to a household".
Free(u) == ~InAny(u)

\* ownerHousehold of whoever asks.
Owns(u, h) == owner[h] = u /\ member[h][u] = "owner"

\* createHousehold: two statements; adminCreateHousehold: one transaction.
Create(r, h, u, do) ==
    /\ do \in {"create", "adminCreate"} /\ ~Exists(h) /\ Free(u)
    /\ Take(r, [Blank EXCEPT !.do = do, !.home = h, !.who = u])

Accept(r, u) ==
    /\ invite = "open" /\ Free(u)
    /\ Take(r, [Blank EXCEPT !.do = "accept", !.who = u])

\* addHouseholdMember of somebody who belongs to the household.
OwnerUpdate(r, h, by, u, role, age) ==
    /\ Owns(by, h) /\ u # by /\ member[h][u] # "none"
    /\ \A o \in Homes \ {h} : member[o][u] = "none"
    /\ Take(r, [Blank EXCEPT !.do = "ownerUpdate", !.home = h, !.who = u, !.role = role, !.age = age])

\* The same for somebody new, by an owner who may manage users.
OwnerAdd(r, h, by, u) ==
    /\ Owns(by, h) /\ Free(u)
    /\ Take(r, [Blank EXCEPT !.do = "ownerAdd", !.home = h, !.who = u, !.role = "adult"])

OwnerRemove(r, h, by, u) ==
    /\ Owns(by, h) /\ u # by
    /\ Take(r, [Blank EXCEPT !.do = "ownerRemove", !.home = h, !.who = u])

\* adminPatchHousehold hands a household to one of its members.
Transfer(r, h, u) ==
    /\ Exists(h) /\ u # owner[h] /\ member[h][u] # "none"
    /\ Take(r, [Blank EXCEPT !.do = "transfer", !.home = h, !.who = u, !.from = owner[h]])

Dissolve(r, h) == Exists(h) /\ Take(r, [Blank EXCEPT !.do = "delete", !.home = h])

\* adminPatchHouseholdMember: the role is kept or, for others than the owner, set.
Patch(r, h, u, role, age) ==
    /\ member[h][u] # "none" /\ (role = "kept" \/ member[h][u] # "owner")
    /\ Take(r, [Blank EXCEPT !.do = "patch", !.home = h, !.who = u, !.age = age,
                             !.role = IF role = "kept" THEN member[h][u] ELSE role])

Move(r, h, u, into) ==
    /\ h # into /\ member[h][u] \notin {"none", "owner"} /\ Exists(into)
    /\ Take(r, [Blank EXCEPT !.do = "move", !.home = h, !.into = into, !.who = u,
                             !.role = member[h][u], !.age = limit[h][u]])

AdminRemove(r, h, u) ==
    /\ member[h][u] \notin {"none", "owner"}
    /\ Take(r, [Blank EXCEPT !.do = "remove", !.home = h, !.who = u])

-----------------------------------------------------------------------------
(* The statements.                                                         *)

NoFolk == [u \in Folk |-> "none"]
SetRole(h, u, role) == member' = [member EXCEPT ![h][u] = role]
SetAge(h, u, age) == limit' = [limit EXCEPT ![h][u] = age]
Row(h, u, role, age) == SetRole(h, u, role) /\ SetAge(h, u, age)

\* The index on owner_id.
OwnsOne(u) == \E h \in Homes : owner[h] = u

\* INSERT INTO household_members: the household must be there, the row not.
Insertable(h, u) == Exists(h) /\ member[h][u] = "none"

Changed(r, q) == stale' = (stale \/ ~post[r].fresh) /\ post' = [Aged(r) EXCEPT ![r] = q]
Refused(r) == post' = [post EXCEPT ![r] = Done] /\ UNCHANGED <<owner, member, limit, invite, stale>>

WriteCreate(r) ==
    LET h == post[r].home
        u == post[r].who
    IN  /\ post[r].do \in {"create", "adminCreate"}
        /\ IF OwnsOne(u) \/ Exists(h) THEN Refused(r)
           ELSE /\ owner' = [owner EXCEPT ![h] = u]
                /\ IF post[r].do = "create"
                   THEN Changed(r, [post[r] EXCEPT !.pc = "join", !.role = "owner"]) /\ UNCHANGED <<member, limit>>
                   ELSE Changed(r, Done) /\ Row(h, u, "owner", 0)
                /\ UNCHANGED invite
        /\ UNCHANGED <<homeFaults, guests>>

\* The invite is claimed by one statement.
ClaimInvite(r) ==
    /\ post[r].do = "accept"
    /\ IF invite # "open" THEN Refused(r)
       ELSE /\ invite' = "used"
            /\ Changed(r, [post[r] EXCEPT !.pc = "join", !.role = "child", !.age = 12])
            /\ UNCHANGED <<owner, member, limit>>
    /\ UNCHANGED <<homeFaults, guests>>

\* The row of whoever created the household or accepted the invite.
Join(r) ==
    LET q == post[r] IN
    /\ q.pc = "join"
    /\ \/ /\ Insertable(q.home, q.who)
          /\ Row(q.home, q.who, q.role, q.age) /\ Changed(r, Done)
          /\ guests' = IF q.do = "accept" THEN guests \cup {q.who} ELSE guests
          /\ UNCHANGED homeFaults
       \/ /\ (~Insertable(q.home, q.who) /\ UNCHANGED homeFaults) \/ HomeFault
          /\ post' = [post EXCEPT ![r] = IF q.do = "accept" THEN [q EXCEPT !.pc = "release"] ELSE Done]
          /\ UNCHANGED <<member, limit, stale, guests>>
    /\ UNCHANGED <<owner, invite>>

\* The invite of a join that failed is free again; the error is dropped.
ReleaseInvite(r) ==
    /\ post[r].pc = "release"
    /\ \/ invite' = (IF invite = "gone" THEN "gone" ELSE "open") /\ UNCHANGED homeFaults
       \/ HomeFault /\ UNCHANGED invite
    /\ Changed(r, Done)
    /\ UNCHANGED <<owner, member, limit, guests>>

WriteMember(r) ==
    LET q == post[r]
        now == member[q.home][q.who]
    IN  /\ \/ /\ q.do = "ownerUpdate" /\ now \notin {"none", "owner"}
              /\ Row(q.home, q.who, q.role, q.age)
           \/ /\ q.do = "ownerAdd" /\ Insertable(q.home, q.who)
              /\ Row(q.home, q.who, q.role, q.age)
           \/ /\ q.do = "patch" /\ now # "none"
              /\ Row(q.home, q.who, q.role, q.age)
           \/ /\ q.do = "ownerRemove" /\ now # "none"
              /\ Row(q.home, q.who, "none", 0)
           \/ /\ q.do = "remove" /\ now \notin {"none", "owner"}
              /\ Row(q.home, q.who, "none", 0)
        /\ Changed(r, Done)
        /\ UNCHANGED <<owner, invite, homeFaults, guests>>

\* The row is gone, or is the owner's now: the statement changes nothing.
Misses(r) ==
    LET now == member[post[r].home][post[r].who] IN
    /\ \/ post[r].do = "ownerAdd" /\ ~Insertable(post[r].home, post[r].who)
       \/ post[r].do \in {"ownerUpdate", "remove"} /\ now \in {"none", "owner"}
       \/ post[r].do \in {"patch", "ownerRemove"} /\ now = "none"
    /\ Refused(r) /\ UNCHANGED <<homeFaults, guests>>

WriteTransfer(r) ==
    LET q == post[r] IN
    /\ q.do = "transfer"
    /\ IF Exists(q.home) /\ \A h \in Homes \ {q.home} : owner[h] # q.who
       THEN /\ owner' = [owner EXCEPT ![q.home] = q.who]
            /\ member' = [member EXCEPT ![q.home] = [u \in Folk |->
                 IF @[u] = "none" THEN "none"
                 ELSE IF u = q.who THEN "owner" ELSE IF u = q.from THEN "adult" ELSE @[u]]]
            /\ Changed(r, Done) /\ UNCHANGED <<limit, invite>>
       ELSE Refused(r)
    /\ UNCHANGED <<homeFaults, guests>>

WriteDissolve(r) ==
    LET h == post[r].home IN
    /\ post[r].do = "delete"
    /\ owner' = [owner EXCEPT ![h] = NoOwner] /\ member' = [member EXCEPT ![h] = NoFolk]
    /\ limit' = [limit EXCEPT ![h] = [u \in Folk |-> 0]]
    /\ invite' = IF h = First THEN "gone" ELSE invite
    /\ Changed(r, Done)
    /\ UNCHANGED <<homeFaults, guests>>

\* One transaction takes the row away and puts it back.
WriteMove(r) ==
    LET q == post[r] IN
    /\ q.do = "move"
    /\ IF member[q.home][q.who] \notin {"none", "owner"} /\ Insertable(q.into, q.who)
       THEN /\ member' = [member EXCEPT ![q.home][q.who] = "none", ![q.into][q.who] = q.role]
            /\ limit' = [limit EXCEPT ![q.home][q.who] = 0, ![q.into][q.who] = q.age]
            /\ Changed(r, Done) /\ UNCHANGED <<owner, invite>>
       ELSE Refused(r)
    /\ UNCHANGED <<homeFaults, guests>>

WritePost(r) ==
    /\ post[r].pc = "write"
    /\ \/ WriteCreate(r) \/ ClaimInvite(r) \/ WriteMember(r) \/ Misses(r)
       \/ WriteTransfer(r) \/ WriteDissolve(r) \/ WriteMove(r)

HHNext == \E r \in Posts :
    \/ WritePost(r) \/ Join(r) \/ ReleaseInvite(r)
    \/ \E h \in Homes :
         \/ Dissolve(r, h)
         \/ \E u \in Folk :
              \/ \E do \in {"create", "adminCreate"} : Create(r, h, u, do)
              \/ Transfer(r, h, u) \/ AdminRemove(r, h, u)
              \/ \E by \in Folk : OwnerRemove(r, h, by, u) \/ OwnerAdd(r, h, by, u) \/ OwnerUpdate(r, h, by, u, "adult", 0)
              \/ \E role \in {"adult", "kept"} : Patch(r, h, u, role, 12)
              \/ \E into \in Homes : Move(r, h, u, into)
    \/ \E u \in Folk : Accept(r, u)

HHSpec == HHStart /\ [][HHNext]_hhVars

-----------------------------------------------------------------------------
(* Properties.                                                             *)

\* "A user is never in two households", where no request wrote on an old check.
OneHousehold ==
    stale \/ \A u \in Folk : Cardinality({h \in Homes : member[h][u] # "none"}) <= 1

\* The owner that a household names is the one member with that role, unless
\* its creation is under way or stopped between its two statements.
OwnerBelongs ==
    stale \/ homeFaults > 0 \/ \A h \in Homes :
      \/ \E r \in Posts : post[r].pc = "join" /\ post[r].do = "create" /\ post[r].home = h
      \/ {u \in Folk : member[h][u] = "owner"} = {owner[h]} \ {NoOwner}

\* An invite brings one person into the household, also when several accept it
\* at once and when joining fails.
InviteSingleUse == Cardinality(guests) <= 1

HouseholdsSafe == HHTypeOK /\ OneHousehold /\ OwnerBelongs /\ InviteSingleUse

\* Nobody is put out of a household by being moved, whatever else is asked.
MoveKeepsMember ==
    [][\A u \in Folk : InAny(u) /\ ~InAny(u)' =>
         \E r \in Posts : post[r].pc = "write" /\ post'[r].pc = "ended" /\ post[r].do \in {"remove", "ownerRemove", "delete"}]_hhVars

\* A child's age limit stays, through moves and new owners, until somebody
\* asks for another one.
LimitStays ==
    [][\A u \in Folk : (\E h \in Homes : limit[h][u] = 12) /\ InAny(u)' /\ ~stale' /\ (\A h \in Homes : limit'[h][u] = 0) =>
         \E r \in Posts : post[r].pc = "write" /\ post'[r].pc = "ended" /\ post[r].do = "ownerUpdate" /\ post[r].who = u]_hhVars

\* The contract of households.
HouseholdsContract == [][UNCHANGED hhVars \/ HouseholdsSafe']_hhVars /\ MoveKeepsMember /\ LimitStays

=============================================================================
