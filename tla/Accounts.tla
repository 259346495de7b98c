------------------------------- MODULE Accounts --------------------------------
(***************************************************************************)
(* Accounts, their roles and their sessions (auth/service.go, rbac.go,     *)
(* ceiling.go, session/store.go and users/users.go): the first             *)
(* administrator, what requests may do to an account, sign-in, invites and *)
(* guests that expire. A request checks, then writes, then brings is_admin *)
(* up to date and ends sessions, each in a statement of its own. What a    *)
(* check reads can be read; writes fail.                                   *)
(***************************************************************************)
EXTENDS Integers, FiniteSets

CONSTANTS
    Original,      \* who sets the server up
    Deputy,        \* an administrator
    Staff,         \* somebody whose role has users.manage
    Guest,         \* a temporary account
    Newcomers,     \* who has the link of an invite
    Requests,      \* requests, each made once
    Devices,       \* max_sessions
    MaxDbFaults    \* bound on statements that fail

ASSUME AccountsAssumption ==
    /\ Original \notin {Deputy, Staff, Guest} /\ Deputy \notin {Staff, Guest} /\ Staff # Guest
    /\ {Original, Deputy, Staff, Guest} \cap Newcomers = {}
    /\ IsFiniteSet(Newcomers) /\ IsFiniteSet(Requests) /\ Requests \subseteq Nat
    /\ Devices \in Nat /\ MaxDbFaults \in Nat

People == {Original, Deputy, Staff, Guest} \cup Newcomers

VARIABLES
    users,      \* accounts there are
    held,       \* user_roles
    isAdmin,    \* users.is_admin
    disabled,   \* users.disabled
    known,      \* setup.original_admin_id is stored
    setup,      \* how far CreateAdmin is
    sessions,   \* sessions of each account
    expired,    \* the guest's time is over
    invited,    \* invites.used_at is set
    joined,     \* who joined by the invite
    req,        \* requests
    dbFaults,
    raced       \* history: a request wrote after another had, since its check

acVars == <<users, held, isAdmin, disabled, known, setup, sessions, expired, invited,
            joined, req, dbFaults, raced>>

Roles == {"super", "administrator", "staff"}
Granting == {"super", "administrator"}   \* those with the permission "admin"

Unasked == [pc |-> "idle", do |-> "none", by |-> Original, to |-> Original, put |-> {},
            manages |-> FALSE, flag |-> FALSE, fresh |-> TRUE]
Answered == [Unasked EXCEPT !.pc = "ended"]

ReqPC == {"idle", "write", "syncRead", "syncWrite", "purge", "remove", "ended"}

ACTypeOK ==
    /\ users \subseteq People /\ held \in [People -> SUBSET Roles]
    /\ isAdmin \subseteq users /\ disabled \subseteq users /\ joined \subseteq Newcomers
    /\ \A u \in People : sessions[u] \in 0 .. Cardinality(Requests)
    /\ \A r \in Requests : req[r].pc \in ReqPC

ACStart ==
    /\ users = {} /\ held = [u \in People |-> {}] /\ isAdmin = {} /\ disabled = {}
    /\ known = FALSE /\ setup = "none"
    /\ sessions = [u \in People |-> 0]
    /\ expired = FALSE /\ invited = FALSE /\ joined = {}
    /\ req = [r \in Requests |-> Unasked]
    /\ dbFaults = 0 /\ raced = FALSE

DbFault == dbFaults < MaxDbFaults /\ dbFaults' = dbFaults + 1
NoFault == UNCHANGED dbFaults

Grants(roles) == roles \cap Granting # {}
Admins == {u \in users \ disabled : u \in isAdmin \/ Grants(held[u])}
Superadmin(u) == (known /\ u = Original) \/ "super" \in held[u]

-----------------------------------------------------------------------------
(* CreateAdmin: a transaction that only the first can commit, then roles   *)
(* and the setting, whose errors are dropped.                              *)

CreateAdmin ==
    /\ setup = "none"
    /\ users' = {Original} /\ isAdmin' = {Original} /\ setup' = "administrator"
    /\ UNCHANGED <<held, disabled, known, sessions, expired, invited, joined, req, dbFaults, raced>>

AssignFirst(role, next) ==
    /\ setup = role /\ setup' = next
    /\ \/ held' = [held EXCEPT ![Original] = @ \cup {role}] /\ NoFault
       \/ DbFault /\ UNCHANGED held
    /\ UNCHANGED <<users, isAdmin, disabled, known, sessions, expired, invited, joined, req, raced>>

RememberOriginal ==
    /\ setup = "remember" /\ setup' = "hire"
    /\ \/ known' = TRUE /\ NoFault
       \/ DbFault /\ UNCHANGED known
    /\ UNCHANGED <<users, held, isAdmin, disabled, sessions, expired, invited, joined, req, raced>>

\* The accounts that the administrator makes before anything else.
Hire ==
    /\ setup = "hire" /\ setup' = "done"
    /\ users' = users \cup {Deputy, Staff, Guest} /\ isAdmin' = isAdmin \cup {Deputy}
    /\ held' = [held EXCEPT ![Deputy] = {"administrator"}, ![Staff] = {"staff"}]
    /\ UNCHANGED <<disabled, known, sessions, expired, invited, joined, req, dbFaults, raced>>

-----------------------------------------------------------------------------
(* What a check asks.                                                      *)

IsAdmin(u) == u \in isAdmin \/ Grants(held[u])

\* AssertCanModifyUser.
MayModify(q) ==
    q.to # q.by => /\ Superadmin(q.to) => Superadmin(q.by)
                   /\ IsAdmin(q.to) => q.manages

\* AssertCanAssignRoles.
MayAssign(q) ==
    /\ q.to # q.by /\ IsAdmin(q.to) => q.manages
    /\ "super" \in q.put => Superadmin(q.by)
    /\ Grants(q.put) => q.manages

\* guardLastAdmin.
NotLast(q) == IsAdmin(q.to) => Cardinality(Admins) > 1

\* A slip: the roles are what was asked for.
KeptAsAsked(q, roles) == roles

\* SetUserRoles gives the original administrator Superadmin back.
Kept(q, roles) == roles \cup IF known /\ q.to = Original THEN {"super"} ELSE {}

\* The roles to write; RemoveRoleMember writes those that are left.
Written(q) ==
    CASE q.do = "roles"  -> Kept(q, q.put)
      [] q.do = "remove" -> Kept(q, held[q.to] \ q.put)
      [] OTHER -> q.put

Allowed(q) ==
    CASE q.do \in {"disable", "delete"} ->
           q.by # q.to /\ ~Superadmin(q.to) /\ MayModify(q) /\ NotLast(q)
      [] q.do = "enable" -> MayModify(q)
      [] q.do = "roles" ->
           /\ MayModify(q) /\ MayAssign(q)
           /\ Grants(Written(q)) \/ NotLast(q)
      [] q.do = "add" -> MayAssign(q)
      [] q.do = "remove" ->
           /\ MayModify(q) /\ (Grants(q.put) => q.manages)
           /\ Grants(Written(q)) \/ NotLast(q)
      [] q.do = "login" -> q.to \notin disabled /\ sessions[q.to] < Devices /\ ~(q.to = Guest /\ expired)
      [] q.do = "join" -> ~invited

-----------------------------------------------------------------------------
(* Requests.                                                               *)

\* Some account was written; the checks of other requests are old.
Outdated(r) == [o \in Requests |-> [req[o] EXCEPT !.fresh = @ /\ (o = r \/ req[o].pc = "ended")]]

\* Another request has written and has not finished.
Halfway(r) == \E o \in Requests \ {r} : req[o].pc \in {"syncRead", "syncWrite", "purge", "remove"}

Admitted(r, q) ==
    /\ setup = "done" /\ req[r].pc = "idle"
    /\ \A o \in Requests : o < r => req[o].pc # "idle"
    /\ req' = [req EXCEPT ![r] = [q EXCEPT !.fresh = ~Halfway(r)]]
    /\ UNCHANGED <<users, held, isAdmin, disabled, known, setup, sessions, expired, invited, joined, dbFaults, raced>>

\* A request arrives with users.manage and is checked.
AskChange(r, by, do, to, put) ==
    LET q == [Unasked EXCEPT !.pc = IF do = "delete" THEN "purge" ELSE "write",
                             !.do = do, !.by = by, !.to = to, !.put = put,
                             !.manages = (by \in isAdmin \/ Grants(held[by]))]
    IN  /\ by \in users \ disabled /\ to \in users
        /\ by \in isAdmin \/ held[by] # {}
        /\ do = "enable" => to \in disabled
        /\ Allowed(q)
        /\ Admitted(r, [q EXCEPT !.put = Written(q)])

AskLogin(r, u) ==
    LET q == [Unasked EXCEPT !.pc = "write", !.do = "login", !.by = u, !.to = u]
    IN  u \in users /\ Allowed(q) /\ Admitted(r, q)

AskJoin(r, u) ==
    LET q == [Unasked EXCEPT !.pc = "write", !.do = "join", !.by = u, !.to = u]
    IN  u \notin users /\ Allowed(q) /\ Admitted(r, q)

\* SweepExpiredGuests lists the guest and goes on as a request that disables.
Sweep(r) ==
    /\ expired /\ Guest \in users \ disabled
    /\ Admitted(r, [Unasked EXCEPT !.pc = "write", !.do = "disable", !.to = Guest])

WriteFlag(r) ==
    /\ disabled' = IF req[r].do = "disable" THEN disabled \cup {req[r].to} ELSE disabled \ {req[r].to}
    /\ req' = [Outdated(r) EXCEPT ![r] =
                 IF req[r].do = "disable" THEN [req[r] EXCEPT !.pc = "purge"] ELSE Answered]
    /\ UNCHANGED <<users, held, isAdmin, sessions, joined>>

\* SetUserRoles writes the whole set, AssignRole one.
WriteRoles(r) ==
    /\ held' = [held EXCEPT ![req[r].to] = IF req[r].do = "add" THEN @ \cup req[r].put ELSE req[r].put]
    /\ req' = [Outdated(r) EXCEPT ![r] = [req[r] EXCEPT !.pc = "syncRead"]]
    /\ UNCHANGED <<users, isAdmin, disabled, sessions, joined>>

WriteSession(r) ==
    /\ sessions' = [sessions EXCEPT ![req[r].to] = @ + 1]
    /\ req' = [Outdated(r) EXCEPT ![r] = Answered]
    /\ UNCHANGED <<users, held, isAdmin, disabled, joined>>

\* acceptInvite makes the account, and marks the invite afterwards.
WriteUser(r) ==
    /\ users' = users \cup {req[r].to} /\ joined' = joined \cup {req[r].to}
    /\ req' = [Outdated(r) EXCEPT ![r] = [req[r] EXCEPT !.pc = "remove"]]
    /\ UNCHANGED <<held, isAdmin, disabled, sessions>>

\* The account of a sign-in or a change may be gone by now.
Write(r) ==
    /\ req[r].pc = "write"
    /\ raced' = (raced \/ ~req[r].fresh)
    /\ IF req[r].do = "join" THEN WriteUser(r)
       ELSE IF req[r].to \notin users
       THEN req' = [req EXCEPT ![r] = Answered] /\ UNCHANGED <<users, held, isAdmin, disabled, sessions, joined>>
       ELSE \/ req[r].do \in {"disable", "enable"} /\ WriteFlag(r)
            \/ req[r].do \in {"roles", "add", "remove"} /\ WriteRoles(r)
            \/ req[r].do = "login" /\ WriteSession(r)
    /\ UNCHANGED <<known, setup, expired, invited, dbFaults>>

\* syncIsAdmin reads the permissions and writes the flag.
SyncRead(r) ==
    /\ req[r].pc = "syncRead"
    /\ req' = [req EXCEPT ![r].pc = "syncWrite", ![r].flag = Grants(held[req[r].to]), ![r].fresh = TRUE]
    /\ UNCHANGED <<users, held, isAdmin, disabled, known, setup, sessions, expired, invited, joined, dbFaults, raced>>

SyncWrite(r) ==
    /\ req[r].pc = "syncWrite"
    /\ \/ isAdmin' = (IF req[r].flag THEN isAdmin \cup {req[r].to} ELSE isAdmin \ {req[r].to}) \cap users /\ NoFault
       \/ DbFault /\ UNCHANGED isAdmin
    /\ raced' = (raced \/ ~req[r].fresh)
    /\ req' = [Outdated(r) EXCEPT ![r] = Answered]
    /\ UNCHANGED <<users, held, disabled, known, setup, sessions, expired, invited, joined>>

\* DeleteAllForUser drops its error.
Purge(r) ==
    /\ req[r].pc = "purge"
    /\ \/ sessions' = [sessions EXCEPT ![req[r].to] = 0] /\ NoFault
       \/ DbFault /\ UNCHANGED sessions
    /\ req' = [req EXCEPT ![r] = IF @.do = "delete" THEN [@ EXCEPT !.pc = "remove"] ELSE Answered]
    /\ UNCHANGED <<users, held, isAdmin, disabled, known, setup, expired, invited, joined, raced>>

\* The row goes with all that belongs to it; the invite is marked, or is not.
RemoveUser(r) ==
    LET u == req[r].to IN
    /\ req[r].pc = "remove"
    /\ IF req[r].do = "delete"
       THEN /\ users' = users \ {u} /\ isAdmin' = isAdmin \ {u} /\ disabled' = disabled \ {u}
            /\ held' = [held EXCEPT ![u] = {}] /\ sessions' = [sessions EXCEPT ![u] = 0]
            /\ raced' = (raced \/ ~req[r].fresh)
            /\ NoFault /\ UNCHANGED invited
       ELSE /\ (invited' = TRUE /\ NoFault) \/ (DbFault /\ UNCHANGED invited)
            /\ UNCHANGED <<users, isAdmin, disabled, held, sessions, raced>>
    /\ req' = [Outdated(r) EXCEPT ![r] = Answered]
    /\ UNCHANGED <<known, setup, expired, joined>>

Expire ==
    /\ setup = "done" /\ ~expired /\ expired' = TRUE
    /\ UNCHANGED <<users, held, isAdmin, disabled, known, setup, sessions, invited, joined, req, dbFaults, raced>>

RequestStep(r) ==
    \/ Write(r) \/ SyncRead(r) \/ SyncWrite(r) \/ Purge(r) \/ RemoveUser(r)

Change(r, by, to) ==
    \/ AskChange(r, by, "add", to, {"administrator"})
    \/ /\ to # Staff
       /\ \/ \E do \in {"disable", "enable", "delete"} : AskChange(r, by, do, to, {})
          \/ \E roles \in {{}, {"super"}} : AskChange(r, by, "roles", to, roles)
          \/ \E role \in held[to] : AskChange(r, by, "remove", to, {role})

ACNext ==
    \/ CreateAdmin \/ AssignFirst("administrator", "super") \/ AssignFirst("super", "remember")
    \/ RememberOriginal \/ Hire \/ Expire
    \/ \E r \in Requests :
         \/ RequestStep(r) \/ Sweep(r) \/ \E u \in Newcomers : AskJoin(r, u)
         \/ \E u \in {Deputy, Guest} : AskLogin(r, u)
         \/ \E by \in {Original, Deputy, Staff}, to \in {Original, Deputy, Staff} : Change(r, by, to)

ACSpec == ACStart /\ [][ACNext]_acVars

-----------------------------------------------------------------------------
(* Properties.                                                             *)

Busy(u) == \E r \in Requests : req[r].pc \notin {"idle", "ended"} /\ req[r].to = u

\* "the original Superadmin cannot be changed or deleted", also by requests
\* that race.
OriginalStays ==
    known => Original \in Admins /\ (dbFaults = 0 => "super" \in held[Original])

\* "cannot remove the last administrator": where no request wrote on an old
\* check, somebody can still administrate.
AdminStays == setup = "none" \/ raced \/ Admins # {}

\* The flag that is stored with an account says what its roles say.
FlagAgrees ==
    raced \/ dbFaults > 0 \/ \A u \in users : Busy(u) \/ (u \in isAdmin <=> Grants(held[u])) \/ setup # "done"

\* Sign-ins one after the other stay within the devices of an account, and a
\* disabled account keeps no session to come back to.
SessionsFit ==
    raced \/ dbFaults > 0 \/ \A u \in users : sessions[u] <= Devices /\ (u \in disabled /\ ~Busy(u) => sessions[u] = 0)

\* An invite is for one account.
InviteOnce == raced \/ dbFaults > 0 \/ Cardinality(joined) <= 1

AccountsSafe == ACTypeOK /\ OriginalStays /\ AdminStays /\ FlagAgrees /\ SessionsFit /\ InviteOnce

\* Whoever does not manage administrators leaves them as they are.
Ceiling ==
    [][\A r \in Requests :
         req[r].pc \in {"write", "remove"} /\ req'[r].pc # req[r].pc /\ ~req[r].manages /\ req[r].fresh
           => Admins' = Admins]_acVars

\* The contract of the accounts.
AccountsContract == [][UNCHANGED acVars \/ AccountsSafe']_acVars /\ Ceiling

=============================================================================
