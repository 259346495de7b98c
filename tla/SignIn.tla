-------------------------------- MODULE SignIn -------------------------------
(***************************************************************************)
(* Discord accounts and ViewDock accounts (internal/auth): the browser     *)
(* sign-in with its login state, the link that a signed-in user asks for,  *)
(* the sign-in of the Activity, taking a link away, and the administrator  *)
(* who sets it all up. Every request is a list of single statements, so    *)
(* two of them interleave anywhere. A Discord account is a value; which    *)
(* one a request comes with, and whether Discord takes the code or finds   *)
(* the account in the server that is required, is left open.               *)
(***************************************************************************)
EXTENDS Naturals, FiniteSets

CONSTANTS
    Root,       \* the original administrator
    Member,     \* another user, with a password
    Newbies,    \* accounts that sign-ins may create
    Discords,   \* Discord accounts
    NoOne,      \* no account of either kind
    Flows,      \* requests that end a sign-in, numbered in the order they come
    Chores,     \* requests of users and the administrator
    MaxDrops    \* bound: statements that fail

ASSUME SignInAssumption ==
    /\ Root # Member /\ {Root, Member} \cap Newbies = {}
    /\ NoOne \notin {Root, Member} \cup Newbies \cup Discords
    /\ Newbies # {} /\ \E d, e \in Discords : d # e
    /\ Flows \subseteq Nat \ {0} /\ Chores \subseteq Nat \ {0} /\ MaxDrops \in Nat

VARIABLES
    identity,   \* user_identities: the Discord account of each user
    existing,   \* users
    admins,     \* users with the administrator role
    conf,       \* discord_settings
    super,      \* the setting discord.superadmin_id
    ticket,     \* login_states: one state, and the user it links
    flow,
    chore,
    drops,
    orphans,    \* history: users whose link failed after they were created
    reread,    \* history: the state was read by a second flow before the first deleted it
    lateUnlinks       \* history: an unlink passed its check before the sign-in was switched on

siVars == <<identity, existing, admins, conf, super, ticket, flow, chore, drops, orphans, reread, lateUnlinks>>

Persons == {Root, Member} \cup Newbies
Idle == [pc |-> "idle", who |-> NoOne, links |-> NoOne, listed |-> FALSE, took |-> FALSE, user |-> NoOne]
NoChore == [pc |-> "idle", user |-> NoOne, super |-> NoOne, login |-> FALSE, listed |-> {}, open |-> FALSE]

\* Which of several is chosen makes no difference.
Another(S) == CHOOSE x \in S : TRUE

\* Somebody may have signed in already, while it was on.
SIInit ==
    /\ admins = {Root}
    /\ \E on, set \in BOOLEAN, before \in SUBSET {Another(Newbies)} :
         LET d == Another(Discords) IN
         /\ on => set
         /\ super = (IF set THEN d ELSE NoOne)
         /\ identity = [u \in Persons |-> IF u = Root THEN super
                                         ELSE IF u \in before THEN Another(Discords \ {d}) ELSE NoOne]
         /\ existing = {Root, Member} \cup before
         /\ conf = [login |-> on, open |-> TRUE, listed |-> {super} \ {NoOne}]
    /\ ticket \in {[there |-> TRUE, links |-> u] : u \in {NoOne, Member}}
    /\ flow = [f \in Flows |-> Idle] /\ chore = [c \in Chores |-> NoChore]
    /\ drops = 0 /\ orphans = {} /\ reread = FALSE /\ lateUnlinks = {}

Holder(d) == {u \in Persons : identity[u] = d}

\* linkDiscord: the unique index refuses an account somebody else has.
MayLink(u, d) == Holder(d) \subseteq {u}
Drop == drops < MaxDrops /\ drops' = drops + 1
Step(f, pc) ==
    flow' = [flow EXCEPT ![f] = IF pc = "over" THEN [Idle EXCEPT !.pc = "over", !.took = flow[f].took]
                                ELSE [@ EXCEPT !.pc = pc]]
others == <<conf, super, chore, lateUnlinks>>

-----------------------------------------------------------------------------
(* handleDiscordCallback, and handleActivitySignIn.                        *)

\* A browser comes back with a state and the consent of a Discord account.
Callback(f, d) ==
    /\ flow[f].pc = "idle" /\ \A o \in Flows : o < f => flow[o].pc # "idle"
    /\ conf.login /\ ticket.there
    /\ flow' = [flow EXCEPT ![f] = [@ EXCEPT !.pc = "take", !.who = d, !.links = ticket.links,
                                             !.listed = d \in conf.listed, !.took = TRUE]]
    /\ reread' = (reread \/ \E o \in Flows : flow[o].pc = "take")
    /\ UNCHANGED <<others, identity, existing, admins, ticket, drops, orphans>>

\* TakeLoginState deletes what it read; then the code is exchanged.
DeleteState(f) ==
    /\ flow[f].pc = "take"
    /\ ticket' = [ticket EXCEPT !.there = FALSE]
    /\ \E pc \in {"over", IF flow[f].links # NoOne THEN "linkcheck" ELSE "lookup"} : Step(f, pc)
    /\ UNCHANGED <<others, identity, existing, admins, drops, orphans, reread>>

\* The Activity needs no state, and with the sign-in off only linked accounts.
Activity(f, d) ==
    /\ flow[f].pc = "idle" /\ \A o \in Flows : o < f => flow[o].pc # "idle"
    /\ conf.login \/ Holder(d) # {}
    /\ flow' = [flow EXCEPT ![f] = [@ EXCEPT !.pc = "lookup", !.who = d, !.listed = d \in conf.listed]]
    /\ UNCHANGED <<others, identity, existing, admins, ticket, drops, orphans, reread>>

LinkCheck(f) ==
    /\ flow[f].pc = "linkcheck"
    /\ Step(f, IF Holder(flow[f].who) \subseteq {flow[f].links} THEN "linkuser" ELSE "over")
    /\ UNCHANGED <<others, identity, existing, admins, ticket, drops, orphans, reread>>

LinkUser(f) ==
    LET u == flow[f].links IN
    /\ flow[f].pc = "linkuser"
    /\ IF MayLink(u, flow[f].who)
       THEN identity' = [identity EXCEPT ![u] = flow[f].who]
       ELSE UNCHANGED identity
    /\ Step(f, "over")
    /\ UNCHANGED <<others, existing, admins, ticket, drops, orphans, reread>>

\* discordAccount: who is new and not listed must be in the server.
Lookup(f) ==
    LET q == flow[f] IN
    /\ q.pc = "lookup"
    /\ IF Holder(q.who) # {} \/ q.listed THEN Step(f, "upsert")
       ELSE Step(f, "upsert") \/ Step(f, "over")
    /\ UNCHANGED <<others, identity, existing, admins, ticket, drops, orphans, reread>>

\* UpsertDiscordUser looks again, and reads the settings again.
UpsertUser(f) ==
    LET q == flow[f] IN
    /\ q.pc = "upsert"
    /\ \/ Holder(q.who) # {} /\ Step(f, "over")
       \/ Holder(q.who) = {} /\ (conf.open \/ q.who \in conf.listed)
          /\ flow' = [flow EXCEPT ![f].pc = "insert", ![f].listed = q.who \in conf.listed]
       \/ Holder(q.who) = {} /\ ~(conf.open \/ q.who \in conf.listed) /\ Step(f, "over")
    /\ UNCHANGED <<others, identity, existing, admins, ticket, drops, orphans, reread>>

InsertUser(f) ==
    /\ flow[f].pc = "insert"
    /\ Newbies \ existing # {}
    /\ existing' = existing \cup {Another(Newbies \ existing)}
    /\ flow' = [flow EXCEPT ![f].pc = "role", ![f].user = Another(Newbies \ existing)]
    /\ UNCHANGED <<others, identity, admins, ticket, drops, orphans, reread>>

\* An error of the role is dropped.
AssignRole(f) ==
    /\ flow[f].pc = "role"
    /\ \/ /\ admins' = (IF flow[f].listed THEN admins \cup {flow[f].user} ELSE admins)
          /\ UNCHANGED drops
       \/ Drop /\ UNCHANGED admins
    /\ Step(f, "linknew")
    /\ UNCHANGED <<others, identity, existing, ticket, orphans, reread>>

\* A link that fails leaves the user that was created.
LinkNew(f) ==
    LET u == flow[f].user IN
    /\ flow[f].pc = "linknew"
    /\ \/ /\ MayLink(u, flow[f].who)
          /\ identity' = [identity EXCEPT ![u] = flow[f].who]
          /\ Step(f, "over") /\ UNCHANGED <<orphans, drops>>
       \/ /\ IF MayLink(u, flow[f].who) THEN Drop ELSE UNCHANGED drops
          /\ orphans' = orphans \cup {u}
          /\ Step(f, "over") /\ UNCHANGED identity
    /\ UNCHANGED <<others, existing, admins, ticket, reread>>

-----------------------------------------------------------------------------
(* UnlinkDiscord: the sign-in must be off and a password set.              *)

HasPassword(u) == u \in {Root, Member}
chores == <<existing, admins, ticket, flow, drops, orphans, reread>>

\* A slip: whoever is new may unlink too.
AskUnlinkAny(c, u) ==
    /\ chore[c].pc = "idle" /\ u \in existing
    /\ ~conf.login
    /\ chore' = [chore EXCEPT ![c] = [@ EXCEPT !.pc = "unlink", !.user = u]]
    /\ UNCHANGED <<identity, conf, super, lateUnlinks, chores>>

AskUnlink(c, u) ==
    /\ chore[c].pc = "idle" /\ u \in existing
    /\ ~conf.login /\ HasPassword(u)
    /\ chore' = [chore EXCEPT ![c] = [@ EXCEPT !.pc = "unlink", !.user = u]]
    /\ UNCHANGED <<identity, conf, super, lateUnlinks, chores>>

Unlink(c) ==
    /\ chore[c].pc = "unlink"
    /\ identity' = [identity EXCEPT ![chore[c].user] = NoOne]
    /\ chore' = [chore EXCEPT ![c] = [NoChore EXCEPT !.pc = "over"]]
    /\ lateUnlinks' = lateUnlinks \ {c}
    /\ UNCHANGED <<conf, super, chores>>

(* handleAdminDiscordPut: a copy of the settings is changed and written.   *)

\* The account of the original administrator if the setting has none.
SuperId == IF super # NoOne THEN super ELSE identity[Root]

Put(c, login, open, d) ==
    LET id == IF d # NoOne THEN d ELSE SuperId IN
    /\ chore[c].pc = "idle"
    /\ chore' = [chore EXCEPT ![c] =
         [pc |-> IF id # NoOne THEN "associate" ELSE IF login THEN "over" ELSE "save", user |-> Root, super |-> id,
          login |-> login, open |-> open, listed |-> conf.listed \cup ({id} \ {NoOne})]]
    /\ UNCHANGED <<identity, conf, super, lateUnlinks, chores>>

AssociateCheck(c) ==
    /\ chore[c].pc = "associate"
    /\ chore' = [chore EXCEPT ![c].pc = IF Holder(chore[c].super) \subseteq {Root} THEN "link" ELSE "over"]
    /\ UNCHANGED <<identity, conf, super, lateUnlinks, chores>>

AssociateLink(c) ==
    /\ chore[c].pc = "link"
    /\ IF MayLink(Root, chore[c].super)
       THEN identity' = [identity EXCEPT ![Root] = chore[c].super] /\ chore' = [chore EXCEPT ![c].pc = "set"]
       ELSE UNCHANGED identity /\ chore' = [chore EXCEPT ![c] = [NoChore EXCEPT !.pc = "over"]]
    /\ UNCHANGED <<conf, super, lateUnlinks, chores>>

AssociateSet(c) ==
    /\ chore[c].pc = "set"
    /\ super' = chore[c].super /\ chore' = [chore EXCEPT ![c].pc = "save"]
    /\ UNCHANGED <<identity, conf, lateUnlinks, chores>>

\* Unlinks that were checked before it is switched on are late.
Save(c) ==
    /\ chore[c].pc = "save"
    /\ conf' = [login |-> chore[c].login, open |-> chore[c].open, listed |-> chore[c].listed]
    /\ chore' = [chore EXCEPT ![c] = [NoChore EXCEPT !.pc = "over"]]
    /\ lateUnlinks' = (IF conf'.login THEN {o \in Chores : chore[o].pc = "unlink"} ELSE lateUnlinks)
    /\ UNCHANGED <<identity, super, chores>>

SINext ==
    \/ \E f \in Flows :
         \/ \E d \in Discords : Callback(f, d) \/ Activity(f, d)
         \/ DeleteState(f) \/ LinkCheck(f) \/ LinkUser(f) \/ Lookup(f) \/ UpsertUser(f)
         \/ InsertUser(f) \/ AssignRole(f) \/ LinkNew(f)
    \/ \E c \in Chores :
         \/ \E u \in Persons : AskUnlink(c, u)
         \/ \E login, open \in BOOLEAN, d \in Discords \cup {NoOne} : Put(c, login, open, d)
         \/ Unlink(c) \/ AssociateCheck(c) \/ AssociateLink(c) \/ AssociateSet(c) \/ Save(c)

SISpec == SIInit /\ [][SINext]_siVars

-----------------------------------------------------------------------------
(* Properties.                                                             *)

SITypeOK ==
    /\ identity \in [Persons -> Discords \cup {NoOne}]
    /\ existing \subseteq Persons /\ admins \subseteq existing
    /\ super \in Discords \cup {NoOne} /\ drops \in 0 .. MaxDrops

\* Nobody is left without a way in: whoever has no password has a Discord
\* account, outside the statements that create the user, unless the link failed
\* then because somebody else took the account or the database did not answer.
NobodyLockedOut ==
    \A u \in existing : \/ HasPassword(u) \/ identity[u] # NoOne \/ u \in orphans
                        \/ \E f \in Flows : flow[f].user = u /\ flow[f].pc \in {"role", "linknew"}

\* A Discord account opens one ViewDock account.
OneAccountEach == \A u, v \in Persons : identity[u] = identity[v] /\ u # v => identity[u] = NoOne

\* The sign-in is never on without the administrator who set it up, and the
\* account that counts as his is on the list, or was on it before the change
\* that is being written.
SuperadminSet == conf.login => super # NoOne

\* Two callbacks use one state only if the second read it before the first
\* deleted it.
StateOnce == ~reread => Cardinality({f \in Flows : flow[f].took}) <= 1

SignInSafe == SITypeOK /\ NobodyLockedOut /\ OneAccountEach /\ SuperadminSet /\ StateOnce

\* While the sign-in is on nobody loses the Discord account, except to an
\* unlink that was checked before it was switched on.
KeptWhileOn ==
    [][conf.login => \A u \in Persons : identity[u] # NoOne /\ identity'[u] = NoOne =>
         \E c \in lateUnlinks : chore[c].user = u /\ chore[c].pc = "unlink"]_siVars

SignInContract == [][UNCHANGED siVars \/ SignInSafe']_siVars /\ KeptWhileOn
=============================================================================
