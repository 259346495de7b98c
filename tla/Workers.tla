-------------------------------- MODULE Workers -------------------------------
(***************************************************************************)
(* Media workers as the control plane sees them (internal/backend,         *)
(* internal/mesh): the table of nodes, the router's copies of it and of    *)
(* the credentials, the monitor that probes the nodes, a request that      *)
(* places a session on one, and an administrator who drains a node or      *)
(* gives it a new credential.                                              *)
(*                                                                         *)
(* Every node is enabled and has a credential; nodes are neither added nor *)
(* removed. The order of the candidates is left open.                      *)
(***************************************************************************)
EXTENDS Naturals

CONSTANTS
    Nodes,
    NoNode,
    SoftFailures, \* timeouts in a row that make a node unhealthy (2)
    MaxChangesOfMind, \* bound: changes by the administrator
    MaxFlips      \* bound: nodes that go down or come back

ASSUME WorkersAssumption ==
    /\ Nodes # {} /\ NoNode \notin Nodes
    /\ SoftFailures \in Nat \ {0} /\ MaxChangesOfMind \in Nat /\ MaxFlips \in Nat

VARIABLES
    table,   \* backend_nodes
    list,    \* Router.nodes, fresh for two seconds
    fails,   \* Router.fails
    secret,  \* Router.secrets: the credentials that were decrypted
    alive,      \* whether a node answers
    has,     \* the credential a node is configured with
    probe,   \* the probe of each node
    place,   \* CreateSession
    admin,   \* the request of the administrator
    drained, \* history: nodes whose draining is over and done
    nodeChanges, \* by the administrator, so far
    flips    \* so far

wkVars == <<table, list, fails, secret, alive, has, probe, place, admin, drained, nodeChanges, flips>>

Creds == 0..MaxChangesOfMind
Unread == MaxChangesOfMind + 1   \* no credential in the cache
Views == [Nodes -> [drain: BOOLEAN, well: BOOLEAN]]

\* Every variable has its type.
WKTypeOK ==
    /\ table \in [Nodes -> [drain: BOOLEAN, well: BOOLEAN, cred: Creds]]
    /\ list \in [rows: Views, fresh: BOOLEAN, late: SUBSET Nodes]
    /\ fails \in [Nodes -> 0..SoftFailures] /\ secret \in [Nodes -> Creds \cup {Unread}]
    /\ alive \in [Nodes -> BOOLEAN] /\ has \in [Nodes -> Creds]
    /\ probe \in [Nodes -> [pc: {"idle", "keep", "ask", "well", "ill"}, was: BOOLEAN, cred: Creds]]
    /\ place \in [pc: {"idle", "read", "try", "mark", "over"}, left: SUBSET Nodes, on: Nodes \cup {NoNode},
                  rows: Views, seen: SUBSET Nodes, late: SUBSET Nodes]
    /\ admin \in [pc: {"idle", "drain", "flush"}, node: Nodes, row: [drain: BOOLEAN, well: BOOLEAN, cred: Creds]]
    /\ drained \subseteq Nodes /\ nodeChanges \in 0..MaxChangesOfMind /\ flips \in 0..MaxFlips

View(t) == [n \in Nodes |-> [drain |-> t[n].drain, well |-> t[n].well]]
NewRow == [drain |-> FALSE, well |-> FALSE, cred |-> 0]
NoPlace == [pc |-> "idle", left |-> {}, on |-> NoNode, rows |-> [n \in Nodes |-> [drain |-> FALSE, well |-> FALSE]],
            seen |-> {}, late |-> {}]
AnyNode == CHOOSE n \in Nodes : TRUE

WKInit ==
    /\ table = [n \in Nodes |-> NewRow]
    /\ list = [rows |-> View(table), fresh |-> FALSE, late |-> {}]
    /\ fails = [n \in Nodes |-> 0] /\ secret = [n \in Nodes |-> Unread]
    /\ alive \in [Nodes -> BOOLEAN] /\ has = [n \in Nodes |-> 0]
    /\ probe = [n \in Nodes |-> [pc |-> "idle", was |-> FALSE, cred |-> 0]]
    /\ place = NoPlace
    /\ admin = [pc |-> "idle", node |-> AnyNode, row |-> NewRow]
    /\ drained = {} /\ nodeChanges = 0 /\ flips = 0

world == <<alive, has, flips>>
Listed(n, well) == list' = [list EXCEPT !.rows[n].well = well]
Stored(n, well) == table' = [table EXCEPT ![n].well = well]

-----------------------------------------------------------------------------
(* Probe, by the monitor every thirty seconds or on request.               *)

\* The row and the credential, from the cache or from the table.
ProbeGet(n) ==
    LET cached == secret[n] # Unread IN
    /\ probe[n].pc = "idle"
    /\ probe' = [probe EXCEPT ![n] = [pc |-> IF cached THEN "ask" ELSE "keep", was |-> table[n].well,
                                      cred |-> IF cached THEN secret[n] ELSE table[n].cred]]
    /\ UNCHANGED <<table, list, fails, secret, world, place, admin, drained, nodeChanges>>

\* A credential that was decrypted is kept, until Invalidate.
ProbeKeep(n) ==
    /\ probe[n].pc = "keep"
    /\ secret' = [secret EXCEPT ![n] = probe[n].cred]
    /\ probe' = [probe EXCEPT ![n].pc = "ask"]
    /\ UNCHANGED <<table, list, fails, world, place, admin, drained, nodeChanges>>

\* The node answers: the copy says so at once, the table in a moment.
ProbeWell(n) ==
    /\ probe[n].pc = "ask" /\ alive[n] /\ probe[n].cred = has[n]
    /\ fails' = [fails EXCEPT ![n] = 0] /\ Listed(n, TRUE)
    /\ probe' = [probe EXCEPT ![n].pc = "well"]
    /\ UNCHANGED <<table, secret, world, place, admin, drained, nodeChanges>>

\* It does not: a refused connection or credential (hard) counts at once, a
\* timeout the second time, and both when the row was not healthy before.
ProbeIll(n) ==
    \E hard \in BOOLEAN :
        /\ probe[n].pc = "ask" /\ ~(alive[n] /\ probe[n].cred = has[n]) /\ (alive[n] => hard)
        /\ fails' = [fails EXCEPT ![n] = IF @ < SoftFailures THEN @ + 1 ELSE @]
        /\ IF hard \/ fails'[n] = SoftFailures \/ ~probe[n].was
           THEN Listed(n, FALSE) /\ probe' = [probe EXCEPT ![n].pc = "ill"]
           ELSE UNCHANGED list /\ probe' = [probe EXCEPT ![n].pc = "idle"]
        /\ UNCHANGED <<table, secret, world, place, admin, drained, nodeChanges>>

\* SetHealth.
ProbeStore(n) ==
    /\ probe[n].pc \in {"well", "ill"}
    /\ Stored(n, probe[n].pc = "well")
    /\ probe' = [probe EXCEPT ![n].pc = "idle"]
    /\ UNCHANGED <<list, fails, secret, world, place, admin, drained, nodeChanges>>

ProbeStep(n) == ProbeGet(n) \/ ProbeKeep(n) \/ ProbeWell(n) \/ ProbeIll(n) \/ ProbeStore(n)

-----------------------------------------------------------------------------
(* CreateSession.                                                          *)

Candidates(rows) == {n \in Nodes : rows[n].well /\ ~rows[n].drain}
\* Nodes that rows shows as they were before their draining was over.
Outdated(rows) == {n \in drained : ~rows[n].drain}

\* cached: the copy while it is fresh, or the table, which is read without
\* the lock ...
Ask ==
    /\ place.pc = "idle"
    /\ place' = IF list.fresh
                THEN [NoPlace EXCEPT !.pc = "try", !.seen = drained, !.late = list.late,
                                     !.left = Candidates(list.rows)]
                ELSE [NoPlace EXCEPT !.pc = "read", !.seen = drained, !.rows = View(table)]
    /\ UNCHANGED <<table, list, fails, secret, world, probe, admin, drained, nodeChanges>>

\* ... and becomes the copy, whatever has been invalidated since.
InstallList ==
    /\ place.pc = "read"
    /\ list' = [rows |-> place.rows, fresh |-> TRUE, late |-> Outdated(place.rows)]
    /\ place' = [place EXCEPT !.pc = "try", !.left = Candidates(place.rows), !.late = Outdated(place.rows),
                              !.rows = NoPlace.rows]
    /\ UNCHANGED <<table, fails, secret, world, probe, admin, drained, nodeChanges>>

Used(n) == IF secret[n] = Unread THEN table[n].cred ELSE secret[n]

\* The worker makes the session, is full or failing (the next one is tried),
\* or does not know the credential (no other one is tried).
Answered(n) ==
    /\ place.pc = "try" /\ n \in place.left /\ alive[n]
    /\ secret' = [secret EXCEPT ![n] = Used(n)]
    /\ \/ Used(n) = has[n] /\ place' = [place EXCEPT !.pc = "over", !.on = n]
       \/ Used(n) = has[n] /\ place' = [place EXCEPT !.left = @ \ {n}]
       \/ Used(n) # has[n] /\ place' = [place EXCEPT !.pc = "over"]
    /\ UNCHANGED <<table, list, fails, world, probe, admin, drained, nodeChanges>>

\* The worker cannot be reached: MarkDown tells the copy, then the table.
Unreached(n) ==
    /\ place.pc = "try" /\ n \in place.left /\ ~alive[n]
    /\ secret' = [secret EXCEPT ![n] = Used(n)]
    /\ Listed(n, FALSE) /\ fails' = [fails EXCEPT ![n] = SoftFailures]
    /\ place' = [place EXCEPT !.pc = "mark", !.on = n, !.left = @ \ {n}]
    /\ UNCHANGED <<table, world, probe, admin, drained, nodeChanges>>

MarkStored ==
    /\ place.pc = "mark" /\ Stored(place.on, FALSE)
    /\ place' = [place EXCEPT !.pc = "try", !.on = NoNode]
    /\ UNCHANGED <<list, fails, secret, world, probe, admin, drained, nodeChanges>>

NobodyLeft ==
    /\ place.pc = "try" /\ place.left = {} /\ place' = [place EXCEPT !.pc = "over"]
    /\ UNCHANGED <<table, list, fails, secret, world, probe, admin, drained, nodeChanges>>

AskAgain ==
    /\ place.pc = "over" /\ place' = NoPlace
    /\ UNCHANGED <<table, list, fails, secret, world, probe, admin, drained, nodeChanges>>

\* Two seconds pass.
ListExpires ==
    /\ list.fresh /\ list' = [list EXCEPT !.fresh = FALSE]
    /\ UNCHANGED <<table, fails, secret, world, probe, place, admin, drained, nodeChanges>>

-----------------------------------------------------------------------------
(* The administrator.                                                      *)

ChangeOfMind == nodeChanges < MaxChangesOfMind /\ nodeChanges' = nodeChanges + 1

\* handleDrain reads the row ...
DrainRead(n) ==
    /\ admin.pc = "idle" /\ ChangeOfMind
    /\ admin' = [pc |-> "drain", node |-> n, row |-> table[n]]
    /\ drained' = IF table[n].drain THEN drained \ {n} ELSE drained
    /\ UNCHANGED <<table, list, fails, secret, world, probe, place>>

\* ... and writes all of it back but the credential: a health that was stored
\* in between is lost.
DrainSave ==
    LET row == admin.row IN
    /\ admin.pc = "drain"
    /\ table' = [table EXCEPT ![admin.node] = [row EXCEPT !.drain = ~row.drain, !.cred = table[admin.node].cred]]
    /\ admin' = [admin EXCEPT !.pc = "flush"]
    /\ UNCHANGED <<list, fails, secret, world, probe, place, drained, nodeChanges>>

\* handleCredential.
Rotate(n) ==
    /\ admin.pc = "idle" /\ ChangeOfMind
    /\ table' = [table EXCEPT ![n].cred = nodeChanges']
    /\ admin' = [pc |-> "flush", node |-> n, row |-> NewRow]
    /\ UNCHANGED <<list, fails, secret, world, probe, place, drained>>

\* Mutant: the copy of the table is left to expire.
InvalidateSecrets ==
    /\ admin.pc = "flush"
    /\ secret' = [n \in Nodes |-> Unread]
    /\ drained' = drained \cup (IF table[admin.node].drain THEN {admin.node} ELSE {})
    /\ admin' = [pc |-> "idle", node |-> AnyNode, row |-> NewRow]
    /\ UNCHANGED <<table, list, fails, world, probe, place, nodeChanges>>

Invalidate ==
    /\ admin.pc = "flush"
    /\ list' = [list EXCEPT !.fresh = FALSE] /\ secret' = [n \in Nodes |-> Unread]
    /\ drained' = drained \cup (IF table[admin.node].drain THEN {admin.node} ELSE {})
    /\ admin' = [pc |-> "idle", node |-> AnyNode, row |-> NewRow]
    /\ UNCHANGED <<table, fails, world, probe, place, nodeChanges>>

\* VD_NODE_SECRET is set to the credential the administrator was shown.
Configured(n) ==
    /\ has[n] # table[n].cred /\ has' = [has EXCEPT ![n] = table[n].cred]
    /\ UNCHANGED <<table, list, fails, secret, alive, probe, place, admin, drained, nodeChanges, flips>>

Flip(n) ==
    /\ flips < MaxFlips /\ flips' = flips + 1 /\ alive' = [alive EXCEPT ![n] = ~@]
    /\ UNCHANGED <<table, list, fails, secret, has, probe, place, admin, drained, nodeChanges>>

AdminStep == DrainSave \/ Invalidate

WKNext ==
    \/ Ask \/ InstallList \/ MarkStored \/ NobodyLeft \/ AskAgain \/ ListExpires \/ AdminStep
    \/ \E n \in Nodes : \/ ProbeStep(n) \/ Answered(n) \/ Unreached(n) \/ DrainRead(n)
                        \/ Rotate(n) \/ Configured(n) \/ Flip(n)

\* The monitor's ticker, and requests that run to their end.
WKFairness ==
    /\ WF_wkVars(AdminStep) /\ WF_wkVars(MarkStored)
    /\ \A n \in Nodes : WF_wkVars(ProbeStep(n))

WKSpec == WKInit /\ [][WKNext]_wkVars /\ WKFairness

-----------------------------------------------------------------------------
(* Properties.                                                             *)

\* A node gets no session from a request that begins after its draining was
\* over, unless somebody had read the table before and made it the copy since.
DrainHolds ==
    place.pc = "over" /\ place.on \in place.seen => place.on \in place.late \cup (Nodes \ drained)

\* The credential that a probe had read before it was changed, and that it
\* kept afterwards: nothing but the next change of a node removes it.
Stuck(n) == secret[n] \notin {Unread, table[n].cred}

\* Once nodes stay as they are, the table says of each whether it answers,
\* whatever a request or a drain has written over, unless its credential is
\* stuck.
HealthFollows ==
    <>[](\A n \in Nodes : table[n].well = (alive[n] /\ has[n] = table[n].cred) \/ Stuck(n))

\* What the routing to worker nodes keeps to.
WorkersContract == []WKTypeOK /\ [][UNCHANGED wkVars \/ DrainHolds']_wkVars /\ HealthFollows

=============================================================================
