------------------------------ MODULE Streams ------------------------------
(***************************************************************************)
(* The streams ViewDock opens on one Jellyfin server                       *)
(* (internal/jellyfin/stream.go and the update and delete handlers of      *)
(* api.go).                                                                *)
(*                                                                         *)
(* An opening reads the server's row twice, talks to Jellyfin, and only    *)
(* then takes the lock and claims a slot, under the policy it read at the  *)
(* start.  An administrator's update or delete reads the row, writes it,   *)
(* and ends the streams it finds in a separate step, so every one of these *)
(* steps may fall between two steps of an opening, and two updates may     *)
(* write what they read before the other's write.                          *)
(***************************************************************************)
EXTENDS Naturals, FiniteSets, FiniteSetsExt

CONSTANTS Openings,    \* attempts to open a stream, each made once
          Early,       \* those made before the others
          ViewerOf,    \* the viewer of each opening
          NoViewer,      \* an opening whose viewer is not known
          Editors,      \* requests that change or delete the server
          Policies,    \* the usage policies an administrator may set
          MaxGen       \* bound on changes of address or credential

ASSUME StreamsAssumption ==
    /\ Editors \subseteq Nat /\ Openings \subseteq Nat /\ Early \subseteq Openings
    /\ IsFiniteSet(Openings) /\ MaxGen \in Nat \ {0}
    /\ Policies \subseteq [stream : BOOLEAN, max : Nat]

VARIABLES server,      \* the media_sources row
          opening,     \* the state of each opening
          grants,      \* the openings that hold a stream
          doomed,      \* grants a revoke has collected and not yet ended
          change       \* the state of each administrator's request

stVars == <<server, opening, grants, doomed, change>>

NoPolicy == [stream |-> FALSE, max |-> 0]

NewOpening == [pc |-> "idle", policy |-> NoPolicy, base |-> 1, created |-> 0, raced |-> FALSE]

(* A stream that has ended. *)
Over == [NewOpening EXCEPT !.pc = "ended"]

NewChange == [pc |-> "idle", saw |-> NoPolicy, stale |-> FALSE, moved |-> FALSE]

(* The early openings hold streams already, in the order of their numbers. *)
StreamsInit ==
    \E p \in Policies :
        /\ server = [live |-> TRUE, on |-> TRUE, policy |-> p, gen |-> 1]
        /\ grants \in SUBSET Early
        /\ p.max > 0 => Cardinality(grants) <= p.max
        /\ grants # {} => p.stream
        /\ opening = [o \in Openings |->
               IF o \in grants THEN [NewOpening EXCEPT !.pc = "open", !.policy = p, !.created = o]
               ELSE IF o \in Early THEN Over ELSE NewOpening]
        /\ doomed = {}
        /\ change = [a \in Editors |-> NewChange]

(* Openings under way: they have read the row and hold no stream yet. *)
UnderWay == {o \in Openings : opening[o].pc \in {"found", "read", "ready"}}

(* A write of the row: the openings under way have read what it replaces.  *)
(* An update that had read the row before another's write puts old values  *)
(* back without ending the streams of the newer ones (history).            *)
Raced(stale) ==
    opening' = [o \in Openings |->
        [opening[o] EXCEPT !.raced = @ \/ o \in UnderWay \/ (stale /\ o \in grants)]]

-----------------------------------------------------------------------------
(* candidates: the copies on enabled servers. *)
Find(o) ==
    /\ opening[o].pc = "idle"
    /\ server.live /\ server.on
    /\ opening' = [opening EXCEPT ![o].pc = "found"]
    /\ UNCHANGED <<server, grants, doomed, change>>

(* openStream reads the row; its policy must allow streams. *)
ReadSource(o) ==
    /\ opening[o].pc = "found"
    /\ opening' = [opening EXCEPT ![o] =
           IF server.live /\ server.policy.stream
           THEN [@ EXCEPT !.pc = "read", !.policy = server.policy, !.base = server.gen]
           ELSE [NewOpening EXCEPT !.pc = "refused"]]
    /\ UNCHANGED <<server, grants, doomed, change>>

Newest == Max({opening[o].created : o \in Openings})

(* withClient and negotiate.  The credential is read again here and sent   *)
(* to the address read before: a server changed in between rejects it.     *)
Negotiate(o) ==
    /\ opening[o].pc = "read"
    /\ server.live /\ server.gen = opening[o].base
    /\ opening' = [opening EXCEPT ![o].pc = "ready", ![o].created = Newest + 1]
    /\ UNCHANGED <<server, grants, doomed, change>>

(* Jellyfin does not answer, rejects the credential, or would have to      *)
(* transcode where that is turned off.                                     *)
Fail(o) ==
    /\ opening[o].pc = "read"
    /\ opening' = [opening EXCEPT ![o] = [NewOpening EXCEPT !.pc = "refused"]]
    /\ UNCHANGED <<server, grants, doomed, change>>

(* The n oldest of a set of streams. *)
Oldest(S, n) == {o \in S : Cardinality({p \in S : opening[p].created < opening[o].created}) < n}

Own(o) == IF ViewerOf[o] = NoViewer THEN {} ELSE {p \in grants : ViewerOf[p] = ViewerOf[o]}

(* What claimSlot keeps of the streams that are open: the idle ones, which *)
(* no player has read for grantIdle, go first, then the viewer's own       *)
(* oldest until the new one fits.                                          *)
KeptBy(o, idle) ==
    LET max == opening[o].policy.max
        busy == grants \ idle
        surplus == IF Cardinality(busy) >= max THEN Cardinality(busy) + 1 - max ELSE 0
    IN IF max = 0 THEN grants ELSE busy \ Oldest(Own(o) \ idle, surplus)

Deleting == \E a \in Editors : change[a].pc = "deleting"

(* claimSlot: under the lock, with the policy read by openStream.  A claim *)
(* between a delete's revoke and its DELETE is raced (history).            *)
ClaimSlot(o, idle) ==
    LET max == opening[o].policy.max
        full == max > 0 /\ Cardinality(KeptBy(o, idle)) >= max
    IN /\ opening[o].pc = "ready"
       /\ grants' = KeptBy(o, idle) \cup (IF full THEN {} ELSE {o})
       /\ opening' = [p \in Openings |->
              IF p = o /\ full THEN [NewOpening EXCEPT !.pc = "refused"]
              ELSE IF p = o THEN [opening[p] EXCEPT !.pc = "open", !.raced = @ \/ Deleting]
              ELSE IF p \in grants \ grants' THEN Over
              ELSE opening[p]]
       /\ doomed' = doomed \cap grants'
       /\ UNCHANGED <<server, change>>

(* Stop (the session ended), the sweep of expired streams, and a stream    *)
(* that revokeSource collected.                                            *)
EndStream(o) ==
    /\ o \in grants
    /\ grants' = grants \ {o}
    /\ doomed' = doomed \ {o}
    /\ opening' = [opening EXCEPT ![o] = Over]
    /\ UNCHANGED <<server, change>>

-----------------------------------------------------------------------------
(* handleUpdate and handleDelete begin by reading the row. *)
Begin(a) ==
    /\ change[a].pc = "idle"
    /\ \A b \in Editors : b < a => change[b].pc # "idle"
    /\ server.live
    /\ change' = [change EXCEPT ![a] = [@ EXCEPT !.pc = "read", !.saw = server.policy]]
    /\ UNCHANGED <<server, opening, grants, doomed>>

(* storeCredential, after the new credential was verified. *)
StoreCredential(a) ==
    /\ change[a].pc = "read" /\ ~change[a].moved
    /\ server.live /\ server.gen < MaxGen
    /\ server' = [server EXCEPT !.gen = @ + 1]
    /\ Raced(FALSE)
    /\ change' = [change EXCEPT ![a].pc = "stored", ![a].moved = TRUE]
    /\ UNCHANGED <<grants, doomed>>

(* The UPDATE writes the whole policy and the enabled flag, each from the  *)
(* request or else from what was read at the start.                        *)
WriteServer(a, policy, on) ==
    LET c == change[a]
        revokes == policy # c.saw \/ ~on
    IN /\ c.pc = "read"
       /\ server' = IF server.live THEN [server EXCEPT !.policy = policy, !.on = on] ELSE server
       /\ Raced(c.stale)
       /\ change' = [b \in Editors |->
              IF b # a THEN [change[b] EXCEPT !.stale = @ \/ change[b].pc # "idle"]
              ELSE [c EXCEPT !.pc = IF revokes THEN "written" ELSE "done",
                             !.saw = NoPolicy, !.stale = FALSE]]
       /\ UNCHANGED <<grants, doomed>>

(* A slip: streams that are open keep their policy. *)
CollectHeld(a, from, to) ==
    /\ change[a].pc = from
    /\ change' = [change EXCEPT ![a].pc = to]
    /\ UNCHANGED <<server, opening, grants, doomed>>

(* revokeSource collects the streams that are open now; they are ended one *)
(* by one.                                                                 *)
Collect(a, from, to) ==
    /\ change[a].pc = from
    /\ doomed' = doomed \cup grants
    /\ change' = [change EXCEPT ![a].pc = to]
    /\ UNCHANGED <<server, opening, grants>>

(* A delete ends the streams first and removes the row afterwards. *)
DeleteRow(a) ==
    /\ change[a].pc = "deleting"
    /\ server' = [server EXCEPT !.live = FALSE]
    /\ Raced(FALSE)
    /\ change' = [change EXCEPT ![a] = [NewChange EXCEPT !.pc = "done"]]
    /\ UNCHANGED <<grants, doomed>>

Request(a) ==
    \/ Begin(a)
    \/ StoreCredential(a)
    \/ \E p \in Policies, on \in BOOLEAN : WriteServer(a, p, on)
    \/ Collect(a, "stored", "read")
    \/ Collect(a, "written", "done")
    \/ change[a].pc = "read" /\ ~change[a].moved /\ Collect(a, "read", "deleting")
    \/ DeleteRow(a)

Player(o) ==
    \/ Find(o)
    \/ ReadSource(o)
    \/ Negotiate(o)
    \/ Fail(o)
    \/ \E idle \in SUBSET grants : ClaimSlot(o, idle)
    \/ EndStream(o)

StreamsNext == (\E o \in Openings : Player(o)) \/ (\E a \in Editors : Request(a))

StreamsSpec == StreamsInit /\ [][StreamsNext]_stVars

-----------------------------------------------------------------------------
STTypeOK ==
    /\ server.policy \in Policies /\ server.gen \in 1..MaxGen
    /\ doomed \subseteq grants /\ grants \subseteq Openings
    /\ \A o \in Openings : o \in grants <=> opening[o].pc = "open"

(* The stream limit: when a stream was admitted under a limit, that many   *)
(* streams at most were open, itself included, and those are never joined  *)
(* by an older one.                                                        *)
SlotsKept ==
    \A o \in grants : opening[o].policy.max > 0 =>
        Cardinality({p \in grants : opening[p].pc = "open" /\ p # o
                       /\ opening[p].policy = opening[o].policy}) < opening[o].policy.max

Pending == \E a \in Editors : change[a].pc \in {"stored", "written"}

(* "Active streams keep the policy they started with, so end them": a      *)
(* stream that runs under a policy, credential or switch the row no longer *)
(* has, or on a server that was deleted, is being ended, unless it was     *)
(* being opened while the row was written, or the row was written by a     *)
(* request that had not seen the newer one.                                *)
OnlyRacedStay ==
    \A o \in grants \ doomed :
        \/ opening[o].raced \/ Pending
        \/ /\ server.live /\ server.on
           /\ server.policy = opening[o].policy /\ server.gen = opening[o].base

StreamsSafe == STTypeOK /\ SlotsKept /\ OnlyRacedStay

(* A viewer's claim ends no stream another viewer is reading, and of the   *)
(* viewer's own streams no more than the limit asks for.                   *)
ClaimIsFair ==
    [][\A o \in Openings : \A idle \in SUBSET grants : ClaimSlot(o, idle) =>
          LET gone == (grants \ grants') \ idle IN
          /\ \A p \in gone : ViewerOf[p] = ViewerOf[o] /\ ViewerOf[o] # NoViewer
          /\ gone # {} => Cardinality(grants') >= opening[o].policy.max]_stVars

StreamsContract == [][UNCHANGED stVars \/ StreamsSafe']_stVars /\ ClaimIsFair
=============================================================================
