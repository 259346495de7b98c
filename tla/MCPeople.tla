------------------------------ MODULE MCPeople -------------------------------
(***************************************************************************)
(* What several people and processes change at the same time, side by      *)
(* side: the catalogue that scans and administrators write, the accounts   *)
(* and their roles, the households, signing in with Discord, the streams   *)
(* of a linked Jellyfin server, the update of the host, and what is        *)
(* recorded of playback and decides which worker is asked. A behaviour     *)
(* belongs to one of them, and the others stay as they are.                *)
(***************************************************************************)
EXTENDS Catalogue, Accounts, Households, SignIn, Streams, Updates, Flight, Ranking, TLC

VARIABLE subject

CONSTANTS ann, bob      \* the viewers of the streams

MCKindOf == [f \in Files |-> IF f = "film" THEN "movie" ELSE "episode"]
MCViewerOf == (1 :> ann) @@ (2 :> bob) @@ (3 :> bob)
MCPolicies == {[stream |-> TRUE, max |-> m] : m \in {0, 1, 2}}

\* Workers a and b have the first priority, c the second.
MCTier == [n \in Hosts |-> IF n = "c" THEN 2 ELSE 1]
MCNone == [n \in Hosts |-> "none"]
MCStored == {MCNone, [MCNone EXCEPT !["a"] = "avoid"]}
MCLabels == {{"tv"}, {"eu", "tv"}}

\* One edit and two other things, or no edit and everything else.
MCScenes ==
    {[edits |-> 2, halvings |-> 0, reports |-> 0, crashes |-> 1],
     [edits |-> 0, halvings |-> 1, reports |-> 1, crashes |-> 1],
     [edits |-> 1, halvings |-> 1, reports |-> 0, crashes |-> 1],
     [edits |-> 1, halvings |-> 1, reports |-> 1, crashes |-> 0]}

mcVars == <<subject, ctVars, acVars, hhVars, siVars, stVars, upVars, flVars, rkVars>>

\* A module that does not run stays at one start of its own. A host with both
\* ways to update has updated before; one with a single way may not have.
MCInit ==
    /\ subject \in {"catalogue", "accounts", "households", "signin", "streams", "updates",
                   "recorder", "ranking"}
    /\ CTStart /\ ACStart /\ HHStart /\ SIInit /\ StreamsInit /\ UpdatesInit /\ FLInit /\ RKInit
    /\ subject = "households" \/ owner[Second] = NoOwner
    /\ subject = "signin" \/ (super = NoOne /\ existing = {Root, Member} /\ ticket.links = NoOne)
    /\ subject = "streams" \/ (grants = {} /\ server.policy.max = 0)
    /\ subject = "updates" \/ (host.helper /\ host.socket)
    /\ host.helper /\ host.socket => applied = 1
    /\ subject = "ranking" \/ (stored = MCNone /\ halvings = 0)

InCatalogue(A) ==
    /\ subject = "catalogue" /\ A
    /\ UNCHANGED <<subject, acVars, hhVars, siVars, stVars, upVars, flVars, rkVars>>
InAccounts(A) ==
    /\ subject = "accounts" /\ A
    /\ UNCHANGED <<subject, ctVars, hhVars, siVars, stVars, upVars, flVars, rkVars>>
InHouseholds(A) ==
    /\ subject = "households" /\ A
    /\ UNCHANGED <<subject, ctVars, acVars, siVars, stVars, upVars, flVars, rkVars>>
InSignIn(A) ==
    /\ subject = "signin" /\ A
    /\ UNCHANGED <<subject, ctVars, acVars, hhVars, stVars, upVars, flVars, rkVars>>
InStreams(A) ==
    /\ subject = "streams" /\ A
    /\ UNCHANGED <<subject, ctVars, acVars, hhVars, siVars, upVars, flVars, rkVars>>
InUpdates(A) ==
    /\ subject = "updates" /\ A
    /\ UNCHANGED <<subject, ctVars, acVars, hhVars, siVars, stVars, flVars, rkVars>>
InFlight(A) ==
    /\ subject = "recorder" /\ A
    /\ UNCHANGED <<subject, ctVars, acVars, hhVars, siVars, stVars, upVars, rkVars>>
InRanking(A) ==
    /\ subject = "ranking" /\ A
    /\ UNCHANGED <<subject, ctVars, acVars, hhVars, siVars, stVars, upVars, flVars>>

MCNext ==
    \/ InCatalogue(CTNext) \/ InAccounts(ACNext) \/ InHouseholds(HHNext) \/ InSignIn(SINext)
    \/ InStreams(StreamsNext) \/ InUpdates(UpdatesNext) \/ InFlight(FLNext) \/ InRanking(RKNext)

MCSpec == MCInit /\ [][MCNext]_mcVars

=============================================================================
