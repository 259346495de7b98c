--------------------------- MODULE MCConnections -----------------------------
(***************************************************************************)
(* What keeps the server in touch with others, side by side: the metadata  *)
(* provider, the Discord gateway, the database in an outage, the settings  *)
(* that several processes share, the media workers, the viewers of a watch  *)
(* party and the update of the host. A behaviour belongs to one of them,   *)
(* and the others stay as they are.                                        *)
(***************************************************************************)
EXTENDS Matching, Gateway, Outage, Config, Workers, Timeline, Updates

VARIABLE peer

mcVars == <<peer, mtVars, gwVars, ogVars, cfVars, wkVars, tmVars, upVars>>

\* Where others run, the gateway has no token, no worker answers and the party
\* has just begun.
MCInit ==
    /\ peer \in {"metadata", "discord", "database", "settings", "workers", "viewers", "host"}
    /\ MTInit /\ GWInit /\ OGInit /\ CFInit /\ WKInit /\ TMInit /\ UpdatesInit
    /\ peer = "discord" \/ setting = NoToken
    /\ peer = "host" \/ (host.helper /\ host.socket /\ applied = 0)
    /\ peer = "viewers" \/ quiet = 0
    /\ peer = "workers" \/ \A n \in Nodes : ~alive[n]

InMatching(A) == peer = "metadata" /\ A /\ UNCHANGED <<peer, gwVars, ogVars, cfVars, wkVars, tmVars, upVars>>
InGateway(A) == peer = "discord" /\ A /\ UNCHANGED <<peer, mtVars, ogVars, cfVars, wkVars, tmVars, upVars>>
InOutage(A) == peer = "database" /\ A /\ UNCHANGED <<peer, mtVars, gwVars, cfVars, wkVars, tmVars, upVars>>
InConfig(A) == peer = "settings" /\ A /\ UNCHANGED <<peer, mtVars, gwVars, ogVars, wkVars, tmVars, upVars>>
InWorkers(A) == peer = "workers" /\ A /\ UNCHANGED <<peer, mtVars, gwVars, ogVars, cfVars, tmVars, upVars>>
InTimeline(A) == peer = "viewers" /\ A /\ UNCHANGED <<peer, mtVars, gwVars, ogVars, cfVars, wkVars, upVars>>
InUpdates(A) == peer = "host" /\ A /\ UNCHANGED <<peer, mtVars, gwVars, ogVars, cfVars, wkVars, tmVars>>

MCNext ==
    \/ InMatching(MTNext) \/ InGateway(GWNext) \/ InOutage(OGNext)
    \/ InConfig(CFNext) \/ InWorkers(WKNext) \/ InTimeline(TMNext)
    \/ InUpdates(UpdatesNext)

\* MTSpec's, GWSpec's, OGSpec's, CFSpec's, WKSpec's, TMSpec's and
\* UpdatesFairSpec's, each where its module runs: only one of the disjuncts under a WF is possible in a behaviour.
MCFairness ==
    /\ WF_mcVars(InMatching(WorkerStep) \/ InGateway(BotStep) \/ InOutage(HealthWatch)
                 \/ InConfig(Watch) \/ InWorkers(AdminStep) \/ InTimeline(Second))
    /\ WF_mcVars(InGateway(Reload) \/ InWorkers(MarkStored))
    /\ WF_mcVars(InUpdates(ApplyRequest)) /\ WF_mcVars(InUpdates(ApplyNote))
    /\ WF_mcVars(InUpdates(ApplyRun)) /\ WF_mcVars(InUpdates(HelperTook \/ WaitEnds))
    /\ WF_mcVars(InUpdates(ApplyClear)) /\ WF_mcVars(InUpdates(ApplySwap \/ ApplyFail))
    /\ WF_mcVars(InUpdates(HelperPull \/ HelperDown)) /\ WF_mcVars(InUpdates(HelperUp))
    /\ WF_mcVars(InUpdates(HelperRecord)) /\ WF_mcVars(InUpdates(HelperDone))
    /\ WF_mcVars(InUpdates(Swapper)) /\ WF_mcVars(InUpdates(Wait))
    /\ WF_mcVars(InUpdates(Reconcile))
    /\ \A r \in Calls : WF_mcVars(InOutage(ServeCall(r)))
    /\ \A l \in Loaders : WF_mcVars(InConfig(LoadStep(l)))
    /\ \A m \in Viewers : WF_mcVars(InTimeline(Buffered(m)))
    /\ \A n \in Nodes : WF_mcVars(InWorkers(ProbeStep(n)))

MCSpec == MCInit /\ [][MCNext]_mcVars /\ MCFairness

=============================================================================
