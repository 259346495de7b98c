------------------------------ MODULE Updates ------------------------------
(***************************************************************************)
(* Updating ViewDock (internal/update): the server checks the registry,    *)
(* asks the host's helper for an update through a file, and falls back to  *)
(* replacing its own container through the Docker socket.  The helper      *)
(* (host-update.sh) runs on the host, the swapper in a container of its    *)
(* own, and both stop the server that asked for them.  What is known of an *)
(* update is one settings row and three files; whoever loads the status    *)
(* works out from these what became of it.                                 *)
(*                                                                         *)
(* Images are 1, the one that runs at first, and 2, the one in the         *)
(* registry.  Ages are what the code compares them with: a progress file   *)
(* is fresh for a minute, a request for two, an update for 30.             *)
(***************************************************************************)
EXTENDS Naturals

CONSTANTS MaxApplies,    \* bound on requests to update
          MaxToggles,    \* bound on changes of the automatic setting
          MaxChecks,     \* bound on checks of the registry
          MaxRestarts    \* bound on restarts of the server

ASSUME UpdatesAssumption ==
    /\ MaxApplies \in Nat /\ MaxToggles \in Nat /\ MaxChecks \in Nat /\ MaxRestarts \in Nat

VARIABLES host,       \* what is installed: the helper, the Docker socket
          info,       \* the settings row app_update
          request,    \* update/request: "none", "fresh" or "late"
          report,     \* update/progress.json: its stage and age
          applied,    \* the image recorded in update/applied, 0 for none
          pulled,     \* the image the tag names on this host
          main, next, \* the server's container and the one prepared to replace it
          job,        \* BeginApply and RunApply in the server
          checkup,    \* Check in the server, with the row it read
          helper,     \* host-update.sh
          swapper,    \* viewdock update-swap
          overlap,    \* history: the helper was called while it might run already
          used        \* the requests, toggles, checks and restarts made

upVars == <<host, info, request, report, applied, pulled, main, next, job, checkup,
            helper, swapper, overlap, used>>

HostFiles == <<request, report, applied>>
Boxes == <<pulled, main, next>>

Running == main.state = "up" \/ next.state = "up"

UpdatesInit ==
    /\ host \in [helper : BOOLEAN, socket : BOOLEAN]
    /\ applied \in {0, 1}
    /\ info = [status |-> "idle", auto |-> TRUE, since |-> "long"]
    /\ request = "none"
    /\ report = [stage |-> "none", fresh |-> FALSE]
    /\ pulled = 1
    /\ main = [image |-> 1, state |-> "up"]
    /\ next = [image |-> 1, state |-> "none"]
    /\ job = [pc |-> "off", auto |-> TRUE]
    /\ checkup = "off"
    /\ helper = "off"
    /\ swapper = "off"
    /\ overlap = FALSE
    /\ used = [applies |-> 0, toggles |-> 0, checks |-> 0, restarts |-> 0]

(* HelperActive: any fresh report of work counts, the server's own too. *)
HelperActive == report.fresh /\ report.stage \in {"queued", "pulling", "restarting"}

Report(stage) == report' = [stage |-> stage, fresh |-> TRUE]

-----------------------------------------------------------------------------
(* SetAuto. *)
Toggle ==
    /\ Running /\ used.toggles < MaxToggles
    /\ info' = [info EXCEPT !.auto = ~@]
    /\ used' = [used EXCEPT !.toggles = @ + 1]
    /\ UNCHANGED <<host, HostFiles, Boxes, job, checkup, helper, swapper, overlap>>

(* Check: refused while another runs or an update is applied. *)
CheckStart ==
    /\ Running /\ used.checks < MaxChecks
    /\ checkup = "off" /\ job.pc = "off"
    /\ checkup' = "asking"
    /\ info' = [info EXCEPT !.status = "checking"]
    /\ used' = [used EXCEPT !.checks = @ + 1]
    /\ UNCHANGED <<host, HostFiles, Boxes, job, helper, swapper, overlap>>

(* reloadAfterCheck: what was saved while the registry was asked is kept;  *)
(* only a status that is still "checking" is replaced.                     *)
CheckEnd(ok) ==
    /\ Running /\ checkup = "asking"
    /\ checkup' = "off"
    /\ info' = [info EXCEPT !.status = IF @ # "checking" THEN @ ELSE IF ok THEN "ok" ELSE "error"]
    /\ UNCHANGED <<host, HostFiles, Boxes, job, helper, swapper, overlap, used>>

(* BeginApply: under the flag, the row says updating from here on. *)
ApplyStart ==
    /\ Running /\ used.applies < MaxApplies
    /\ job.pc = "off"
    /\ host.helper \/ host.socket
    /\ info' = [info EXCEPT !.status = "updating", !.since = "now"]
    /\ job' = [pc |-> IF host.helper THEN "request" ELSE "run", auto |-> info.auto]
    /\ used' = [used EXCEPT !.applies = @ + 1]
    /\ IF host.helper THEN UNCHANGED report ELSE Report("queued")
    /\ UNCHANGED <<host, request, applied, Boxes, checkup, helper, swapper, overlap>>

(* RequestUpdate puts the file in place and then reports that it waits. *)
ApplyRequest ==
    /\ Running /\ job.pc = "request"
    /\ request' = "fresh"
    /\ overlap' = (overlap \/ helper # "off" \/ swapper # "off")
    /\ job' = [job EXCEPT !.pc = "noting"]
    /\ UNCHANGED <<host, info, report, applied, Boxes, checkup, helper, swapper, used>>

ApplyNote ==
    /\ Running /\ job.pc = "noting"
    /\ Report("queued")
    /\ job' = [job EXCEPT !.pc = "run"]
    /\ UNCHANGED <<host, info, request, applied, Boxes, checkup, helper, swapper, overlap, used>>

(* RunApply reads the row again; it saves this copy if the update fails. *)
ApplyRun ==
    /\ Running /\ job.pc = "run"
    /\ job' = [pc |-> IF host.helper THEN "waiting" ELSE "clearing", auto |-> info.auto]
    /\ UNCHANGED <<host, info, HostFiles, Boxes, checkup, helper, swapper, overlap, used>>

(* waitHelper: the helper took the request, and reports work or its end. *)
HelperTook ==
    /\ Running /\ job.pc = "waiting"
    /\ request = "none" /\ report.stage \in {"queued", "pulling", "restarting", "done"}
    /\ job' = [job EXCEPT !.pc = "off"]
    /\ UNCHANGED <<host, info, HostFiles, Boxes, checkup, helper, swapper, overlap, used>>

(* Twelve seconds went by and the last look did not see the helper. *)
WaitEnds ==
    /\ Running /\ job.pc = "waiting"
    /\ request # "none" \/ report.stage \notin {"queued", "pulling", "restarting", "done"}
    /\ job' = [job EXCEPT !.pc = IF host.socket THEN "clearing" ELSE "off"]
    /\ UNCHANGED <<host, info, HostFiles, Boxes, checkup, helper, swapper, overlap, used>>

(* A slip: the request is left for the helper. *)
ApplyClearNot ==
    /\ Running /\ job.pc = "clearing"
    /\ Report("pulling")
    /\ job' = [job EXCEPT !.pc = "pulling"]
    /\ UNCHANGED <<host, info, request, applied, Boxes, checkup, helper, swapper, overlap, used>>

(* The socket's turn: report, take the request back, pull. *)
ApplyClear ==
    /\ Running /\ job.pc = "clearing"
    /\ Report("pulling")
    /\ request' = "none"
    /\ job' = [job EXCEPT !.pc = "pulling"]
    /\ UNCHANGED <<host, info, applied, Boxes, checkup, helper, swapper, overlap, used>>

(* PullAndSwap: the image, the next container, the swapper. *)
ApplySwap ==
    /\ Running /\ job.pc = "pulling"
    /\ pulled' = 2
    /\ next' = IF next.state = "up" THEN next ELSE [image |-> 2, state |-> "created"]
    /\ swapper' = "stop"
    /\ Report("restarting")
    /\ job' = [job EXCEPT !.pc = "off"]
    /\ UNCHANGED <<host, info, request, applied, main, checkup, helper, overlap, used>>

(* A pull that fails.  With a helper installed a fresh report of work      *)
(* means that it is at work, and the error is left to it.                  *)
ApplyFail ==
    /\ Running /\ job.pc = "pulling"
    /\ job' = [job EXCEPT !.pc = "off"]
    /\ IF host.helper /\ HelperActive THEN UNCHANGED <<info, report>>
       ELSE info' = [info EXCEPT !.status = "error", !.auto = job.auto] /\ Report("error")
    /\ pulled' \in {pulled, 2}
    /\ UNCHANGED <<host, request, applied, main, next, checkup, helper, swapper, overlap, used>>

-----------------------------------------------------------------------------
(* RunningDigest, through the socket; the applied file comes first. *)
Digest == IF applied # 0 THEN applied
          ELSE IF ~host.socket THEN 0
          ELSE IF next.state = "up" THEN next.image ELSE main.image

(* A slip: a report that has stopped coming is waited for. *)
VerdictPatient ==
    IF Digest # 0 THEN "ok"
    ELSE CASE report.stage = "error" -> "error"
           [] report.stage = "done" -> "ok"
           [] OTHER -> "updating"

(* What reconcile makes of an update whose request is gone. *)
Verdict ==
    IF Digest # 0 THEN "ok"
    ELSE CASE report.stage = "error" -> "error"
           [] report.stage = "done" -> "ok"
           [] report.stage = "restarting" -> IF info.since = "long" THEN "error" ELSE "updating"
           [] OTHER -> IF info.since \in {"long", "while"} THEN "error" ELSE "updating"

(* Load runs reconcile: nothing is decided while an update is at work. *)
Reconcile ==
    /\ Running /\ job.pc = "off" /\ ~HelperActive
    /\ \/ /\ request = "late"
          /\ request' = "none"
          /\ info' = [info EXCEPT !.status = "error"]
       \/ /\ request = "none" /\ info.status = "updating"
          /\ Verdict # "updating"
          /\ info' = [info EXCEPT !.status = Verdict]
          /\ UNCHANGED request
    /\ UNCHANGED <<host, report, applied, Boxes, job, checkup, helper, swapper, overlap, used>>

-----------------------------------------------------------------------------
(* The helper's timer: it takes the request away before it does anything.  *)
(* Between the server's last look and its ClearRequest nobody sees this.   *)
HelperTake ==
    /\ host.helper /\ helper = "off" /\ request # "none"
    /\ request' = "none"
    /\ helper' = "taken"
    /\ overlap' = (overlap \/ job.pc = "clearing")
    /\ UNCHANGED <<host, info, report, applied, Boxes, job, checkup, swapper, used>>

HelperPull ==
    /\ helper = "taken"
    /\ helper' = "pulling"
    /\ Report("pulling")
    /\ UNCHANGED <<host, info, request, applied, Boxes, job, checkup, swapper, overlap, used>>

(* Docker is missing, or the pull fails. *)
HelperFail ==
    /\ helper \in {"taken", "pulling"}
    /\ helper' = "off"
    /\ Report("error")
    /\ UNCHANGED <<host, info, request, applied, Boxes, job, checkup, swapper, overlap, used>>

(* The containers are taken down with everything that runs in them. *)
HelperDown ==
    /\ helper = "pulling"
    /\ helper' = "down"
    /\ pulled' = 2
    /\ Report("restarting")
    /\ main' = [main EXCEPT !.state = "gone"]
    /\ next' = [next EXCEPT !.state = "none"]
    /\ job' = [job EXCEPT !.pc = "off"]
    /\ checkup' = "off"
    /\ UNCHANGED <<host, info, request, applied, swapper, overlap, used>>

HelperUp ==
    /\ helper = "down"
    /\ helper' = "up"
    /\ main' = [image |-> pulled, state |-> "up"]
    /\ UNCHANGED <<host, info, HostFiles, pulled, next, job, checkup, swapper, overlap, used>>

(* The digest may be missing; the report that all is done is not. *)
HelperRecord ==
    /\ helper = "up"
    /\ helper' = "recorded"
    /\ applied' \in {applied, pulled}
    /\ UNCHANGED <<host, info, request, report, Boxes, job, checkup, swapper, overlap, used>>

HelperDone ==
    /\ helper = "recorded"
    /\ helper' = "off"
    /\ Report("done")
    /\ UNCHANGED <<host, info, request, applied, Boxes, job, checkup, swapper, overlap, used>>

-----------------------------------------------------------------------------
(* RunSwap: stop the old, start the new, and the old again if that fails;  *)
(* only then is the old one removed and the new one given its name.        *)
SwapStop ==
    /\ swapper = "stop"
    /\ swapper' = "start"
    /\ main' = IF main.state = "up" THEN [main EXCEPT !.state = "stopped"] ELSE main
    /\ job' = [job EXCEPT !.pc = "off"]
    /\ checkup' = "off"
    /\ UNCHANGED <<host, info, HostFiles, pulled, next, helper, overlap, used>>

SwapStart ==
    /\ swapper = "start" /\ next.state = "created" /\ main.state # "up"
    /\ swapper' = "remove"
    /\ next' = [next EXCEPT !.state = "up"]
    /\ UNCHANGED <<host, info, HostFiles, pulled, main, job, checkup, helper, overlap, used>>

SwapBack ==
    /\ swapper = "start"
    /\ swapper' = "off"
    /\ main' = IF main.state = "stopped" THEN [main EXCEPT !.state = "up"] ELSE main
    /\ UNCHANGED <<host, info, HostFiles, pulled, next, job, checkup, helper, overlap, used>>

SwapRemove ==
    /\ swapper = "remove"
    /\ swapper' = "rename"
    /\ main' = IF main.state = "stopped" THEN [main EXCEPT !.state = "gone"] ELSE main
    /\ UNCHANGED <<host, info, HostFiles, pulled, next, job, checkup, helper, overlap, used>>

SwapRename ==
    /\ swapper = "rename"
    /\ swapper' = "off"
    /\ IF next.state = "up" /\ main.state = "gone"
       THEN main' = next /\ next' = [next EXCEPT !.state = "none"]
       ELSE UNCHANGED <<main, next>>
    /\ UNCHANGED <<host, info, HostFiles, pulled, job, checkup, helper, overlap, used>>

-----------------------------------------------------------------------------
(* The server's process ends and its container starts it again. *)
Restart ==
    /\ Running /\ used.restarts < MaxRestarts
    /\ job' = [job EXCEPT !.pc = "off"]
    /\ checkup' = "off"
    /\ used' = [used EXCEPT !.restarts = @ + 1]
    /\ UNCHANGED <<host, info, HostFiles, Boxes, helper, swapper, overlap>>

(* Time passes.  The helper reports every two seconds while it pulls; a    *)
(* request is late after two minutes, an update old after two and 30.      *)
Wait ==
    /\ \/ report.fresh /\ helper # "pulling" /\ report' = [report EXCEPT !.fresh = FALSE]
          /\ UNCHANGED <<request, info>>
       \/ request = "fresh" /\ request' = "late" /\ UNCHANGED <<report, info>>
       \/ ~report.fresh /\ request # "fresh" /\ info.since \in {"now", "while"}
          /\ info' = [info EXCEPT !.since = IF @ = "now" THEN "while" ELSE "long"]
          /\ UNCHANGED <<request, report>>
    /\ UNCHANGED <<host, applied, Boxes, job, checkup, helper, swapper, overlap, used>>

Server == Toggle \/ CheckStart \/ (\E ok \in BOOLEAN : CheckEnd(ok)) \/ ApplyStart
          \/ ApplyRequest \/ ApplyNote \/ ApplyRun \/ HelperTook \/ WaitEnds
          \/ ApplyClear \/ ApplySwap \/ ApplyFail \/ Reconcile

Helper == HelperTake \/ HelperPull \/ HelperFail \/ HelperDown \/ HelperUp
          \/ HelperRecord \/ HelperDone

Swapper == SwapStop \/ SwapStart \/ SwapBack \/ SwapRemove \/ SwapRename

UpdatesNext == Server \/ Helper \/ Swapper \/ Restart \/ Wait

UpdatesSpec == UpdatesInit /\ [][UpdatesNext]_upVars

(* Every step of an update that runs is taken, time passes, and someone    *)
(* looks at the status: the page that shows it asks every few seconds.     *)
UpdatesFair ==
    /\ WF_upVars(ApplyRequest) /\ WF_upVars(ApplyNote) /\ WF_upVars(ApplyRun)
    /\ WF_upVars(HelperTook \/ WaitEnds) /\ WF_upVars(ApplyClear)
    /\ WF_upVars(ApplySwap \/ ApplyFail)
    /\ WF_upVars(HelperPull \/ HelperDown) /\ WF_upVars(HelperUp)
    /\ WF_upVars(HelperRecord) /\ WF_upVars(HelperDone)
    /\ WF_upVars(Swapper) /\ WF_upVars(Wait) /\ WF_upVars(Reconcile)

UpdatesFairSpec == UpdatesSpec /\ UpdatesFair

-----------------------------------------------------------------------------
UpTypeOK ==
    /\ info \in [status : {"idle", "checking", "updating", "ok", "error"}, auto : BOOLEAN,
                 since : {"now", "while", "long"}]
    /\ request \in {"none", "fresh", "late"}
    /\ main.state \in {"up", "stopped", "gone"} /\ next.state \in {"none", "created", "up"}

(* The helper and the socket do not both replace the containers: an        *)
(* update is handed to one of them.  They meet only if the helper takes    *)
(* the request between the server's last look and its ClearRequest, or if  *)
(* another update is asked for while one is at work.                       *)
OneReplaces == (helper # "off" /\ (job.pc = "pulling" \/ swapper # "off")) => overlap

(* Whatever fails on the way, a container is left to run: the old one is   *)
(* removed only when the new one has started.  Only between the helper's   *)
(* compose down and up is there none.                                      *)
ServiceKept == Running \/ main.state = "stopped" \/ helper = "down"

UpdatesSafe == UpTypeOK /\ OneReplaces /\ ServiceKept

(* A check keeps the update that was started and the automatic setting     *)
(* that was changed while it asked the registry.                           *)
CheckKeeps ==
    [][checkup = "asking" /\ checkup' = "off" =>
          /\ info'.auto = info.auto
          /\ info.status = "updating" => info'.status = "updating"]_upVars

(* An update the host reports as failed is called failed, where no digest  *)
(* of an earlier update or of the running image hides it.                  *)
HostErrorReported ==
    [][info.status = "updating" /\ info'.status = "ok" => report.stage # "error" \/ Digest # 0]_upVars

(* No update is under way for ever: whatever stops, whoever looks later is *)
(* told that it ended.                                                     *)
UpdateEnds == []<>(info.status # "updating")

UpdatesContract == [][UNCHANGED upVars \/ UpdatesSafe']_upVars /\ CheckKeeps /\ HostErrorReported
=============================================================================
