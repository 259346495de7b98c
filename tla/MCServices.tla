----------------------------- MODULE MCServices -------------------------------
(***************************************************************************)
(* Backup, restore, the copies of Jellyfin titles, a library move whose    *)
(* journal misses writes, what such a move plans, what is decided for a    *)
(* playback and what its segments hold, and the dashboard, side by side: a *)
(* behaviour belongs to one of them and the others stay as they are.       *)
(***************************************************************************)
EXTENDS Backup, Restore, MediaCopy, Decision, MCHlsPlan, MCMovePlan, Dashboard

CONSTANTS Film, Show, NoTitle

VARIABLES
    component,
    mvDisk, mvCat, mvItem, mvJob, mvBusy, mvScan, mvW, mvCrashes, mvTorn

\* The folder is renamed, the files are copied.
Move == INSTANCE LibraryMove
    WITH Titles <- {Film, Show}, Folders <- {Film}, Files <- 2, Cross <- {Show},
         Faults <- {"io", "apply", "journal"}, MaxCrashes <- 2,
         disk <- mvDisk, cat <- mvCat, item <- mvItem, job <- mvJob, busy <- mvBusy,
         scan <- mvScan, w <- mvW, crashes <- mvCrashes, torn <- mvTorn

-----------------------------------------------------------------------------
(* Requests for a playback: every browser with one file, every kind of     *)
(* sound with some browsers, and every limit on the picture with one.      *)

Browsers == {"safari", "edge", "chrome", "windows_chrome"}
Plain == [ua |-> "safari", hevc |-> "yes", probe |-> "unsaid", deep |-> "no",
          probeDeep |-> "unsaid", ac3 |-> "unsaid", probeAc3 |-> "unsaid", ass |-> FALSE]
File == [video |-> "h264", depth |-> 8, audio |-> "aac", container |-> "mkv", height |-> 1080,
         wide |-> FALSE, hdr |-> FALSE, sub |-> "none", quality |-> 0, lan |-> TRUE, share |-> 0,
         viewport |-> 0, original |-> FALSE, zscale |-> FALSE, client |-> Plain]

Pictures ==
    {[File EXCEPT !.video = v[1], !.depth = v[2], !.hdr = (v[2] = 10), !.sub = s, !.client = c] :
        v \in {<<"h264", 8>>, <<"hevc", 8>>, <<"hevc", 10>>, <<"other", 8>>}, s \in {"none", "ass"},
        c \in [ua: Browsers, hevc: Said, probe: Said, deep: Said, probeDeep: Said,
               ac3: {"unsaid"}, probeAc3: {"unsaid"}, ass: BOOLEAN]}
Sounds ==
    {[File EXCEPT !.audio = a, !.container = n, !.client = c] :
        a \in {"ac3", "dts", "aac"}, n \in {"mp4", "mkv"},
        c \in [ua: Browsers, hevc: {"unsaid"}, probe: {"unsaid"}, deep: {"unsaid"},
               probeDeep: {"unsaid"}, ac3: Said, probeAc3: Said, ass: {FALSE}]}
Sizes ==
    {[File EXCEPT !.video = v, !.depth = 10, !.audio = a, !.height = h[1], !.wide = h[2],
                  !.hdr = hd, !.sub = s, !.quality = q, !.lan = l, !.share = sh,
                  !.viewport = vp, !.original = o, !.zscale = z] :
        v \in {"h264", "hevc"}, a \in {"aac", "dts"},
        h \in {<<0, FALSE>>, <<480, FALSE>>, <<1080, FALSE>>, <<1600, TRUE>>, <<2160, TRUE>>},
        hd \in BOOLEAN, s \in {"none", "pgs"}, q \in {0, 480, 2160}, l \in BOOLEAN,
        sh \in {0, 480, 720}, vp \in {0, 600}, o \in BOOLEAN, z \in BOOLEAN}
MCAsks == Pictures \cup Sounds \cup Sizes

-----------------------------------------------------------------------------
mvVars == <<mvDisk, mvCat, mvItem, mvJob, mvBusy, mvScan, mvW, mvCrashes, mvTorn>>
mcVars == <<component, bkVars, rsVars, mdVars, mvVars, dcVars, hpVars, mpVars, dbVars>>

MCInit ==
    /\ component \in {"backup", "restore", "copies", "move", "decision", "segments", "plan", "dashboard"}
    /\ BKInit /\ RSInit /\ MDInit /\ Move!Init /\ DBInit
    /\ IF component = "decision" THEN DCInit ELSE ask = File /\ DCInit
    /\ IF component = "segments" THEN HPInit ELSE film \in Encoded /\ enc = "cpu" /\ HPInit
    /\ IF component = "plan" THEN MPInit ELSE shelf = Empty /\ MPStart
    /\ component = "dashboard" \/ section = "nodes"

InBackup(A) ==
    /\ component = "backup" /\ A
    /\ UNCHANGED <<component, rsVars, mdVars, mvVars, dcVars, hpVars, mpVars, dbVars>>
InRestore(A) ==
    /\ component = "restore" /\ A
    /\ UNCHANGED <<component, bkVars, mdVars, mvVars, dcVars, hpVars, mpVars, dbVars>>
InCopies(A) ==
    /\ component = "copies" /\ A
    /\ UNCHANGED <<component, bkVars, rsVars, mvVars, dcVars, hpVars, mpVars, dbVars>>
InMove(A) ==
    /\ component = "move" /\ A
    /\ UNCHANGED <<component, bkVars, rsVars, mdVars, dcVars, hpVars, mpVars, dbVars>>
InDecision(A) ==
    /\ component = "decision" /\ A
    /\ UNCHANGED <<component, bkVars, rsVars, mdVars, mvVars, hpVars, mpVars, dbVars>>
InSegments(A) ==
    /\ component = "segments" /\ A
    /\ UNCHANGED <<component, bkVars, rsVars, mdVars, mvVars, dcVars, mpVars, dbVars>>
InPlan(A) ==
    /\ component = "plan" /\ A
    /\ UNCHANGED <<component, bkVars, rsVars, mdVars, mvVars, dcVars, hpVars, dbVars>>
InDashboard(A) ==
    /\ component = "dashboard" /\ A
    /\ UNCHANGED <<component, bkVars, rsVars, mdVars, mvVars, dcVars, hpVars, mpVars>>

MCNext ==
    \/ InBackup(BKNext) \/ InRestore(RSNext) \/ InCopies(MDNext)
    \/ InMove(Move!Next) \/ InDecision(DCNext) \/ InSegments(HPNext) \/ InPlan(MPNext)
    \/ InDashboard(DBNext)

MCSpec == MCInit /\ [][MCNext]_mcVars

\* setItem (move_job.go) only logs a write of the journal that fails: with
\* that and two crashes too, recovery works on what is on disk and no file
\* of a title is lost.
UnrecordedMoveSafe == Move!NothingLost

=============================================================================
