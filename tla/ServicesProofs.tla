---------------------------- MODULE ServicesProofs --------------------------
(***************************************************************************)
(* Proofs about the decision of a playback, the backups, the restore, the  *)
(* copies of Jellyfin titles, the resilience dashboard and the ranking of  *)
(* the media workers, for every value of their constants.                  *)
(***************************************************************************)
EXTENDS Decision, Backup, Restore, MediaCopy, Dashboard, Ranking, FiniteSetTheorems,
        SequenceTheorems, NaturalsInduction, TLAPS

-----------------------------------------------------------------------------
(* The decision of a playback.                                             *)

\* The plan is Decide's, but for a promotion, and the slot is the plan's.
DCInv ==
    /\ ask \in AskType
    /\ stage \in {"asked", "decided", "admitted", "promoted", "refused", "sent"}
    /\ slot \in BOOLEAN
    /\ stage = "asked" => plan = NoPlan /\ ~slot
    /\ stage # "asked" =>
         /\ plan.height = Height(ask) /\ plan.audio = ~AudioDirect(ask) /\ plan.burn = Burns(ask)
         /\ plan.video \in BOOLEAN
         /\ plan.mode \in {"direct", "remux"} => ~plan.video /\ ~plan.audio
         /\ ~plan.video => ~Burns(ask) /\ VideoDirect(ask) /\ ~Scales(ask)
    /\ stage = "decided" => ~slot
    /\ stage \in {"admitted", "promoted"} => slot = plan.video
    /\ stage = "refused" => ~slot
    /\ stage = "sent" => sent = Filtered /\ slot = plan.video /\ ~StartRefuses
    /\ stage # "sent" => sent = Nothing

\* The limits on the height of a picture.
LEMMA HeightLimits ==
    ASSUME NEW a \in AskType
    PROVE  /\ Height(a) \in Nat
           /\ a.height > 0 => Height(a) <= a.height
           /\ a.share > 0 => Height(a) <= a.share
           /\ ~Scales(a) => Height(a) <= 0 \/ Height(a) >= a.height
<1>1. a.height \in Nat /\ a.share \in {0, 480, 720, 1080} /\ a.quality \in Nat /\ a.viewport \in Nat
  BY DEF AskType
<1>2. AutoHeight(IF a.height = 0 THEN 1080 ELSE a.height, a) \in {480, 720, 1080}
  BY DEF AutoHeight, Snap
<1>3. \A h : Snap(h) \in {480, 720, 1080}
  BY DEF Snap
<1>4. \A h \in {480, 720, 1080} : Snap(h) = h
  BY DEF Snap
<1>5. PickHeight(a) \in Nat /\ (a.height > 0 => PickHeight(a) <= a.height) /\ (a.share > 0 => PickHeight(a) <= a.share)
  <2> DEFINE srcH == IF a.height = 0 THEN 1080 ELSE a.height
             want == IF a.quality > 0 THEN Snap(a.quality) ELSE AutoHeight(srcH, a)
             held == IF a.share > 0 /\ want > a.share THEN Snap(a.share) ELSE want
  <2>1. srcH \in Nat /\ (a.height > 0 => srcH = a.height) /\ want \in {480, 720, 1080}
    BY <1>1, <1>2, <1>3
  <2>2. held \in {480, 720, 1080} /\ (a.share > 0 => held <= a.share)
    BY <1>1, <1>4, <2>1
  <2>3. PickHeight(a) = Lesser(held, srcH)
    BY DEF PickHeight
  <2> HIDE DEF srcH, want, held
  <2> QED
    BY <1>1, <2>1, <2>2, <2>3 DEF Lesser
<1>6. /\ Height(a) \in Nat
      /\ a.height > 0 => Height(a) <= a.height
      /\ a.share > 0 => Height(a) <= a.share
  BY <1>1, <1>5 DEF Height, KeepsSize
<1> QED
  BY <1>1, <1>6 DEF Scales

\* A limit leaves a picture.
LEMMA HeightPositive == \A a \in AskType : a.height > 0 => Height(a) > 0
<1> SUFFICES ASSUME NEW a \in AskType, a.height > 0 PROVE Height(a) > 0
  OBVIOUS
<1>1. a.height \in Nat /\ a.share \in {0, 480, 720, 1080} /\ a.quality \in Nat /\ a.viewport \in Nat
  BY DEF AskType
<1>2. \A h : Snap(h) \in {480, 720, 1080}
  BY DEF Snap
<1>3. AutoHeight(a.height, a) \in {480, 720, 1080}
  BY <1>2 DEF AutoHeight
<1> QED
  BY <1>1, <1>2, <1>3 DEF Height, PickHeight, Lesser

\* Nothing is decided.
LEMMA DCInitInv == DCInit => DCInv
BY DecisionAssumption DEF DCInit, DCInv

\* Decide copies or encodes the picture as its mode says.
LEMMA DecideInv == ASSUME DCInv, Decide PROVE DCInv'
<1>1. plan' = Decided(ask) /\ stage' \in {"refused", "decided"} /\ UNCHANGED <<ask, slot, sent>> /\ stage = "asked"
  BY DEF Decide
<1>2. /\ plan'.height = Height(ask) /\ plan'.audio = ~AudioDirect(ask) /\ plan'.burn = Burns(ask)
      /\ plan'.video = (~VideoDirect(ask) \/ Burns(ask) \/ Scales(ask))
      /\ plan'.mode = Mode(ask, plan'.video, plan'.audio)
  BY <1>1 DEF Decided
<1>3. plan'.mode \in {"direct", "remux"} => ~plan'.video /\ ~plan'.audio
  BY <1>2 DEF Mode
<1>4. plan'.video \in BOOLEAN
  BY <1>2
<1> QED
  BY <1>1, <1>2, <1>3, <1>4 DEF DCInv

LEMMA TakeSlotInv == ASSUME DCInv, TakeSlot PROVE DCInv'
BY DEF DCInv, TakeSlot

LEMMA PromoteRemuxInv == ASSUME DCInv, PromoteRemux PROVE DCInv'
<1>1. /\ stage = "admitted" /\ plan.mode = "remux" /\ stage' = "promoted" /\ slot' = TRUE /\ UNCHANGED <<ask, sent>>
      /\ plan' = [plan EXCEPT !.video = TRUE,
                              !.mode = IF plan.audio THEN "transcode_av" ELSE "transcode_video"]
  BY DEF PromoteRemux
<1> QED
  BY <1>1 DEF DCInv

LEMMA SendInv == ASSUME DCInv, Send PROVE DCInv'
BY DEF DCInv, Send, StartRefuses, Filtered, CopiesPicture

LEMMA DCNextInv == DCInv /\ [DCNext]_dcVars => DCInv'
<1> SUFFICES ASSUME DCInv, [DCNext]_dcVars PROVE DCInv'
  OBVIOUS
<1>1. CASE UNCHANGED dcVars
  <2>1. UNCHANGED <<ask, stage, plan, slot, sent>>
    BY <1>1 DEF dcVars
  <2> QED
    BY <2>1 DEF DCInv, Filtered, CopiesPicture, StartRefuses
<1> QED
  BY <1>1, DecideInv, TakeSlotInv, PromoteRemuxInv, SendInv DEF DCNext

\* What is sent is what the slot, the limit and the player allow.
LEMMA DCInvSafe == DCInv => DecisionSafe
<1> SUFFICES ASSUME DCInv PROVE DecisionSafe
  OBVIOUS
<1>0. ask \in AskType /\ ask.height \in Nat
  BY DEF DCInv, AskType
<1>h. /\ Height(ask) \in Nat
      /\ ask.height > 0 => Height(ask) <= ask.height
      /\ ask.share > 0 => Height(ask) <= ask.share
      /\ ~Scales(ask) => Height(ask) <= 0 \/ Height(ask) >= ask.height
  BY <1>0, HeightLimits
<1>c. stage # "asked" => (CopiesPicture <=> ~plan.video)
  <2> SUFFICES ASSUME stage # "asked" PROVE CopiesPicture <=> ~plan.video
    OBVIOUS
  <2>1. CASE plan.video
    BY <2>1 DEF DCInv, CopiesPicture
  <2>2. CASE ~plan.video
    <3>1. plan.height <= 0 \/ plan.height >= ask.height
      BY <2>2, <1>h DEF DCInv
    <3> QED
      BY <2>2, <3>1 DEF DCInv, CopiesPicture
  <2> QED
    BY <2>1, <2>2 DEF DCInv
<1>s. ASSUME IsSent
      PROVE  /\ sent = Filtered /\ slot = plan.video /\ ~StartRefuses /\ stage # "asked"
             /\ plan.height = Height(ask) /\ plan.audio = ~AudioDirect(ask) /\ plan.burn = Burns(ask)
             /\ plan.video \in BOOLEAN /\ (CopiesPicture <=> ~plan.video)
             /\ sent.picture = IF plan.video THEN "encoded" ELSE "copied"
             /\ sent.height = IF plan.video THEN (IF plan.height > 0 THEN plan.height ELSE ask.height) ELSE ask.height
             /\ plan.video => sent.burned = plan.burn
             /\ sent.sound = IF plan.audio THEN "encoded" ELSE "copied"
  <2>1. /\ sent = Filtered /\ slot = plan.video /\ ~StartRefuses /\ stage # "asked"
        /\ plan.height = Height(ask) /\ plan.audio = ~AudioDirect(ask) /\ plan.burn = Burns(ask)
        /\ plan.video \in BOOLEAN /\ (CopiesPicture <=> ~plan.video)
    BY <1>s, <1>c DEF IsSent, DCInv
  <2>2. CASE plan.video
    <3>1. sent = [picture |-> "encoded", height |-> IF plan.height > 0 THEN plan.height ELSE ask.height,
                  burned |-> plan.burn, sound |-> IF plan.audio THEN "encoded" ELSE "copied"]
      BY <2>1, <2>2 DEF Filtered
    <3> QED
      BY <2>1, <2>2, <3>1
  <2>3. CASE ~plan.video
    <3>1. sent = [picture |-> "copied", height |-> ask.height, burned |-> FALSE,
                  sound |-> IF plan.audio THEN "encoded" ELSE "copied"]
      BY <2>1, <2>3 DEF Filtered
    <3>2. /\ sent.picture = "copied" /\ sent.height = ask.height
          /\ sent.sound = IF plan.audio THEN "encoded" ELSE "copied"
      BY <3>1
    <3> QED
      BY <2>1, <2>3, <3>2
  <2> QED
    BY <2>1, <2>2, <2>3
<1>1. DCTypeOK
  <2>1. plan.height \in Nat
    BY <1>h DEF DCInv, NoPlan
  <2>2. sent.height \in Nat
    BY <1>0, <1>h, <1>s DEF DCInv, Nothing, IsSent
  <2>3. slot => plan.video
    BY DEF DCInv
  <2> QED
    BY <2>1, <2>2, <2>3 DEF DCInv, DCTypeOK, Heights
<1>2. CapHolds
  <2> SUFFICES ASSUME IsSent, ask.share > 0, ask.height > 0 PROVE sent.height <= ask.share
    BY DEF CapHolds
  <2>0. ask.share \in Nat
    BY <1>0 DEF AskType
  <2>1. plan.height <= ask.share /\ plan.height \in Nat
    BY <1>h, <1>s
  <2>2. CASE plan.video
    BY <2>2, <2>1, <1>s, <1>h, <1>0, <2>0, HeightPositive
  <2>3. CASE ~plan.video
    BY <2>3, <2>1, <1>s, <1>h, <1>0, <2>0, HeightPositive DEF DCInv
  <2> QED
    BY <2>2, <2>3, <1>s
<1>3. SlotIsForEncode
  BY <1>s DEF SlotIsForEncode
<1>4. PlayerCan
  <2> SUFFICES ASSUME IsSent
               PROVE  /\ sent.picture = "copied" =>
                           /\ ask.video # "other"
                           /\ ask.video = "hevc" =>
                                IF ask.depth = 10 THEN ~Denied(ask.client.deep, ask.client.probeDeep)
                                ELSE ~Denied(ask.client.hevc, ask.client.probe)
                      /\ sent.sound = "copied" =>
                           /\ ask.audio # "dts"
                           /\ ask.audio = "ac3" => ~Denied(ask.client.ac3, ask.client.probeAc3)
                      /\ Burns(ask) => sent.burned
    BY DEF PlayerCan
  <2>1. sent.picture = "copied" => VideoDirect(ask)
    BY <1>s DEF DCInv
  <2>2. VideoDirect(ask) =>
          /\ ask.video # "other"
          /\ ask.video = "hevc" =>
               IF ask.depth = 10 THEN ~Denied(ask.client.deep, ask.client.probeDeep)
               ELSE ~Denied(ask.client.hevc, ask.client.probe)
    BY DEF VideoDirect, HevcOK, HevcGeneric, Told, Denied
  <2>3. AudioDirect(ask) => ask.audio # "dts" /\ (ask.audio = "ac3" => ~Denied(ask.client.ac3, ask.client.probeAc3))
    BY DEF AudioDirect, Ac3OK, Told, Denied
  <2>4. sent.sound = "copied" => AudioDirect(ask)
    BY <1>s
  <2>5. Burns(ask) => sent.burned
    BY <1>s DEF DCInv
  <2> QED
    BY <2>1, <2>2, <2>3, <2>4, <2>5
<1>5. SoundEncode
  <2> SUFFICES ASSUME IsSent, sent.picture = "encoded"
               PROVE  (ask.hdr /\ Is4K(ask) => ask.zscale) /\ (ask.height > 0 => sent.height <= ask.height)
    BY DEF SoundEncode
  <2>1. plan.video /\ plan.mode \notin {"direct", "remux"}
    BY <1>s DEF DCInv
  <2>2. ask.hdr /\ Is4K(ask) => ask.zscale
    BY <2>1, <1>s DEF StartRefuses
  <2>3. ask.height > 0 => sent.height <= ask.height
    BY <2>1, <1>s, <1>h, <1>0
  <2> QED
    BY <2>2, <2>3
<1> QED
  BY <1>1, <1>2, <1>3, <1>4, <1>5 DEF DecisionSafe

\* Whatever the browser, the file and the limits are: a guest's limit holds, a
\* slot is taken exactly for an encode, what is copied is nothing the player
\* said no to, and no 4K HDR picture is encoded without zscale.
THEOREM DecisionIsSafe == DCSpec => []DecisionSafe
BY DCInitInv, DCNextInv, DCInvSafe, PTL DEF DCSpec

-----------------------------------------------------------------------------
(* The restore of a backup.                                                *)

\* What a command has made sure of before it goes on.
RSInv ==
    /\ RSTypeOK /\ BeforeIsKept
    /\ cmd.pc = "place" => data = Missing
    /\ cmd.pc \in {"fetch", "aside"} /\ cmd.rows => data = Fresh \/ (cmd.force /\ data \in own)
    /\ cmd.pc = "aside" /\ ~cmd.rows => data \in {Fresh, Missing} \/ cmd.force
    /\ cmd.pc \in {"check", "copy"} => cmd.rows
    /\ cmd.pc = "copy" => cmd.force

\* Only the steps of one command change the command.
LEMMA RSCommand ==
    ASSUME RSTypeOK
    PROVE  /\ cmd \in [pc: RestorePcs, what: Contents, rows: BOOLEAN, force: BOOLEAN]
           /\ Stop \in [pc: RestorePcs, what: Contents, rows: BOOLEAN, force: BOOLEAN] /\ Stop.pc = "idle"
           /\ \A pc \in RestorePcs : RestoreAt(pc) =>
                 /\ cmd' \in [pc: RestorePcs, what: Contents, rows: BOOLEAN, force: BOOLEAN]
                 /\ cmd'.pc = pc /\ cmd'.rows = cmd.rows /\ cmd'.force = cmd.force /\ cmd'.what = cmd.what
           /\ {"idle", "check", "copy", "fetch", "aside", "place"} \subseteq RestorePcs
           /\ {Fresh, Missing, Before} \subseteq Contents /\ Missing # Before /\ Fresh # Before /\ Fresh # Missing
           /\ data \in Contents /\ own \subseteq Contents /\ second \in 0 .. MaxSecond
           /\ safety \in [0 .. MaxSecond -> Contents]
BY RestoreAssumption DEF RSTypeOK, RestorePcs, Contents, Stop, RestoreAt

LEMMA RSInitInv == RSInit => RSInv
<1> SUFFICES ASSUME RSInit PROVE RSInv
  OBVIOUS
<1>1. /\ Stop \in [pc: RestorePcs, what: Contents, rows: BOOLEAN, force: BOOLEAN]
      /\ Stop.pc = "idle"
  BY DEF Stop, RestorePcs, Contents
<1>2. safety \in [0 .. MaxSecond -> Contents] /\ data \in Contents /\ own \subseteq Contents
  BY DEF RSInit, Contents
<1>3. second = 0 /\ runs = 0 /\ 0 \in 0 .. MaxSecond /\ 0 \in 0 .. MaxRuns
  BY RestoreAssumption DEF RSInit
<1>6. clash \in BOOLEAN
  BY DEF RSInit
<1>7. cmd = Stop
  BY DEF RSInit
<1>4. RSTypeOK /\ cmd.pc = "idle"
  BY <1>1, <1>2, <1>3, <1>6, <1>7 DEF RSTypeOK
<1>5. BeforeIsKept
  BY DEF RSInit, BeforeIsKept
<1> QED
  BY <1>4, <1>5 DEF RSInv

LEMMA CommandInv == ASSUME RSInv, NEW b \in Contents, NEW force \in BOOLEAN, Command(b, force) PROVE RSInv'
<1>0. RSTypeOK
  BY DEF RSInv
<1>1. PICK rows \in BOOLEAN :
        cmd' = [pc |-> IF rows THEN "check" ELSE "fetch", what |-> b, rows |-> rows, force |-> force]
  BY DEF Command
<1>2. UNCHANGED <<data, safety, own, second, clash>> /\ runs' \in 0 .. MaxRuns
  BY <1>0, RestoreAssumption DEF Command, RSTypeOK
<1>3. RSTypeOK'
  BY <1>0, <1>1, <1>2 DEF RSTypeOK, RestorePcs
<1>4. cmd'.pc \in {"check", "fetch"} /\ (cmd'.pc = "check" <=> cmd'.rows)
  BY <1>1
<1> QED
  BY <1>2, <1>3, <1>4 DEF RSInv, BeforeIsKept

LEMMA CheckInv == ASSUME RSInv, Check PROVE RSInv'
<1>0. RSTypeOK
  BY DEF RSInv
<1>1. /\ cmd.pc = "check" /\ data' = (IF data = Missing THEN Fresh ELSE data)
      /\ UNCHANGED <<safety, own, second, runs, clash>>
      /\ \/ data' = Fresh /\ RestoreAt("fetch")
         \/ data' # Fresh /\ cmd.force /\ RestoreAt("copy")
         \/ data' # Fresh /\ ~cmd.force /\ cmd' = Stop
  BY DEF Check, Ended
<1>2. RSTypeOK'
  BY <1>0, <1>1, RSCommand DEF RSTypeOK
<1>3. BeforeIsKept'
  BY <1>0, <1>1, RSCommand DEF RSInv, BeforeIsKept
<1>4. CASE data' = Fresh /\ RestoreAt("fetch")
  <2>1. cmd'.pc = "fetch" /\ cmd'.rows = cmd.rows
    BY <1>0, <1>4, RSCommand
  <2> QED
    BY <1>2, <1>3, <1>4, <2>1 DEF RSInv
<1>5. CASE cmd.force /\ RestoreAt("copy")
  <2>1. cmd'.pc = "copy" /\ cmd'.rows = cmd.rows /\ cmd'.force = cmd.force
    BY <1>0, <1>5, RSCommand
  <2> QED
    BY <1>1, <1>2, <1>3, <1>5, <2>1 DEF RSInv
<1>6. CASE cmd' = Stop
  BY <1>0, <1>2, <1>3, <1>6, RSCommand DEF RSInv
<1> QED
  BY <1>1, <1>4, <1>5, <1>6

LEMMA CopyInv == ASSUME RSInv, Copy PROVE RSInv'
<1>0. RSTypeOK
  BY DEF RSInv
<1>1. /\ cmd.pc = "copy" /\ own' = own \cup {data} /\ UNCHANGED <<data, safety, second, runs, clash>>
      /\ cmd'.pc = "fetch" /\ cmd'.rows = cmd.rows /\ cmd'.force = cmd.force
      /\ cmd' \in [pc: RestorePcs, what: Contents, rows: BOOLEAN, force: BOOLEAN]
  BY <1>0, RSCommand DEF Copy
<1>2. RSTypeOK'
  BY <1>0, <1>1, RSCommand DEF RSTypeOK
<1> QED
  BY <1>1, <1>2 DEF RSInv, BeforeIsKept

LEMMA FetchInv == ASSUME RSInv, Fetch PROVE RSInv'
<1>0. RSTypeOK
  BY DEF RSInv
<1>1. /\ cmd.pc = "fetch" /\ UNCHANGED <<data, safety, own, second, runs, clash>>
      /\ \/ (cmd.rows \/ data \in {Fresh, Missing} \/ cmd.force) /\ RestoreAt("aside")
         \/ cmd' = Stop
  BY DEF Fetch, Ended
<1>2. RSTypeOK'
  BY <1>0, <1>1, RSCommand DEF RSTypeOK
<1>3. CASE (cmd.rows \/ data \in {Fresh, Missing} \/ cmd.force) /\ RestoreAt("aside")
  <2>1. cmd'.pc = "aside" /\ cmd'.rows = cmd.rows /\ cmd'.force = cmd.force
    BY <1>0, <1>3, RSCommand
  <2> QED
    BY <1>1, <1>2, <1>3, <2>1 DEF RSInv, BeforeIsKept
<1>4. CASE cmd' = Stop
  BY <1>0, <1>1, <1>2, <1>4, RSCommand DEF RSInv, BeforeIsKept
<1> QED
  BY <1>1, <1>3, <1>4

LEMMA SetAsideInv == ASSUME RSInv, SetAside PROVE RSInv'
<1>0. RSTypeOK
  BY DEF RSInv
<1>1. /\ cmd.pc = "aside" /\ ~cmd.rows /\ data' = Missing /\ UNCHANGED <<own, second, runs>>
      /\ safety' = (IF data = Missing THEN safety ELSE [safety EXCEPT ![second] = data])
      /\ clash' = (clash \/ (data # Missing /\ safety[second] # Missing))
      /\ cmd'.pc = "place"
      /\ cmd' \in [pc: RestorePcs, what: Contents, rows: BOOLEAN, force: BOOLEAN]
  BY <1>0, RSCommand DEF SetAside
<1>2. safety' \in [0 .. MaxSecond -> Contents] /\ clash' \in BOOLEAN
  BY <1>0, <1>1, RSCommand DEF RSTypeOK
<1>3. RSTypeOK'
  BY <1>0, <1>1, <1>2, RSCommand DEF RSTypeOK
<1>4. BeforeIsKept'
  <2>1. CASE data = Missing
    BY <1>0, <1>1, <2>1, RSCommand DEF RSInv, BeforeIsKept
  <2>2. CASE data # Missing
    <3>1. /\ safety'[second] = data /\ \A n \in 0 .. MaxSecond : n # second => safety'[n] = safety[n]
          /\ safety[second] = Before => clash'
      BY <1>0, <1>1, <2>2, RSCommand
    <3> QED
      BY <1>0, <1>1, <3>1, RSCommand DEF RSInv, BeforeIsKept
  <2> QED
    BY <2>1, <2>2
<1> QED
  BY <1>1, <1>3, <1>4 DEF RSInv

LEMMA ReplaceInv == ASSUME RSInv, Place \/ Commit PROVE RSInv'
<1>0. RSTypeOK
  BY DEF RSInv
<1>1. /\ data' = cmd.what /\ cmd' = Stop /\ UNCHANGED <<safety, own, second, runs, clash>>
      /\ data = Missing \/ data = Fresh \/ data \in own
  BY DEF RSInv, Place, Commit, Ended
<1>2. RSTypeOK'
  BY <1>0, <1>1, RSCommand DEF RSTypeOK
<1>3. BeforeIsKept'
  BY <1>0, <1>1, RSCommand DEF RSInv, BeforeIsKept
<1> QED
  BY <1>0, <1>1, <1>2, <1>3, RSCommand DEF RSInv

LEMMA RSNextInv == RSInv /\ [RSNext]_rsVars => RSInv'
<1> SUFFICES ASSUME RSInv, [RSNext]_rsVars PROVE RSInv'
  OBVIOUS
<1>0. RSTypeOK
  BY DEF RSInv
<1>1. CASE \E b \in Contents, force \in BOOLEAN : Command(b, force)
  BY <1>1, CommandInv
<1>2. CASE Check \/ Copy \/ Fetch \/ SetAside \/ Place \/ Commit
  BY <1>2, CheckInv, CopyInv, FetchInv, SetAsideInv, ReplaceInv
<1>3. CASE Break
  <2>1. cmd' = Stop /\ UNCHANGED <<data, safety, own, second, runs, clash>>
    BY <1>3 DEF Break, Ended
  <2> QED
    BY <1>0, <2>1, RSCommand DEF RSInv, RSTypeOK, BeforeIsKept
<1>4. CASE StartServer
  <2>1. cmd.pc = "idle" /\ data = Missing /\ data' = Fresh /\ UNCHANGED <<safety, own, cmd, second, runs, clash>>
    BY <1>4 DEF StartServer
  <2> QED
    BY <1>0, <2>1, RSCommand DEF RSInv, RSTypeOK, BeforeIsKept
<1>5. CASE Tick
  <2>1. second' \in 0 .. MaxSecond /\ UNCHANGED <<data, safety, own, cmd, runs, clash>>
    BY <1>0, <1>5, RestoreAssumption DEF Tick, RSTypeOK
  <2> QED
    BY <2>1 DEF RSInv, RSTypeOK, BeforeIsKept
<1>6. CASE UNCHANGED rsVars
  BY <1>6 DEF rsVars, RSInv, RSTypeOK, BeforeIsKept
<1> QED
  BY <1>1, <1>2, <1>3, <1>4, <1>5, <1>6 DEF RSNext

\* A step that takes the place of a database with users is one of a command with --force.
LEMMA ForceReplaces ==
    RSInv /\ [RSNext]_rsVars => [data \notin {Fresh, Missing} /\ data' # data => cmd.force]_rsVars
<1> SUFFICES ASSUME RSInv, RSNext, data \notin {Fresh, Missing}, data' # data PROVE cmd.force
  BY DEF rsVars
<1>1. Check \/ SetAside \/ Place \/ Commit \/ StartServer
  BY DEF RSNext, Command, Copy, Fetch, Break, Tick
<1> QED
  BY <1>1 DEF RSInv, Check, SetAside, Place, Commit, StartServer

\* The database before the first restore is in place, in a safety copy or in a
\* safety backup after any number of restores that fail or stop anywhere, and
\* a database with users is replaced only with --force.
THEOREM RestoreKeepsContract == RSSpec => RestoreContract
<1>1. RSInv /\ [RSNext]_rsVars => [UNCHANGED rsVars \/ BeforeIsKept']_rsVars
  BY RSNextInv DEF RSInv
<1>2. RSInv => RSTypeOK
  BY DEF RSInv
<1> QED
  BY <1>1, <1>2, RSInitInv, RSNextInv, ForceReplaces, PTL DEF RSSpec, RestoreContract, OnlyForceReplaces

-----------------------------------------------------------------------------
(* The copies of Jellyfin titles.                                          *)

CopyRecord == [there: BOOLEAN, done: BOOLEAN, err: BOOLEAN, age: 0 .. 2]
CopyPart == [n: 0 .. Size, clean: BOOLEAN]

\* A finished copy or a running one has a record, ...
HasRecord == \A t \in Titles : meta[t].done \/ run[t] # "idle" => meta[t].there
\* ... pieces of two files only meet in a title that was replaced, ...
OneFile == \A t \in Titles : ~part[t].clean \/ media[t] = "mixed" => t \in spoiled
\* ... a record is about to say done when the file is there, ...
FileFirst ==
    \A t \in Titles : meta[t].done \/ run[t] = "mark"
                         => media[t] = "whole" \/ t \in spoiled \/ t \in torn
\* ... and only expired or idle copies are listed for removal.
ListedIdle == \A t \in Titles : t \in Listed /\ meta[t].there /\ meta[t].age = 0 => t \in late

MDInv == MDTypeOK /\ HasRecord /\ OneFile /\ FileFirst /\ ListedIdle

\* The types of what belongs to one title.
LEMMA MDTypes ==
    MDTypeOK =>
      /\ meta \in [Titles -> CopyRecord] /\ part \in [Titles -> CopyPart]
      /\ media \in [Titles -> {"none", "whole", "mixed"}] /\ run \in [Titles -> RunPcs]
      /\ line \in Seq(Titles) /\ faults \in 0 .. MaxFaults
      /\ sweep \subseteq Titles /\ room \subseteq Titles
      /\ spoiled \subseteq Titles /\ torn \subseteq Titles /\ late \subseteq Titles
      /\ NoMeta \in CopyRecord /\ NoMeta.there = FALSE /\ NoMeta.done = FALSE
      /\ NoPart \in CopyPart /\ NoPart.clean = TRUE
<1>1. NoMeta \in CopyRecord /\ NoMeta.there = FALSE /\ NoMeta.done = FALSE
  BY DEF NoMeta, CopyRecord
<1>2. NoPart \in CopyPart /\ NoPart.clean = TRUE
  BY MediaCopyAssumption DEF NoPart, CopyPart
<1> QED
  BY <1>1, <1>2 DEF MDTypeOK, CopyRecord, CopyPart

\* The record of a copy that starts.
LEMMA SetRecord ==
    ASSUME NEW a \in 0 .. 2
    PROVE  /\ [NoMeta EXCEPT !.there = TRUE, !.age = a] \in CopyRecord
           /\ [NoMeta EXCEPT !.there = TRUE, !.age = a].age = a
           /\ [NoMeta EXCEPT !.there = TRUE, !.age = a].there = TRUE
           /\ [NoMeta EXCEPT !.there = TRUE, !.age = a].done = FALSE
BY DEF CopyRecord, NoMeta

LEMMA MDInitInv == MDInit => MDInv
<1> SUFFICES ASSUME MDInit PROVE MDInv
  OBVIOUS
<1>1. meta \in [Titles -> CopyRecord] /\ \A t \in Titles : meta[t] = NoMeta
  BY DEF MDInit, NoMeta, CopyRecord
<1>2. part \in [Titles -> CopyPart] /\ \A t \in Titles : part[t] = NoPart
  BY MediaCopyAssumption DEF MDInit, NoPart, CopyPart
<1>3. /\ media \in [Titles -> {"none", "whole", "mixed"}] /\ run \in [Titles -> RunPcs]
      /\ \A t \in Titles : media[t] = "none" /\ run[t] = "idle"
  BY DEF MDInit, RunPcs
<1>4. faults \in 0 .. MaxFaults /\ line \in Seq(Titles)
  BY MediaCopyAssumption DEF MDInit
<1>5. sweep = {} /\ room = {} /\ spoiled = {} /\ torn = {} /\ late = {}
  BY DEF MDInit
<1>6. MDTypeOK
  BY <1>1, <1>2, <1>3, <1>4, <1>5 DEF MDTypeOK, CopyRecord, CopyPart
<1> QED
  BY <1>1, <1>2, <1>3, <1>5, <1>6 DEF MDInv, HasRecord, OneFile, FileFirst, ListedIdle, Listed, NoMeta, NoPart

\* The queue of the slot holds titles whatever is done to it.
LEMMA Queue ==
    ASSUME MDTypeOK, NEW t \in Titles
    PROVE  Append(line, t) \in Seq(Titles) /\ (line # <<>> => Tail(line) \in Seq(Titles))
BY MDTypes

\* Steps that leave the records, the files and the lists: only runs move on.
LEMMA RunMoves ==
    ASSUME MDInv, NEW t \in Titles, NEW pc \in RunPcs,
           UNCHANGED <<meta, part, media, spoiled, torn, late>>,
           run' = [run EXCEPT ![t] = pc], pc # "idle" => meta[t].there,
           pc # "mark", line' \in Seq(Titles), sweep' = sweep,
           room' = room \/ room' = {} \/ (\A c \in room' : c \in Titles /\ meta[c].age > 0),
           faults' = faults
    PROVE  MDInv'
<1>0. MDTypeOK
  BY DEF MDInv
<1>1. MDTypeOK'
  BY <1>0 DEF MDTypeOK
<1>2. \A u \in Titles : run'[u] = IF u = t THEN pc ELSE run[u]
  BY <1>0, MDTypes
<1>3. HasRecord' /\ OneFile' /\ FileFirst'
  BY <1>2 DEF MDInv, HasRecord, OneFile, FileFirst
<1>4. \A u \in Titles : u \in Listed' /\ meta[u].age = 0 => u \in Listed
  BY <1>0, MDTypes DEF Listed, CopyRecord
<1>5. ListedIdle'
  BY <1>4 DEF MDInv, ListedIdle
<1> QED
  BY <1>1, <1>3, <1>5 DEF MDInv

\* Steps that change the record of one title, which stays there and keeps its mark.
LEMMA RecordStep ==
    ASSUME MDInv, NEW t \in Titles, NEW m \in CopyRecord,
           meta' = [meta EXCEPT ![t] = m], meta[t].there, m.there,
           m.done => meta[t].done \/ run[t] = "mark",
           m.age = 0 /\ t \in Listed => meta[t].age = 0 \/ t \in late',
           late \subseteq late', late' \subseteq Titles,
           run' \in [Titles -> RunPcs],
           \A u \in Titles : run'[u] = run[u] \/ (u = t /\ run'[u] \in {"check", "idle"}),
           line' \in Seq(Titles), UNCHANGED <<part, media, sweep, room, faults, spoiled, torn>>
    PROVE  MDInv'
<1>0. MDTypeOK
  BY DEF MDInv
<1>1. \A u \in Titles : meta'[u] = IF u = t THEN m ELSE meta[u]
  BY <1>0, MDTypes
<1>2. meta' \in [Titles -> CopyRecord]
  BY <1>0, MDTypes
<1>3. MDTypeOK'
  BY <1>0, <1>2 DEF MDTypeOK, CopyRecord
<1>4. HasRecord'
  BY <1>1 DEF MDInv, HasRecord
<1>5. OneFile'
  BY DEF MDInv, OneFile
<1>6. FileFirst'
  BY <1>1 DEF MDInv, FileFirst
<1>7. ListedIdle'
  BY <1>1 DEF MDInv, ListedIdle, Listed
<1> QED
  BY <1>3, <1>4, <1>5, <1>6, <1>7 DEF MDInv

LEMMA StartRunInv ==
    ASSUME MDInv, NEW t \in Titles, NEW age \in 0 .. 2, StartRun(t, age), run[t] = "idle",
           age = 0 /\ t \in Listed => (meta[t].there /\ meta[t].age = 0) \/ t \in late',
           late \subseteq late', late' \subseteq Titles,
           UNCHANGED <<part, media, sweep, room, faults, spoiled, torn>>
    PROVE  MDInv'
<1>0. MDTypeOK
  BY DEF MDInv
<1>b. /\ [NoMeta EXCEPT !.there = TRUE, !.age = age] \in CopyRecord
      /\ [NoMeta EXCEPT !.there = TRUE, !.age = age].age = age
      /\ [NoMeta EXCEPT !.there = TRUE, !.age = age].there = TRUE
      /\ [NoMeta EXCEPT !.there = TRUE, !.age = age].done = FALSE
  BY SetRecord
<1>1. PICK m \in CopyRecord : /\ m = [NoMeta EXCEPT !.there = TRUE, !.age = age]
                              /\ m.there = TRUE /\ m.done = FALSE /\ m.age = age
  BY <1>b
<1>2. meta' = [meta EXCEPT ![t] = m] /\ run' = [run EXCEPT ![t] = "check"] /\ line' \in Seq(Titles)
  BY <1>0, <1>1, Queue DEF StartRun
<1>3. meta' \in [Titles -> CopyRecord] /\ run' \in [Titles -> RunPcs]
  BY <1>0, <1>2, MDTypes DEF RunPcs
<1>4. \A u \in Titles : /\ meta'[u] = IF u = t THEN m ELSE meta[u]
                        /\ run'[u] = IF u = t THEN "check" ELSE run[u]
  BY <1>0, <1>2, MDTypes
<1>5. MDTypeOK'
  BY <1>0, <1>2, <1>3 DEF MDTypeOK, CopyRecord
<1>6. HasRecord' /\ OneFile' /\ FileFirst'
  BY <1>1, <1>4 DEF MDInv, HasRecord, OneFile, FileFirst
<1>7. ListedIdle'
  BY <1>1, <1>4 DEF MDInv, ListedIdle, Listed
<1> QED
  BY <1>5, <1>6, <1>7 DEF MDInv

LEMMA PlayInv == ASSUME MDInv, NEW t \in Titles, Play(t) PROVE MDInv'
<1>0. MDTypeOK
  BY DEF MDInv
<1>1. /\ late' = late \cup ({t} \cap Listed)
      /\ UNCHANGED <<part, media, sweep, room, faults, spoiled, torn>>
  BY DEF Play
<1>2. late \subseteq late' /\ late' \subseteq Titles /\ (t \in Listed => t \in late')
  BY <1>0, <1>1, MDTypes
<1>3. CASE meta[t].done \/ run[t] # "idle"
  <2>1. meta[t].there /\ meta[t] \in CopyRecord
    BY <1>0, <1>3, MDTypes DEF MDInv, HasRecord
  <2>2. UNCHANGED <<run, line>>
    BY <1>3 DEF Play
  <2>3. CASE meta[t].done \/ media[t] # "none"
    <3>5. PICK old \in CopyRecord : old = meta[t]
      BY <2>1
    <3>0. /\ [old EXCEPT !.age = 0] \in CopyRecord
          /\ [old EXCEPT !.age = 0].there = old.there
          /\ [old EXCEPT !.age = 0].done = old.done
      BY 0 \in 0 .. 2 DEF CopyRecord
    <3>1. PICK m \in CopyRecord : /\ m = [old EXCEPT !.age = 0]
                                  /\ m.there = old.there /\ m.done = old.done
      BY <3>0
    <3>2. meta' = [meta EXCEPT ![t] = [meta[t] EXCEPT !.age = 0]]
      BY <1>3, <2>3 DEF Play
    <3>3. meta' = [meta EXCEPT ![t] = m]
      BY <3>1, <3>2, <3>5
    <3>4. run' \in [Titles -> RunPcs] /\ line' \in Seq(Titles)
      BY <1>0, <2>2, MDTypes
    <3>6. m.there /\ (m.done => meta[t].done)
      BY <2>1, <3>1, <3>5
    <3> QED
      BY <1>1, <1>2, <2>1, <2>2, <3>3, <3>4, <3>6, RecordStep
  <2>4. CASE ~(meta[t].done \/ media[t] # "none")
    <3>1. meta' = meta
      BY <1>3, <2>4 DEF Play
    <3>2. MDTypeOK'
      BY <1>0, <1>1, <1>2, <2>2, <3>1 DEF MDTypeOK
    <3> QED
      BY <1>1, <1>2, <2>2, <3>1, <3>2 DEF MDInv, HasRecord, OneFile, FileFirst, ListedIdle, Listed
  <2> QED
    BY <2>3, <2>4
<1>4. CASE ~(meta[t].done \/ run[t] # "idle")
  <2>1. StartRun(t, 0)
    BY <1>4 DEF Play
  <2> QED
    BY <1>1, <1>2, <1>4, <2>1, StartRunInv
<1> QED
  BY <1>3, <1>4

LEMMA ResumeInv == ASSUME MDInv, NEW t \in Titles, Resume(t) PROVE MDInv'
<1>0. MDTypeOK
  BY DEF MDInv
<1>1. /\ StartRun(t, meta[t].age) /\ run[t] = "idle" /\ meta[t].there
      /\ UNCHANGED <<part, media, sweep, room, faults, spoiled, torn, late>>
  BY DEF Resume, History
<1>2. meta[t].age \in 0 .. 2 /\ late \subseteq Titles
  BY <1>0, MDTypes DEF CopyRecord
<1>3. PICK age \in 0 .. 2 : age = meta[t].age
  BY <1>2
<1>4. StartRun(t, age)
  BY <1>1, <1>3
<1> QED
  BY <1>1, <1>2, <1>3, <1>4, StartRunInv

\* The steps of a run that change neither files nor records.
LEMMA QuietRunInv ==
    ASSUME MDInv, NEW t \in Titles, CheckRun(t) \/ ListRoom(t) \/ Refused(t) \/ NoSpace(t) \/ Stopped(t)
    PROVE  MDInv'
<1>0. MDTypeOK /\ run[t] # "idle" /\ meta[t].there /\ line # <<>>
  BY DEF MDInv, HasRecord, CheckRun, ListRoom, Refused, NoSpace, Stopped, At, HasSlot
<1>1. Tail(line) \in Seq(Titles) /\ line \in Seq(Titles) /\ room \subseteq Titles
  BY <1>0, Queue, MDTypes
<1>2. /\ UNCHANGED <<meta, part, media, spoiled, torn, late>> /\ sweep' = sweep /\ faults' = faults
      /\ line' \in {line, Tail(line)}
  BY DEF CheckRun, ListRoom, Refused, NoSpace, Stopped, History, End
<1>3. PICK pc \in {"get", "idle", "room", "check", "failed"} : run' = [run EXCEPT ![t] = pc]
  BY DEF CheckRun, ListRoom, Refused, NoSpace, Stopped, Goto, End, Retried
<1>4. room' = room \/ room' = {} \/ (\A c \in room' : c \in Titles /\ meta[c].age > 0)
  BY DEF CheckRun, ListRoom, Refused, NoSpace, Stopped
<1>5. pc \in RunPcs /\ pc # "mark"
  BY DEF RunPcs
<1>6. line' \in Seq(Titles)
  BY <1>1, <1>2
<1> QED
  BY <1>0, <1>2, <1>3, <1>4, <1>5, <1>6, RunMoves

\* The partial file of one title changes; a piece of another file only after it was replaced.
LEMMA PartStep ==
    ASSUME MDInv, NEW t \in Titles, NEW p \in CopyPart, part' = [part EXCEPT ![t] = p],
           ~p.clean => t \in spoiled', spoiled \subseteq spoiled', spoiled' \subseteq Titles,
           UNCHANGED <<meta, media, run, line, sweep, room, torn, late>>, faults' \in 0 .. MaxFaults
    PROVE  MDInv'
<1>0. MDTypeOK
  BY DEF MDInv
<1>1. part' \in [Titles -> CopyPart] /\ \A u \in Titles : part'[u] = IF u = t THEN p ELSE part[u]
  BY <1>0, MDTypes
<1>2. MDTypeOK'
  BY <1>0, <1>1 DEF MDTypeOK, CopyPart
<1>3. HasRecord' /\ FileFirst'
  BY DEF MDInv, HasRecord, FileFirst
<1>4. OneFile'
  BY <1>1 DEF MDInv, OneFile
<1>5. ListedIdle'
  BY DEF MDInv, ListedIdle, Listed
<1> QED
  BY <1>2, <1>3, <1>4, <1>5 DEF MDInv

LEMMA RequestInv == ASSUME MDInv, NEW t \in Titles, Request(t) PROVE MDInv'
<1>0. MDTypeOK /\ run[t] # "idle" /\ meta[t].there
  BY DEF MDInv, HasRecord, Request, At
<1>1. /\ UNCHANGED <<meta, media, line, sweep, faults, spoiled, torn, late>> /\ room' = {}
      /\ run' = [run EXCEPT ![t] = "body"]
      /\ part' = [part EXCEPT ![t] = NoPart] \/ part' = part
  BY DEF Request, Goto, History
<1>2. part' \in [Titles -> CopyPart] /\ \A u \in Titles : part'[u] = NoPart \/ part'[u] = part[u]
  BY <1>0, <1>1, MDTypes
<1>3. run' \in [Titles -> RunPcs] /\ \A u \in Titles : run'[u] = IF u = t THEN "body" ELSE run[u]
  BY <1>0, <1>1, MDTypes DEF RunPcs
<1>4. MDTypeOK'
  BY <1>0, <1>1, <1>2, <1>3 DEF MDTypeOK, CopyPart
<1>5. HasRecord' /\ FileFirst'
  BY <1>0, <1>1, <1>3 DEF MDInv, HasRecord, FileFirst
<1>6. OneFile'
  BY <1>0, <1>1, <1>2, MDTypes DEF MDInv, OneFile
<1>7. ListedIdle'
  BY <1>1 DEF MDInv, ListedIdle, Listed
<1> QED
  BY <1>4, <1>5, <1>6, <1>7 DEF MDInv

LEMMA ReceiveInv == ASSUME MDInv, NEW t \in Titles, Receive(t) PROVE MDInv'
<1>0. MDTypeOK
  BY DEF MDInv
<1>1. part[t].n < Size /\ UNCHANGED <<meta, media, run, line, sweep, room, faults, spoiled, torn, late>>
  BY DEF Receive, History
<1>7. part' = [part EXCEPT ![t] = [part[t] EXCEPT !.n = part[t].n + 1]]
  BY DEF Receive
<1>2. part[t] \in CopyPart /\ part[t].n + 1 \in 0 .. Size
  <2>1. part[t] \in CopyPart
    BY <1>0, MDTypes
  <2>2. part[t].n \in 0 .. Size
    BY <2>1 DEF CopyPart
  <2> QED
    BY <1>1, <2>1, <2>2, MediaCopyAssumption
<1>6. /\ [part[t] EXCEPT !.n = part[t].n + 1] \in CopyPart
      /\ [part[t] EXCEPT !.n = part[t].n + 1].clean = part[t].clean
  BY <1>2 DEF CopyPart
<1>3. PICK p \in CopyPart : p = [part[t] EXCEPT !.n = part[t].n + 1] /\ p.clean = part[t].clean
  BY <1>6
<1>8. part' = [part EXCEPT ![t] = p]
  BY <1>7, <1>3
<1>4. faults' \in 0 .. MaxFaults /\ spoiled' \subseteq Titles
  BY <1>0, <1>1, MDTypes
<1>5. ~p.clean => t \in spoiled'
  BY <1>1, <1>3 DEF MDInv, OneFile
<1> QED
  BY <1>1, <1>4, <1>5, <1>8, PartStep

LEMMA ReplacedInv == ASSUME MDInv, NEW t \in Titles, Replace(t) PROVE MDInv'
<1>0. MDTypeOK
  BY DEF MDInv
<1>1. spoiled' = spoiled \cup {t} /\ UNCHANGED <<meta, media, run, line, sweep, room, torn, late>>
  BY DEF Replace
<1>8. part' = [part EXCEPT ![t] = [part[t] EXCEPT !.clean = FALSE]]
  BY DEF Replace
<1>2. faults' \in 0 .. MaxFaults
  BY <1>0, MediaCopyAssumption, MDTypes DEF Replace, Fault
<1>3. part[t] \in CopyPart /\ spoiled \subseteq Titles
  BY <1>0, MDTypes
<1>4. [part[t] EXCEPT !.clean = FALSE] \in CopyPart
  BY <1>3 DEF CopyPart
<1>5. PICK p \in CopyPart : p = [part[t] EXCEPT !.clean = FALSE]
  BY <1>4
<1>6. part' = [part EXCEPT ![t] = p]
  BY <1>8, <1>5
<1>7. t \in spoiled' /\ spoiled \subseteq spoiled' /\ spoiled' \subseteq Titles
  BY <1>1, <1>3
<1> QED
  BY <1>1, <1>2, <1>6, <1>7, PartStep

LEMMA RenameInv == ASSUME MDInv, NEW t \in Titles, Rename(t) PROVE MDInv'
<1>0. MDTypeOK /\ run[t] # "idle" /\ meta[t].there
  BY DEF MDInv, HasRecord, Rename, At
<1>1. /\ UNCHANGED <<meta, line, sweep, room, faults, spoiled, torn, late>>
      /\ run' = [run EXCEPT ![t] = "mark"] /\ part' = [part EXCEPT ![t] = NoPart]
  BY DEF Rename, Goto, History
<1>2. PICK m \in {"whole", "mixed"} : /\ media' = [media EXCEPT ![t] = m]
                                      /\ m = "mixed" => ~part[t].clean
  BY DEF Rename
<1>3. m = "mixed" => t \in spoiled
  BY <1>2 DEF MDInv, OneFile
<1>4. \A u \in Titles : /\ run'[u] = IF u = t THEN "mark" ELSE run[u]
                        /\ part'[u] = IF u = t THEN NoPart ELSE part[u]
                        /\ media'[u] = IF u = t THEN m ELSE media[u]
  BY <1>0, <1>1, <1>2, MDTypes
<1>5. /\ run' \in [Titles -> RunPcs] /\ part' \in [Titles -> CopyPart]
      /\ media' \in [Titles -> {"none", "whole", "mixed"}]
  BY <1>0, <1>1, <1>2, MDTypes DEF RunPcs
<1>6. MDTypeOK'
  BY <1>0, <1>1, <1>5 DEF MDTypeOK, CopyPart
<1>7. HasRecord'
  BY <1>0, <1>1, <1>4 DEF MDInv, HasRecord
<1>8. OneFile'
  BY <1>0, <1>1, <1>3, <1>4, MDTypes DEF MDInv, OneFile
<1>9. FileFirst'
  BY <1>1, <1>3, <1>4 DEF MDInv, FileFirst
<1>10. ListedIdle'
  BY <1>1 DEF MDInv, ListedIdle, Listed
<1> QED
  BY <1>6, <1>7, <1>8, <1>9, <1>10 DEF MDInv

\* The run of t is over: the slot is for the next.
LEMMA EndOfRun ==
    ASSUME MDTypeOK, NEW t \in Titles, HasSlot(t), End(t)
    PROVE  /\ line' \in Seq(Titles) /\ run' \in [Titles -> RunPcs]
           /\ \A u \in Titles : run'[u] = IF u = t THEN "idle" ELSE run[u]
BY MDTypes, Queue DEF HasSlot, End, RunPcs

LEMMA MarkInv == ASSUME MDInv, NEW t \in Titles, Mark(t) PROVE MDInv'
<1>0. MDTypeOK
  BY DEF MDInv
<1>1. /\ UNCHANGED <<part, media, sweep, room, faults, spoiled, torn, late>>
      /\ HasSlot(t) /\ End(t) /\ run[t] = "mark" /\ meta[t].there
  BY DEF Mark, At, History
<1>2. PICK old \in CopyRecord : old = meta[t]
  BY <1>0, MDTypes
<1>3. meta' = [meta EXCEPT ![t] = [old EXCEPT !.done = TRUE]]
  BY <1>2 DEF Mark
<1>4. /\ [old EXCEPT !.done = TRUE] \in CopyRecord
      /\ [old EXCEPT !.done = TRUE].there = old.there /\ [old EXCEPT !.done = TRUE].age = old.age
  BY DEF CopyRecord
<1>5. PICK m \in CopyRecord : m = [old EXCEPT !.done = TRUE] /\ m.there = old.there /\ m.age = old.age
  BY <1>4
<1>6. meta' = [meta EXCEPT ![t] = m] /\ m.there /\ m.age = meta[t].age
  BY <1>1, <1>2, <1>3, <1>5
<1>7. late' \subseteq Titles
  BY <1>0, <1>1, MDTypes
<1> QED
  BY <1>0, <1>1, <1>6, <1>7, EndOfRun, RecordStep

LEMMA FailedInv == ASSUME MDInv, NEW t \in Titles, Failed(t) PROVE MDInv'
<1>0. MDTypeOK
  BY DEF MDInv
<1>1. /\ UNCHANGED <<part, media, sweep, room, faults, spoiled, torn, late>>
      /\ HasSlot(t) /\ End(t) /\ run[t] = "failed"
  BY DEF Failed, At, History
<1>a. meta[t].there
  BY <1>1 DEF MDInv, HasRecord
<1>2. PICK old \in CopyRecord : old = meta[t]
  BY <1>0, MDTypes
<1>3. meta' = [meta EXCEPT ![t] = [old EXCEPT !.err = TRUE]]
  BY <1>a, <1>2 DEF Failed
<1>4. /\ [old EXCEPT !.err = TRUE] \in CopyRecord /\ [old EXCEPT !.err = TRUE].done = old.done
      /\ [old EXCEPT !.err = TRUE].there = old.there /\ [old EXCEPT !.err = TRUE].age = old.age
  BY DEF CopyRecord
<1>5. PICK m \in CopyRecord : /\ m = [old EXCEPT !.err = TRUE] /\ m.there = old.there
                              /\ m.age = old.age /\ m.done = old.done
  BY <1>4
<1>6. meta' = [meta EXCEPT ![t] = m] /\ m.there /\ m.age = meta[t].age /\ (m.done => meta[t].done)
  BY <1>a, <1>2, <1>3, <1>5
<1>7. late' \subseteq Titles
  BY <1>0, <1>1, MDTypes
<1> QED
  BY <1>0, <1>1, <1>a, <1>6, <1>7, EndOfRun, RecordStep

LEMMA AgeInv == ASSUME MDInv, NEW t \in Titles, Age(t) PROVE MDInv'
<1>0. MDTypeOK
  BY DEF MDInv
<1>1. /\ UNCHANGED <<part, media, run, line, sweep, room, faults, spoiled, torn, late>>
      /\ meta[t].there /\ meta[t].age < 2
  BY DEF Age, History
<1>2. PICK old \in CopyRecord : old = meta[t]
  BY <1>0, MDTypes
<1>3. old.age \in 0 .. 2
  BY DEF CopyRecord
<1>4. PICK a \in 0 .. 2 : a = old.age + 1 /\ a # 0
  BY <1>1, <1>2, <1>3
<1>5. meta' = [meta EXCEPT ![t] = [old EXCEPT !.age = a]]
  BY <1>2, <1>4 DEF Age
<1>6. /\ [old EXCEPT !.age = a] \in CopyRecord /\ [old EXCEPT !.age = a].done = old.done
      /\ [old EXCEPT !.age = a].there = old.there /\ [old EXCEPT !.age = a].age = a
  BY DEF CopyRecord
<1>7. PICK m \in CopyRecord : /\ m = [old EXCEPT !.age = a] /\ m.there = old.there
                              /\ m.age = a /\ m.done = old.done
  BY <1>6
<1>8. meta' = [meta EXCEPT ![t] = m] /\ m.there /\ m.age # 0 /\ (m.done => meta[t].done)
  BY <1>1, <1>2, <1>4, <1>5, <1>7
<1>9. late' \subseteq Titles /\ line' \in Seq(Titles) /\ run' \in [Titles -> RunPcs]
  BY <1>0, <1>1, MDTypes
<1> QED
  BY <1>0, <1>1, <1>8, <1>9, RecordStep

LEMMA AnHourInv == ASSUME MDInv, NEW t \in Titles, AnHour(t) PROVE MDInv'
<1>0. MDTypeOK
  BY DEF MDInv
<1>1. UNCHANGED <<part, media, run, line, sweep, room, faults, spoiled, torn, late>>
  BY DEF AnHour, History
<1>2. PICK old \in CopyRecord : old = meta[t]
  BY <1>0, MDTypes
<1>3. meta' = [meta EXCEPT ![t] = [old EXCEPT !.err = FALSE]]
  BY <1>2 DEF AnHour
<1>4. /\ [old EXCEPT !.err = FALSE] \in CopyRecord /\ [old EXCEPT !.err = FALSE].done = old.done
      /\ [old EXCEPT !.err = FALSE].there = old.there /\ [old EXCEPT !.err = FALSE].age = old.age
  BY DEF CopyRecord
<1>5. PICK m \in CopyRecord : /\ m = [old EXCEPT !.err = FALSE] /\ m.there = old.there
                              /\ m.age = old.age /\ m.done = old.done
  BY <1>4
<1>6. meta' = [meta EXCEPT ![t] = m] /\ m.there = old.there /\ m.age = old.age /\ m.done = old.done
  BY <1>3, <1>5
<1>7. \A u \in Titles : /\ meta'[u].there = meta[u].there /\ meta'[u].done = meta[u].done
                        /\ meta'[u].age = meta[u].age
  BY <1>0, <1>2, <1>6, MDTypes
<1>8. MDTypeOK'
  BY <1>0, <1>1, <1>6, MDTypes DEF MDTypeOK, CopyRecord
<1>9. HasRecord' /\ OneFile' /\ FileFirst' /\ ListedIdle'
  BY <1>1, <1>7 DEF MDInv, HasRecord, OneFile, FileFirst, ListedIdle, Listed
<1> QED
  BY <1>8, <1>9 DEF MDInv

\* Steps that take copies away whose runs are idle, with their records or without a record.
LEMMA Removal ==
    ASSUME MDInv, NEW gone \in SUBSET Titles,
           \A u \in gone : run[u] = "idle" /\ meta'[u].there = FALSE /\ meta'[u].done = FALSE,
           \A u \in Titles \ gone : meta'[u] = meta[u] /\ media'[u] = media[u] /\ part'[u] = part[u],
           \A u \in gone : media'[u] = "none" /\ part'[u] = NoPart,
           meta' \in [Titles -> CopyRecord], part' \in [Titles -> CopyPart],
           media' \in [Titles -> {"none", "whole", "mixed"}],
           UNCHANGED <<run, line, faults, spoiled, torn>>,
           Listed' \subseteq Listed, sweep' \subseteq Titles, room' \subseteq Titles,
           late' \subseteq Titles, late \cap Listed' \subseteq late'
    PROVE  MDInv'
<1>0. MDTypeOK
  BY DEF MDInv
<1>1. MDTypeOK'
  BY <1>0 DEF MDTypeOK, CopyRecord, CopyPart
<1>2. HasRecord'
  BY DEF MDInv, HasRecord
<1>3. OneFile'
  BY <1>0, MDTypes DEF MDInv, OneFile
<1>4. FileFirst'
  BY DEF MDInv, FileFirst
<1>5. ListedIdle'
  BY DEF MDInv, ListedIdle
<1> QED
  BY <1>1, <1>2, <1>3, <1>4, <1>5 DEF MDInv

\* One copy that was listed is removed, unless it is being made.
LEMMA RemoveCopyInv ==
    ASSUME MDInv, NEW t \in Titles, RemoveCopy(t),
           UNCHANGED <<run, line, faults, spoiled, torn>>,
           Listed' \subseteq Listed, sweep' \subseteq Titles, room' \subseteq Titles,
           late' \subseteq Titles, late \cap Listed' \subseteq late'
    PROVE  MDInv'
<1>0. MDTypeOK
  BY DEF MDInv
<1>1. CASE run[t] # "idle"
  <2>1. UNCHANGED <<meta, part, media>>
    BY <1>1 DEF RemoveCopy
  <2> QED
    BY <1>0, <2>1, MDTypes, Removal, {} \in SUBSET Titles
<1>2. CASE run[t] = "idle"
  <2>1. /\ media' = [media EXCEPT ![t] = "none"] /\ part' = [part EXCEPT ![t] = NoPart]
        /\ meta' = [meta EXCEPT ![t] = NoMeta]
    BY <1>2 DEF RemoveCopy
  <2>2. /\ media' \in [Titles -> {"none", "whole", "mixed"}] /\ part' \in [Titles -> CopyPart]
        /\ meta' \in [Titles -> CopyRecord]
    BY <1>0, <2>1, MDTypes
  <2>3. /\ \A u \in {t} : run[u] = "idle" /\ meta'[u].there = FALSE /\ meta'[u].done = FALSE
        /\ \A u \in {t} : media'[u] = "none" /\ part'[u] = NoPart
        /\ \A u \in Titles \ {t} : meta'[u] = meta[u] /\ media'[u] = media[u] /\ part'[u] = part[u]
    BY <1>0, <1>2, <2>1, MDTypes
  <2> QED
    BY <2>2, <2>3, Removal, {t} \in SUBSET Titles
<1> QED
  BY <1>1, <1>2

LEMMA EvictInv == ASSUME MDInv, NEW t \in Titles, NEW c \in Titles, Evict(t, c) PROVE MDInv'
<1>0. MDTypeOK
  BY DEF MDInv
<1>1. /\ RemoveCopy(c) /\ room' = room \ {c} /\ late' = late \ ({c} \ sweep)
      /\ UNCHANGED <<run, line, sweep, faults, spoiled, torn>>
  BY DEF Evict
<1>2. Listed' = sweep \cup (room \ {c})
  BY <1>1 DEF Listed
<1>3. Listed' \subseteq Listed /\ late \cap Listed' \subseteq late'
  BY <1>1, <1>2 DEF Listed
<1>4. sweep' \subseteq Titles /\ room' \subseteq Titles /\ late' \subseteq Titles
  BY <1>0, <1>1, MDTypes
<1> QED
  BY <1>1, <1>3, <1>4, RemoveCopyInv

LEMMA SweepRemoveInv == ASSUME MDInv, NEW t \in Titles, SweepRemove(t) PROVE MDInv'
<1>0. MDTypeOK
  BY DEF MDInv
<1>1. /\ RemoveCopy(t) /\ sweep' = sweep \ {t} /\ late' = late \ ({t} \ room)
      /\ UNCHANGED <<run, line, room, faults, spoiled, torn>>
  BY DEF SweepRemove
<1>2. Listed' = (sweep \ {t}) \cup room
  BY <1>1 DEF Listed
<1>3. Listed' \subseteq Listed /\ late \cap Listed' \subseteq late'
  BY <1>1, <1>2 DEF Listed
<1>4. sweep' \subseteq Titles /\ room' \subseteq Titles /\ late' \subseteq Titles
  BY <1>0, <1>1, MDTypes
<1> QED
  BY <1>1, <1>3, <1>4, RemoveCopyInv

LEMMA SweepOrphansInv == ASSUME MDInv, SweepOrphans PROVE MDInv'
<1>0. MDTypeOK
  BY DEF MDInv
<1>1. /\ part' = [t \in Titles |-> IF meta[t].there THEN part[t] ELSE NoPart]
      /\ media' = [t \in Titles |-> IF meta[t].there THEN media[t] ELSE "none"]
      /\ UNCHANGED <<meta, run, line, sweep, room, faults, spoiled, torn, late>>
  BY DEF SweepOrphans, History
<1>2. part' \in [Titles -> CopyPart] /\ media' \in [Titles -> {"none", "whole", "mixed"}]
  BY <1>0, <1>1, MDTypes
<1>3. PICK gone \in SUBSET Titles : gone = {u \in Titles : ~meta[u].there}
  OBVIOUS
<1>4. \A u \in gone : run[u] = "idle" /\ meta'[u].there = FALSE /\ meta'[u].done = FALSE
  <2> TAKE u \in gone
  <2>1. u \in Titles /\ ~meta[u].there /\ meta[u] \in CopyRecord
    BY <1>0, <1>3, MDTypes
  <2>2. run[u] = "idle" /\ ~meta[u].done
    BY <2>1 DEF MDInv, HasRecord
  <2>3. meta[u].there = FALSE /\ meta[u].done = FALSE
    BY <2>1, <2>2 DEF CopyRecord
  <2> QED
    BY <1>1, <2>2, <2>3
<1>5. /\ \A u \in Titles \ gone : meta'[u] = meta[u] /\ media'[u] = media[u] /\ part'[u] = part[u]
      /\ \A u \in gone : media'[u] = "none" /\ part'[u] = NoPart
  BY <1>1, <1>3
<1>6. Listed' = Listed
  BY <1>1 DEF Listed
<1> QED
  BY <1>0, <1>1, <1>2, <1>4, <1>5, <1>6, MDTypes, Removal

LEMMA SweepListInv == ASSUME MDInv, SweepList PROVE MDInv'
<1>0. MDTypeOK
  BY DEF MDInv
<1>1. sweep' = Expired /\ UNCHANGED <<meta, part, media, run, line, room, faults, spoiled, torn, late>>
  BY DEF SweepList, History
<1>2. MDTypeOK'
  BY <1>0, <1>1 DEF MDTypeOK, Expired
<1>3. HasRecord' /\ OneFile' /\ FileFirst'
  BY <1>1 DEF MDInv, HasRecord, OneFile, FileFirst
<1>4. \A u \in Expired : meta[u].age # 0
  BY DEF Expired
<1>5. \A u \in Listed' : u \in Listed \/ u \in Expired
  BY <1>1 DEF Listed
<1>6. ListedIdle'
  BY <1>1, <1>4, <1>5 DEF MDInv, ListedIdle
<1> QED
  BY <1>2, <1>3, <1>6 DEF MDInv

LEMMA RestartInv == ASSUME MDInv, Restart PROVE MDInv'
<1>0. MDTypeOK
  BY DEF MDInv
<1>1. /\ run' = [t \in Titles |-> "idle"] /\ line' = <<>> /\ sweep' = {} /\ room' = {} /\ late' = {}
      /\ UNCHANGED <<meta, spoiled>>
  BY DEF Restart
<1>2. faults' \in 0 .. MaxFaults
  BY <1>0, MediaCopyAssumption, MDTypes DEF Restart, Fault
<1>3. run' \in [Titles -> RunPcs] /\ \A u \in Titles : run'[u] = "idle"
  BY <1>1 DEF RunPcs
<1>4. CASE UNCHANGED <<part, media, torn>>
  <2>1. MDTypeOK'
    BY <1>0, <1>1, <1>2, <1>3, <1>4 DEF MDTypeOK
  <2>2. HasRecord' /\ OneFile' /\ FileFirst' /\ ListedIdle'
    BY <1>1, <1>3, <1>4 DEF MDInv, HasRecord, OneFile, FileFirst, ListedIdle, Listed
  <2> QED
    BY <2>1, <2>2 DEF MDInv
<1>5. ASSUME NEW t \in Listed, media' = [media EXCEPT ![t] = "none"],
             part' = [part EXCEPT ![t] = NoPart], torn' = torn \cup {t}
      PROVE  MDInv'
  <2>0. t \in Titles
    BY <1>0, MDTypes DEF Listed
  <2>1. /\ part' \in [Titles -> CopyPart] /\ media' \in [Titles -> {"none", "whole", "mixed"}]
        /\ torn' \subseteq Titles
    BY <1>0, <1>5, <2>0, MDTypes
  <2>2. \A u \in Titles : /\ part'[u] = IF u = t THEN NoPart ELSE part[u]
                          /\ media'[u] = IF u = t THEN "none" ELSE media[u]
    BY <1>0, <1>5, <2>0, MDTypes
  <2>3. MDTypeOK'
    BY <1>0, <1>1, <1>2, <1>3, <2>1 DEF MDTypeOK, CopyPart
  <2>4. HasRecord'
    BY <1>1, <1>3 DEF MDInv, HasRecord
  <2>5. OneFile'
    BY <1>0, <1>1, <2>2, MDTypes DEF MDInv, OneFile
  <2>6. FileFirst'
    BY <1>1, <1>3, <1>5, <2>2 DEF MDInv, FileFirst
  <2>7. ListedIdle'
    BY <1>1 DEF ListedIdle, Listed
  <2> QED
    BY <2>3, <2>4, <2>5, <2>6, <2>7 DEF MDInv
<1> QED
  BY <1>4, <1>5 DEF Restart

LEMMA MDNextInv == MDInv /\ [MDNext]_mdVars => MDInv'
<1> SUFFICES ASSUME MDInv, [MDNext]_mdVars PROVE MDInv'
  OBVIOUS
<1>1. ASSUME NEW t \in Titles, Play(t) \/ Resume(t) \/ ListRoom(t) \/ Age(t) \/ AnHour(t) \/ Replace(t)
      PROVE  MDInv'
  BY <1>1, PlayInv, ResumeInv, QuietRunInv, AgeInv, AnHourInv, ReplacedInv
<1>2. ASSUME NEW t \in Titles, RunStep(t) PROVE MDInv'
  BY <1>2, QuietRunInv, RequestInv, ReceiveInv, RenameInv, MarkInv, FailedInv DEF RunStep
<1>3. ASSUME NEW t \in Titles, NEW c \in Titles, Evict(t, c) PROVE MDInv'
  BY <1>3, EvictInv
<1>4. CASE Sweep
  BY <1>4, SweepListInv, SweepOrphansInv, SweepRemoveInv DEF Sweep
<1>5. CASE Restart
  BY <1>5, RestartInv
<1>6. CASE UNCHANGED mdVars
  BY <1>6 DEF mdVars, MDInv, MDTypeOK, HasRecord, OneFile, FileFirst, ListedIdle, Listed
<1> QED
  BY <1>1, <1>2, <1>3, <1>4, <1>5, <1>6 DEF MDNext

\* A finished file goes only with the copy that was listed for it, or with a
\* record that was gone before.
LEMMA GoneWasListed ==
    ASSUME MDInv, MDNext, NEW t \in Titles,
           media[t] = "whole", meta[t].done, media'[t] = "none", meta[t].age = 0
    PROVE  t \in late
<1>0. MDTypeOK /\ meta[t].there
  BY DEF MDInv, HasRecord
<1>1. CASE Restart
  BY <1>0, <1>1, MDTypes DEF Restart, MDInv, ListedIdle
<1>2. CASE SweepOrphans
  BY <1>0, <1>2 DEF SweepOrphans
<1>3. ASSUME NEW c \in Titles, SweepRemove(c) PROVE t \in late
  <2>1. t = c /\ t \in sweep
    BY <1>0, <1>3, MDTypes DEF SweepRemove, RemoveCopy
  <2> QED
    BY <1>0, <2>1 DEF MDInv, ListedIdle, Listed
<1>4. ASSUME NEW u \in Titles, NEW c \in Titles, Evict(u, c) PROVE t \in late
  <2>1. t = c /\ t \in room
    BY <1>0, <1>4, MDTypes DEF Evict, RemoveCopy
  <2> QED
    BY <1>0, <2>1 DEF MDInv, ListedIdle, Listed
<1>5. ASSUME NEW u \in Titles, Rename(u) PROVE t \in late
  BY <1>0, <1>5, MDTypes DEF Rename
<1>6. CASE UNCHANGED media
  BY <1>6
<1> QED
  BY <1>1, <1>2, <1>3, <1>4, <1>5, <1>6
  DEF MDNext, RunStep, Sweep, Play, Resume, CheckRun, Request, Refused, NoSpace, Receive, Stopped,
      Mark, Failed, ListRoom, Age, AnHour, Replace, SweepList

\* A finished copy is whole and nobody who has played it within twelve hours
\* loses it, whatever is resumed, repeated, listed and removed, with the
\* exceptions the history names.
THEOREM CopiesKeepContract == MDSpec => CopyContract
<1>1. MDInv => MDTypeOK /\ DoneIsWhole
  BY DEF MDInv, FileFirst, DoneIsWhole
<1>2. MDInv /\ [MDNext]_mdVars =>
        [\A t \in Titles :
            media[t] = "whole" /\ meta[t].done /\ media'[t] = "none" /\ meta[t].age = 0
              => t \in late]_mdVars
  BY GoneWasListed DEF mdVars
<1> QED
  BY <1>1, <1>2, MDInitInv, MDNextInv, PTL DEF MDSpec, CopyContract, InUseStays

-----------------------------------------------------------------------------
(* Backups at one destination.                                             *)

Groups == [id: Ids, keys: SUBSET Keys]

\* Nothing is below an id that was not given out yet.
Unused == \A i \in Ids : i >= next => objs[i] = {} /\ i \notin stale

\* What a worker knows of the id it works at. A creation that puts has put all
\* but what it has left; one that cleans up leaves no manifest, or one that the
\* destination denied having.
AtWork ==
    \A w \in Workers :
       /\ work[w].pc \in {"put", "cleanup", "list"} => w \in Procs
       /\ work[w].pc \in {"put", "cleanup"} => work[w].id \in Ids /\ work[w].id < next
       /\ work[w].pc = "put" => /\ work[w].id \notin stale /\ Manifest \notin objs[work[w].id]
                                /\ Keys \ work[w].keys \subseteq objs[work[w].id]
       /\ work[w].pc = "cleanup" => Manifest \notin objs[work[w].id] \/ work[w].id \in unsure
       /\ work[w].pc = "delete" => work[w].plan # <<>>

\* Nobody else works at the id of a creation that puts.
OwnId ==
    \A p, q \in Workers :
       p # q /\ work[p].pc = "put" /\ work[q].pc \in {"put", "cleanup"} => work[p].id # work[q].id

Newer(i) == {j \in Complete \cup erased : j > i}

\* A group to delete is of no upload that goes on; its manifest is listed in it
\* or is not there; and retention lists one only behind Keep newer ones.
GroupOK(w, g) ==
    /\ g.id < next
    /\ \A q \in Workers : work[q].pc = "put" => work[q].id # g.id
    /\ Manifest \notin g.keys => Manifest \notin objs[g.id] \/ g.id \in unsure
    /\ Manifest \in g.keys /\ w \in Procs => Cardinality(Newer(g.id)) >= Keep

Planned == \A w \in Workers : \A n \in DOMAIN work[w].plan : GroupOK(w, work[w].plan[n])

BKInv == BKTypeOK /\ Unused /\ AtWork /\ OwnId /\ Planned /\ ListedIsWhole

LEMMA BKTypes ==
    BKTypeOK =>
      /\ objs \in [Ids -> SUBSET Keys] /\ stale \subseteq Ids /\ next \in 1 .. MaxId + 1
      /\ work \in [Workers -> Jobs] /\ storageFaults \in 0 .. MaxStorageFaults
      /\ unsure \subseteq Ids /\ erased \subseteq Ids
      /\ \A w \in Workers :
            /\ work[w].pc \in WorkPcs /\ work[w].id \in 0 .. MaxId /\ work[w].keys \subseteq Keys
            /\ work[w].plan \in Seq(Groups)
            /\ \A n \in DOMAIN work[w].plan : /\ work[w].plan[n] \in Groups
                                              /\ work[w].plan[n].id \in Ids
                                              /\ work[w].plan[n].keys \subseteq Keys
<1> SUFFICES ASSUME BKTypeOK PROVE
       \A w \in Workers :
            /\ work[w].pc \in WorkPcs /\ work[w].id \in 0 .. MaxId /\ work[w].keys \subseteq Keys
            /\ work[w].plan \in Seq(Groups)
            /\ \A n \in DOMAIN work[w].plan : /\ work[w].plan[n] \in Groups
                                              /\ work[w].plan[n].id \in Ids
                                              /\ work[w].plan[n].keys \subseteq Keys
  BY DEF BKTypeOK
<1> TAKE w \in Workers
<1>1. /\ work[w].pc \in WorkPcs /\ work[w].id \in 0 .. MaxId /\ work[w].keys \subseteq Keys
      /\ work[w].plan \in Seq(Groups)
  BY DEF BKTypeOK, Jobs, Groups
<1>2. \A n \in DOMAIN work[w].plan : work[w].plan[n] \in Groups
  BY <1>1
<1> QED
  BY <1>1, <1>2 DEF Groups

LEMMA IdleJob == Idle \in Jobs /\ Idle.pc = "idle" /\ Idle.plan = <<>>
<1>1. <<>> \in Seq([id: Ids, keys: SUBSET Keys]) /\ 0 \in 0 .. MaxId
  BY BackupAssumption
<1> QED
  BY <1>1 DEF Idle, Jobs, WorkPcs

\* What a creation leaves when it failed.
LEMMA UncleanedJob ==
    ASSUME NEW i \in Ids, NEW keys \in SUBSET Keys
    PROVE  /\ Uncleaned(i, keys) \in Jobs /\ Uncleaned(i, keys).plan = <<>>
           /\ Uncleaned(i, keys).pc \in {"idle", "cleanup"}
           /\ Uncleaned(i, keys).pc = "cleanup" =>
                 Uncleaned(i, keys).id = i /\ Uncleaned(i, keys).keys = keys
<1>1. i \in 0 .. MaxId
  BY BackupAssumption DEF Ids
<1>2. <<>> \in Seq([id: Ids, keys: SUBSET Keys])
  OBVIOUS
<1>3. "cleanup" \in WorkPcs
  BY DEF WorkPcs
<1>4. PICK r : r = [Idle EXCEPT !.pc = "cleanup", !.id = i, !.keys = keys]
  OBVIOUS
<1>7. r \in Jobs /\ r.plan = <<>> /\ r.pc = "cleanup" /\ r.id = i /\ r.keys = keys
  BY <1>1, <1>2, <1>3, <1>4 DEF Idle, Jobs
<1>5. CASE keys = {}
  BY <1>5, IdleJob DEF Uncleaned
<1>6. CASE keys # {}
  BY <1>4, <1>6, <1>7 DEF Uncleaned
<1> QED
  BY <1>5, <1>6

\* What a deletion has left.
LEMMA UndeletedJob ==
    ASSUME NEW plan_ \in Seq(Groups)
    PROVE  /\ Undeleted(plan_) \in Jobs /\ Undeleted(plan_).plan = plan_
           /\ Undeleted(plan_).pc \in {"idle", "delete"}
           /\ Undeleted(plan_).pc = "delete" => plan_ # <<>>
<1>1. plan_ \in Seq([id: Ids, keys: SUBSET Keys]) /\ 0 \in 0 .. MaxId
  BY BackupAssumption DEF Groups
<1>2. "delete" \in WorkPcs
  BY DEF WorkPcs
<1>3. PICK r : r = [Idle EXCEPT !.pc = "delete", !.plan = plan_]
  OBVIOUS
<1>6. r \in Jobs /\ r.plan = plan_ /\ r.pc = "delete"
  BY <1>1, <1>2, <1>3 DEF Idle, Jobs
<1>4. CASE plan_ = <<>>
  BY <1>4, IdleJob DEF Undeleted
<1>5. CASE plan_ # <<>>
  BY <1>3, <1>5, <1>6 DEF Undeleted
<1> QED
  BY <1>4, <1>5

LEMMA BKInitInv == BKInit => BKInv
<1> SUFFICES ASSUME BKInit PROVE BKInv
  OBVIOUS
<1>1. /\ objs \in [Ids -> SUBSET Keys] /\ \A i \in Ids : objs[i] = {}
      /\ stale = {} /\ unsure = {} /\ erased = {}
  BY DEF BKInit
<1>2. next \in 1 .. MaxId + 1 /\ storageFaults \in 0 .. MaxStorageFaults
  BY BackupAssumption DEF BKInit
<1>3. work \in [Workers -> Jobs] /\ \A w \in Workers : work[w].pc = "idle" /\ work[w].plan = <<>>
  BY IdleJob DEF BKInit
<1>4. BKTypeOK
  BY <1>1, <1>2, <1>3 DEF BKTypeOK
<1>5. AtWork /\ OwnId /\ Unused
  BY <1>1, <1>3 DEF AtWork, OwnId, Unused
<1>6. Planned
  BY <1>3 DEF Planned
<1>7. ListedIsWhole
  BY <1>1 DEF ListedIsWhole, Complete
<1> QED
  BY <1>4, <1>5, <1>6, <1>7 DEF BKInv

\* Steps that only give a worker another job, which puts nothing and whose
\* groups are in order.
LEMMA NewJob ==
    ASSUME BKInv, NEW w \in Workers, NEW r \in Jobs, work' = [work EXCEPT ![w] = r],
           r.pc \in {"idle", "delete"}, r.pc = "delete" => r.plan # <<>>,
           \A n \in DOMAIN r.plan : GroupOK(w, r.plan[n]),
           UNCHANGED <<objs, stale, next, unsure, erased>>, storageFaults' \in 0 .. MaxStorageFaults
    PROVE  BKInv'
<1>0. BKTypeOK
  BY DEF BKInv
<1>1. work' \in [Workers -> Jobs] /\ \A v \in Workers : work'[v] = IF v = w THEN r ELSE work[v]
  BY <1>0, BKTypes
<1>2. BKTypeOK'
  BY <1>0, <1>1 DEF BKTypeOK
<1>3. Unused' /\ ListedIsWhole'
  BY DEF BKInv, Unused, ListedIsWhole, Complete, Whole
<1>4. AtWork'
  BY <1>1 DEF BKInv, AtWork
<1>5. OwnId'
  BY <1>1 DEF BKInv, OwnId
<1>6. Planned'
  <2> SUFFICES ASSUME NEW v \in Workers, NEW n \in DOMAIN work'[v].plan PROVE GroupOK(v, work[v].plan[n])'
    BY DEF Planned
  <2>1. PICK g : g = work'[v].plan[n] /\ GroupOK(v, g)
    BY <1>1 DEF BKInv, Planned
  <2>2. \A q \in Workers : work'[q].pc = "put" => work[q].pc = "put" /\ work'[q].id = work[q].id
    BY <1>1
  <2> QED
    BY <2>1, <2>2 DEF GroupOK, Newer, Complete
<1> QED
  BY <1>2, <1>3, <1>4, <1>5, <1>6 DEF BKInv

\* More of what is newer is enough too.
LEMMA KeptBehind ==
    ASSUME NEW S, NEW T \in SUBSET Ids, S \subseteq T, Cardinality(S) >= Keep
    PROVE  Cardinality(T) >= Keep
<1>1. IsFiniteSet(Ids)
  BY FS_Interval, BackupAssumption DEF Ids
<1>2. IsFiniteSet(T)
  BY <1>1, FS_Subset
<1>3. IsFiniteSet(S) /\ Cardinality(S) <= Cardinality(T)
  BY <1>2, FS_Subset
<1>4. Cardinality(S) \in Nat /\ Cardinality(T) \in Nat /\ Keep \in Nat
  BY <1>2, <1>3, FS_CardinalityType, BackupAssumption
<1> QED
  BY <1>3, <1>4

\* Groups stay in order while no manifest goes, no new upload takes their id
\* and a manifest appears only where no group is, or where it is doubted.
LEMMA GroupStays ==
    ASSUME BKTypeOK, BKTypeOK', NEW w \in Workers, NEW g \in Groups, GroupOK(w, g),
           next <= next', unsure \subseteq unsure', erased \subseteq erased', Complete \subseteq Complete',
           Manifest \in objs'[g.id] => Manifest \in objs[g.id] \/ g.id \in unsure',
           \A q \in Workers : work'[q].pc = "put" => work'[q].id # g.id
    PROVE  GroupOK(w, g)'
<1>1. g.id < next'
  BY BKTypes, BackupAssumption DEF GroupOK, Groups, Ids, BKTypeOK
<1>2. Newer(g.id) \subseteq Newer(g.id)' /\ Newer(g.id)' \in SUBSET Ids
  BY DEF Newer, Complete, BKTypeOK
<1>3. Cardinality(Newer(g.id)) >= Keep => Cardinality(Newer(g.id)') >= Keep
  BY <1>2, KeptBehind
<1>4. Manifest \notin g.keys => Manifest \notin objs'[g.id] \/ g.id \in unsure'
  BY DEF GroupOK
<1>5. Manifest \in g.keys /\ w \in Procs => Cardinality(Newer(g.id)') >= Keep
  BY <1>3 DEF GroupOK
<1> QED
  BY <1>1, <1>4, <1>5 DEF GroupOK

LEMMA BeginInv == ASSUME BKInv, NEW p \in Procs, Begin(p) PROVE BKInv'
<1>0. BKTypeOK /\ p \in Workers
  BY DEF BKInv, Workers
<1>1. next \in Ids /\ next <= MaxId /\ next' = next + 1 /\ next' \in 1 .. MaxId + 1
  BY <1>0, BackupAssumption, BKTypes DEF Begin, Ids
<1>2. UNCHANGED <<objs, stale, storageFaults, unsure, erased>>
  BY DEF Begin
<1>3. PICK r : r = [Idle EXCEPT !.pc = "put", !.id = next, !.keys = Keys]
  OBVIOUS
<1>4. r \in Jobs /\ r.plan = <<>> /\ r.pc = "put" /\ r.id = next /\ r.keys = Keys
  <2>1. "put" \in WorkPcs /\ next \in 0 .. MaxId /\ <<>> \in Seq([id: Ids, keys: SUBSET Keys])
    BY <1>1 DEF WorkPcs, Ids
  <2> QED
    BY <1>3, <2>1 DEF Idle, Jobs
<1>5. work' = [work EXCEPT ![p] = r]
  BY <1>3 DEF Begin
<1>6. work' \in [Workers -> Jobs] /\ \A v \in Workers : work'[v] = IF v = p THEN r ELSE work[v]
  BY <1>0, <1>4, <1>5, BKTypes
<1>7. BKTypeOK'
  <2>1. Manifest \in Keys
    BY DEF Keys
  <2> QED
    BY <1>0, <1>1, <1>2, <1>4, <1>6, <2>1 DEF BKTypeOK
<1>8. \A i \in Ids : i >= next' => i >= next
  BY <1>1 DEF Ids
<1>9. Unused' /\ ListedIsWhole'
  BY <1>2, <1>8 DEF BKInv, Unused, ListedIsWhole, Complete, Whole
<1>10. next \notin stale /\ objs[next] = {}
  BY <1>1 DEF BKInv, Unused, Ids
<1>11. \A i \in Ids : i < next => i < next' /\ i # next
  BY <1>1 DEF Ids
<1>12. AtWork'
  <2> SUFFICES ASSUME NEW w \in Workers
               PROVE  /\ work'[w].pc \in {"put", "cleanup", "list"} => w \in Procs
                      /\ work'[w].pc \in {"put", "cleanup"} => work'[w].id \in Ids /\ work'[w].id < next'
                      /\ work'[w].pc = "put" => /\ work'[w].id \notin stale
                                                /\ Manifest \notin objs[work'[w].id]
                                                /\ Keys \ work'[w].keys \subseteq objs[work'[w].id]
                      /\ work'[w].pc = "cleanup" =>
                            Manifest \notin objs[work'[w].id] \/ work'[w].id \in unsure
                      /\ work'[w].pc = "delete" => work'[w].plan # <<>>
    BY <1>2 DEF AtWork
  <2>1. CASE w = p
    <3>1. next < next'
      BY <1>1 DEF Ids
    <3> QED
      BY <1>1, <1>4, <1>6, <1>10, <2>1, <3>1
  <2>2. CASE w # p
    BY <1>6, <1>11, <2>2 DEF BKInv, AtWork
  <2> QED
    BY <2>1, <2>2
<1>13. OwnId'
  <2>1. \A q \in Workers : work[q].pc \in {"put", "cleanup"} => work[q].id # next
    BY <1>11 DEF BKInv, AtWork
  <2> QED
    BY <1>4, <1>6, <2>1 DEF BKInv, OwnId
<1>14. Planned'
  <2> SUFFICES ASSUME NEW v \in Workers, NEW n \in DOMAIN work'[v].plan PROVE GroupOK(v, work[v].plan[n])'
    BY DEF Planned
  <2>1. v # p
    BY <1>4, <1>6
  <2>2. PICK g \in Groups : g = work'[v].plan[n] /\ GroupOK(v, g)
    BY <1>0, <1>6, <2>1, BKTypes DEF BKInv, Planned
  <2>3. g.id # next /\ next <= next'
    BY <1>1, <1>11, <2>2 DEF GroupOK, Groups, Ids
  <2>4. \A q \in Workers : work'[q].pc = "put" => work'[q].id # g.id
    BY <1>4, <1>6, <2>2, <2>3 DEF GroupOK
  <2>5. Complete' = Complete
    BY <1>2 DEF Complete
  <2>6. GroupOK(v, g)'
    BY <1>0, <1>2, <1>7, <2>2, <2>3, <2>4, <2>5, GroupStays
  <2> QED
    BY <2>2, <2>6 DEF GroupOK
<1> QED
  BY <1>7, <1>9, <1>12, <1>13, <1>14 DEF BKInv

\* Groups stay in order through the steps of a creation: a manifest appears only
\* at the id of an upload, or where it is doubted.
LEMMA PlansStay ==
    ASSUME BKInv, BKTypeOK', next' = next, unsure \subseteq unsure', erased' = erased,
           Complete \subseteq Complete',
           \A v \in Workers : work'[v].plan = work[v].plan \/ work'[v].plan = <<>>,
           \A q \in Workers : work'[q].pc = "put" => work[q].pc = "put" /\ work'[q].id = work[q].id,
           \A i \in Ids : Manifest \in objs'[i] =>
              \/ Manifest \in objs[i] \/ i \in unsure'
              \/ \E q \in Workers : work[q].pc = "put" /\ work[q].id = i
    PROVE  Planned'
<1>0. BKTypeOK
  BY DEF BKInv
<1> SUFFICES ASSUME NEW v \in Workers, NEW n \in DOMAIN work'[v].plan PROVE GroupOK(v, work[v].plan[n])'
  BY DEF Planned
<1>1. work'[v].plan = work[v].plan
  OBVIOUS
<1>2. PICK g \in Groups : g = work'[v].plan[n] /\ GroupOK(v, g)
  BY <1>0, <1>1, BKTypes DEF BKInv, Planned
<1>3. \A q \in Workers : work[q].pc = "put" => work[q].id # g.id
  BY <1>2 DEF GroupOK
<1>4. Manifest \in objs'[g.id] => Manifest \in objs[g.id] \/ g.id \in unsure'
  BY <1>3 DEF Groups
<1>5. \A q \in Workers : work'[q].pc = "put" => work'[q].id # g.id
  BY <1>3
<1>6. next <= next'
  BY <1>0, BKTypes, BackupAssumption
<1>7. GroupOK(v, g)'
  BY <1>0, <1>2, <1>4, <1>5, <1>6, GroupStays
<1> QED
  BY <1>2, <1>7 DEF GroupOK

LEMMA PutObjectInv == ASSUME BKInv, NEW p \in Procs, NEW k \in Keys, PutObject(p, k) PROVE BKInv'
<1>0. BKTypeOK /\ p \in Workers
  BY DEF BKInv, Workers
<1>1. PICK i \in Ids : i = work[p].id /\ i < next /\ i \notin stale /\ Manifest \notin objs[i]
                       /\ Keys \ work[p].keys \subseteq objs[i]
  BY <1>0 DEF BKInv, AtWork, PutObject
<1>2. /\ work[p].pc = "put" /\ k \in work[p].keys /\ (k = Manifest => work[p].keys = {Manifest})
      /\ objs' = [objs EXCEPT ![i] = objs[i] \cup {k}] /\ stale' = stale \ {i}
      /\ UNCHANGED <<next, storageFaults, unsure, erased>>
  BY <1>1 DEF PutObject, Written
<1>3. /\ work' \in [Workers -> Jobs] /\ \A v \in Workers \ {p} : work'[v] = work[v]
      /\ work'[p].keys = work[p].keys \ {k} /\ work'[p].id = i /\ work'[p].plan = work[p].plan
      /\ work'[p].pc = IF k = Manifest THEN "list" ELSE "put"
  <2>1. PICK pc \in {"list", "put"} : pc = IF k = Manifest THEN "list" ELSE "put"
    OBVIOUS
  <2>2. work' = [work EXCEPT ![p] = [work[p] EXCEPT !.keys = work[p].keys \ {k}, !.pc = pc]]
    BY <1>0, <2>1, BKTypes DEF PutObject, Jobs
  <2>3. PICK r : r = [work[p] EXCEPT !.keys = work[p].keys \ {k}, !.pc = pc]
    OBVIOUS
  <2>4. /\ r \in Jobs /\ r.keys = work[p].keys \ {k} /\ r.id = work[p].id /\ r.plan = work[p].plan
        /\ r.pc = pc
    <3>1. pc \in WorkPcs
      BY DEF WorkPcs
    <3>2. work[p] \in Jobs
      BY <1>0, BKTypes
    <3> QED
      BY <2>3, <3>1, <3>2 DEF Jobs
  <2> QED
    BY <1>0, <1>1, <2>1, <2>2, <2>3, <2>4, BKTypes
<1>4. objs' \in [Ids -> SUBSET Keys] /\ \A j \in Ids : objs'[j] = IF j = i THEN objs[i] \cup {k} ELSE objs[j]
  BY <1>0, <1>1, <1>2, BKTypes
<1>5. BKTypeOK'
  <2>1. k # Manifest => Manifest \in work'[p].keys
    BY <1>0, <1>2, <1>3 DEF BKTypeOK
  <2>2. \A w \in Workers : /\ work'[w].pc = "put" => Manifest \in work'[w].keys
                           /\ work'[w].pc = "cleanup" => Manifest \notin work'[w].keys
    BY <1>0, <1>3, <2>1 DEF BKTypeOK
  <2> QED
    BY <1>0, <1>2, <1>3, <1>4, <2>2 DEF BKTypeOK
<1>6. Unused'
  <2>1. \A j \in Ids : j >= next => j # i
    BY <1>0, <1>1, BKTypes, BackupAssumption DEF Ids
  <2> QED
    BY <1>2, <1>4, <2>1 DEF BKInv, Unused
<1>7. \A q \in Workers \ {p} : work[q].pc \in {"put", "cleanup"} => work[q].id # i
  BY <1>0, <1>1, <1>2 DEF BKInv, OwnId
<1>8. AtWork'
  <2> SUFFICES ASSUME NEW w \in Workers
               PROVE  /\ work'[w].pc \in {"put", "cleanup", "list"} => w \in Procs
                      /\ work'[w].pc \in {"put", "cleanup"} => work'[w].id \in Ids /\ work'[w].id < next
                      /\ work'[w].pc = "put" => /\ work'[w].id \notin stale'
                                                /\ Manifest \notin objs'[work'[w].id]
                                                /\ Keys \ work'[w].keys \subseteq objs'[work'[w].id]
                      /\ work'[w].pc = "cleanup" =>
                            Manifest \notin objs'[work'[w].id] \/ work'[w].id \in unsure
                      /\ work'[w].pc = "delete" => work'[w].plan # <<>>
    BY <1>2 DEF AtWork
  <2>1. CASE w = p
    <3>1. k # Manifest => Manifest \notin objs'[i]
      BY <1>1, <1>4
    <3>2. Keys \ work'[p].keys \subseteq objs'[i]
      BY <1>1, <1>3, <1>4
    <3> QED
      BY <1>1, <1>2, <1>3, <2>1, <3>1, <3>2
  <2>2. CASE w # p
    BY <1>2, <1>3, <1>4, <1>7, <2>2 DEF BKInv, AtWork
  <2> QED
    BY <2>1, <2>2
<1>9. OwnId'
  BY <1>2, <1>3, <1>7, <1>1 DEF BKInv, OwnId
<1>10. Planned'
  <2>1. Complete \subseteq Complete'
    BY <1>4 DEF Complete
  <2>2. \A j \in Ids : Manifest \in objs'[j] =>
          Manifest \in objs[j] \/ \E q \in Workers : work[q].pc = "put" /\ work[q].id = j
    BY <1>0, <1>1, <1>2, <1>4
  <2>3. \A q \in Workers : work'[q].pc = "put" => work[q].pc = "put" /\ work'[q].id = work[q].id
    BY <1>1, <1>2, <1>3
  <2>4. \A v \in Workers : work'[v].plan = work[v].plan
    BY <1>3
  <2> QED
    BY <1>2, <1>5, <2>1, <2>2, <2>3, <2>4, PlansStay
<1>11. ListedIsWhole'
  <2> SUFFICES ASSUME NEW j \in Ids, Manifest \in objs'[j], j \notin unsure PROVE objs'[j] = Keys
    BY <1>2 DEF ListedIsWhole, Complete, Whole
  <2>1. CASE j = i /\ k = Manifest
    BY <1>1, <1>2, <1>4, <1>5, <2>1 DEF BKTypeOK
  <2>2. CASE j = i /\ k # Manifest
    BY <1>1, <1>4, <2>2
  <2>3. CASE j # i
    BY <1>4, <2>3 DEF BKInv, ListedIsWhole, Complete, Whole
  <2> QED
    BY <2>1, <2>2, <2>3
<1> QED
  BY <1>5, <1>6, <1>8, <1>9, <1>10, <1>11 DEF BKInv

LEMMA PutFailsInv == ASSUME BKInv, NEW p \in Procs, NEW k \in Keys, PutFails(p, k) PROVE BKInv'
<1>0. BKTypeOK /\ p \in Workers
  BY DEF BKInv, Workers
<1>1. PICK i \in Ids : i = work[p].id /\ i < next /\ i \notin stale /\ Manifest \notin objs[i]
  BY <1>0 DEF BKInv, AtWork, PutFails
<1>2. /\ work[p].pc = "put" /\ k \in work[p].keys /\ Manifest \in work[p].keys
      /\ unsure' = IF k = Manifest THEN unsure \cup {i} ELSE unsure
      /\ UNCHANGED <<next, erased>>
  BY <1>0, <1>1 DEF PutFails, BKTypeOK
<1>3. storageFaults' \in 0 .. MaxStorageFaults
  BY <1>0, BKTypes, BackupAssumption DEF PutFails, StorageFault
<1>4. PICK r \in Jobs : /\ r = Uncleaned(i, Keys \ work[p].keys) /\ r.plan = <<>>
                        /\ r.pc \in {"idle", "cleanup"}
                        /\ r.pc = "cleanup" => r.id = i /\ r.keys = Keys \ work[p].keys
  <2>1. Keys \ work[p].keys \in SUBSET Keys
    OBVIOUS
  <2> QED
    BY <2>1, UncleanedJob
<1>5. work' = [work EXCEPT ![p] = r]
  BY <1>1, <1>4 DEF PutFails
<1>6. work' \in [Workers -> Jobs] /\ \A v \in Workers : work'[v] = IF v = p THEN r ELSE work[v]
  BY <1>0, <1>4, <1>5, BKTypes
<1>7. PICK new \in SUBSET {k} : /\ objs' \in [Ids -> SUBSET Keys] /\ stale' \subseteq stale
                                /\ \A j \in Ids : objs'[j] = IF j = i THEN objs[i] \cup new ELSE objs[j]
  <2>1. objs \in [Ids -> SUBSET Keys]
    BY <1>0, BKTypes
  <2>2. CASE objs' = [objs EXCEPT ![i] = objs[i] \cup {k}] /\ stale' = stale \ {i}
    BY <1>1, <2>1, <2>2, {k} \in SUBSET {k}
  <2>3. CASE UNCHANGED <<objs, stale>>
    BY <1>1, <2>1, <2>3, {} \in SUBSET {k}
  <2> QED
    BY <1>1, <2>2, <2>3 DEF PutFails, Written
<1>8. BKTypeOK'
  BY <1>0, <1>1, <1>2, <1>3, <1>4, <1>6, <1>7 DEF BKTypeOK
<1>9. Unused'
  <2>1. \A j \in Ids : j >= next => j # i
    BY <1>0, <1>1, BKTypes, BackupAssumption DEF Ids
  <2> QED
    BY <1>2, <1>7, <2>1 DEF BKInv, Unused
<1>10. \A q \in Workers \ {p} : work[q].pc \in {"put", "cleanup"} => work[q].id # i
  BY <1>0, <1>1, <1>2 DEF BKInv, OwnId
<1>11. k = Manifest \/ Manifest \notin objs'[i]
  BY <1>1, <1>7
<1>12. AtWork'
  <2> SUFFICES ASSUME NEW w \in Workers
               PROVE  /\ work'[w].pc \in {"put", "cleanup", "list"} => w \in Procs
                      /\ work'[w].pc \in {"put", "cleanup"} => work'[w].id \in Ids /\ work'[w].id < next
                      /\ work'[w].pc = "put" => /\ work'[w].id \notin stale'
                                                /\ Manifest \notin objs'[work'[w].id]
                                                /\ Keys \ work'[w].keys \subseteq objs'[work'[w].id]
                      /\ work'[w].pc = "cleanup" =>
                            Manifest \notin objs'[work'[w].id] \/ work'[w].id \in unsure'
                      /\ work'[w].pc = "delete" => work'[w].plan # <<>>
    BY <1>2 DEF AtWork
  <2>1. CASE w = p
    BY <1>1, <1>2, <1>4, <1>6, <1>11, <2>1
  <2>2. CASE w # p
    BY <1>2, <1>6, <1>7, <1>10, <2>2 DEF BKInv, AtWork
  <2> QED
    BY <2>1, <2>2
<1>13. OwnId'
  BY <1>1, <1>4, <1>6, <1>10, ZenonT(60) DEF BKInv, OwnId
<1>14. Planned'
  <2>1. Complete \subseteq Complete'
    BY <1>7 DEF Complete
  <2>2. \A j \in Ids : Manifest \in objs'[j] => Manifest \in objs[j] \/ j \in unsure'
    BY <1>2, <1>7
  <2>3. \A q \in Workers : work'[q].pc = "put" => work[q].pc = "put" /\ work'[q].id = work[q].id
    BY <1>4, <1>6
  <2>4. \A v \in Workers : work'[v].plan = work[v].plan \/ work'[v].plan = <<>>
    BY <1>4, <1>6
  <2> QED
    BY <1>2, <1>8, <2>1, <2>2, <2>3, <2>4, PlansStay
<1>15. ListedIsWhole'
  <2> SUFFICES ASSUME NEW j \in Ids, Manifest \in objs'[j], j \notin unsure' PROVE objs'[j] = Keys
    BY DEF ListedIsWhole, Complete, Whole
  <2>1. j # i
    BY <1>2, <1>11
  <2> QED
    BY <1>2, <1>7, <2>1 DEF BKInv, ListedIsWhole, Complete, Whole
<1> QED
  BY <1>8, <1>9, <1>12, <1>13, <1>14, <1>15 DEF BKInv

LEMMA CleanUpInv == ASSUME BKInv, NEW p \in Procs, NEW k \in Keys, CleanUp(p, k) PROVE BKInv'
<1>0. BKTypeOK /\ p \in Workers
  BY DEF BKInv, Workers
<1>1. PICK i \in Ids : i = work[p].id /\ i < next /\ (Manifest \notin objs[i] \/ i \in unsure)
  BY <1>0 DEF BKInv, AtWork, CleanUp
<1>2. /\ work[p].pc = "cleanup" /\ k \in work[p].keys /\ k # Manifest
      /\ UNCHANGED <<stale, next, unsure, erased>>
  BY <1>0 DEF CleanUp, BKTypeOK
<1>3. storageFaults' \in 0 .. MaxStorageFaults
  BY <1>0, BKTypes, BackupAssumption DEF CleanUp, StorageFault
<1>4. PICK r \in Jobs : /\ r = Uncleaned(i, work[p].keys \ {k}) /\ r.plan = <<>>
                        /\ r.pc \in {"idle", "cleanup"}
                        /\ r.pc = "cleanup" => r.id = i /\ r.keys = work[p].keys \ {k}
  <2>1. work[p].keys \ {k} \in SUBSET Keys
    BY <1>0, BKTypes
  <2> QED
    BY <2>1, UncleanedJob
<1>5. work' = [work EXCEPT ![p] = r]
  BY <1>1, <1>4 DEF CleanUp
<1>6. work' \in [Workers -> Jobs] /\ \A v \in Workers : work'[v] = IF v = p THEN r ELSE work[v]
  BY <1>0, <1>4, <1>5, BKTypes
<1>7. PICK old \in SUBSET {k} : /\ objs' \in [Ids -> SUBSET Keys]
                                /\ \A j \in Ids : objs'[j] = IF j = i THEN objs[i] \ old ELSE objs[j]
  <2>1. objs \in [Ids -> SUBSET Keys]
    BY <1>0, BKTypes
  <2>2. CASE objs' = [objs EXCEPT ![i] = objs[i] \ {k}]
    BY <1>1, <2>1, <2>2, {k} \in SUBSET {k}
  <2>3. CASE UNCHANGED objs
    BY <1>1, <2>1, <2>3, {} \in SUBSET {k}
  <2> QED
    BY <1>1, <2>2, <2>3 DEF CleanUp, Removed
<1>8. BKTypeOK'
  BY <1>0, <1>1, <1>2, <1>3, <1>4, <1>6, <1>7 DEF BKTypeOK
<1>9. Unused'
  BY <1>2, <1>7 DEF BKInv, Unused
<1>10. \A q \in Workers : work[q].pc = "put" => work[q].id # i
  BY <1>0, <1>1, <1>2 DEF BKInv, OwnId
<1>11. \A j \in Ids : Manifest \in objs'[j] <=> Manifest \in objs[j]
  BY <1>2, <1>7
<1>12. AtWork'
  <2> SUFFICES ASSUME NEW w \in Workers
               PROVE  /\ work'[w].pc \in {"put", "cleanup", "list"} => w \in Procs
                      /\ work'[w].pc \in {"put", "cleanup"} => work'[w].id \in Ids /\ work'[w].id < next
                      /\ work'[w].pc = "put" => /\ work'[w].id \notin stale
                                                /\ Manifest \notin objs'[work'[w].id]
                                                /\ Keys \ work'[w].keys \subseteq objs'[work'[w].id]
                      /\ work'[w].pc = "cleanup" =>
                            Manifest \notin objs'[work'[w].id] \/ work'[w].id \in unsure
                      /\ work'[w].pc = "delete" => work'[w].plan # <<>>
    BY <1>2 DEF AtWork
  <2>1. CASE w = p
    BY <1>1, <1>4, <1>6, <1>11, <2>1
  <2>2. CASE w # p
    BY <1>6, <1>7, <1>10, <1>11, <2>2 DEF BKInv, AtWork
  <2> QED
    BY <2>1, <2>2
<1>13. OwnId'
  BY <1>1, <1>2, <1>4, <1>6, ZenonT(60) DEF BKInv, OwnId
<1>14. Planned'
  <2>1. Complete \subseteq Complete'
    BY <1>11 DEF Complete
  <2>3. \A q \in Workers : work'[q].pc = "put" => work[q].pc = "put" /\ work'[q].id = work[q].id
    BY <1>4, <1>6
  <2>4. \A v \in Workers : work'[v].plan = work[v].plan \/ work'[v].plan = <<>>
    BY <1>4, <1>6
  <2> QED
    BY <1>2, <1>8, <1>11, <2>1, <2>3, <2>4, PlansStay
<1>15. ListedIsWhole'
  <2> SUFFICES ASSUME NEW j \in Ids, Manifest \in objs'[j], j \notin unsure PROVE objs'[j] = Keys
    BY <1>2 DEF ListedIsWhole, Complete, Whole
  <2>1. j # i
    BY <1>1, <1>11
  <2> QED
    BY <1>7, <2>1 DEF BKInv, ListedIsWhole, Complete, Whole
<1> QED
  BY <1>8, <1>9, <1>12, <1>13, <1>14, <1>15 DEF BKInv

\* The listing: what it plans to delete is in order.
LEMMA ListInv == ASSUME BKInv, NEW p \in Procs, List(p) PROVE BKInv'
<1>0. BKTypeOK /\ p \in Workers /\ work[p].pc = "list"
  BY DEF BKInv, Workers, List
<1>1. PICK order \in SetToSeqs(Surplus \cup Abandoned) :
        work' = [work EXCEPT ![p] = Undeleted([n \in DOMAIN order |-> Group(order[n])])]
  BY DEF List
<1>2. /\ IsFiniteSet(Surplus \cup Abandoned) /\ Surplus \subseteq Ids /\ Abandoned \subseteq Ids
  <2>1. IsFiniteSet(Ids)
    BY FS_Interval, BackupAssumption DEF Ids
  <2>2. Surplus \subseteq Ids /\ Abandoned \subseteq Ids
    BY <1>0 DEF Surplus, Abandoned, Complete, BKTypeOK
  <2> QED
    BY <2>1, <2>2, FS_Subset
<1>3. PICK m \in Nat : order \in [1 .. m -> Surplus \cup Abandoned]
  BY <1>2, FS_CardinalityType DEF SetToSeqs
<1>4. PICK groups : groups = [n \in DOMAIN order |-> Group(order[n])]
  OBVIOUS
<1>5. /\ DOMAIN groups = 1 .. m
      /\ \A n \in 1 .. m : groups[n] = [id |-> order[n], keys |-> objs[order[n]]]
  BY <1>3, <1>4 DEF Group
<1>6. \A n \in 1 .. m : /\ order[n] \in Surplus \cup Abandoned /\ order[n] \in Ids
                        /\ objs[order[n]] \in SUBSET Keys
  BY <1>0, <1>2, <1>3, BKTypes
<1>7. groups \in Seq(Groups)
  <2>1. \A n \in 1 .. m : groups[n] \in Groups
    BY <1>5, <1>6 DEF Groups
  <2>2. groups \in [1 .. m -> Groups]
    BY <1>4, <1>5, <2>1
  <2> QED
    BY <2>2
<1>8. \A n \in DOMAIN groups : GroupOK(p, groups[n])
  <2> SUFFICES ASSUME NEW n \in 1 .. m PROVE GroupOK(p, groups[n])
    BY <1>5
  <2>1. PICK i \in Ids : i = order[n] /\ groups[n].id = i /\ groups[n].keys = objs[i]
    BY <1>5, <1>6
  <2>2. \/ i \in Complete /\ Keep > 0 /\ Cardinality({j \in Complete : j > i}) >= Keep
        \/ i \in stale /\ i \notin Complete /\ objs[i] # {}
    <3>1. i \in Surplus \/ i \in Abandoned
      BY <1>6, <2>1
    <3>2. CASE i \in Surplus
      BY <3>2 DEF Surplus
    <3>3. CASE i \in Abandoned
      BY <3>3 DEF Abandoned
    <3> QED
      BY <3>1, <3>2, <3>3
  <2>3. objs[i] # {}
    BY <2>2 DEF Complete
  <2>4. i < next
    BY <1>0, <2>3, BKTypes, BackupAssumption DEF BKInv, Unused, Ids
  <2>5. \A q \in Workers : work[q].pc = "put" => work[q].id # i
    BY <2>2 DEF BKInv, AtWork, Complete
  <2>6. Manifest \in objs[i] => Cardinality(Newer(i)) >= Keep
    <3> SUFFICES ASSUME Manifest \in objs[i] PROVE Cardinality(Newer(i)) >= Keep
      OBVIOUS
    <3>1. Cardinality({j \in Complete : j > i}) >= Keep
      BY <2>2 DEF Complete
    <3>2. {j \in Complete : j > i} \subseteq Newer(i) /\ Newer(i) \in SUBSET Ids
      BY <1>0 DEF Newer, Complete, BKTypeOK
    <3> QED
      BY <3>1, <3>2, KeptBehind
  <2> QED
    BY <2>1, <2>4, <2>5, <2>6 DEF GroupOK
<1>9. PICK r \in Jobs : /\ r = Undeleted(groups) /\ r.plan = groups /\ r.pc \in {"idle", "delete"}
                        /\ r.pc = "delete" => groups # <<>>
  BY <1>7, UndeletedJob
<1>10. work' = [work EXCEPT ![p] = r]
  BY <1>1, <1>4, <1>9
<1>11. UNCHANGED <<objs, stale, next, unsure, erased>> /\ storageFaults' \in 0 .. MaxStorageFaults
  BY <1>0, BKTypes DEF List
<1> QED
  BY <1>0, <1>8, <1>9, <1>10, <1>11, NewJob

\* A worker gives up.
LEMMA StopInv ==
    ASSUME BKInv, NEW p \in Procs, ListFails(p) \/ Crash(p)
    PROVE  BKInv'
<1>0. BKTypeOK /\ p \in Workers
  BY DEF BKInv, Workers
<1>1. UNCHANGED <<objs, stale, next, unsure, erased>> /\ work' = [work EXCEPT ![p] = Idle]
  BY DEF ListFails, Crash
<1>2. storageFaults' \in 0 .. MaxStorageFaults
  BY <1>0, BKTypes, BackupAssumption DEF ListFails, Crash, StorageFault
<1>3. \A n \in DOMAIN Idle.plan : GroupOK(p, Idle.plan[n])
  BY IdleJob
<1> QED
  BY <1>0, <1>1, <1>2, <1>3, IdleJob, NewJob

LEMMA StartDeleteInv == ASSUME BKInv, NEW d \in Deleters, NEW i \in Ids, StartDelete(d, i) PROVE BKInv'
<1>0. BKTypeOK /\ d \in Workers /\ d \notin Procs
  BY BackupAssumption DEF BKInv, Workers
<1>1. /\ UNCHANGED <<objs, stale, next, storageFaults, unsure, erased>> /\ Manifest \in objs[i]
      /\ work' = [work EXCEPT ![d] = Undeleted(<<Group(i)>>)]
  BY DEF StartDelete, Complete
<1>a. objs[i] \in SUBSET Keys
  BY <1>0, BKTypes
<1>b. Group(i) \in Groups /\ Group(i).id = i /\ Group(i).keys = objs[i]
  BY <1>a DEF Group, Groups
<1>2. PICK g \in Groups : g = Group(i) /\ g.id = i /\ g.keys = objs[i]
  BY <1>b
<1>3. <<g>> \in Seq(Groups) /\ DOMAIN <<g>> = {1} /\ <<g>>[1] = g
  OBVIOUS
<1>4. PICK r \in Jobs : /\ r = Undeleted(<<g>>) /\ r.plan = <<g>> /\ r.pc \in {"idle", "delete"}
                        /\ r.pc = "delete" => <<g>> # <<>>
  BY <1>3, UndeletedJob
<1>5. work' = [work EXCEPT ![d] = r]
  BY <1>1, <1>2, <1>4
<1>6. GroupOK(d, g)
  <2>1. i < next
    BY <1>0, <1>1, BKTypes, BackupAssumption DEF BKInv, Unused, Ids
  <2>2. \A q \in Workers : work[q].pc = "put" => work[q].id # i
    BY <1>1 DEF BKInv, AtWork
  <2> QED
    BY <1>0, <1>1, <1>2, <2>1, <2>2 DEF GroupOK
<1>7. \A n \in DOMAIN r.plan : GroupOK(d, r.plan[n])
  BY <1>3, <1>4, <1>6
<1>8. storageFaults' \in 0 .. MaxStorageFaults
  BY <1>0, <1>1, BKTypes
<1> QED
  BY <1>0, <1>1, <1>4, <1>5, <1>7, <1>8, NewJob

LEMMA GrowOldInv == ASSUME BKInv, NEW i \in Ids, GrowOld(i) PROVE BKInv'
<1>0. BKTypeOK
  BY DEF BKInv
<1>1. /\ UNCHANGED <<objs, next, work, storageFaults, unsure, erased>> /\ stale' = stale \cup {i}
      /\ objs[i] # {} /\ \A q \in Procs : work[q].pc \in {"put", "cleanup"} => work[q].id # i
  BY DEF GrowOld
<1>2. BKTypeOK'
  BY <1>0, <1>1 DEF BKTypeOK
<1>3. Unused'
  BY <1>1 DEF BKInv, Unused
<1>4. AtWork'
  BY <1>1 DEF BKInv, AtWork
<1>5. OwnId' /\ ListedIsWhole' /\ Planned'
  BY <1>1 DEF BKInv, OwnId, ListedIsWhole, Complete, Whole, Planned, GroupOK, Newer
<1> QED
  BY <1>2, <1>3, <1>4, <1>5 DEF BKInv

LEMMA NextGroupInv == ASSUME BKInv, NEW w \in Workers, NextGroup(w) PROVE BKInv'
<1>0. BKTypeOK /\ work[w].pc = "delete"
  BY DEF BKInv, NextGroup
<1>1. work[w].plan \in Seq(Groups) /\ work[w].plan # <<>>
  BY <1>0, BKTypes DEF BKInv, AtWork
<1>a. PICK old \in Seq(Groups) : old = work[w].plan /\ old # <<>>
  BY <1>1
<1>b. Tail(old) \in Seq(Groups) /\ Len(Tail(old)) = Len(old) - 1 /\ Len(old) \in Nat
  BY <1>a
<1>c. \A n \in 1 .. Len(old) - 1 : n + 1 \in 1 .. Len(old) /\ Tail(old)[n] = old[n + 1]
  BY <1>a
<1>d. DOMAIN Tail(old) = 1 .. Len(old) - 1 /\ DOMAIN old = 1 .. Len(old)
  BY <1>b
<1>2. PICK plan_ \in Seq(Groups) :
        /\ plan_ = Tail(work[w].plan)
        /\ \A n \in DOMAIN plan_ : n + 1 \in DOMAIN work[w].plan /\ plan_[n] = work[w].plan[n + 1]
  BY <1>a, <1>b, <1>c, <1>d
<1>3. PICK r \in Jobs : /\ r = Undeleted(plan_) /\ r.plan = plan_ /\ r.pc \in {"idle", "delete"}
                        /\ r.pc = "delete" => plan_ # <<>>
  BY UndeletedJob
<1>4. work' = [work EXCEPT ![w] = r]
  BY <1>2, <1>3 DEF NextGroup
<1>5. \A n \in DOMAIN r.plan : GroupOK(w, r.plan[n])
  BY <1>2, <1>3 DEF BKInv, Planned
<1>6. UNCHANGED <<objs, stale, next, unsure, erased>>
  BY DEF NextGroup
<1>7. storageFaults' \in 0 .. MaxStorageFaults
  BY <1>0, BKTypes, BackupAssumption DEF NextGroup, StorageFault
<1> QED
  BY <1>3, <1>4, <1>5, <1>6, <1>7, NewJob

\* What a delete does, with the group it works at.
LEMMA DeleteFacts ==
    ASSUME BKInv, NEW w \in Workers, NEW k \in Keys, DeleteKey(w, k), NEW g, g = Target(w)
    PROVE  /\ g \in Groups /\ GroupOK(w, g) /\ 1 \in DOMAIN work[w].plan /\ g = work[w].plan[1]
           /\ k \in g.keys /\ (Manifest \in g.keys => k = Manifest)
           /\ UNCHANGED <<stale, next, storageFaults, unsure>>
           /\ objs' \in [Ids -> SUBSET Keys]
           /\ \A j \in Ids : objs'[j] = IF j = g.id THEN objs[j] \ {k} ELSE objs[j]
           /\ erased' = IF w \in Deleters THEN erased \cup {g.id} ELSE erased
           /\ work[w].pc = "delete"
<1>0. BKTypeOK /\ work[w].pc = "delete"
  BY DEF BKInv, DeleteKey
<1>1. work[w].plan \in Seq(Groups) /\ work[w].plan # <<>>
  BY <1>0, BKTypes DEF BKInv, AtWork
<1>2. 1 \in DOMAIN work[w].plan /\ g = work[w].plan[1] /\ g \in Groups
  BY <1>1 DEF Target
<1>3. GroupOK(w, g)
  BY <1>2 DEF BKInv, Planned
<1>4. /\ k \in g.keys /\ (Manifest \in g.keys => k = Manifest)
      /\ UNCHANGED <<stale, next, storageFaults, unsure>>
      /\ erased' = IF w \in Deleters THEN erased \cup {g.id} ELSE erased
  BY DEF DeleteKey
<1>5. objs' = [objs EXCEPT ![g.id] = objs[g.id] \ {k}]
  BY DEF DeleteKey, Removed
<1>6. objs \in [Ids -> SUBSET Keys] /\ g.id \in Ids
  BY <1>0, <1>2, BKTypes DEF Groups
<1> QED
  BY <1>0, <1>2, <1>3, <1>4, <1>5, <1>6

\* Retention leaves Keep newer ones behind what had as many, deletions by hand included.
LEMMA DeleteLeavesNewer ==
    ASSUME BKInv, NEW w \in Workers, NEW k \in Keys, DeleteKey(w, k),
           NEW i \in Ids, Cardinality(Newer(i)) >= Keep
    PROVE  Cardinality(Newer(i)') >= Keep
<1>0. BKTypeOK
  BY DEF BKInv
<1>1. PICK g : g = Target(w)
  OBVIOUS
<1>2. /\ g \in Groups /\ g.id \in Ids /\ GroupOK(w, g) /\ k \in g.keys /\ (Manifest \in g.keys => k = Manifest)
      /\ \A j \in Ids : objs'[j] = IF j = g.id THEN objs[j] \ {k} ELSE objs[j]
      /\ erased' = IF w \in Deleters THEN erased \cup {g.id} ELSE erased
  <2>1. g \in Groups
    BY <1>1, DeleteFacts
  <2> QED
    BY <1>1, <2>1, DeleteFacts DEF Groups
<1>3. \A j \in Ids : Newer(j)' \in SUBSET Ids
  BY <1>0, <1>2, BKTypes, ZenonT(60) DEF Newer, Complete
<1>4. CASE w \in Deleters \/ k # Manifest \/ i >= g.id
  <2>1. \A j \in Ids : j > i /\ i >= g.id => j # g.id
    BY <1>2 DEF Ids
  <2>2. \A j \in Complete : (j = g.id /\ k = Manifest) \/ j \in Complete'
    BY <1>2 DEF Complete
  <2>3. \A j \in Newer(i) : j \in Newer(i)'
    <3> TAKE j \in Newer(i)
    <3>1. j \in Ids /\ j > i /\ (j \in Complete \/ j \in erased)
      BY <1>0, BKTypes DEF Newer, Complete
    <3>2. j \in Complete' \/ j \in erased'
      BY <1>2, <1>4, <2>1, <2>2, <3>1
    <3> QED
      BY <3>1, <3>2 DEF Newer
  <2> QED
    BY <1>3, <2>3, KeptBehind
<1>5. CASE w \notin Deleters /\ k = Manifest /\ ~(i >= g.id)
  <2>1. Cardinality(Newer(g.id)) >= Keep
    BY <1>2, <1>5 DEF GroupOK, Workers
  <2>2. \A j \in Ids : j > g.id => j > i /\ j # g.id
    BY <1>2, <1>5 DEF Ids
  <2>3. \A j \in Newer(g.id) : j \in Newer(i)'
    <3> TAKE j \in Newer(g.id)
    <3>1. j \in Ids /\ j > g.id /\ (j \in Complete \/ j \in erased)
      BY <1>0, BKTypes DEF Newer, Complete
    <3>2. j \in Complete' \/ j \in erased'
      BY <1>2, <2>2, <3>1 DEF Complete
    <3> QED
      BY <2>2, <3>1, <3>2 DEF Newer
  <2> QED
    BY <1>3, <2>1, <2>3, KeptBehind
<1> QED
  BY <1>4, <1>5

LEMMA DeleteKeyInv == ASSUME BKInv, NEW w \in Workers, NEW k \in Keys, DeleteKey(w, k) PROVE BKInv'
<1>0. BKTypeOK
  BY DEF BKInv
<1>1. PICK g : g = Target(w)
  OBVIOUS
<1>2. /\ g \in Groups /\ GroupOK(w, g) /\ 1 \in DOMAIN work[w].plan /\ g = work[w].plan[1]
      /\ k \in g.keys /\ (Manifest \in g.keys => k = Manifest)
      /\ UNCHANGED <<stale, next, storageFaults, unsure>>
      /\ objs' \in [Ids -> SUBSET Keys]
      /\ \A j \in Ids : objs'[j] = IF j = g.id THEN objs[j] \ {k} ELSE objs[j]
      /\ erased' = IF w \in Deleters THEN erased \cup {g.id} ELSE erased
      /\ work[w].pc = "delete"
  BY <1>1, DeleteFacts
<1>3. g.id \in Ids /\ g.keys \subseteq Keys
  BY <1>2 DEF Groups
<1>4. PICK h : h = [g EXCEPT !.keys = g.keys \ {k}]
  OBVIOUS
<1>5. h \in Groups /\ h.id = g.id /\ h.keys = g.keys \ {k}
  BY <1>2, <1>3, <1>4 DEF Groups
<1>6. PICK plan_ : plan_ = [work[w].plan EXCEPT ![1] = h]
  OBVIOUS
<1>7. /\ plan_ \in Seq(Groups) /\ plan_ # <<>> /\ DOMAIN plan_ = DOMAIN work[w].plan
      /\ \A n \in DOMAIN plan_ : plan_[n] = IF n = 1 THEN h ELSE work[w].plan[n]
  <2>1. work[w].plan \in Seq(Groups) /\ work[w].plan # <<>>
    BY <1>0, <1>2, BKTypes DEF BKInv, AtWork
  <2> QED
    BY <1>2, <1>5, <1>6, <2>1
<1>8. PICK r : r = [work[w] EXCEPT !.plan = plan_]
  OBVIOUS
<1>9. r \in Jobs /\ r.plan = plan_ /\ r.pc = work[w].pc /\ r.id = work[w].id /\ r.keys = work[w].keys
  <2>1. work[w] \in Jobs
    BY <1>0, BKTypes
  <2> QED
    BY <1>7, <1>8, <2>1 DEF Jobs, Groups
<1>10. work' = [work EXCEPT ![w] = r]
  BY <1>2, <1>4, <1>6, <1>8 DEF DeleteKey
<1>11. work' \in [Workers -> Jobs] /\ \A v \in Workers : work'[v] = IF v = w THEN r ELSE work[v]
  BY <1>0, <1>9, <1>10, BKTypes
<1>12. \A v \in Workers : /\ work'[v].pc = work[v].pc /\ work'[v].id = work[v].id
                          /\ work'[v].keys = work[v].keys
  BY <1>9, <1>11
<1>13. BKTypeOK'
  <2>1. erased' \subseteq Ids
    BY <1>0, <1>2, <1>3, BKTypes
  <2> QED
    BY <1>0, <1>2, <1>11, <1>12, <2>1 DEF BKTypeOK
<1>14. Unused'
  BY <1>2 DEF BKInv, Unused
<1>15. \A q \in Workers : work[q].pc = "put" => work[q].id # g.id
  BY <1>2 DEF GroupOK
<1>16. AtWork'
  <2> SUFFICES ASSUME NEW v \in Workers
               PROVE  /\ work'[v].pc \in {"put", "cleanup", "list"} => v \in Procs
                      /\ work'[v].pc \in {"put", "cleanup"} => work'[v].id \in Ids /\ work'[v].id < next
                      /\ work'[v].pc = "put" => /\ work'[v].id \notin stale
                                                /\ Manifest \notin objs'[work'[v].id]
                                                /\ Keys \ work'[v].keys \subseteq objs'[work'[v].id]
                      /\ work'[v].pc = "cleanup" =>
                            Manifest \notin objs'[work'[v].id] \/ work'[v].id \in unsure
                      /\ work'[v].pc = "delete" => work'[v].plan # <<>>
    BY <1>2 DEF AtWork
  <2>1. work'[v].pc = "delete" => work'[v].plan # <<>>
    BY <1>7, <1>9, <1>11 DEF BKInv, AtWork
  <2> QED
    BY <1>2, <1>12, <1>15, <2>1 DEF BKInv, AtWork
<1>17. OwnId'
  BY <1>12 DEF BKInv, OwnId
<1>18. Planned'
  <2> SUFFICES ASSUME NEW v \in Workers, NEW n \in DOMAIN work'[v].plan PROVE GroupOK(v, work[v].plan[n])'
    BY DEF Planned
  <2>1. CASE v = w /\ n = 1
    <3>1. work'[v].plan[n] = h
      BY <1>7, <1>9, <1>11, <2>1
    <3>2. Manifest \notin h.keys
      BY <1>2, <1>5
    <3>3. Manifest \notin objs'[h.id] \/ h.id \in unsure
      BY <1>2, <1>3, <1>5 DEF GroupOK
    <3>4. \A q \in Workers : work'[q].pc = "put" => work'[q].id # h.id
      BY <1>5, <1>12, <1>15
    <3>5. h.id < next
      BY <1>2, <1>5 DEF GroupOK
    <3> QED
      BY <1>2, <3>1, <3>2, <3>3, <3>4, <3>5 DEF GroupOK
  <2>2. CASE ~(v = w /\ n = 1)
    <3>1. n \in DOMAIN work[v].plan /\ work'[v].plan[n] = work[v].plan[n]
      BY <1>7, <1>9, <1>11, <2>2
    <3>2. PICK f \in Groups : f = work'[v].plan[n] /\ GroupOK(v, f)
      BY <1>0, <3>1, BKTypes DEF BKInv, Planned
    <3>3. f.id \in Ids
      BY <3>2 DEF Groups
    <3>4. Manifest \notin f.keys => Manifest \notin objs'[f.id] \/ f.id \in unsure
      BY <1>2, <3>2, <3>3 DEF GroupOK
    <3>5. Manifest \in f.keys /\ v \in Procs => Cardinality(Newer(f.id)') >= Keep
      BY <3>2, <3>3, DeleteLeavesNewer DEF GroupOK
    <3>6. f.id < next /\ \A q \in Workers : work'[q].pc = "put" => work'[q].id # f.id
      BY <1>12, <3>2 DEF GroupOK
    <3> QED
      BY <1>2, <3>2, <3>4, <3>5, <3>6 DEF GroupOK
  <2> QED
    BY <2>1, <2>2
<1>19. ListedIsWhole'
  <2> SUFFICES ASSUME NEW j \in Ids, Manifest \in objs'[j], j \notin unsure PROVE objs'[j] = Keys
    BY <1>2 DEF ListedIsWhole, Complete, Whole
  <2>1. j # g.id
    BY <1>2 DEF GroupOK
  <2> QED
    BY <1>2, <2>1 DEF BKInv, ListedIsWhole, Complete, Whole
<1> QED
  BY <1>13, <1>14, <1>16, <1>17, <1>18, <1>19 DEF BKInv

LEMMA BKNextInv == BKInv /\ [BKNext]_bkVars => BKInv'
<1> SUFFICES ASSUME BKInv, [BKNext]_bkVars PROVE BKInv'
  OBVIOUS
<1>1. ASSUME NEW p \in Procs,
             Begin(p) \/ CreateStep(p) \/ ListFails(p) \/ Crash(p) \/ \E k \in Keys : PutFails(p, k)
      PROVE  BKInv'
  BY <1>1, BeginInv, PutObjectInv, CleanUpInv, ListInv, StopInv, PutFailsInv DEF CreateStep
<1>2. ASSUME NEW w \in Workers, DeleteStep(w) PROVE BKInv'
  BY <1>2, DeleteKeyInv, NextGroupInv DEF DeleteStep
<1>3. ASSUME NEW d \in Deleters, NEW i \in Ids, StartDelete(d, i) PROVE BKInv'
  BY <1>3, StartDeleteInv
<1>4. ASSUME NEW i \in Ids, GrowOld(i) PROVE BKInv'
  BY <1>4, GrowOldInv
<1>5. CASE UNCHANGED bkVars
  <2>1. UNCHANGED <<objs, stale, next, work, storageFaults, unsure, erased>>
    BY <1>5 DEF bkVars
  <2>2. BKTypeOK' /\ Unused' /\ AtWork' /\ OwnId'
    BY <2>1 DEF BKInv, BKTypeOK, Unused, AtWork, OwnId
  <2>3. ListedIsWhole' /\ Planned'
    BY <2>1 DEF BKInv, ListedIsWhole, Complete, Whole, Planned, GroupOK, Newer
  <2> QED
    BY <2>2, <2>3 DEF BKInv
<1> QED
  BY <1>1, <1>2, <1>3, <1>4, <1>5 DEF BKNext

\* A step of retention that takes a backup off the list deletes its manifest.
LEMMA RetentionStep ==
    ASSUME BKInv, BKNext, NEW p \in Procs, NEW i \in Ids,
           work[p].pc = "delete", work'[p].plan # work[p].plan, i \in Complete \ Complete', Keep > 0
    PROVE  Cardinality({j \in Complete' \cup erased : j > i}) >= Keep
<1>0. BKTypeOK /\ p \in Workers /\ p \notin Deleters
  BY BackupAssumption DEF BKInv, Workers
<1>1. work \in [Workers -> Jobs] /\ \A j \in Ids : Manifest \in objs[j] <=> j \in Complete
  BY <1>0, BKTypes DEF Complete
<1>2. ~(UNCHANGED objs)
  BY DEF Complete
<1>3. PICK w \in Workers, k \in Keys : DeleteKey(w, k)
  <2>1. ASSUME NEW q \in Procs, NEW k \in Keys, PutObject(q, k) \/ PutFails(q, k) \/ CleanUp(q, k)
        PROVE  FALSE
    <3>1. work[q].pc # "delete" /\ \E r : work' = [work EXCEPT ![q] = r]
      <4>1. CASE PutObject(q, k)
        BY <4>1 DEF PutObject
      <4>2. CASE PutFails(q, k) \/ CleanUp(q, k)
        BY <4>2 DEF PutFails, CleanUp
      <4> QED
        BY <2>1, <4>1, <4>2
    <3>2. work'[p] = work[p]
      BY <1>0, <1>1, <3>1
    <3> QED
      BY <3>2
  <2> QED
    BY <1>2, <2>1 DEF BKNext, CreateStep, DeleteStep, Begin, List, ListFails, NextGroup, Crash,
                      StartDelete, GrowOld
<1>4. w = p
  <2>1. \E r : work' = [work EXCEPT ![w] = r]
    BY <1>3 DEF DeleteKey
  <2> QED
    BY <1>0, <1>1, <2>1
<1>5. PICK g : g = Target(w)
  OBVIOUS
<1>6. /\ g \in Groups /\ g.id \in Ids /\ GroupOK(w, g) /\ k \in g.keys
      /\ \A j \in Ids : objs'[j] = IF j = g.id THEN objs[j] \ {k} ELSE objs[j]
      /\ erased' = erased
  BY <1>0, <1>3, <1>4, <1>5, DeleteFacts DEF Groups
<1>7. i = g.id /\ k = Manifest
  BY <1>6 DEF Complete
<1>8. Cardinality(Newer(i)) >= Keep
  BY <1>4, <1>6, <1>7 DEF GroupOK
<1>9. Cardinality(Newer(i)') >= Keep
  BY <1>3, <1>8, DeleteLeavesNewer
<1> QED
  BY <1>6, <1>9 DEF Newer

\* A listed backup is whole, an upload that goes on keeps what it has put, and
\* retention deletes only behind Keep newer backups, for any number of processes
\* and requests at one destination and whatever fails.
THEOREM BackupsKeepContract == BKSpec => BackupContract
<1>1. BKInv => BKTypeOK /\ ListedIsWhole /\ UploadStays
  <2>1. Procs \subseteq Workers
    BY DEF Workers
  <2> QED
    BY <2>1 DEF BKInv, AtWork, UploadStays
<1>2. BKInv /\ [BKNext]_bkVars =>
        [\A p \in Procs, i \in Ids :
           (work[p].pc = "delete" /\ work'[p].plan # work[p].plan
               /\ i \in Complete \ Complete' /\ Keep > 0)
             => Cardinality({j \in Complete' \cup erased : j > i}) >= Keep]_bkVars
  BY RetentionStep
<1> QED
  BY <1>1, <1>2, BKInitInv, BKNextInv, PTL DEF BKSpec, BackupContract, RetentionKeeps
-----------------------------------------------------------------------------
(* The resilience dashboard.                                               *)

Results == [at: Nat, status: {"never", "ok", "degraded", "down"}, list: Nat, stale: BOOLEAN]
LookRecords == [pc: {"idle", "waits", "evaluates", "done"}, at: Nat, got: Results]
EvalRecords == [pc: {"none", "starts", "listed", "unlisted", "put", "over"}, list: Nat]

DBTyped ==
    /\ section \in {"nodes", "storage"} /\ ticks \in 1 .. MaxTicks /\ workers \in Nat
    /\ wasAt \in [1 .. MaxTicks -> Nat] /\ kept \in Results /\ holds \in Looks \cup {0}
    /\ look \in [Looks -> LookRecords] /\ eval \in [Looks -> EvalRecords]
    /\ lastKnown \in 0 .. workers /\ shown \in 0 .. workers /\ object \in BOOLEAN /\ overdue \in BOOLEAN

\* The workers' versions only grow.
Recorded ==
    /\ \A t \in 1 .. ticks : wasAt[t] <= workers
    /\ \A s, t \in 1 .. ticks : s <= t => wasAt[s] <= wasAt[t]

\* Who evaluates holds the section, within the timeout.
Holder ==
    /\ \A l \in Looks : look[l].pc = "evaluates" =>
         /\ holds = l /\ look[l].at \in 1 .. ticks /\ ticks <= look[l].at + Timeout
         /\ eval[l].pc \in {"starts", "listed", "unlisted", "put"}
    /\ \A l \in Looks : eval[l].pc # "none" => look[l].pc \in {"evaluates", "done"}
    /\ \A l \in Looks : eval[l].pc \in {"listed", "unlisted"} => section = "nodes"
    /\ \A l \in Looks : eval[l].pc = "put" => section = "storage"

\* A list that is waited for is at least as new as when its evaluation started,
\* and nobody was shown a newer one since.
ListIsNew ==
    \A l \in Looks : eval[l].pc = "listed" =>
        /\ eval[l].list <= workers
        /\ look[l].pc = "evaluates" => eval[l].list >= wasAt[look[l].at] /\ eval[l].list >= shown

\* What is kept was shown, and was recent when it was kept.
KeptIsRecent ==
    /\ kept.list <= shown
    /\ kept.at \in 0 .. ticks
    /\ kept.status = "ok" => kept.at > 0
    /\ kept.status = "ok" /\ section = "nodes" => kept.list >= wasAt[Earlier(kept.at, Timeout)]

\* Every answer is from a tick that was.
AnsweredAt == \A l \in Looks : look[l].pc = "done" => look[l].at \in 1 .. ticks

ProbeGone == kept.status = "ok" /\ ~overdue /\ holds = 0 /\ section = "storage" => ~object

DBInv ==
    /\ DBTyped /\ Recorded /\ Holder /\ ListIsNew /\ KeptIsRecent /\ AnsweredAt /\ ProbeGone
    /\ UnmarkedIsRecent /\ LastKnownIsLatest

LEMMA DBTypes ==
    ASSUME DBTyped
    PROVE  /\ \A l \in Looks : /\ look[l] \in LookRecords /\ look[l].at \in Nat /\ look[l].got \in Results
                               /\ look[l].pc \in {"idle", "waits", "evaluates", "done"}
                               /\ eval[l] \in EvalRecords /\ eval[l].list \in Nat
           /\ kept.at \in Nat /\ kept.list \in Nat /\ ticks \in Nat /\ ticks >= 1
           /\ lastKnown \in Nat /\ lastKnown <= workers /\ shown \in Nat /\ shown <= workers
           /\ \A t \in 1 .. ticks : t \in 1 .. MaxTicks /\ wasAt[t] \in Nat
           /\ 0 \notin Looks
BY DashboardAssumption DEF DBTyped, LookRecords, EvalRecords, Results

LEMMA DBInitInv == DBInit => DBInv
<1> SUFFICES ASSUME DBInit PROVE DBInv
  OBVIOUS
<1>1. NoResult \in Results /\ NoResult.at = 0 /\ NoResult.list = 0 /\ NoResult.status = "never"
  BY DEF NoResult, Results
<1>2. DBTyped
  <2>1. [pc |-> "idle", at |-> 0, got |-> NoResult] \in LookRecords /\ [pc |-> "none", list |-> 0] \in EvalRecords
    BY <1>1 DEF LookRecords, EvalRecords
  <2>2. wasAt \in [1 .. MaxTicks -> Nat] /\ ticks \in 1 .. MaxTicks /\ workers = 1 /\ 0 \in 0 .. workers
    BY DashboardAssumption DEF DBInit
  <2>3. look \in [Looks -> LookRecords] /\ eval \in [Looks -> EvalRecords]
    BY <2>1 DEF DBInit
  <2> QED
    BY <1>1, <2>2, <2>3 DEF DBInit, DBTyped
<1>3. Recorded
  BY DashboardAssumption DEF DBInit, Recorded
<1>4. Holder /\ ListIsNew /\ AnsweredAt /\ UnmarkedIsRecent
  BY DEF DBInit, Holder, ListIsNew, AnsweredAt, UnmarkedIsRecent
<1>5. KeptIsRecent /\ ProbeGone /\ LastKnownIsLatest
  BY <1>1 DEF DBInit, KeptIsRecent, ProbeGone, LastKnownIsLatest
<1> QED
  BY <1>2, <1>3, <1>4, <1>5 DEF DBInv

\* Ticks d and e before a tick that was are ticks that were, in order.
LEMMA EarlierTicks ==
    ASSUME DBTyped, Recorded, NEW t \in 1 .. ticks, NEW d \in Nat
    PROVE  /\ Earlier(t, d) \in 1 .. ticks /\ Earlier(t, d) <= t
           /\ \A s \in 1 .. t : t <= s + d => wasAt[Earlier(t, d)] <= wasAt[s]
           /\ \A s \in 1 .. t : \A e \in Nat : t < s + e => wasAt[Earlier(t, e + d)] <= wasAt[Earlier(s, d)]
<1>1. ticks \in Nat
  BY DBTypes
<1>2. Earlier(t, d) \in 1 .. ticks /\ Earlier(t, d) <= t
  BY <1>1 DEF Earlier
<1>3. ASSUME NEW s \in 1 .. t, t <= s + d PROVE wasAt[Earlier(t, d)] <= wasAt[s]
  <2>1. Earlier(t, d) <= s /\ s \in 1 .. ticks
    BY <1>1, <1>3 DEF Earlier
  <2> QED
    BY <1>2, <2>1 DEF Recorded
<1>4. ASSUME NEW s \in 1 .. t, NEW e \in Nat, t < s + e
      PROVE  wasAt[Earlier(t, e + d)] <= wasAt[Earlier(s, d)]
  <2>1. Earlier(t, e + d) \in 1 .. ticks /\ Earlier(s, d) \in 1 .. ticks /\ Earlier(t, e + d) <= Earlier(s, d)
    BY <1>1, <1>4 DEF Earlier
  <2> QED
    BY <2>1 DEF Recorded
<1> QED
  BY <1>2, <1>3, <1>4

LEMMA ClockTickInv == ASSUME DBInv, ClockTick PROVE DBInv'
<1>0. DBTyped /\ Recorded /\ DBTyped
  BY DEF DBInv
<1>1. /\ ticks' = ticks + 1 /\ ticks < MaxTicks /\ wasAt' = [wasAt EXCEPT ![ticks + 1] = workers]
      /\ \A l \in Looks : look[l].pc = "evaluates" => ticks < look[l].at + Timeout
      /\ UNCHANGED <<section, workers, kept, holds, look, eval, lastKnown, shown, object, overdue>>
  BY DEF ClockTick
<1>2. /\ ticks' \in 1 .. MaxTicks /\ wasAt' \in [1 .. MaxTicks -> Nat] /\ wasAt'[ticks + 1] = workers
      /\ \A t \in 1 .. ticks : wasAt'[t] = wasAt[t] /\ t \in 1 .. ticks'
      /\ \A t \in 1 .. ticks' : t \in 1 .. ticks \/ t = ticks + 1
  BY <1>0, <1>1, DBTypes, DashboardAssumption DEF DBTyped
<1>3. DBTyped'
  BY <1>0, <1>1, <1>2 DEF DBTyped
<1>4. Recorded'
  <2>1. \A t \in 1 .. ticks' : wasAt'[t] <= workers
    BY <1>0, <1>1, <1>2, DBTypes DEF Recorded, DBTyped
  <2>2. ASSUME NEW s \in 1 .. ticks', NEW t \in 1 .. ticks', s <= t PROVE wasAt'[s] <= wasAt'[t]
    <3>1. CASE t = ticks + 1
      BY <1>2, <2>1, <3>1
    <3>2. CASE t \in 1 .. ticks
      <4>1. s \in 1 .. ticks
        BY <1>0, <2>2, <3>2, DBTypes
      <4> QED
        BY <1>0, <1>2, <2>2, <3>2, <4>1 DEF Recorded
    <3> QED
      BY <1>2, <3>1, <3>2
  <2> QED
    BY <1>1, <2>1, <2>2 DEF Recorded
<1>5. Holder' /\ AnsweredAt'
  <2>1. \A l \in Looks : look[l].pc = "evaluates" => ticks + 1 <= look[l].at + Timeout
    BY <1>0, <1>1, DBTypes, DashboardAssumption
  <2>2. \A l \in Looks : look[l].at \in 1 .. ticks => look[l].at \in 1 .. ticks'
    BY <1>2
  <2> QED
    BY <1>1, <2>1, <2>2 DEF DBInv, Holder, AnsweredAt
<1>6. ListIsNew'
  <2>1. \A l \in Looks : look[l].pc = "evaluates" => look[l].at \in 1 .. ticks
    BY DEF DBInv, Holder
  <2> QED
    BY <1>1, <1>2, <2>1 DEF DBInv, ListIsNew
<1>7. KeptIsRecent'
  <2>1. kept.at \in 0 .. ticks' /\ (kept.status = "ok" => kept.at > 0) /\ kept.list <= shown
    BY <1>0, <1>1, DBTypes DEF DBInv, KeptIsRecent
  <2>2. ASSUME kept.status = "ok", section = "nodes" PROVE kept.list >= wasAt'[Earlier(kept.at, Timeout)]
    <3>1. kept.at \in 1 .. ticks
      BY <1>0, <2>2, DBTypes DEF DBInv, KeptIsRecent
    <3>2. Earlier(kept.at, Timeout) \in 1 .. ticks
      BY <1>0, <3>1, EarlierTicks, DashboardAssumption
    <3> QED
      BY <1>2, <2>2, <3>2 DEF DBInv, KeptIsRecent
  <2> QED
    BY <1>1, <2>1, <2>2 DEF KeptIsRecent, Earlier
<1>8. UnmarkedIsRecent'
  <2> SUFFICES ASSUME NEW l \in Looks, look[l].pc = "done", look[l].got.status = "ok", section = "nodes"
               PROVE  look[l].got.list >= wasAt'[Earlier(look[l].at, KeepFor + Timeout)]
    BY <1>1 DEF UnmarkedIsRecent, Earlier
  <2>1. look[l].at \in 1 .. ticks /\ KeepFor + Timeout \in Nat
    BY DashboardAssumption DEF DBInv, AnsweredAt
  <2>2. Earlier(look[l].at, KeepFor + Timeout) \in 1 .. ticks
    BY <1>0, <2>1, EarlierTicks
  <2>3. look[l].got.list >= wasAt[Earlier(look[l].at, KeepFor + Timeout)]
    BY DEF DBInv, UnmarkedIsRecent
  <2> QED
    BY <1>2, <2>2, <2>3
<1>9. ProbeGone' /\ LastKnownIsLatest'
  BY <1>1 DEF DBInv, ProbeGone, LastKnownIsLatest
<1> QED
  BY <1>3, <1>4, <1>5, <1>6, <1>7, <1>8, <1>9 DEF DBInv

\* The workers change: lists that were read stay as new as they were.
LEMMA ChangeInv == ASSUME DBInv, Change PROVE DBInv'
<1>0. DBTyped
  BY DEF DBInv
<1>1. /\ workers' = workers + 1
      /\ UNCHANGED <<section, ticks, wasAt, kept, holds, look, eval, lastKnown, shown, object, overdue>>
  BY DEF Change
<1>2. DBTyped'
  BY <1>0, <1>1, DBTypes DEF DBTyped
<1>3. workers \in Nat /\ \A t \in 1 .. ticks : wasAt[t] \in Nat
  BY <1>0, DBTypes DEF DBTyped
<1>4. Recorded'
  BY <1>1, <1>3 DEF DBInv, Recorded
<1>5. ListIsNew'
  BY <1>0, <1>1, <1>3, DBTypes DEF DBInv, ListIsNew
<1>6. Holder' /\ KeptIsRecent' /\ AnsweredAt' /\ ProbeGone' /\ UnmarkedIsRecent' /\ LastKnownIsLatest'
  BY <1>1 DEF DBInv, Holder, KeptIsRecent, AnsweredAt, ProbeGone, UnmarkedIsRecent, LastKnownIsLatest, Earlier
<1> QED
  BY <1>2, <1>4, <1>5, <1>6 DEF DBInv

LEMMA LookAtInv == ASSUME DBInv, NEW l \in Looks, LookAt(l) PROVE DBInv'
<1>0. DBTyped
  BY DEF DBInv
<1>1. /\ look[l].pc = "idle" /\ look' = [look EXCEPT ![l].pc = "waits"]
      /\ UNCHANGED <<section, ticks, workers, wasAt, kept, holds, eval, lastKnown, shown, object, overdue>>
  BY DEF LookAt, around
<1>2. /\ look' \in [Looks -> LookRecords] /\ look'[l].pc = "waits" /\ \A o \in Looks \ {l} : look'[o] = look[o]
      /\ eval[l].pc = "none"
  BY <1>0, <1>1, DBTypes DEF DBInv, Holder, LookRecords, DBTyped, EvalRecords
<1>3. DBTyped'
  BY <1>0, <1>1, <1>2 DEF DBTyped
<1>4. Holder' /\ AnsweredAt' /\ ListIsNew' /\ UnmarkedIsRecent'
  BY <1>1, <1>2 DEF DBInv, Holder, AnsweredAt, ListIsNew, UnmarkedIsRecent, Earlier
<1>5. Recorded' /\ KeptIsRecent' /\ ProbeGone' /\ LastKnownIsLatest'
  BY <1>1 DEF DBInv, Recorded, KeptIsRecent, ProbeGone, LastKnownIsLatest, Earlier
<1> QED
  BY <1>3, <1>4, <1>5 DEF DBInv

LEMMA EvaluateInv == ASSUME DBInv, NEW l \in Looks, Evaluate(l) PROVE DBInv'
<1>0. DBTyped
  BY DEF DBInv
<1>1. /\ look[l].pc = "waits" /\ holds = 0 /\ holds' = l
      /\ eval' = [eval EXCEPT ![l].pc = "starts"] /\ look' = [look EXCEPT ![l].pc = "evaluates", ![l].at = ticks]
      /\ UNCHANGED <<section, ticks, workers, wasAt, kept, lastKnown, shown, object, overdue>>
  BY DEF Evaluate, around
<1>2. /\ look' \in [Looks -> LookRecords] /\ look'[l].pc = "evaluates" /\ look'[l].at = ticks
      /\ \A o \in Looks \ {l} : look'[o] = look[o]
  BY <1>0, <1>1, DBTypes DEF DBTyped, LookRecords
<1>3. /\ eval' \in [Looks -> EvalRecords] /\ eval'[l].pc = "starts" /\ \A o \in Looks \ {l} : eval'[o] = eval[o]
  BY <1>0, <1>1, DBTypes DEF DBTyped, EvalRecords
<1>4. \A o \in Looks : look[o].pc # "evaluates"
  BY <1>0, <1>1, DBTypes DEF DBInv, Holder
<1>5. DBTyped'
  BY <1>0, <1>1, <1>2, <1>3 DEF DBTyped
<1>6. Holder'
  <2>1. ticks \in 1 .. ticks /\ ticks <= ticks + Timeout
    BY <1>0, DBTypes, DashboardAssumption
  <2> QED
    BY <1>1, <1>2, <1>3, <1>4, <2>1 DEF DBInv, Holder
<1>7. AnsweredAt' /\ ListIsNew' /\ UnmarkedIsRecent'
  BY <1>1, <1>2, <1>3 DEF DBInv, AnsweredAt, ListIsNew, UnmarkedIsRecent, Earlier
<1>8. ProbeGone'
  BY <1>0, <1>1, DBTypes DEF ProbeGone
<1>9. Recorded' /\ KeptIsRecent' /\ LastKnownIsLatest'
  BY <1>1 DEF DBInv, Recorded, KeptIsRecent, LastKnownIsLatest, Earlier
<1> QED
  BY <1>5, <1>6, <1>7, <1>8, <1>9 DEF DBInv

\* A request is answered.
LEMMA Answered ==
    ASSUME DBTyped, NEW l \in Looks, NEW res \in Results, res.list <= workers, Answer(l, res)
    PROVE  /\ look' \in [Looks -> LookRecords] /\ look'[l].pc = "done" /\ look'[l].at = ticks
           /\ look'[l].got = res /\ \A o \in Looks \ {l} : look'[o] = look[o]
           /\ shown' \in 0 .. workers /\ shown' >= shown /\ shown' >= res.list
           /\ shown' \in {shown, res.list}
<1>1. look' = [look EXCEPT ![l].pc = "done", ![l].got = res, ![l].at = ticks] /\ look[l] \in LookRecords
  BY DBTypes DEF Answer
<1>2. look' \in [Looks -> LookRecords] /\ look'[l].pc = "done" /\ look'[l].at = ticks
      /\ look'[l].got = res /\ \A o \in Looks \ {l} : look'[o] = look[o]
  BY <1>1, DBTypes DEF DBTyped, LookRecords
<1>3. res.list \in Nat /\ workers \in Nat
  BY DEF Results, DBTyped
<1> QED
  BY <1>2, <1>3, DBTypes DEF Answer

LEMMA ShowKeptInv == ASSUME DBInv, NEW l \in Looks, ShowKept(l) PROVE DBInv'
<1>0. DBTyped /\ Recorded /\ kept \in Results
  BY DEF DBInv, DBTyped
<1>1. /\ look[l].pc = "waits" /\ holds = 0 /\ kept.at # 0 /\ ticks < kept.at + KeepFor /\ Answer(l, kept)
      /\ UNCHANGED <<section, ticks, workers, wasAt, kept, holds, eval, lastKnown, object, overdue>>
  BY DEF ShowKept, IsFresh, around
<1>2. kept.list <= shown /\ kept.at \in 1 .. ticks /\ kept.list <= workers
  BY <1>0, <1>1, DBTypes DEF DBInv, KeptIsRecent, DBTyped
<1>3. /\ look' \in [Looks -> LookRecords] /\ look'[l].pc = "done" /\ look'[l].at = ticks
      /\ look'[l].got = kept /\ \A o \in Looks \ {l} : look'[o] = look[o]
      /\ shown' = shown
  BY <1>0, <1>1, <1>2, Answered, DBTypes
<1>4. DBTyped'
  BY <1>0, <1>1, <1>3 DEF DBTyped
<1>5. eval[l].pc = "none"
  BY <1>0, <1>1 DEF DBInv, Holder
<1>6. Holder' /\ ListIsNew'
  BY <1>1, <1>3, <1>5 DEF DBInv, Holder, ListIsNew
<1>7. AnsweredAt'
  <2>1. ticks \in 1 .. ticks
    BY <1>0, DBTypes
  <2> QED
    BY <1>1, <1>3, <2>1 DEF DBInv, AnsweredAt
<1>8. UnmarkedIsRecent'
  <2>1. ASSUME kept.status = "ok", section = "nodes"
        PROVE  kept.list >= wasAt[Earlier(ticks, KeepFor + Timeout)]
    <3>0. ticks \in 1 .. ticks /\ KeepFor \in Nat /\ Timeout \in Nat /\ KeepFor + Timeout \in Nat
      BY <1>0, DBTypes, DashboardAssumption
    <3>1. wasAt[Earlier(ticks, KeepFor + Timeout)] <= wasAt[Earlier(kept.at, Timeout)]
      BY <1>0, <1>1, <1>2, <3>0, EarlierTicks
    <3>2. kept.list >= wasAt[Earlier(kept.at, Timeout)]
      BY <2>1 DEF DBInv, KeptIsRecent
    <3>3. Earlier(ticks, KeepFor + Timeout) \in 1 .. ticks /\ Earlier(kept.at, Timeout) \in 1 .. ticks
      BY <1>0, <1>2, <3>0, EarlierTicks
    <3> QED
      BY <1>0, <3>1, <3>2, <3>3, DBTypes
  <2> QED
    BY <1>1, <1>3, <2>1 DEF DBInv, UnmarkedIsRecent, Earlier
<1>9. Recorded' /\ KeptIsRecent' /\ ProbeGone' /\ LastKnownIsLatest'
  BY <1>1, <1>3 DEF DBInv, Recorded, KeptIsRecent, ProbeGone, LastKnownIsLatest, Earlier
<1> QED
  BY <1>4, <1>6, <1>7, <1>8, <1>9 DEF DBInv

\* What was recent when it was kept is so when it is shown.
LEMMA TwoWaits ==
    ASSUME DBTyped, Recorded
    PROVE  /\ wasAt[Earlier(ticks, KeepFor + Timeout)] <= wasAt[Earlier(ticks, Timeout)]
           /\ wasAt[Earlier(ticks, KeepFor + Timeout)] \in Nat /\ wasAt[Earlier(ticks, Timeout)] \in Nat
<1>1. /\ ticks \in 1 .. ticks /\ ticks < ticks + KeepFor
      /\ KeepFor \in Nat /\ Timeout \in Nat /\ KeepFor + Timeout \in Nat
  BY DBTypes, DashboardAssumption
<1>2. Earlier(ticks, KeepFor + Timeout) \in 1 .. ticks /\ Earlier(ticks, Timeout) \in 1 .. ticks
  BY <1>1, EarlierTicks
<1>3. Earlier(ticks, KeepFor + Timeout) <= Earlier(ticks, Timeout)
  BY <1>1, DBTypes DEF Earlier
<1> QED
  BY <1>2, <1>3, DBTypes DEF Recorded

\* An evaluation that is waited for ends, or the wait does.
LEMMA FinishInv ==
    ASSUME DBInv, NEW l \in Looks, look[l].pc = "evaluates", NEW res \in Results, Finish(l, res),
           res.at = ticks, res.list <= workers, UNCHANGED around,
           eval' = eval \/ eval' = [eval EXCEPT ![l].pc = "over"],
           lastKnown' \in 0 .. workers, object' \in BOOLEAN, overdue' \in BOOLEAN,
           res.status = "ok" /\ section = "nodes" => res.list >= wasAt[Earlier(ticks, Timeout)],
           ~overdue' => lastKnown' = shown',
           res.status = "ok" /\ ~overdue' /\ section = "storage" => ~object'
    PROVE  DBInv'
<1>0. DBTyped /\ Recorded
  BY DEF DBInv
<1>1. kept' = res /\ holds' = 0 /\ Answer(l, res) /\ UNCHANGED <<section, ticks, workers, wasAt>>
  BY DEF Finish, around
<1>2. /\ look' \in [Looks -> LookRecords] /\ look'[l].pc = "done" /\ look'[l].at = ticks
      /\ look'[l].got = res /\ \A o \in Looks \ {l} : look'[o] = look[o]
      /\ shown' \in 0 .. workers /\ shown' >= shown /\ shown' >= res.list
  BY <1>0, <1>1, Answered
<1>3. /\ eval' \in [Looks -> EvalRecords]
      /\ \A o \in Looks : eval'[o] = eval[o] \/ (o = l /\ eval'[o].pc = "over")
  BY <1>0, DBTypes DEF DBTyped, EvalRecords
<1>4. \A o \in Looks \ {l} : look[o].pc # "evaluates"
  BY DEF DBInv, Holder
<1>5. DBTyped'
  BY <1>0, <1>1, <1>2, <1>3 DEF DBTyped
<1>6. Holder'
  BY <1>1, <1>2, <1>3, <1>4 DEF DBInv, Holder
<1>7. ListIsNew'
  BY <1>1, <1>2, <1>3, <1>4 DEF DBInv, ListIsNew
<1>8. ticks \in 1 .. ticks /\ KeepFor \in Nat /\ Timeout \in Nat
  BY <1>0, DBTypes, DashboardAssumption
<1>9. KeptIsRecent'
  BY <1>0, <1>1, <1>2, <1>8, DBTypes DEF KeptIsRecent, Earlier
<1>10. AnsweredAt'
  BY <1>1, <1>2, <1>8 DEF DBInv, AnsweredAt
<1>11. UnmarkedIsRecent'
  <2>1. ASSUME res.status = "ok", section = "nodes"
        PROVE  res.list >= wasAt[Earlier(ticks, KeepFor + Timeout)]
    <3>1. res.list \in Nat
      BY DEF Results
    <3> QED
      BY <1>0, <2>1, <3>1, TwoWaits
  <2> QED
    BY <1>1, <1>2, <2>1 DEF DBInv, UnmarkedIsRecent, Earlier
<1>12. Recorded' /\ LastKnownIsLatest'
  BY <1>1 DEF DBInv, Recorded, LastKnownIsLatest
<1>13. ProbeGone'
  BY <1>1 DEF ProbeGone
<1> QED
  BY <1>5, <1>6, <1>7, <1>9, <1>10, <1>11, <1>12, <1>13 DEF DBInv

\* An evaluation ends or goes on, and nobody is answered.
LEMMA EvalStepInv ==
    ASSUME DBInv, NEW l \in Looks, NEW e \in EvalRecords, eval' = [eval EXCEPT ![l] = e],
           UNCHANGED <<around, kept, holds, look, shown>>,
           lastKnown' \in 0 .. workers, object' \in BOOLEAN, overdue' \in BOOLEAN,
           look[l].pc \in {"evaluates", "done"},
           look[l].pc = "evaluates" => e.pc \in {"starts", "listed", "unlisted", "put"},
           e.pc \in {"listed", "unlisted"} => section = "nodes",
           e.pc = "put" => section = "storage",
           e.pc = "listed" => e.list = workers,
           ~overdue' => lastKnown' = shown,
           ~overdue' => ~overdue,
           look[l].pc = "done" /\ object' => object \/ overdue'
    PROVE  DBInv'
<1>0. DBTyped /\ Recorded
  BY DEF DBInv
<1>1. UNCHANGED <<section, ticks, workers, wasAt>>
  BY DEF around
<1>2. eval' \in [Looks -> EvalRecords] /\ eval'[l] = e /\ \A o \in Looks \ {l} : eval'[o] = eval[o]
  BY <1>0 DEF DBTyped
<1>3. DBTyped'
  BY <1>0, <1>1, <1>2 DEF DBTyped
<1>4. Holder'
  BY <1>1, <1>2 DEF DBInv, Holder
<1>5. ListIsNew'
  <2>1. look[l].pc = "evaluates" => look[l].at \in 1 .. ticks
    BY DEF DBInv, Holder
  <2>2. e.pc = "listed" => /\ e.list <= workers
                           /\ look[l].pc = "evaluates" => e.list >= wasAt[look[l].at] /\ e.list >= shown
    BY <1>0, <2>1, DBTypes DEF Recorded, DBTyped
  <2> QED
    BY <1>1, <1>2, <2>2 DEF DBInv, ListIsNew
<1>6. ProbeGone'
  BY <1>0, <1>1, DBTypes DEF DBInv, ProbeGone, Holder
<1>7. Recorded' /\ KeptIsRecent' /\ AnsweredAt' /\ UnmarkedIsRecent' /\ LastKnownIsLatest'
  BY <1>1 DEF DBInv, Recorded, KeptIsRecent, AnsweredAt, UnmarkedIsRecent, LastKnownIsLatest, Earlier
<1> QED
  BY <1>3, <1>4, <1>5, <1>6, <1>7 DEF DBInv

LEMMA GiveUpInv == ASSUME DBInv, NEW l \in Looks, GiveUp(l) PROVE DBInv'
<1> DEFINE res == [NoResult EXCEPT !.at = ticks, !.status = "down"]
<1>1. /\ look[l].pc = "evaluates" /\ Finish(l, res)
      /\ UNCHANGED around /\ UNCHANGED <<eval, lastKnown, object, overdue>>
  BY DEF GiveUp
<1>2. /\ res \in Results /\ res.at = ticks /\ res.list = 0 /\ res.status = "down" /\ 0 <= workers
      /\ lastKnown \in 0 .. workers /\ object \in BOOLEAN /\ overdue \in BOOLEAN
  <2>1. DBTyped /\ ticks \in Nat /\ workers \in Nat
    BY DBTypes DEF DBInv, DBTyped
  <2>2. NoResult \in Results /\ NoResult.list = 0
    BY DEF NoResult, Results
  <2>3. res \in Results /\ res.at = ticks /\ res.list = 0 /\ res.status = "down"
    BY <2>1, <2>2 DEF Results
  <2>4. lastKnown \in 0 .. workers /\ object \in BOOLEAN /\ overdue \in BOOLEAN
    BY <2>1 DEF DBTyped
  <2> QED
    BY <2>1, <2>3, <2>4
<1>3. ~overdue => lastKnown = shown'
  <2>1. shown' = shown
    BY <1>1, <1>2, DBTypes DEF DBInv, Finish, Answer
  <2> QED
    BY <2>1 DEF DBInv, LastKnownIsLatest
<1> HIDE DEF res
<1> QED
  BY <1>1, <1>2, <1>3, FinishInv

LEMMA ReadListInv == ASSUME DBInv, NEW l \in Looks, ReadList(l) PROVE DBInv'
<1>0. DBTyped
  BY DEF DBInv
<1>1. /\ section = "nodes" /\ eval[l].pc = "starts"
      /\ eval' \in {[eval EXCEPT ![l] = [pc |-> "listed", list |-> workers]], [eval EXCEPT ![l].pc = "unlisted"]}
      /\ UNCHANGED <<around, kept, holds, look, lastKnown, shown, object, overdue>>
  BY DEF ReadList
<1>2. look[l].pc \in {"evaluates", "done"} /\ (~overdue => lastKnown = shown)
  BY <1>1 DEF DBInv, Holder, LastKnownIsLatest
<1>3. PICK e \in EvalRecords : /\ eval' = [eval EXCEPT ![l] = e] /\ e.pc \in {"listed", "unlisted"}
                               /\ e.pc = "listed" => e.list = workers
  <2>1. CASE eval' = [eval EXCEPT ![l] = [pc |-> "listed", list |-> workers]]
    <3>1. [pc |-> "listed", list |-> workers] \in EvalRecords
      BY <1>0 DEF DBTyped, EvalRecords
    <3> QED
      BY <2>1, <3>1
  <2>2. CASE eval' = [eval EXCEPT ![l].pc = "unlisted"]
    <3>1. [eval[l] EXCEPT !.pc = "unlisted"] \in EvalRecords /\ [eval[l] EXCEPT !.pc = "unlisted"].pc = "unlisted"
      BY <1>0, DBTypes DEF EvalRecords
    <3> QED
      BY <2>2, <3>1
  <2> QED
    BY <1>1, <2>1, <2>2
<1>4. lastKnown' \in 0 .. workers /\ object' \in BOOLEAN /\ overdue' \in BOOLEAN
  BY <1>0, <1>1 DEF DBTyped
<1> QED
  BY <1>1, <1>2, <1>3, <1>4, EvalStepInv

\* An evaluation that nobody waits for any more is over.
LEMMA OverUnseen ==
    ASSUME DBInv, NEW l \in Looks, eval[l].pc # "none", look[l].pc # "evaluates",
           NEW st, NEW ls, NEW sl, Return(l, st, ls, sl), UNCHANGED around,
           lastKnown' \in 0 .. workers, object' \in BOOLEAN, overdue' \in BOOLEAN,
           ~overdue' => lastKnown' = lastKnown /\ ~overdue, object' => object \/ overdue'
    PROVE  DBInv'
<1>0. DBTyped
  BY DEF DBInv
<1>1. /\ eval' = [eval EXCEPT ![l] = [eval[l] EXCEPT !.pc = "over"]]
      /\ UNCHANGED <<around, kept, holds, look, shown>>
  BY DEF Return
<1>2. [eval[l] EXCEPT !.pc = "over"] \in EvalRecords /\ [eval[l] EXCEPT !.pc = "over"].pc = "over"
  BY <1>0, DBTypes DEF EvalRecords
<1>3. look[l].pc = "done" /\ (~overdue => lastKnown = shown)
  BY DEF DBInv, Holder, LastKnownIsLatest
<1> DEFINE e == [eval[l] EXCEPT !.pc = "over"]
<1> HIDE DEF e
<1>4. e \in EvalRecords /\ e.pc = "over" /\ eval' = [eval EXCEPT ![l] = e]
  BY <1>1, <1>2 DEF e
<1> QED
  BY <1>1, <1>3, <1>4, EvalStepInv

LEMMA KeepListInv == ASSUME DBInv, NEW l \in Looks, KeepList(l) PROVE DBInv'
<1>0. DBTyped /\ Recorded
  BY DEF DBInv
<1>1. /\ eval[l].pc = "listed" /\ lastKnown' = eval[l].list /\ Late(l) /\ Return(l, "ok", eval[l].list, FALSE)
      /\ UNCHANGED around /\ object' = object
  BY DEF KeepList
<1>2. section = "nodes" /\ eval[l].list \in Nat /\ eval[l].list <= workers /\ workers \in Nat
  BY <1>0, <1>1, DBTypes DEF DBInv, Holder, ListIsNew, DBTyped
<1>3. lastKnown' \in 0 .. workers /\ object' \in BOOLEAN /\ overdue' \in BOOLEAN /\ look[l].pc \in {"evaluates", "done"}
  BY <1>0, <1>1, <1>2 DEF Late, DBTyped, DBInv, Holder
<1>4. CASE look[l].pc = "evaluates"
  <2> DEFINE res == [at |-> ticks, status |-> "ok", list |-> eval[l].list, stale |-> FALSE]
  <2>1. res \in Results /\ res.at = ticks /\ res.list = eval[l].list /\ res.status = "ok"
    BY <1>0, <1>2, DBTypes DEF Results
  <2>2. Finish(l, res) /\ eval' = [eval EXCEPT ![l].pc = "over"]
    BY <1>1, <1>4 DEF Return
  <2>3. eval[l].list >= shown
    BY <1>1, <1>4 DEF DBInv, ListIsNew
  <2>4. shown' = eval[l].list
    BY <1>0, <1>2, <2>1, <2>2, <2>3, DBTypes DEF Finish, Answer
  <2>5. eval[l].list >= wasAt[Earlier(ticks, Timeout)]
    <3>1. look[l].at \in 1 .. ticks /\ ticks <= look[l].at + Timeout /\ eval[l].list >= wasAt[look[l].at]
      BY <1>1, <1>4 DEF DBInv, Holder, ListIsNew
    <3>2. ticks \in 1 .. ticks /\ Timeout \in Nat
      BY <1>0, DBTypes, DashboardAssumption
    <3>3. wasAt[Earlier(ticks, Timeout)] <= wasAt[look[l].at]
      BY <1>0, <3>1, <3>2, EarlierTicks
    <3>4. wasAt[Earlier(ticks, Timeout)] \in Nat /\ wasAt[look[l].at] \in Nat
      BY <1>0, <3>1, DBTypes, TwoWaits
    <3> QED
      BY <1>2, <3>1, <3>3, <3>4
  <2> HIDE DEF res
  <2> QED
    BY <1>1, <1>2, <1>3, <1>4, <2>1, <2>2, <2>4, <2>5, FinishInv
<1>5. CASE look[l].pc = "done"
  BY <1>1, <1>3, <1>5, OverUnseen DEF Late
<1> QED
  BY <1>3, <1>4, <1>5

LEMMA ListLastKnownInv == ASSUME DBInv, NEW l \in Looks, ListLastKnown(l) PROVE DBInv'
<1>0. DBTyped /\ Recorded
  BY DEF DBInv
<1> DEFINE st == IF lastKnown = 0 THEN "down" ELSE "degraded"
<1>1. /\ eval[l].pc = "unlisted" /\ Return(l, st, lastKnown, lastKnown # 0)
      /\ UNCHANGED around /\ UNCHANGED <<lastKnown, object, overdue>>
  BY DEF ListLastKnown
<1>2. lastKnown' \in 0 .. workers /\ object' \in BOOLEAN /\ overdue' \in BOOLEAN /\ look[l].pc \in {"evaluates", "done"}
  BY <1>0, <1>1 DEF DBTyped, DBInv, Holder
<1>3. CASE look[l].pc = "evaluates"
  <2> DEFINE res == [at |-> ticks, status |-> st, list |-> lastKnown, stale |-> lastKnown # 0]
  <2>1. res \in Results /\ res.at = ticks /\ res.list = lastKnown /\ res.status # "ok" /\ lastKnown <= workers
    BY <1>0, DBTypes DEF Results
  <2>2. Finish(l, res) /\ eval' = [eval EXCEPT ![l].pc = "over"]
    BY <1>1, <1>3 DEF Return
  <2>3. ~overdue => shown' = lastKnown
    BY <1>0, <2>1, <2>2, DBTypes DEF Finish, Answer, DBInv, LastKnownIsLatest
  <2> HIDE DEF res
  <2> QED
    BY <1>1, <1>2, <1>3, <2>1, <2>2, <2>3, FinishInv
<1>4. CASE look[l].pc = "done"
  <2> HIDE DEF st
  <2> QED
    BY <1>1, <1>2, <1>4, OverUnseen
<1> QED
  BY <1>2, <1>3, <1>4

\* The probe of the storage answers whoever waits, or nobody.
LEMMA ProbeAnswers ==
    ASSUME DBInv, NEW l \in Looks, eval[l].pc \in {"starts", "put"}, NEW st \in {"ok", "down"},
           section = "storage", Return(l, st, 0, FALSE), UNCHANGED around, lastKnown' = lastKnown,
           object' \in BOOLEAN, overdue' \in BOOLEAN, ~overdue' => ~overdue,
           st = "ok" => ~object', look[l].pc = "done" /\ object' => object \/ overdue'
    PROVE  DBInv'
<1>0. DBTyped /\ lastKnown' \in 0 .. workers /\ look[l].pc \in {"evaluates", "done"}
  BY DEF DBInv, DBTyped, Holder
<1>1. CASE look[l].pc = "evaluates"
  <2> DEFINE res == [at |-> ticks, status |-> st, list |-> 0, stale |-> FALSE]
  <2>1. res \in Results /\ res.at = ticks /\ res.list = 0 /\ res.status = st /\ 0 <= workers
    BY <1>0, DBTypes DEF Results, DBTyped
  <2>2. Finish(l, res) /\ eval' = [eval EXCEPT ![l].pc = "over"]
    BY <1>1 DEF Return
  <2>3. ~overdue => shown' = lastKnown
    BY <1>0, <2>1, <2>2, DBTypes DEF Finish, Answer, DBInv, LastKnownIsLatest
  <2> HIDE DEF res
  <2> QED
    BY <1>0, <1>1, <2>1, <2>2, <2>3, FinishInv
<1>2. CASE look[l].pc = "done"
  BY <1>0, <1>2, OverUnseen
<1> QED
  BY <1>0, <1>1, <1>2

LEMMA PutProbeInv == ASSUME DBInv, NEW l \in Looks, PutProbe(l) PROVE DBInv'
<1>0. DBTyped
  BY DEF DBInv
<1>1. section = "storage" /\ eval[l].pc = "starts" /\ Late(l) /\ UNCHANGED around /\ lastKnown' = lastKnown
  BY DEF PutProbe
<1>2. /\ look[l].pc \in {"evaluates", "done"} /\ overdue' \in BOOLEAN /\ (~overdue' => ~overdue)
      /\ look[l].pc = "done" => overdue'
      /\ lastKnown' \in 0 .. workers /\ (~overdue' => lastKnown' = shown)
  BY <1>0, <1>1 DEF DBInv, Holder, Late, DBTyped, LastKnownIsLatest
<1>3. CASE object' = TRUE /\ eval' = [eval EXCEPT ![l].pc = "put"] /\ UNCHANGED <<kept, holds, look, shown>>
  <2> DEFINE e == [eval[l] EXCEPT !.pc = "put"]
  <2>1. e \in EvalRecords /\ e.pc = "put"
    BY <1>0, DBTypes DEF EvalRecords
  <2>2. eval' = [eval EXCEPT ![l] = e]
    BY <1>3
  <2> HIDE DEF e
  <2>3. UNCHANGED <<around, kept, holds, look, shown>>
    BY <1>1, <1>3
  <2> QED
    BY <1>1, <1>2, <1>3, <2>1, <2>2, <2>3, EvalStepInv
<1>4. CASE object' \in {object, TRUE} /\ Return(l, "down", 0, FALSE)
  <2>1. object' \in BOOLEAN
    BY <1>0, <1>4 DEF DBTyped
  <2> QED
    BY <1>1, <1>2, <1>4, <2>1, ProbeAnswers
<1> QED
  BY <1>3, <1>4 DEF PutProbe

LEMMA DeleteProbeInv == ASSUME DBInv, NEW l \in Looks, DeleteProbe(l) PROVE DBInv'
<1>1. /\ eval[l].pc = "put" /\ UNCHANGED around /\ UNCHANGED <<lastKnown, overdue>>
      /\ \/ object' = FALSE /\ Return(l, "ok", 0, FALSE)
         \/ object' \in {object, FALSE} /\ Return(l, "down", 0, FALSE)
  BY DEF DeleteProbe
<1>2. section = "storage" /\ object' \in BOOLEAN /\ overdue' \in BOOLEAN /\ (object' => object)
  <2>1. section = "storage" /\ object \in BOOLEAN /\ overdue' \in BOOLEAN
    BY <1>1 DEF DBInv, Holder, DBTyped
  <2>2. object' = FALSE \/ object' = object
    BY <1>1
  <2>3. CASE object' = FALSE
    BY <2>1, <2>3
  <2>4. CASE object' = object
    BY <2>1, <2>4
  <2> QED
    BY <2>2, <2>3, <2>4
<1> QED
  BY <1>1, <1>2, ProbeAnswers

LEMMA DBNextInv == DBInv /\ [DBNext]_dbVars => DBInv'
<1> SUFFICES ASSUME DBInv, [DBNext]_dbVars PROVE DBInv'
  OBVIOUS
<1>1. CASE UNCHANGED dbVars
  BY <1>1 DEF dbVars, DBInv, DBTyped, Recorded, Holder, ListIsNew, KeptIsRecent, AnsweredAt, ProbeGone,
              UnmarkedIsRecent, LastKnownIsLatest, Earlier
<1>2. CASE ClockTick \/ Change
  BY <1>2, ClockTickInv, ChangeInv
<1>3. ASSUME NEW l \in Looks,
             \/ LookAt(l) \/ ShowKept(l) \/ Evaluate(l) \/ GiveUp(l)
             \/ ReadList(l) \/ KeepList(l) \/ ListLastKnown(l) \/ PutProbe(l) \/ DeleteProbe(l)
      PROVE  DBInv'
  BY <1>3, LookAtInv, ShowKeptInv, EvaluateInv, GiveUpInv, ReadListInv, KeepListInv, ListLastKnownInv,
     PutProbeInv, DeleteProbeInv
<1> QED
  BY <1>1, <1>2, <1>3 DEF DBNext

\* For any number of requests, ticks and workers, a list that is not marked
\* stale is as recent as the two waits allow, and an evaluation that was given
\* up is the only way to an older last list or a forgotten probe.
THEOREM DashboardIsSafe == DBSpec => []DashboardSafe
<1>1. DBInv => DashboardSafe
  <2> SUFFICES ASSUME DBInv PROVE DashboardSafe
    OBVIOUS
  <2>1. DBTypeOK
    BY DEF DBInv, DBTyped, DBTypeOK
  <2>2. section = "storage" => NothingLeft
    BY DEF DBInv, ProbeGone, NothingLeft
  <2> QED
    BY <2>1, <2>2 DEF DBInv, DashboardSafe
<1> QED
  BY <1>1, DBInitInv, DBNextInv, PTL DEF DBSpec

-----------------------------------------------------------------------------
(* The ranking of the workers. First what the library does not say.        *)

\* A set of numbers has a least one.
LEMMA LeastOf ==
    ASSUME NEW T, T \subseteq Nat, T # {}
    PROVE  \E j \in T : \A i \in T : j <= i
<1>1. PICK j \in T : \A i \in T : ~(<<i, j>> \in OpToRel(<, Nat))
  BY NatLessThanWellFounded, WFMin
<1>2. \A i \in T : ~(i < j)  BY <1>1 DEF OpToRel
<1> QED BY <1>2

\* What Min of the community modules gives for two numbers.
LEMMA TwoIsMin ==
    ASSUME NEW a \in Nat, NEW b \in Nat
    PROVE  Min({a, b}) = IF a <= b THEN a ELSE b
<1>1. \E x \in {a, b} : \A y \in {a, b} : x <= y  OBVIOUS
<1>2. Min({a, b}) \in {a, b} /\ \A y \in {a, b} : Min({a, b}) <= y  BY <1>1 DEF Min
<1> QED BY <1>2

-----------------------------------------------------------------------------
(* The order in which workers are asked.                                   *)

Orders(R, S) ==
    /\ \A x, y \in S : x # y => <<x, y>> \in R \/ <<y, x>> \in R
    /\ \A x, y, z \in S : <<x, y>> \in R /\ <<y, z>> \in R => <<x, z>> \in R

HasLast(R, S) == \E x \in S : \A y \in S : y # x => <<y, x>> \in R

\* A finite set that a relation orders has a last element.
LEMMA OrderHasLast ==
    ASSUME NEW S, IsFiniteSet(S), S # {}, NEW R, Orders(R, S)
    PROVE  HasLast(R, S)
<1> DEFINE T == {n \in Nat : \E A \in SUBSET S : A # {} /\ Cardinality(A) = n /\ ~HasLast(R, A)}
<1> SUFFICES ASSUME ~HasLast(R, S) PROVE FALSE
  OBVIOUS
<1>1. T # {}
  <2>1. Cardinality(S) \in Nat  BY FS_CardinalityType
  <2> QED BY <2>1
<1>2. PICK n \in T : \A m \in T : n <= m
  <2>1. T \subseteq Nat  OBVIOUS
  <2> HIDE DEF T
  <2> QED BY <1>1, <2>1, LeastOf
<1>3. n \in Nat  OBVIOUS
<1>4. PICK A \in SUBSET S : A # {} /\ Cardinality(A) = n /\ ~HasLast(R, A)  OBVIOUS
<1>5. IsFiniteSet(A)  BY FS_Subset
<1>6. PICK a \in A : TRUE  BY <1>4
<1>7. IsFiniteSet(A \ {a}) /\ Cardinality(A \ {a}) = n - 1
  BY <1>4, <1>5, <1>6, FS_RemoveElement
<1>8. n - 1 \in Nat  BY <1>7, FS_CardinalityType
<1>9. CASE A \ {a} = {}
  <2>1. \A y \in A : y = a  BY <1>6, <1>9
  <2> QED BY <2>1, <1>4, <1>6 DEF HasLast
<1>10. CASE A \ {a} # {}
  <2>1. HasLast(R, A \ {a})
    <3>1. SUFFICES ASSUME ~HasLast(R, A \ {a}) PROVE FALSE  OBVIOUS
    <3>2. n - 1 \in T  BY <3>1, <1>7, <1>8, <1>10
    <3>3. n <= n - 1  BY <3>2, <1>2
    <3> QED BY <3>3, <1>3
  <2>2. PICK x \in A \ {a} : \A y \in A \ {a} : y # x => <<y, x>> \in R  BY <2>1 DEF HasLast
  <2>3. <<x, a>> \in R \/ <<a, x>> \in R  BY <2>2, <1>6 DEF Orders
  <2>4. CASE <<a, x>> \in R
    <3>1. \A y \in A : y # x => <<y, x>> \in R  BY <2>2, <2>4
    <3> QED BY <3>1, <2>2, <1>4 DEF HasLast
  <2>5. CASE <<x, a>> \in R
    <3>1. \A y \in A : y # a => <<y, a>> \in R
      <4> TAKE y \in A
      <4>1. CASE y = x  BY <4>1, <2>5
      <4>2. CASE y # x /\ y # a
        <5>1. <<y, x>> \in R  BY <4>2, <2>2
        <5> QED BY <5>1, <2>2, <2>5, <1>6 DEF Orders
      <4> QED BY <4>1, <4>2
    <3> QED BY <3>1, <1>6, <1>4 DEF HasLast
  <2> QED BY <2>3, <2>4, <2>5
<1> QED BY <1>9, <1>10

\* The greatest of finitely many integers.
LEMMA IntsHaveMax ==
    ASSUME NEW S, S \subseteq Int, IsFiniteSet(S), S # {}
    PROVE  Max(S) \in S /\ \A y \in S : Max(S) >= y
<1> DEFINE R == {p \in Int \X Int : p[1] <= p[2]}
<1>0. \A x, y \in Int : <<x, y>> \in R <=> x <= y  OBVIOUS
<1> HIDE DEF R
<1>1. Orders(R, S)
  <2>1. \A x, y \in S : x # y => <<x, y>> \in R \/ <<y, x>> \in R
    <3> TAKE x, y \in S
    <3>1. x \in Int /\ y \in Int  OBVIOUS
    <3>2. x <= y \/ y <= x  BY <3>1
    <3> QED BY <3>1, <3>2, <1>0
  <2>2. \A x, y, z \in S : <<x, y>> \in R /\ <<y, z>> \in R => <<x, z>> \in R
    <3> TAKE x, y, z \in S
    <3>1. x \in Int /\ y \in Int /\ z \in Int  OBVIOUS
    <3> QED BY <3>1, <1>0
  <2> QED BY <2>1, <2>2 DEF Orders
<1>2. PICK x \in S : \A y \in S : y # x => <<y, x>> \in R  BY <1>1, OrderHasLast DEF HasLast
<1>3. \A y \in S : x >= y
  <2> TAKE y \in S
  <2>1. x \in Int /\ y \in Int  OBVIOUS
  <2>2. CASE y = x  BY <2>1, <2>2
  <2>3. CASE y # x
    <3>1. y <= x  BY <1>0, <1>2, <2>1, <2>3
    <3> QED BY <3>1, <2>1
  <2> QED BY <2>2, <2>3
<1> QED BY <1>3 DEF Max

\* What SetToSeqs gives: each element once.
LEMMA EachOnce ==
    ASSUME NEW S, IsFiniteSet(S), NEW q \in SetToSeqs(S)
    PROVE  /\ q \in Seq(S) /\ Len(q) = Cardinality(S)
           /\ IsInjective(q) /\ ToSet(q) = S
<1> DEFINE c == Cardinality(S)
<1>1. c \in Nat  BY FS_CardinalityType
<1>2. q \in [1 .. c -> S] /\ \A i, j \in 1 .. c : i # j => q[i] # q[j]  BY DEF SetToSeqs
<1> HIDE DEF c
<1>3. q \in Seq(S)  BY <1>1, <1>2, SeqDef
<1>4. Len(q) = c /\ DOMAIN q = 1 .. c  BY <1>1, <1>2, <1>3, LenProperties
<1>5. IsInjective(q)  BY <1>2, <1>4 DEF IsInjective
<1>6. ToSet(q) = S
  <2>1. IsFiniteSet(1 .. c) /\ Cardinality(1 .. c) = c  BY <1>1, FS_Interval
  <2>2. q \in Injection(1 .. c, S)  BY <1>2, <1>5 DEF Injection
  <2>3. q \in Surjection(1 .. c, S)  BY <2>1, <2>2, FS_Injection DEF c
  <2>4. \A t \in S : \E s \in 1 .. c : q[s] = t  BY <2>3 DEF Surjection
  <2> QED BY <2>4, <1>2, <1>4 DEF ToSet
<1> QED BY <1>3, <1>4, <1>5, <1>6 DEF c

Arranges(q, S, R) == q \in SetToSeqs(S) /\ \A i, j \in DOMAIN q : i < j => <<q[i], q[j]>> \in R
CanArrange(S, R) == \E q : Arranges(q, S, R)

\* One more goes to the end.
LEMMA ArrangeOneMore ==
    ASSUME NEW S, IsFiniteSet(S), NEW R, NEW x \in S, \A y \in S : y # x => <<y, x>> \in R,
           CanArrange(S \ {x}, R)
    PROVE  CanArrange(S, R)
<1>1. PICK q : Arranges(q, S \ {x}, R)  BY DEF CanArrange
<1> DEFINE c == Cardinality(S)
           r == [i \in 1 .. c |-> IF i < c THEN q[i] ELSE x]
<1>2. c \in Nat /\ IsFiniteSet(S \ {x}) /\ Cardinality(S \ {x}) = c - 1
  BY FS_CardinalityType, FS_RemoveElement
<1>2a. c - 1 \in Nat  BY <1>2, FS_CardinalityType
<1>3. /\ q \in SetToSeqs(S \ {x})
      /\ \A i, j \in DOMAIN q : i < j => <<q[i], q[j]>> \in R
  BY <1>1 DEF Arranges
<1>4. /\ q \in [1 .. c - 1 -> S \ {x}]
      /\ \A i, j \in 1 .. c - 1 : i # j => q[i] # q[j]
  BY <1>2, <1>3 DEF SetToSeqs
<1> HIDE DEF c
<1>5. \A i \in 1 .. c : (i < c => i \in 1 .. c - 1 /\ r[i] = q[i] /\ q[i] \in S /\ q[i] # x) /\ (~(i < c) => i = c /\ r[i] = x)
  <2> TAKE i \in 1 .. c
  <2>1. r[i] = IF i < c THEN q[i] ELSE x  OBVIOUS
  <2>2. CASE i < c
    <3>1. i \in 1 .. c - 1  BY <2>2, <1>2
    <3>2. q[i] \in S \ {x}  BY <3>1, <1>4
    <3> QED BY <2>1, <2>2, <3>1, <3>2
  <2>3. CASE ~(i < c)
    <3>1. i = c  BY <2>3, <1>2
    <3> QED BY <3>1, <2>1, <2>3
  <2> QED BY <2>2, <2>3
<1>6. DOMAIN r = 1 .. c  OBVIOUS
<1>7. r \in [1 .. c -> S]
  <2>1. \A i \in 1 .. c : (IF i < c THEN q[i] ELSE x) \in S  BY <1>5
  <2> QED BY <2>1
<1> HIDE DEF r
<1>8. \A i, j \in 1 .. c : i < j => r[i] # r[j] /\ <<r[i], r[j]>> \in R
  <2> SUFFICES ASSUME NEW i \in 1 .. c, NEW j \in 1 .. c, i < j PROVE r[i] # r[j] /\ <<r[i], r[j]>> \in R
    OBVIOUS
  <2>1. i < c  BY <1>2
  <2>2. i \in 1 .. c - 1 /\ r[i] = q[i] /\ q[i] \in S /\ q[i] # x  BY <2>1, <1>5
  <2>3. CASE j < c
    <3>1. j \in 1 .. c - 1 /\ r[j] = q[j]  BY <2>3, <1>5
    <3>2. i # j  BY <1>2
    <3>3. q[i] # q[j]  BY <2>2, <3>1, <3>2, <1>4
    <3>4. DOMAIN q = 1 .. c - 1  BY <1>4
    <3>5. <<q[i], q[j]>> \in R  BY <2>2, <3>1, <3>4, <1>3
    <3> QED BY <2>2, <3>1, <3>3, <3>5
  <2>4. CASE ~(j < c)
    <3>1. r[j] = x  BY <2>4, <1>5
    <3> QED BY <3>1, <2>2
  <2> QED BY <2>3, <2>4
<1>9. \A i, j \in 1 .. c : i # j => r[i] # r[j]
  <2> TAKE i, j \in 1 .. c
  <2>1. i \in Int /\ j \in Int  BY <1>2
  <2>2. i # j => i < j \/ j < i  BY <2>1
  <2> QED BY <2>2, <1>8
<1>10. r \in SetToSeqs(S)  BY <1>7, <1>9 DEF SetToSeqs, c
<1>11. Arranges(r, S, R)  BY <1>6, <1>8, <1>10 DEF Arranges
<1> QED BY <1>11 DEF CanArrange

LEMMA OrderArranges ==
    ASSUME NEW S, IsFiniteSet(S), NEW R, Orders(R, S)
    PROVE  CanArrange(S, R)
<1> DEFINE T == {n \in Nat : \E A \in SUBSET S : Cardinality(A) = n /\ ~CanArrange(A, R)}
<1> SUFFICES ASSUME ~CanArrange(S, R) PROVE FALSE
  OBVIOUS
<1>1. T # {}
  <2>1. Cardinality(S) \in Nat  BY FS_CardinalityType
  <2> QED BY <2>1
<1>2. PICK n \in T : \A m \in T : n <= m
  <2>1. T \subseteq Nat  OBVIOUS
  <2> HIDE DEF T
  <2> QED BY <1>1, <2>1, LeastOf
<1>3. n \in Nat  OBVIOUS
<1>4. PICK A \in SUBSET S : Cardinality(A) = n /\ ~CanArrange(A, R)  OBVIOUS
<1>5. IsFiniteSet(A)  BY FS_Subset
<1>6. CASE A = {}
  <2>1. Cardinality(A) = 0  BY <1>6, FS_EmptySet
  <2>2. 1 .. Cardinality(A) = {}  BY <2>1
  <2>3. <<>> \in [1 .. Cardinality(A) -> A]  BY <2>1
  <2>4. <<>> \in SetToSeqs(A)  BY <2>2, <2>3 DEF SetToSeqs
  <2>5. DOMAIN <<>> = {}  BY <2>2, <2>3
  <2>6. Arranges(<<>>, A, R)  BY <2>4, <2>5 DEF Arranges
  <2> QED BY <2>6, <1>4 DEF CanArrange
<1>7. CASE A # {}
  <2>1. Orders(R, A)  BY <1>4 DEF Orders
  <2>2. PICK x \in A : \A y \in A : y # x => <<y, x>> \in R  BY <2>1, <1>5, <1>7, OrderHasLast DEF HasLast
  <2>3. IsFiniteSet(A \ {x}) /\ Cardinality(A \ {x}) = n - 1  BY <1>4, <1>5, <2>2, FS_RemoveElement
  <2>4. n - 1 \in Nat  BY <2>3, FS_CardinalityType
  <2>5. CanArrange(A \ {x}, R)
    <3>1. SUFFICES ASSUME ~CanArrange(A \ {x}, R) PROVE FALSE  OBVIOUS
    <3>2. n - 1 \in T  BY <3>1, <2>3, <2>4
    <3>3. n <= n - 1  BY <3>2, <1>2
    <3> QED BY <3>3, <1>3
  <2>6. CanArrange(A, R)  BY <2>2, <2>5, <1>5, ArrangeOneMore
  <2> QED BY <2>6, <1>4
<1> QED BY <1>6, <1>7

\* Sorted gives each element once, in the order of the relation.
LEMMA SortedSorts ==
    ASSUME NEW S, IsFiniteSet(S), NEW R, Orders(R, S)
    PROVE  /\ Sorted(S, R) \in Seq(S) /\ IsInjective(Sorted(S, R)) /\ ToSet(Sorted(S, R)) = S
           /\ \A i, j \in DOMAIN Sorted(S, R) : i < j => <<Sorted(S, R)[i], Sorted(S, R)[j]>> \in R
<1>1. \E q \in SetToSeqs(S) : \A i, j \in DOMAIN q : i < j => <<q[i], q[j]>> \in R
  BY OrderArranges DEF CanArrange, Arranges
<1>2. /\ Sorted(S, R) \in SetToSeqs(S)
      /\ \A i, j \in DOMAIN Sorted(S, R) : i < j => <<Sorted(S, R)[i], Sorted(S, R)[j]>> \in R
  BY <1>1 DEF Sorted
<1> QED BY <1>2, EachOnce

\* Where an element is in a sequence that has each once.
LEMMA PlaceIsOne ==
    ASSUME NEW S, NEW q \in Seq(S), IsInjective(q), NEW n \in ToSet(q)
    PROVE  /\ Pos(q, n) \in 1 .. Len(q) /\ q[Pos(q, n)] = n
           /\ \A i \in 1 .. Len(q) : q[i] = n => i = Pos(q, n)
<1>1. DOMAIN q = 1 .. Len(q)  BY LenProperties
<1>2. \E i \in DOMAIN q : q[i] = n  BY DEF ToSet
<1>3. Pos(q, n) \in DOMAIN q /\ q[Pos(q, n)] = n  BY <1>2 DEF Pos
<1>4. \A i \in DOMAIN q : q[i] = n => i = Pos(q, n)  BY <1>3 DEF IsInjective
<1> QED BY <1>1, <1>3, <1>4

\* One sequence after another that shares nothing with it.
Follows(q, a, b) ==
    /\ DOMAIN q = 1 .. Len(a) + Len(b)
    /\ \A i \in DOMAIN q :
          (i \in DOMAIN a /\ q[i] = a[i]) \/ (i - Len(a) \in DOMAIN b /\ q[i] = b[i - Len(a)])

LEMMA AfterIsOnce ==
    ASSUME NEW S, NEW a \in Seq(S), NEW b \in Seq(S), IsInjective(a), IsInjective(b),
           ToSet(a) \cap ToSet(b) = {}
    PROVE  /\ a \o b \in Seq(S) /\ IsInjective(a \o b) /\ ToSet(a \o b) = ToSet(a) \cup ToSet(b)
           /\ Follows(a \o b, a, b)
<1> DEFINE ab == a \o b
<1>1. Len(a) \in Nat /\ Len(b) \in Nat /\ DOMAIN a = 1 .. Len(a) /\ DOMAIN b = 1 .. Len(b)
  BY LenProperties
<1>2. /\ ab \in Seq(S) /\ Len(ab) = Len(a) + Len(b)
      /\ \A i \in 1 .. Len(a) + Len(b) : ab[i] = IF i <= Len(a) THEN a[i] ELSE b[i - Len(a)]
  BY ConcatProperties
<1>3. DOMAIN ab = 1 .. Len(a) + Len(b)  BY <1>2, LenProperties
<1> HIDE DEF ab
<1>4. \A i \in DOMAIN ab :
        \/ i \in DOMAIN a /\ ab[i] = a[i]
        \/ i - Len(a) \in DOMAIN b /\ ab[i] = b[i - Len(a)]
  <2> TAKE i \in DOMAIN ab
  <2>0. i \in 1 .. Len(a) + Len(b)  BY <1>3
  <2>1. CASE i <= Len(a)
    <3>1. i \in DOMAIN a  BY <1>1, <2>0, <2>1
    <3>2. ab[i] = a[i]  BY <1>2, <2>0, <2>1
    <3> QED BY <3>1, <3>2
  <2>2. CASE ~(i <= Len(a))
    <3>1. i - Len(a) \in DOMAIN b  BY <1>1, <2>0, <2>2
    <3>2. ab[i] = b[i - Len(a)]  BY <1>2, <2>0, <2>2
    <3> QED BY <3>1, <3>2
  <2> QED BY <2>1, <2>2
<1>5. \A i \in DOMAIN a : ab[i] = a[i] /\ i \in DOMAIN ab
  <2> TAKE i \in DOMAIN a
  <2>1. i \in 1 .. Len(a) + Len(b) /\ i <= Len(a)  BY <1>1
  <2> QED BY <2>1, <1>2, <1>3
<1>6. \A i \in DOMAIN b : ab[i + Len(a)] = b[i] /\ i + Len(a) \in DOMAIN ab
  <2> TAKE i \in DOMAIN b
  <2>1. i + Len(a) \in 1 .. Len(a) + Len(b) /\ ~(i + Len(a) <= Len(a)) /\ (i + Len(a)) - Len(a) = i  BY <1>1
  <2> QED BY <2>1, <1>2, <1>3
<1>7. ToSet(ab) = ToSet(a) \cup ToSet(b)
  <2>1. ToSet(ab) \subseteq ToSet(a) \cup ToSet(b)  BY <1>4 DEF ToSet
  <2>2. ToSet(a) \subseteq ToSet(ab)
    <3>1. \A i \in DOMAIN a : a[i] \in ToSet(ab)  BY <1>5 DEF ToSet
    <3> QED BY <3>1 DEF ToSet
  <2>3. ToSet(b) \subseteq ToSet(ab)
    <3>1. \A i \in DOMAIN b : b[i] \in ToSet(ab)  BY <1>6 DEF ToSet
    <3> QED BY <3>1 DEF ToSet
  <2> QED BY <2>1, <2>2, <2>3
<1>8. IsInjective(ab)
  <2>1. \A i \in DOMAIN a, j \in DOMAIN b : a[i] # b[j]  BY DEF ToSet
  <2>2. \A i, j \in DOMAIN ab : ab[i] = ab[j] => i = j
    <3> SUFFICES ASSUME NEW i \in DOMAIN ab, NEW j \in DOMAIN ab, ab[i] = ab[j] PROVE i = j
      OBVIOUS
    <3>1. CASE i \in DOMAIN a /\ ab[i] = a[i]
      <4>1. j \in DOMAIN a /\ ab[j] = a[j]  BY <3>1, <2>1, <1>4
      <4> QED BY <4>1, <3>1 DEF IsInjective
    <3>2. CASE i - Len(a) \in DOMAIN b /\ ab[i] = b[i - Len(a)]
      <4>1. j - Len(a) \in DOMAIN b /\ ab[j] = b[j - Len(a)]  BY <3>2, <2>1, <1>4
      <4>2. i - Len(a) = j - Len(a)  BY <4>1, <3>2 DEF IsInjective
      <4>3. i \in Int /\ j \in Int  BY <1>3, <1>1
      <4> QED BY <4>2, <4>3, <1>1
    <3> QED BY <3>1, <3>2, <1>4
  <2> QED BY <2>2 DEF IsInjective
<1>9. Follows(ab, a, b)  BY <1>3, <1>4 DEF Follows
<1> QED BY <1>2, <1>7, <1>8, <1>9 DEF ab

\* But for p, whoever is before another in f is so in q.
Keeps(f, q, p) ==
    \A i, j \in DOMAIN f : i < j /\ p \notin {f[i], f[j]} =>
        \E k, m \in DOMAIN q : k < m /\ q[k] = f[i] /\ q[m] = f[j]

\* One element of a sequence goes to its front; the others keep their order.
LEMMA FrontIsOnce ==
    ASSUME NEW S, NEW q \in Seq(S), IsInjective(q), NEW p \in ToSet(q)
    PROVE  LET f == <<p>> \o RemoveAt(q, Pos(q, p)) IN
           f \in Seq(S) /\ IsInjective(f) /\ ToSet(f) = ToSet(q) /\ Keeps(f, q, p)
<1> DEFINE k == Pos(q, p)
           r == RemoveAt(q, k)
           f == <<p>> \o r
           was(i) == IF i = 1 THEN k ELSE IF i <= k THEN i - 1 ELSE i
<1>1. Len(q) \in Nat /\ DOMAIN q = 1 .. Len(q) /\ \A i \in 1 .. Len(q) : q[i] \in S  BY LenProperties
<1>2. k \in 1 .. Len(q) /\ q[k] = p  BY PlaceIsOne
<1>3. p \in S  BY <1>1, <1>2
<1> HIDE DEF k
<1>4. /\ r \in Seq(S) /\ Len(r) = Len(q) - 1
      /\ \A i \in 1 .. Len(q) - 1 : r[i] = q[IF i < k THEN i ELSE i + 1]
  <2> DEFINE a == SubSeq(q, 1, k - 1)
             b == SubSeq(q, k + 1, Len(q))
  <2>0. k \in Int /\ 1 \in Int /\ k - 1 \in Int /\ k + 1 \in Int /\ Len(q) \in Int  BY <1>1, <1>2
  <2>1. a \in Seq(S) /\ Len(a) = k - 1 /\ \A i \in 1 .. k - 1 : a[i] = q[i]
    <3>1. \A i \in 1 .. k - 1 : q[i] \in S  BY <1>1, <1>2
    <3>2. /\ a \in Seq(S) /\ Len(a) = IF 1 <= k - 1 THEN (k - 1) - 1 + 1 ELSE 0
          /\ \A i \in 1 .. (k - 1) - 1 + 1 : a[i] = q[1 + i - 1]
      BY <2>0, <3>1, SubSeqProperties
    <3>3. Len(a) = k - 1  BY <3>2, <1>2
    <3>4. \A i \in 1 .. k - 1 : i \in 1 .. (k - 1) - 1 + 1 /\ 1 + i - 1 = i  BY <2>0
    <3> QED BY <3>2, <3>3, <3>4
  <2>2. b \in Seq(S) /\ Len(b) = Len(q) - k /\ \A i \in 1 .. Len(q) - k : b[i] = q[k + i]
    <3>1. \A i \in k + 1 .. Len(q) : q[i] \in S  BY <1>1, <1>2
    <3>2. /\ b \in Seq(S) /\ Len(b) = IF k + 1 <= Len(q) THEN Len(q) - (k + 1) + 1 ELSE 0
          /\ \A i \in 1 .. Len(q) - (k + 1) + 1 : b[i] = q[k + 1 + i - 1]
      BY <2>0, <3>1, SubSeqProperties
    <3>2a. Len(b) = IF k + 1 <= Len(q) THEN Len(q) - (k + 1) + 1 ELSE 0  BY <3>2
    <3>2b. k <= Len(q)  BY <1>2
    <3> HIDE DEF b
    <3>3. Len(b) = Len(q) - k  BY <3>2a, <3>2b, <2>0
    <3>4. \A i \in 1 .. Len(q) - k : i \in 1 .. Len(q) - (k + 1) + 1 /\ k + 1 + i - 1 = k + i  BY <2>0
    <3> QED BY <3>2, <3>3, <3>4
  <2>3. r = a \o b  BY DEF RemoveAt
  <2> HIDE DEF a, b, r
  <2>4. /\ r \in Seq(S) /\ Len(r) = Len(a) + Len(b)
        /\ \A i \in 1 .. Len(a) + Len(b) : r[i] = IF i <= Len(a) THEN a[i] ELSE b[i - Len(a)]
    BY <2>1, <2>2, <2>3, ConcatProperties
  <2>5. Len(r) = Len(q) - 1  BY <2>1, <2>2, <2>4, <1>1, <1>2
  <2>6. \A i \in 1 .. Len(q) - 1 : r[i] = q[IF i < k THEN i ELSE i + 1]
    <3> TAKE i \in 1 .. Len(q) - 1
    <3>0. Len(a) = k - 1 /\ i \in 1 .. Len(a) + Len(b)
      <4>1. Len(a) = k - 1 /\ Len(b) = Len(q) - k  BY <2>1, <2>2
      <4> QED BY <4>1, <2>0
    <3>1. r[i] = IF i <= k - 1 THEN a[i] ELSE b[i - (k - 1)]  BY <3>0, <2>4
    <3>2. CASE i < k
      <4>1. i \in 1 .. k - 1 /\ i <= k - 1  BY <3>2, <2>0
      <4>2. r[i] = q[i]  BY <4>1, <3>1, <2>1
      <4> QED BY <4>2, <3>2
    <3>3. CASE ~(i < k)
      <4>1. i - (k - 1) \in 1 .. Len(q) - k /\ ~(i <= k - 1) /\ k + (i - (k - 1)) = i + 1  BY <3>3, <2>0
      <4>2. r[i] = q[i + 1]  BY <4>1, <3>1, <2>2
      <4> QED BY <4>2, <3>3
    <3> QED BY <3>2, <3>3
  <2> QED BY <2>4, <2>5, <2>6
<1> HIDE DEF r
<1>5. <<p>> \in Seq(S) /\ Len(<<p>>) = 1 /\ <<p>>[1] = p  BY <1>3
<1>6. /\ f \in Seq(S) /\ Len(f) = 1 + (Len(q) - 1)
      /\ \A i \in 1 .. 1 + (Len(q) - 1) : f[i] = IF i <= 1 THEN <<p>>[i] ELSE r[i - 1]
  BY <1>4, <1>5, ConcatProperties
<1>7. Len(f) = Len(q)  BY <1>6, <1>1
<1>8. DOMAIN f = 1 .. Len(q)  BY <1>6, <1>7, LenProperties
<1> HIDE DEF f
<1>9. \A i \in 1 .. Len(q) : was(i) \in 1 .. Len(q) /\ f[i] = q[was(i)]
  <2> TAKE i \in 1 .. Len(q)
  <2>1. f[i] = IF i <= 1 THEN <<p>>[i] ELSE r[i - 1]  BY <1>6, <1>1
  <2>2. CASE i = 1
    <3>1. f[i] = p  BY <2>1, <2>2, <1>5
    <3> QED BY <3>1, <2>2, <1>2
  <2>3. CASE i # 1
    <3>1. i - 1 \in 1 .. Len(q) - 1 /\ ~(i <= 1) /\ i \in Int  BY <2>3, <1>1
    <3>2. f[i] = q[IF i - 1 < k THEN i - 1 ELSE i - 1 + 1]  BY <3>1, <2>1, <1>4
    <3>3. (i - 1 < k <=> i <= k) /\ i - 1 + 1 = i  BY <3>1, <1>2
    <3>4. f[i] = q[was(i)]  BY <3>2, <3>3, <2>3
    <3>5. i - 1 \in 1 .. Len(q)  BY <3>1, <1>1
    <3>6. was(i) \in 1 .. Len(q)  BY <3>5, <2>3
    <3> QED BY <3>4, <3>6
  <2> QED BY <2>2, <2>3
<1>10. \A i, j \in 1 .. Len(q) : i < j /\ i # 1 => was(i) < was(j)  BY <1>1, <1>2
<1>11. \A i, j \in 1 .. Len(q) : was(i) = was(j) => i = j  BY <1>1, <1>2
<1>12. \A i \in 1 .. Len(q) : \E j \in 1 .. Len(q) : was(j) = i
  <2> TAKE i \in 1 .. Len(q)
  <2>1. CASE i = k
    <3>1. 1 \in 1 .. Len(q) /\ was(1) = i  BY <2>1, <1>1, <1>2
    <3> QED BY <3>1
  <2>2. CASE i < k
    <3>1. i + 1 \in 1 .. Len(q) /\ was(i + 1) = i  BY <2>2, <1>1, <1>2
    <3> QED BY <3>1
  <2>3. CASE i > k
    <3>1. was(i) = i  BY <2>3, <1>1, <1>2
    <3> QED BY <3>1
  <2> QED BY <2>1, <2>2, <2>3, <1>1, <1>2
<1> HIDE DEF was
<1>13. IsInjective(f)
  <2>1. \A i, j \in 1 .. Len(q) : f[i] = f[j] => was(i) = was(j)  BY <1>9, <1>1 DEF IsInjective
  <2> QED BY <2>1, <1>8, <1>11 DEF IsInjective
<1>14. ToSet(f) = ToSet(q)
  <2>1. \A i \in 1 .. Len(q) : f[i] \in ToSet(q)  BY <1>9, <1>1 DEF ToSet
  <2>2. \A i \in 1 .. Len(q) : q[i] \in ToSet(f)
    <3> TAKE i \in 1 .. Len(q)
    <3>1. PICK j \in 1 .. Len(q) : was(j) = i  BY <1>12
    <3>2. f[j] = q[i]  BY <3>1, <1>9
    <3> QED BY <3>2, <1>8 DEF ToSet
  <2> QED BY <2>1, <2>2, <1>1, <1>8 DEF ToSet
<1>15. \A i, j \in DOMAIN f : i < j /\ p \notin {f[i], f[j]} =>
          \E n, m \in DOMAIN q : n < m /\ q[n] = f[i] /\ q[m] = f[j]
  <2> SUFFICES ASSUME NEW i \in 1 .. Len(q), NEW j \in 1 .. Len(q), i < j, p \notin {f[i], f[j]}
               PROVE  \E n, m \in DOMAIN q : n < m /\ q[n] = f[i] /\ q[m] = f[j]
    BY <1>8
  <2>1. i # 1
    <3>1. 1 \in 1 .. Len(q)  BY <1>1, <1>2
    <3>2. f[1] = p  BY <3>1, <1>6, <1>5, <1>1
    <3> QED BY <3>2
  <2>2. was(i) < was(j)  BY <2>1, <1>10
  <2>3. /\ was(i) \in DOMAIN q /\ q[was(i)] = f[i]
        /\ was(j) \in DOMAIN q /\ q[was(j)] = f[j]
    BY <1>1, <1>9
  <2> QED BY <2>2, <2>3
<1>16. Keeps(f, q, p)  BY <1>15 DEF Keeps
<1> QED BY <1>6, <1>13, <1>14, <1>16 DEF f, r, k

LEMMA FrontOf ==
    ASSUME NEW S, NEW q \in Seq(S), IsInjective(q), NEW p \in ToSet(q),
           NEW f, f = <<p>> \o RemoveAt(q, Pos(q, p))
    PROVE  f \in Seq(S) /\ IsInjective(f) /\ ToSet(f) = ToSet(q) /\ Keeps(f, q, p)
BY FrontIsOnce

\* A sequence goes by a relation, and so do two one after the other.
GoesBy(q, F) == \A i, j \in DOMAIN q : i < j => <<q[i], q[j]>> \in F

LEMMA AfterGoesBy ==
    ASSUME NEW S, NEW a \in Seq(S), NEW b \in Seq(S), IsInjective(a), IsInjective(b),
           ToSet(a) \cap ToSet(b) = {}, NEW F, GoesBy(a, F), GoesBy(b, F),
           \A x \in ToSet(a), y \in ToSet(b) : <<x, y>> \in F
    PROVE  GoesBy(a \o b, F)
<1> DEFINE ab == a \o b
<1>1. /\ DOMAIN ab = 1 .. Len(a) + Len(b)
      /\ \A i \in DOMAIN ab : \/ i \in DOMAIN a /\ ab[i] = a[i]
                              \/ i - Len(a) \in DOMAIN b /\ ab[i] = b[i - Len(a)]
  <2>1. Follows(ab, a, b)  BY AfterIsOnce
  <2> HIDE DEF ab
  <2> QED BY <2>1 DEF Follows
<1>2. Len(a) \in Nat /\ Len(b) \in Nat /\ DOMAIN a = 1 .. Len(a) /\ DOMAIN b = 1 .. Len(b)  BY LenProperties
<1> HIDE DEF ab
<1>3. \A i, j \in DOMAIN ab : i < j => <<ab[i], ab[j]>> \in F
  <2> SUFFICES ASSUME NEW i \in DOMAIN ab, NEW j \in DOMAIN ab, i < j PROVE <<ab[i], ab[j]>> \in F
    OBVIOUS
  <2>0. i \in Int /\ j \in Int  BY <1>1, <1>2
  <2>1. CASE i \in DOMAIN a /\ ab[i] = a[i]
    <3>1. CASE j \in DOMAIN a /\ ab[j] = a[j]
      <4>1. <<a[i], a[j]>> \in F  BY <2>1, <3>1 DEF GoesBy
      <4> QED BY <4>1, <2>1, <3>1
    <3>2. CASE j - Len(a) \in DOMAIN b /\ ab[j] = b[j - Len(a)]
      <4>1. a[i] \in ToSet(a) /\ b[j - Len(a)] \in ToSet(b)  BY <2>1, <3>2 DEF ToSet
      <4> QED BY <4>1, <2>1, <3>2
    <3> QED BY <3>1, <3>2, <1>1
  <2>2. CASE i - Len(a) \in DOMAIN b /\ ab[i] = b[i - Len(a)]
    <3>1. CASE j \in DOMAIN a /\ ab[j] = a[j]
      <4>1. i > Len(a) /\ j <= Len(a)  BY <2>0, <2>2, <3>1, <1>2
      <4> QED BY <4>1, <2>0, <1>2
    <3>2. CASE j - Len(a) \in DOMAIN b /\ ab[j] = b[j - Len(a)]
      <4>1. i - Len(a) < j - Len(a)  BY <2>0, <1>2
      <4>2. <<b[i - Len(a)], b[j - Len(a)]>> \in F  BY <2>2, <3>2, <4>1 DEF GoesBy
      <4> QED BY <4>2, <2>2, <3>2
    <3> QED BY <3>1, <3>2, <1>1
  <2> QED BY <2>1, <2>2, <1>1
<1> QED BY <1>3 DEF GoesBy, ab

\* What may come first in one tier, as long as its workers are ranked.
Class(ns, n) ==
    CASE modes[n] = "prefer" -> 1
      [] modes[n] = "avoid" -> 4
      [] OTHER -> IF Score(n) >= Best(ns, modes) - Band THEN 2 ELSE 3
TierFair(base, ns, a, b) ==
    \/ Class(ns, a) < Class(ns, b)
    \/ /\ Class(ns, a) = Class(ns, b)
       /\ IF Class(ns, a) \in {1, 2} THEN Pos(base, a) < Pos(base, b) ELSE Score(a) >= Score(b)

LEMMA BestIsInt ==
    ASSUME NEW ns \in SUBSET Hosts, \A n \in Hosts : Score(n) \in Int
    PROVE  Best(ns, modes) \in Int
<1> DEFINE A == {n \in ns : modes[n] = "none"}
           T == {Score(n) : n \in A}
           f == [n \in A |-> Score(n)]
<1>1. IsFiniteSet(A)  BY RankingAssumption, FS_Subset
<1>2. f \in Surjection(A, T)  BY DEF Surjection
<1>3. IsFiniteSet(T)
  <2> HIDE DEF A, T, f
  <2> QED BY <1>1, <1>2, FS_Surjection
<1>4. IsFiniteSet(T \cup {-1})
  <2> HIDE DEF T
  <2> QED BY <1>3, FS_AddElement
<1>5. T \cup {-1} \subseteq Int  OBVIOUS
<1>6. Max(T \cup {-1}) \in T \cup {-1}
  <2> HIDE DEF T
  <2> QED BY <1>4, <1>5, IntsHaveMax
<1>7. Best(ns, modes) = Max(T \cup {-1})  BY DEF Best
<1> HIDE DEF T
<1> QED BY <1>5, <1>6, <1>7

\* The orders by place and by score are orders.
LEMMA PlacesOrder ==
    ASSUME NEW ns \in SUBSET Hosts, NEW base \in SetToSeqs(ns), NEW S \in SUBSET ns
    PROVE  Orders({p \in S \X S : Sooner(base, p[1], p[2])}, S)
<1> DEFINE R == {p \in S \X S : Sooner(base, p[1], p[2])}
<1>0. IsFiniteSet(ns)  BY RankingAssumption, FS_Subset
<1>1. base \in Seq(ns) /\ IsInjective(base) /\ ToSet(base) = ns  BY <1>0, EachOnce
<1>2. \A x \in S : Pos(base, x) \in 1 .. Len(base) /\ base[Pos(base, x)] = x  BY <1>1, PlaceIsOne
<1>3. Len(base) \in Nat  BY <1>1, LenProperties
<1>4. \A x \in S : Pos(base, x) \in Int  BY <1>2, <1>3
<1>5. \A x, y \in S : x # y => Pos(base, x) # Pos(base, y)  BY <1>2
<1>6. \A x, y \in S : <<x, y>> \in R <=> Pos(base, x) < Pos(base, y)  BY DEF Sooner
<1> HIDE DEF R
<1>7. \A x, y \in S : x # y => <<x, y>> \in R \/ <<y, x>> \in R
  <2> TAKE x, y \in S
  <2>1. Pos(base, x) \in Int /\ Pos(base, y) \in Int /\ (x # y => Pos(base, x) # Pos(base, y))  BY <1>4, <1>5
  <2>2. x # y => Pos(base, x) < Pos(base, y) \/ Pos(base, y) < Pos(base, x)  BY <2>1
  <2> QED BY <2>2, <1>6
<1>8. \A x, y, z \in S : <<x, y>> \in R /\ <<y, z>> \in R => <<x, z>> \in R
  <2> TAKE x, y, z \in S
  <2>1. Pos(base, x) \in Int /\ Pos(base, y) \in Int /\ Pos(base, z) \in Int  BY <1>4
  <2>2. Pos(base, x) < Pos(base, y) /\ Pos(base, y) < Pos(base, z) => Pos(base, x) < Pos(base, z)  BY <2>1
  <2> QED BY <2>2, <1>6
<1> QED BY <1>7, <1>8 DEF Orders, R

LEMMA ScoresOrder ==
    ASSUME NEW ns \in SUBSET Hosts, NEW base \in SetToSeqs(ns), NEW S \in SUBSET ns,
           \A n \in Hosts : Score(n) \in Int
    PROVE  Orders({p \in S \X S : Better(base, p[1], p[2])}, S)
<1> DEFINE R == {p \in S \X S : Better(base, p[1], p[2])}
           before(x, y) == Score(x) > Score(y) \/ (Score(x) = Score(y) /\ Pos(base, x) < Pos(base, y))
<1>0. IsFiniteSet(ns)  BY RankingAssumption, FS_Subset
<1>1. base \in Seq(ns) /\ IsInjective(base) /\ ToSet(base) = ns  BY <1>0, EachOnce
<1>2. \A x \in S : Pos(base, x) \in 1 .. Len(base) /\ base[Pos(base, x)] = x  BY <1>1, PlaceIsOne
<1>3. Len(base) \in Nat  BY <1>1, LenProperties
<1>4. \A x \in S : Pos(base, x) \in Int /\ Score(x) \in Int  BY <1>2, <1>3
<1>5. \A x, y \in S : x # y => Pos(base, x) # Pos(base, y)  BY <1>2
<1>6. \A x, y \in S : <<x, y>> \in R <=> before(x, y)  BY DEF Better, Sooner
<1> HIDE DEF R
<1>7. \A x, y \in S : x # y => <<x, y>> \in R \/ <<y, x>> \in R
  <2> TAKE x, y \in S
  <2>1. Pos(base, x) \in Int /\ Pos(base, y) \in Int /\ (x # y => Pos(base, x) # Pos(base, y))
        /\ Score(x) \in Int /\ Score(y) \in Int
    BY <1>4, <1>5
  <2>2. x # y => before(x, y) \/ before(y, x)  BY <2>1
  <2> QED BY <2>2, <1>6
<1>8. \A x, y, z \in S : <<x, y>> \in R /\ <<y, z>> \in R => <<x, z>> \in R
  <2> TAKE x, y, z \in S
  <2>1. Pos(base, x) \in Int /\ Pos(base, y) \in Int /\ Pos(base, z) \in Int
        /\ Score(x) \in Int /\ Score(y) \in Int /\ Score(z) \in Int
    BY <1>4
  <2>2. before(x, y) /\ before(y, z) => before(x, z)  BY <2>1
  <2> QED BY <2>2, <1>6
<1> QED BY <1>7, <1>8 DEF Orders, R

LEMMA InOrderGives ==
    ASSUME NEW ns \in SUBSET Hosts, NEW base \in SetToSeqs(ns), NEW S \in SUBSET ns
    PROVE  LET q == InOrder(base, S) IN
           /\ q \in Seq(Hosts) /\ IsInjective(q) /\ ToSet(q) = S
           /\ \A i, j \in DOMAIN q : i < j => Pos(base, q[i]) < Pos(base, q[j])
<1> DEFINE R == {p \in S \X S : Sooner(base, p[1], p[2])}
           q == Sorted(S, R)
<1>1. IsFiniteSet(S)  BY RankingAssumption, FS_Subset
<1>2. Orders(R, S)  BY PlacesOrder
<1>3. InOrder(base, S) = q  BY DEF InOrder
<1>4. /\ q \in Seq(S) /\ IsInjective(q) /\ ToSet(q) = S
      /\ \A i, j \in DOMAIN q : i < j => <<q[i], q[j]>> \in R
  <2> HIDE DEF R
  <2> QED BY <1>1, <1>2, SortedSorts
<1> HIDE DEF q
<1>5. q \in Seq(Hosts)  BY <1>4, SeqMonotonic
<1>6. \A i, j \in DOMAIN q : i < j => Pos(base, q[i]) < Pos(base, q[j])  BY <1>4 DEF Sooner
<1> QED BY <1>3, <1>4, <1>5, <1>6

LEMMA ByScoreGives ==
    ASSUME NEW ns \in SUBSET Hosts, NEW base \in SetToSeqs(ns), NEW S \in SUBSET ns,
           \A n \in Hosts : Score(n) \in Int
    PROVE  LET q == ByScore(base, S) IN
           /\ q \in Seq(Hosts) /\ IsInjective(q) /\ ToSet(q) = S
           /\ \A i, j \in DOMAIN q : i < j => Score(q[i]) >= Score(q[j])
<1> DEFINE R == {p \in S \X S : Better(base, p[1], p[2])}
           q == Sorted(S, R)
<1>1. IsFiniteSet(S)  BY RankingAssumption, FS_Subset
<1>2. Orders(R, S)  BY ScoresOrder
<1>3. ByScore(base, S) = q  BY DEF ByScore
<1>4. /\ q \in Seq(S) /\ IsInjective(q) /\ ToSet(q) = S
      /\ \A i, j \in DOMAIN q : i < j => <<q[i], q[j]>> \in R
  <2> HIDE DEF R
  <2> QED BY <1>1, <1>2, SortedSorts
<1> HIDE DEF q
<1>5. q \in Seq(Hosts)  BY <1>4, SeqMonotonic
<1>6. \A i, j \in DOMAIN q : i < j => Score(q[i]) >= Score(q[j])
  <2> SUFFICES ASSUME NEW i \in DOMAIN q, NEW j \in DOMAIN q, i < j PROVE Score(q[i]) >= Score(q[j])
    OBVIOUS
  <2>1. <<q[i], q[j]>> \in S \X S /\ Better(base, q[i], q[j])  BY <1>4
  <2>2. q[i] \in Hosts /\ q[j] \in Hosts  BY <2>1
  <2>3. Score(q[i]) \in Int /\ Score(q[j]) \in Int  BY <2>2
  <2> QED BY <2>1, <2>3 DEF Better
<1> QED BY <1>3, <1>4, <1>5, <1>6

\* One tier: everybody that is not excluded once, the preferred first, those
\* near the best as they were, the others by score and the avoided last.
LEMMA TierRanked ==
    ASSUME NEW ns \in SUBSET Hosts, NEW base \in SetToSeqs(ns), \A n \in Hosts : Score(n) \in Int,
           modes \in [Hosts -> Modes]
    PROVE  LET r == RankTier(base) IN
           /\ r \in Seq(Hosts) /\ IsInjective(r) /\ ToSet(r) = {n \in ns : modes[n] # "exclude"}
           /\ \A i, j \in DOMAIN r : i < j => TierFair(base, ns, r[i], r[j])
<1> DEFINE With(mode) == {n \in ns : modes[n] = mode}
           behind == {n \in With("none") : Score(n) < Best(ns, modes) - Band}
           near == With("none") \ behind
           a == InOrder(base, With("prefer"))
           b == InOrder(base, near)
           c == ByScore(base, behind)
           d == ByScore(base, With("avoid"))
           F == {p \in ns \X ns : TierFair(base, ns, p[1], p[2])}
<1>1. IsFiniteSet(ns)  BY RankingAssumption, FS_Subset
<1>2. ToSet(base) = ns  BY <1>1, EachOnce
<1>3. RankTier(base) = ((a \o b) \o c) \o d  BY <1>2 DEF RankTier
<1>4. Best(ns, modes) - Band \in Int  BY BestIsInt, RankingAssumption
<1>5. \A n \in ns : Score(n) \in Int /\ n \in Hosts  OBVIOUS
<1>6. /\ \A n \in With("prefer") : Class(ns, n) = 1
      /\ \A n \in near : Class(ns, n) = 2
      /\ \A n \in behind : Class(ns, n) = 3
      /\ \A n \in With("avoid") : Class(ns, n) = 4
  <2>1. \A n \in With("prefer") : Class(ns, n) = 1  BY DEF Class
  <2>2. \A n \in With("avoid") : Class(ns, n) = 4  BY DEF Class
  <2>3. \A n \in With("none") : Class(ns, n) = IF Score(n) >= Best(ns, modes) - Band THEN 2 ELSE 3
    BY DEF Class
  <2>4. \A n \in near : Score(n) >= Best(ns, modes) - Band  BY <1>4, <1>5
  <2>5. \A n \in behind : ~(Score(n) >= Best(ns, modes) - Band)  BY <1>4, <1>5
  <2> QED BY <2>1, <2>2, <2>3, <2>4, <2>5
<1>7. /\ With("prefer") \in SUBSET ns /\ near \in SUBSET ns /\ behind \in SUBSET ns /\ With("avoid") \in SUBSET ns
      /\ With("prefer") \cap near = {} /\ (With("prefer") \cup near) \cap behind = {}
      /\ ((With("prefer") \cup near) \cup behind) \cap With("avoid") = {}
  OBVIOUS
<1>8. ((With("prefer") \cup near) \cup behind) \cup With("avoid") = {n \in ns : modes[n] # "exclude"}
  <2>1. \A n \in ns : modes[n] \in Modes  BY <1>5
  <2>2. \A n \in ns : modes[n] # "exclude" <=> modes[n] \in {"prefer", "none", "avoid"}  BY <2>1 DEF Modes
  <2> QED BY <2>2
<1> DEFINE P == With("prefer")
           V == With("avoid")
<1> HIDE DEF With, near, behind, P, V
<1>9. /\ a \in Seq(Hosts) /\ IsInjective(a) /\ ToSet(a) = P
      /\ \A i, j \in DOMAIN a : i < j => Pos(base, a[i]) < Pos(base, a[j])
  BY <1>7, InOrderGives DEF P
<1>10. /\ b \in Seq(Hosts) /\ IsInjective(b) /\ ToSet(b) = near
       /\ \A i, j \in DOMAIN b : i < j => Pos(base, b[i]) < Pos(base, b[j])
  BY <1>7, InOrderGives
<1>11. /\ c \in Seq(Hosts) /\ IsInjective(c) /\ ToSet(c) = behind
       /\ \A i, j \in DOMAIN c : i < j => Score(c[i]) >= Score(c[j])
  BY <1>7, ByScoreGives
<1>12. /\ d \in Seq(Hosts) /\ IsInjective(d) /\ ToSet(d) = V
       /\ \A i, j \in DOMAIN d : i < j => Score(d[i]) >= Score(d[j])
  BY <1>7, ByScoreGives DEF V
<1> HIDE DEF a, b, c, d
<1>13. /\ P \subseteq ns /\ near \subseteq ns /\ behind \subseteq ns /\ V \subseteq ns
       /\ P \cap near = {} /\ (P \cup near) \cap behind = {} /\ ((P \cup near) \cup behind) \cap V = {}
       /\ ((P \cup near) \cup behind) \cup V = {n \in ns : modes[n] # "exclude"}
       /\ \A n \in P : Class(ns, n) = 1
       /\ \A n \in near : Class(ns, n) = 2
       /\ \A n \in behind : Class(ns, n) = 3
       /\ \A n \in V : Class(ns, n) = 4
  BY <1>6, <1>7, <1>8 DEF P, V
<1>14. \A x, y \in ns : <<x, y>> \in F <=> TierFair(base, ns, x, y)  OBVIOUS
<1> HIDE DEF F
<1>15. \A x, y \in ns : Class(ns, x) \in {1, 2} /\ Class(ns, x) = Class(ns, y) /\ Pos(base, x) < Pos(base, y) => <<x, y>> \in F
  BY <1>14 DEF TierFair
<1>16. \A x, y \in ns : Class(ns, x) \in {3, 4} /\ Class(ns, x) = Class(ns, y) /\ Score(x) >= Score(y) => <<x, y>> \in F
  <2> SUFFICES ASSUME NEW x \in ns, NEW y \in ns, Class(ns, x) \in {3, 4}, Class(ns, x) = Class(ns, y), Score(x) >= Score(y)
               PROVE  TierFair(base, ns, x, y)
    BY <1>14
  <2>1. Class(ns, x) \notin {1, 2}  OBVIOUS
  <2> QED BY <2>1 DEF TierFair
<1>17. \A x, y \in ns : Class(ns, x) < Class(ns, y) => <<x, y>> \in F
  BY <1>14 DEF TierFair
<1>18. GoesBy(a, F)
  <2>1. \A i \in DOMAIN a : a[i] \in P  BY <1>9 DEF ToSet
  <2>2. \A i \in DOMAIN a : a[i] \in ns /\ Class(ns, a[i]) = 1  BY <2>1, <1>13
  <2>3. \A i, j \in DOMAIN a : i < j => <<a[i], a[j]>> \in F  BY <2>2, <1>9, <1>15
  <2> QED BY <2>3 DEF GoesBy
<1>19. GoesBy(b, F)
  <2>1. \A i \in DOMAIN b : b[i] \in near  BY <1>10 DEF ToSet
  <2>2. \A i \in DOMAIN b : b[i] \in ns /\ Class(ns, b[i]) = 2  BY <2>1, <1>13
  <2>3. \A i, j \in DOMAIN b : i < j => <<b[i], b[j]>> \in F  BY <2>2, <1>10, <1>15
  <2> QED BY <2>3 DEF GoesBy
<1>20. GoesBy(c, F)
  <2>1. \A i \in DOMAIN c : c[i] \in behind  BY <1>11 DEF ToSet
  <2>2. \A i \in DOMAIN c : c[i] \in ns /\ Class(ns, c[i]) = 3  BY <2>1, <1>13
  <2>3. \A i, j \in DOMAIN c : i < j => <<c[i], c[j]>> \in F  BY <2>2, <1>11, <1>16
  <2> QED BY <2>3 DEF GoesBy
<1>21. GoesBy(d, F)
  <2>1. \A i \in DOMAIN d : d[i] \in V  BY <1>12 DEF ToSet
  <2>2. \A i \in DOMAIN d : d[i] \in ns /\ Class(ns, d[i]) = 4  BY <2>1, <1>13
  <2>3. \A i, j \in DOMAIN d : i < j => <<d[i], d[j]>> \in F  BY <2>2, <1>12, <1>16
  <2> QED BY <2>3 DEF GoesBy
<1>22. \A n \in P : n \in ns /\ Class(ns, n) < 2 /\ Class(ns, n) < 3 /\ Class(ns, n) < 4  BY <1>13
<1>23. \A n \in near : n \in ns /\ Class(ns, n) < 3 /\ Class(ns, n) < 4  BY <1>13
<1>24. \A n \in behind : n \in ns /\ Class(ns, n) < 4  BY <1>13
<1>25. /\ \A x \in P, y \in near : <<x, y>> \in F
       /\ \A x \in P \cup near, y \in behind : <<x, y>> \in F
       /\ \A x \in (P \cup near) \cup behind, y \in V : <<x, y>> \in F
  <2>1. \A x \in P, y \in near : <<x, y>> \in F
    <3> TAKE x \in P, y \in near
    <3>1. x \in ns /\ y \in ns /\ Class(ns, x) < Class(ns, y)  BY <1>13, <1>22
    <3> QED BY <3>1, <1>17
  <2>2. \A x \in P \cup near, y \in behind : <<x, y>> \in F
    <3> TAKE x \in P \cup near, y \in behind
    <3>1. x \in ns /\ y \in ns /\ Class(ns, x) < Class(ns, y)  BY <1>13, <1>22, <1>23
    <3> QED BY <3>1, <1>17
  <2>3. \A x \in (P \cup near) \cup behind, y \in V : <<x, y>> \in F
    <3> TAKE x \in (P \cup near) \cup behind, y \in V
    <3>1. x \in ns /\ y \in ns /\ Class(ns, x) < Class(ns, y)  BY <1>13, <1>22, <1>23, <1>24
    <3> QED BY <3>1, <1>17
  <2> QED BY <2>1, <2>2, <2>3
<1>26. /\ a \o b \in Seq(Hosts) /\ IsInjective(a \o b) /\ ToSet(a \o b) = P \cup near
       /\ GoesBy(a \o b, F)
  <2>1. ToSet(a) \cap ToSet(b) = {}  BY <1>9, <1>10, <1>13
  <2>2. a \o b \in Seq(Hosts) /\ IsInjective(a \o b) /\ ToSet(a \o b) = P \cup near
    BY <2>1, <1>9, <1>10, AfterIsOnce
  <2>3. \A x \in ToSet(a), y \in ToSet(b) : <<x, y>> \in F  BY <1>9, <1>10, <1>25
  <2>4. GoesBy(a \o b, F)  BY <2>1, <2>3, <1>9, <1>10, <1>18, <1>19, AfterGoesBy
  <2> QED BY <2>2, <2>4
<1> DEFINE e == a \o b
           g == e \o c
           r == g \o d
<1>27. /\ e \in Seq(Hosts) /\ IsInjective(e) /\ ToSet(e) = P \cup near /\ GoesBy(e, F)
  BY <1>26
<1>28. r = RankTier(base)  BY <1>3
<1> HIDE DEF e
<1>29. /\ g \in Seq(Hosts) /\ IsInjective(g) /\ ToSet(g) = (P \cup near) \cup behind /\ GoesBy(g, F)
  <2>1. ToSet(e) \cap ToSet(c) = {}  BY <1>27, <1>11, <1>13
  <2>2. g \in Seq(Hosts) /\ IsInjective(g) /\ ToSet(g) = (P \cup near) \cup behind
    BY <2>1, <1>27, <1>11, AfterIsOnce
  <2>3. \A x \in ToSet(e), y \in ToSet(c) : <<x, y>> \in F  BY <1>27, <1>11, <1>25
  <2>4. GoesBy(g, F)  BY <2>1, <2>3, <1>27, <1>11, <1>20, AfterGoesBy
  <2> QED BY <2>2, <2>4
<1> HIDE DEF g
<1>30. /\ r \in Seq(Hosts) /\ IsInjective(r) /\ ToSet(r) = ((P \cup near) \cup behind) \cup V /\ GoesBy(r, F)
  <2>1. ToSet(g) \cap ToSet(d) = {}  BY <1>29, <1>12, <1>13
  <2>2. r \in Seq(Hosts) /\ IsInjective(r) /\ ToSet(r) = ((P \cup near) \cup behind) \cup V
    BY <2>1, <1>29, <1>12, AfterIsOnce
  <2>3. \A x \in ToSet(g), y \in ToSet(d) : <<x, y>> \in F  BY <1>29, <1>12, <1>25
  <2>4. GoesBy(r, F)  BY <2>1, <2>3, <1>29, <1>12, <1>21, AfterGoesBy
  <2> QED BY <2>2, <2>4
<1> HIDE DEF r
<1>31. \A i, j \in DOMAIN r : i < j => TierFair(base, ns, r[i], r[j])
  <2>1. ToSet(r) \subseteq ns  BY <1>30, <1>13
  <2>2. \A i \in DOMAIN r : r[i] \in ns  BY <2>1 DEF ToSet
  <2>3. \A i, j \in DOMAIN r : i < j => <<r[i], r[j]>> \in F  BY <1>30 DEF GoesBy
  <2> QED BY <2>2, <2>3, <1>14
<1>32. ToSet(r) = {n \in ns : modes[n] # "exclude"}  BY <1>30, <1>13
<1> QED BY <1>28, <1>30, <1>31, <1>32

-----------------------------------------------------------------------------
(* The scopes of a worker.                                                 *)

\* What a worker's scopes are: numbers, all viewers among them and with most.
ScopeRows == [good: Nat, all: Nat, at: Nat]
ScopesFit(m) ==
    /\ IsFiniteSet(DOMAIN m) /\ Cardinality(DOMAIN m) <= MaxScopes
    /\ m \in [DOMAIN m -> ScopeRows]
ScopesGood(m) ==
    /\ ScopesFit(m)
    /\ DOMAIN m # {} => {} \in DOMAIN m /\ \A k \in DOMAIN m : m[k].all <= m[{}].all

\* While an outcome is counted: all viewers have it, the scopes not done do not.
Counting(m, done) ==
    /\ ScopesFit(m) /\ {} \in DOMAIN m
    /\ 4 <= m[{}].all
    /\ \A k \in DOMAIN m : k # {} =>
          IF k \in done THEN m[k].all <= m[{}].all ELSE m[k].all + 4 <= m[{}].all

LEMMA RoomIsMade ==
    ASSUME NEW m, ScopesFit(m), DOMAIN m # {} => {} \in DOMAIN m, NEW r \in Room(m)
    PROVE  /\ IsFiniteSet(DOMAIN r) /\ Cardinality(DOMAIN r) < MaxScopes
           /\ DOMAIN r \subseteq DOMAIN m /\ (DOMAIN m # {} => {} \in DOMAIN r)
           /\ \A k \in DOMAIN r : r[k] = m[k]
<1> DEFINE narrow == DOMAIN m \ {{}}
           Without(x) == [k \in DOMAIN m \ {x} |-> m[k]]
<1>0. IsFiniteSet(DOMAIN m) /\ Cardinality(DOMAIN m) <= MaxScopes /\ Cardinality(DOMAIN m) \in Nat
  BY FS_CardinalityType DEF ScopesFit
<1>00. MaxScopes \in Nat /\ 1 < MaxScopes  BY RankingAssumption
<1>1. CASE Cardinality(DOMAIN m) < MaxScopes
  <2>1. r = m  BY <1>1 DEF Room
  <2> QED BY <2>1, <1>0, <1>1
<1>2. CASE ~(Cardinality(DOMAIN m) < MaxScopes) /\ narrow = {}
  <2>1. DOMAIN m = {} \/ DOMAIN m = {{}}  BY <1>2
  <2>2. Cardinality(DOMAIN m) <= 1
    <3>1. Cardinality({}) = 0  BY FS_EmptySet
    <3>2. Cardinality({{}}) = 1  BY FS_Singleton
    <3>3. Cardinality(DOMAIN m) = 0 \/ Cardinality(DOMAIN m) = 1  BY <2>1, <3>1, <3>2
    <3> QED BY <3>3
  <2> QED BY <2>2, <1>0, <1>00, <1>2
<1>3. CASE ~(Cardinality(DOMAIN m) < MaxScopes) /\ narrow # {}
  <2>1. PICK x \in narrow : r = Without(x)  BY <1>3 DEF Room
  <2>2. DOMAIN r = DOMAIN m \ {x} /\ x \in DOMAIN m /\ x # {}  BY <2>1
  <2>3. IsFiniteSet(DOMAIN r) /\ Cardinality(DOMAIN r) = Cardinality(DOMAIN m) - 1
    BY <2>2, <1>0, FS_RemoveElement
  <2>4. Cardinality(DOMAIN r) < MaxScopes  BY <2>3, <1>0, <1>00
  <2>5. \A k \in DOMAIN r : r[k] = m[k]  BY <2>1
  <2> QED BY <2>2, <2>3, <2>4, <2>5
<1> QED BY <1>1, <1>2, <1>3

\* What is counted in one scope.
LEMMA OneCounted ==
    ASSUME NEW m, ScopesFit(m), DOMAIN m # {} => {} \in DOMAIN m, NEW key, NEW good,
           halvings \in Nat, NEW r \in Counted(m, key, good)
    PROVE  /\ ScopesFit(r) /\ key \in DOMAIN r
           /\ DOMAIN r \subseteq DOMAIN m \cup {key} /\ (DOMAIN m # {} => {} \in DOMAIN r)
           /\ \A k \in DOMAIN r \ {key} : k \in DOMAIN m /\ r[k] = m[k]
           /\ r[key].all = IF key \in DOMAIN m THEN m[key].all + 4 ELSE 4
<1> DEFINE old == IF key \in DOMAIN m THEN m[key] ELSE [good |-> 0, all |-> 0, at |-> 0]
           new == [good |-> old.good + (IF good THEN 4 ELSE 0), all |-> old.all + 4, at |-> halvings]
           Put(b) == [k \in DOMAIN b \cup {key} |-> IF k = key THEN new ELSE b[k]]
<1>1. PICK b \in (IF key \in DOMAIN m THEN {m} ELSE Room(m)) : r = Put(b)  BY DEF Counted
<1>2. \A k \in DOMAIN m : m[k] \in ScopeRows  BY DEF ScopesFit
<1>3. old \in ScopeRows
  <2>1. CASE key \in DOMAIN m  BY <2>1, <1>2
  <2>2. CASE key \notin DOMAIN m  BY <2>2 DEF ScopeRows
  <2> QED BY <2>1, <2>2
<1>4. new \in ScopeRows /\ new.all = old.all + 4
  <2> HIDE DEF old
  <2>1. old.good \in Nat /\ old.all \in Nat  BY <1>3 DEF ScopeRows
  <2>2. old.good + (IF good THEN 4 ELSE 0) \in Nat  BY <2>1
  <2> QED BY <2>1, <2>2 DEF ScopeRows
<1>5. old.all + 4 = IF key \in DOMAIN m THEN m[key].all + 4 ELSE 4  OBVIOUS
<1> HIDE DEF new, old
<1>6. /\ IsFiniteSet(DOMAIN b) /\ IsFiniteSet(DOMAIN b \cup {key})
      /\ Cardinality(DOMAIN b \cup {key}) <= MaxScopes
      /\ DOMAIN b \subseteq DOMAIN m /\ (DOMAIN m # {} => {} \in DOMAIN b \cup {key})
      /\ \A k \in DOMAIN b : b[k] = m[k]
  <2>1. CASE key \in DOMAIN m
    <3>1. b = m  BY <1>1, <2>1
    <3>2. DOMAIN b \cup {key} = DOMAIN m  BY <3>1, <2>1
    <3> QED BY <3>1, <3>2 DEF ScopesFit
  <2>2. CASE key \notin DOMAIN m
    <3>1. b \in Room(m)  BY <1>1, <2>2
    <3>2. /\ IsFiniteSet(DOMAIN b) /\ Cardinality(DOMAIN b) < MaxScopes
          /\ DOMAIN b \subseteq DOMAIN m /\ (DOMAIN m # {} => {} \in DOMAIN b)
          /\ \A k \in DOMAIN b : b[k] = m[k]
      BY <3>1, RoomIsMade
    <3>3. /\ IsFiniteSet(DOMAIN b \cup {key})
          /\ Cardinality(DOMAIN b \cup {key}) = IF key \in DOMAIN b THEN Cardinality(DOMAIN b) ELSE Cardinality(DOMAIN b) + 1
      BY <3>2, FS_AddElement
    <3>4. Cardinality(DOMAIN b) \in Nat /\ MaxScopes \in Nat  BY <3>2, FS_CardinalityType, RankingAssumption
    <3>5. Cardinality(DOMAIN b \cup {key}) <= MaxScopes  BY <3>2, <3>3, <3>4
    <3> QED BY <3>2, <3>3, <3>5
  <2> QED BY <2>1, <2>2
<1>7. DOMAIN r = DOMAIN b \cup {key}  BY <1>1
<1>8. \A k \in DOMAIN r : r[k] = IF k = key THEN new ELSE m[k]  BY <1>1, <1>6
<1>9. \A k \in DOMAIN r : r[k] \in ScopeRows  BY <1>2, <1>4, <1>6, <1>7, <1>8
<1>10. r \in [DOMAIN r -> ScopeRows]
  <2>1. r = [k \in DOMAIN r |-> r[k]]  BY <1>1
  <2> QED BY <2>1, <1>9
<1>11. ScopesFit(r)  BY <1>6, <1>7, <1>10 DEF ScopesFit
<1>12. r[key] = new /\ key \in DOMAIN r  BY <1>7, <1>8
<1>13. \A k \in DOMAIN r \ {key} : k \in DOMAIN m /\ r[k] = m[k]  BY <1>6, <1>7, <1>8
<1> QED BY <1>4, <1>5, <1>6, <1>7, <1>11, <1>12, <1>13

LEMMA CountsAll ==
    ASSUME NEW m, ScopesGood(m), NEW good, halvings \in Nat, NEW r \in Counted(m, {}, good)
    PROVE  Counting(r, {})
<1>1. /\ ScopesFit(r) /\ {} \in DOMAIN r
      /\ \A k \in DOMAIN r \ {{}} : k \in DOMAIN m /\ r[k] = m[k]
      /\ r[{}].all = IF {} \in DOMAIN m THEN m[{}].all + 4 ELSE 4
  BY OneCounted DEF ScopesGood
<1>2. \A k \in DOMAIN m : m[k].all \in Nat
  <2>1. \A k \in DOMAIN m : m[k] \in ScopeRows  BY DEF ScopesGood, ScopesFit
  <2> QED BY <2>1 DEF ScopeRows
<1>3. 4 <= r[{}].all  BY <1>1, <1>2
<1>4. \A k \in DOMAIN r : k # {} => r[k].all + 4 <= r[{}].all
  <2> SUFFICES ASSUME NEW k \in DOMAIN r, k # {} PROVE r[k].all + 4 <= r[{}].all
    OBVIOUS
  <2>1. k \in DOMAIN m /\ r[k] = m[k]  BY <1>1
  <2>2. {} \in DOMAIN m /\ m[k].all <= m[{}].all  BY <2>1 DEF ScopesGood
  <2>3. m[k].all \in Nat /\ m[{}].all \in Nat  BY <2>1, <2>2, <1>2
  <2> QED BY <2>1, <2>2, <2>3, <1>1
<1> QED BY <1>1, <1>3, <1>4 DEF Counting

LEMMA CountsNarrow ==
    ASSUME NEW m, NEW done, Counting(m, done), NEW key, key # {}, key \notin done, NEW good,
           halvings \in Nat, NEW r \in Counted(m, key, good)
    PROVE  Counting(r, done \cup {key})
<1>1. /\ ScopesFit(r) /\ {} \in DOMAIN r /\ key \in DOMAIN r
      /\ \A k \in DOMAIN r \ {key} : k \in DOMAIN m /\ r[k] = m[k]
      /\ r[key].all = IF key \in DOMAIN m THEN m[key].all + 4 ELSE 4
  BY OneCounted DEF Counting
<1>2. r[{}] = m[{}] /\ {} \in DOMAIN m  BY <1>1
<1>3. 4 <= r[{}].all  BY <1>2 DEF Counting
<1>4. \A k \in DOMAIN r : k # {} =>
        IF k \in done \cup {key} THEN r[k].all <= r[{}].all ELSE r[k].all + 4 <= r[{}].all
  <2> SUFFICES ASSUME NEW k \in DOMAIN r, k # {}
               PROVE  IF k \in done \cup {key} THEN r[k].all <= r[{}].all ELSE r[k].all + 4 <= r[{}].all
    OBVIOUS
  <2>1. CASE k = key
    <3>1. CASE key \in DOMAIN m
      <4>1. m[key].all + 4 <= m[{}].all  BY <3>1 DEF Counting
      <4>2. r[k].all <= r[{}].all  BY <4>1, <3>1, <2>1, <1>1, <1>2
      <4> QED BY <4>2, <2>1
    <3>2. CASE key \notin DOMAIN m
      <4>1. r[k].all <= r[{}].all  BY <3>2, <2>1, <1>1, <1>3
      <4> QED BY <4>1, <2>1
    <3> QED BY <3>1, <3>2
  <2>2. CASE k # key
    <3>1. k \in DOMAIN m /\ r[k] = m[k] /\ (k \in done \cup {key} <=> k \in done)  BY <2>2, <1>1
    <3>2. IF k \in done THEN m[k].all <= m[{}].all ELSE m[k].all + 4 <= m[{}].all  BY <3>1 DEF Counting
    <3> QED BY <3>1, <3>2, <1>2
  <2> QED BY <2>1, <2>2
<1> QED BY <1>1, <1>3, <1>4 DEF Counting

\* What is not done may be called done.
LEMMA MoreIsDone ==
    ASSUME NEW m, NEW done, Counting(m, done), NEW key
    PROVE  Counting(m, done \cup {key})
<1>1. \A k \in DOMAIN m : m[k].all \in Nat
  <2>1. \A k \in DOMAIN m : m[k] \in ScopeRows  BY DEF Counting, ScopesFit
  <2> QED BY <2>1 DEF ScopeRows
<1>2. \A k \in DOMAIN m : k # {} =>
        IF k \in done \cup {key} THEN m[k].all <= m[{}].all ELSE m[k].all + 4 <= m[{}].all
  <2> SUFFICES ASSUME NEW k \in DOMAIN m, k # {}
               PROVE  IF k \in done \cup {key} THEN m[k].all <= m[{}].all ELSE m[k].all + 4 <= m[{}].all
    OBVIOUS
  <2>1. m[k].all \in Nat /\ m[{}].all \in Nat  BY <1>1 DEF Counting
  <2>2. IF k \in done THEN m[k].all <= m[{}].all ELSE m[k].all + 4 <= m[{}].all  BY DEF Counting
  <2>3. m[k].all <= m[{}].all  BY <2>1, <2>2
  <2>4. k \notin done \cup {key} => k \notin done  OBVIOUS
  <2> QED BY <2>2, <2>3, <2>4
<1> QED BY <1>2 DEF Counting

\* An outcome leaves the scopes as they have to be.
LEMMA ObservedGood ==
    ASSUME NEW n, ScopesGood(tracked[n]), NEW labels, NEW good, halvings \in Nat,
           NEW r \in Observed(n, labels, good)
    PROVE  ScopesGood(r)
<1> DEFINE Step(maps, key) == IF key \subseteq labels THEN UNION {Counted(m, key, good) : m \in maps} ELSE maps
           All(maps, done) == \A m \in maps : Counting(m, done)
           M0 == Counted(tracked[n], {}, good)
           M1 == Step(M0, {"eu"})
           M2 == Step(M1, {"tv"})
           M3 == Step(M2, {"eu", "tv"})
<1>1. ASSUME NEW maps, NEW done, All(maps, done), NEW key, key # {}, key \notin done
      PROVE  All(Step(maps, key), done \cup {key})
  <2> SUFFICES ASSUME NEW s \in Step(maps, key) PROVE Counting(s, done \cup {key})
    OBVIOUS
  <2>1. CASE key \subseteq labels
    <3>1. PICK m \in maps : s \in Counted(m, key, good)  BY <2>1
    <3>2. Counting(m, done)  BY <1>1
    <3> QED BY <3>1, <3>2, <1>1, CountsNarrow
  <2>2. CASE ~(key \subseteq labels)
    <3>1. Counting(s, done)  BY <2>2, <1>1
    <3> QED BY <3>1, MoreIsDone
  <2> QED BY <2>1, <2>2
<1>2. All(M0, {})  BY CountsAll
<1>3. r \in M3  BY DEF Observed
<1> HIDE DEF All, Step, M0
<1>4. All(M1, {} \cup {{"eu"}})
  <2>1. {"eu"} # {} /\ {"eu"} \notin {}  OBVIOUS
  <2> QED BY <2>1, <1>1, <1>2
<1> HIDE DEF M1
<1>5. All(M2, ({} \cup {{"eu"}}) \cup {{"tv"}})
  <2>1. {"tv"} # {} /\ {"tv"} \notin {} \cup {{"eu"}}  OBVIOUS
  <2> QED BY <2>1, <1>1, <1>4
<1> HIDE DEF M2
<1>6. All(M3, (({} \cup {{"eu"}}) \cup {{"tv"}}) \cup {{"eu", "tv"}})
  <2>1. {"eu", "tv"} # {} /\ {"eu", "tv"} \notin ({} \cup {{"eu"}}) \cup {{"tv"}}  OBVIOUS
  <2> QED BY <2>1, <1>1, <1>5
<1> HIDE DEF M3
<1> DEFINE done == (({} \cup {{"eu"}}) \cup {{"tv"}}) \cup {{"eu", "tv"}}
<1>7. Counting(r, done)  BY <1>3, <1>6 DEF All
<1> HIDE DEF done
<1>8. \A k \in DOMAIN r : r[k].all \in Nat
  <2>1. \A k \in DOMAIN r : r[k] \in ScopeRows  BY <1>7 DEF Counting, ScopesFit
  <2> QED BY <2>1 DEF ScopeRows
<1>9. \A k \in DOMAIN r : r[k].all <= r[{}].all
  <2> TAKE k \in DOMAIN r
  <2>1. r[k].all \in Nat /\ r[{}].all \in Nat  BY <1>7, <1>8 DEF Counting
  <2>2. CASE k = {}  BY <2>1, <2>2
  <2>3. CASE k # {}
    <3>1. IF k \in done THEN r[k].all <= r[{}].all ELSE r[k].all + 4 <= r[{}].all  BY <1>7, <2>3 DEF Counting
    <3> QED BY <3>1, <2>1
  <2> QED BY <2>2, <2>3
<1> QED BY <1>7, <1>9 DEF Counting, ScopesGood

LEMMA DivIsInt == \A a \in Int, b \in Nat : b # 0 => a \div b \in Int
OBVIOUS

LEMMA ScoreIsInt ==
    ASSUME NEW n, ScopesGood(tracked[n])
    PROVE  Score(n) \in Int
<1> DEFINE Of(k) == ScoreOf(tracked[n][k].good, tracked[n][k].all)
<1>1. \A g, a \in Nat : ScoreOf(g, a) \in Int
  <2> TAKE g, a \in Nat
  <2> DEFINE x == 600 * (10 * g + 72)
             y == 10 * (a + 8)
  <2>1. x \in Int /\ y \in Nat /\ y # 0  OBVIOUS
  <2>2. ScoreOf(g, a) = 300 + x \div y  BY DEF ScoreOf
  <2> HIDE DEF x, y
  <2>3. x \div y \in Int  BY <2>1, DivIsInt
  <2> QED BY <2>2, <2>3
<1>2. \A k \in DOMAIN tracked[n] : Of(k) \in Int
  <2> TAKE k \in DOMAIN tracked[n]
  <2>1. tracked[n][k] \in ScopeRows  BY DEF ScopesGood, ScopesFit
  <2>2. tracked[n][k].good \in Nat /\ tracked[n][k].all \in Nat  BY <2>1 DEF ScopeRows
  <2> QED BY <2>2, <1>1
<1>3. ScoreOf(0, 0) \in Int  BY <1>1
<1>4. Score(n) \in {Of(k) : k \in DOMAIN tracked[n]} \cup {ScoreOf(0, 0)}
  BY DEF Score
<1> HIDE DEF Of
<1> QED BY <1>2, <1>3, <1>4

Tracked == DOMAIN tracked = Hosts /\ \A n \in Hosts : ScopesGood(tracked[n])
Overrides == modes \in [Hosts -> Modes] /\ stored \in [Hosts -> Modes] /\ apart \subseteq Hosts

\* The edits that are half done: one of a worker, with what is stored to do,
\* unless they crossed.
EditRows == [pc: {"idle", "set", "over"}, host: Hosts \cup {Nobody}, to: Modes]
EditsGood ==
    /\ edit \in [Edits -> EditRows]
    /\ \A e \in Edits : edit[e].pc = "set" => edit[e].host \in Hosts
    /\ \A e, o \in Edits :
          edit[e].pc = "set" /\ edit[o].pc = "set" /\ edit[e].host = edit[o].host /\ e # o => edit[e].host \in apart
    /\ \A e \in Edits : edit[e].pc = "set" /\ edit[e].host \notin apart => edit[e].to = stored[edit[e].host]

\* The old evidence counts half.
LEMMA HalvedGood ==
    ASSUME NEW m, ScopesGood(m)
    PROVE  ScopesGood([k \in DOMAIN m |-> [m[k] EXCEPT !.good = @ \div 2, !.all = @ \div 2]])
<1> DEFINE r == [k \in DOMAIN m |-> [m[k] EXCEPT !.good = @ \div 2, !.all = @ \div 2]]
<1>0. \A a \in Nat : a \div 2 \in Nat  OBVIOUS
<1>1. \A k \in DOMAIN m : m[k] \in ScopeRows  BY DEF ScopesGood, ScopesFit
<1>2. \A k \in DOMAIN m : r[k] \in ScopeRows /\ r[k].all = m[k].all \div 2
  <2> TAKE k \in DOMAIN m
  <2>1. m[k] \in ScopeRows  BY <1>1
  <2>2. r[k] = [m[k] EXCEPT !.good = m[k].good \div 2, !.all = m[k].all \div 2]  OBVIOUS
  <2>3. m[k].good \div 2 \in Nat /\ m[k].all \div 2 \in Nat  BY <1>0, <2>1 DEF ScopeRows
  <2> QED BY <2>1, <2>2, <2>3 DEF ScopeRows
<1>3. DOMAIN r = DOMAIN m  OBVIOUS
<1>4. r \in [DOMAIN r -> ScopeRows]
  <2>1. r = [k \in DOMAIN r |-> r[k]]  OBVIOUS
  <2> HIDE DEF r
  <2> QED BY <2>1, <1>2, <1>3
<1> HIDE DEF r
<1>5. ScopesFit(r)  BY <1>3, <1>4 DEF ScopesGood, ScopesFit
<1>6. DOMAIN r # {} => {} \in DOMAIN r /\ \A k \in DOMAIN r : r[k].all <= r[{}].all
  <2> SUFFICES ASSUME DOMAIN r # {} PROVE {} \in DOMAIN r /\ \A k \in DOMAIN r : r[k].all <= r[{}].all
    OBVIOUS
  <2>1. {} \in DOMAIN m /\ \A k \in DOMAIN m : m[k].all <= m[{}].all  BY <1>3 DEF ScopesGood
  <2>2. \A k \in DOMAIN m : r[k].all <= r[{}].all
    <3> TAKE k \in DOMAIN m
    <3>1. m[k].all \in Nat /\ m[{}].all \in Nat /\ m[k].all <= m[{}].all  BY <1>1, <2>1 DEF ScopeRows
    <3>2. m[k].all \div 2 <= m[{}].all \div 2  BY <3>1
    <3> QED BY <3>2, <2>1, <1>2
  <2> QED BY <2>1, <2>2, <1>3
<1> QED BY <1>5, <1>6 DEF ScopesGood, r

LEMMA NothingTracked == ScopesGood(<<>>)
<1>1. DOMAIN <<>> = {}  OBVIOUS
<1>2. IsFiniteSet(DOMAIN <<>>) /\ Cardinality(DOMAIN <<>>) = 0  BY <1>1, FS_EmptySet
<1>3. <<>> \in [DOMAIN <<>> -> ScopeRows]  BY <1>1
<1> QED BY <1>1, <1>2, <1>3, RankingAssumption DEF ScopesGood, ScopesFit

LEMMA TrackedInit == RKInit => Tracked /\ halvings \in Nat
<1> SUFFICES ASSUME RKInit PROVE Tracked /\ halvings \in Nat
  OBVIOUS
<1>1. tracked = [n \in Hosts |-> <<>>]  BY DEF RKInit
<1>2. PICK scene \in Scenes : halvings = scene.halvings  BY DEF RKInit
<1>3. scene \in [edits: Nat, halvings: Nat, reports: Nat, crashes: Nat]  BY RankingAssumption
<1>4. ScopesGood(<<>>)  BY NothingTracked
<1> QED BY <1>1, <1>2, <1>3, <1>4 DEF Tracked

LEMMA TrackedKept == Tracked /\ halvings \in Nat /\ RKNext => Tracked' /\ halvings' \in Nat
<1> SUFFICES ASSUME Tracked, halvings \in Nat, RKNext PROVE Tracked' /\ halvings' \in Nat
  OBVIOUS
<1>1. ASSUME NEW n, NEW labels, NEW good, NEW m \in Observed(n, labels, good),
             tracked' = [tracked EXCEPT ![n] = m]
      PROVE  Tracked'
  <2>1. n \in Hosts => ScopesGood(m)  BY ObservedGood DEF Tracked
  <2>2. DOMAIN tracked' = Hosts  BY <1>1 DEF Tracked
  <2>3. \A x \in Hosts : tracked'[x] = IF x = n THEN m ELSE tracked[x]  BY <1>1 DEF Tracked
  <2>4. \A x \in Hosts : ScopesGood(tracked'[x])  BY <2>1, <2>3 DEF Tracked
  <2> QED BY <2>2, <2>4 DEF Tracked, ScopesGood, ScopesFit
<1>2. ASSUME UNCHANGED tracked PROVE Tracked'
  BY <1>2 DEF Tracked, ScopesGood, ScopesFit
<1>3. ASSUME NEW s \in Starts, NEW prev \in Hosts \cup {Nobody}, BeginRank(s, prev)
      PROVE  Tracked' /\ halvings' \in Nat
  BY <1>2, <1>3 DEF BeginRank
<1>4. ASSUME NEW s \in Starts, RankNext(s) PROVE Tracked' /\ halvings' \in Nat
  BY <1>2, <1>4 DEF RankNext
<1>5. ASSUME NEW s \in Starts, NEW answer \in Answers, Try(s, answer) PROVE Tracked' /\ halvings' \in Nat
  <2> DEFINE n == start[s].order[start[s].at]
  <2>1. halvings' = halvings  BY <1>5 DEF Try
  <2>2. \/ \E m \in Observed(n, {"eu"}, answer \in {"made", "garbled"}) : tracked' = [tracked EXCEPT ![n] = m]
        \/ UNCHANGED tracked
    BY <1>5 DEF Try
  <2> HIDE DEF n
  <2> QED BY <1>1, <1>2, <2>1, <2>2
<1>6. ASSUME NEW n \in Blamed, NEW labels \in Labels, ReportFailure(n, labels) PROVE Tracked' /\ halvings' \in Nat
  <2>1. halvings' = halvings /\ \E m \in Observed(n, labels, FALSE) : tracked' = [tracked EXCEPT ![n] = m]
    BY <1>6 DEF ReportFailure
  <2> QED BY <1>1, <2>1
<1>7. ASSUME Halve PROVE Tracked' /\ halvings' \in Nat
  <2> DEFINE half(m) == [k \in DOMAIN m |-> [m[k] EXCEPT !.good = @ \div 2, !.all = @ \div 2]]
  <2>1. halvings' = halvings + 1 /\ tracked' = [n \in Hosts |-> half(tracked[n])]  BY <1>7 DEF Halve
  <2>2. \A n \in Hosts : ScopesGood(half(tracked[n]))  BY HalvedGood DEF Tracked
  <2> HIDE DEF half
  <2>3. \A n \in Hosts : ScopesGood(tracked'[n])  BY <2>1, <2>2
  <2>4. DOMAIN tracked' = Hosts  BY <2>1
  <2>5. Tracked'  BY <2>3, <2>4 DEF Tracked, ScopesGood, ScopesFit
  <2> QED BY <2>1, <2>5
<1>8. ASSUME NEW e \in Edits, SetOverride(e) PROVE Tracked' /\ halvings' \in Nat
  BY <1>2, <1>8 DEF SetOverride
<1>9. ASSUME NEW e \in Edits, NEW n \in Hosts, NEW to \in Wishes, StoreEdit(e, n, to) PROVE Tracked' /\ halvings' \in Nat
  BY <1>2, <1>9 DEF StoreEdit
<1>10. ASSUME ReloadAll PROVE Tracked' /\ halvings' \in Nat
  <2>1. halvings' = halvings /\ tracked' = [n \in Hosts |-> <<>>]  BY <1>10 DEF ReloadAll
  <2>2. ScopesGood(<<>>)  BY NothingTracked
  <2>3. \A n \in Hosts : ScopesGood(tracked'[n])  BY <2>1, <2>2
  <2>4. DOMAIN tracked' = Hosts  BY <2>1
  <2>5. Tracked'  BY <2>3, <2>4 DEF Tracked, ScopesGood, ScopesFit
  <2> QED BY <2>1, <2>5
<1> QED BY <1>3, <1>4, <1>5, <1>6, <1>7, <1>8, <1>9, <1>10 DEF RKNext

-----------------------------------------------------------------------------
(* What the administrator set.                                             *)

OverridesGood == Overrides /\ EditsGood /\ OverridesKept

LEMMA OverridesInit == RKInit => OverridesGood
<1> SUFFICES ASSUME RKInit PROVE OverridesGood
  OBVIOUS
<1>1. stored \in [Hosts -> Modes] /\ modes = stored /\ apart = {}  BY RankingAssumption DEF RKInit
<1>2. PICK scene \in Scenes : edit = [e \in Edits |-> IF e <= scene.edits THEN [NoEdit EXCEPT !.pc = "over"] ELSE NoEdit]
  BY DEF RKInit
<1>3. \A e \in Edits : edit[e] \in EditRows /\ edit[e].pc # "set"  BY <1>2 DEF NoEdit, EditRows, Modes
<1>4. edit \in [Edits -> EditRows]  BY <1>2, <1>3
<1> QED BY <1>1, <1>3, <1>4 DEF OverridesGood, Overrides, EditsGood, OverridesKept

LEMMA OverridesStay ==
    ASSUME OverridesGood, UNCHANGED <<modes, stored, apart, edit>>
    PROVE  OverridesGood'
BY DEF OverridesGood, Overrides, EditsGood, OverridesKept, Between

LEMMA StoreEditKept ==
    ASSUME OverridesGood, NEW e \in Edits, NEW n \in Hosts, NEW to \in Wishes, StoreEdit(e, n, to)
    PROVE  OverridesGood'
<1>1. edit[e].pc = "idle" /\ UNCHANGED modes  BY DEF StoreEdit
<1>2. edit \in [Edits -> EditRows] /\ to \in Modes  BY RankingAssumption DEF OverridesGood, EditsGood
<1>3. CASE /\ stored' = [stored EXCEPT ![n] = to]
           /\ edit' = [edit EXCEPT ![e] = [pc |-> "set", host |-> n, to |-> to]]
           /\ apart' = IF Between(n) = {} THEN apart ELSE apart \cup {n}
  <2>1. edit' \in [Edits -> EditRows]
    <3>1. [pc |-> "set", host |-> n, to |-> to] \in EditRows  BY <1>2 DEF EditRows
    <3> QED BY <3>1, <1>2, <1>3
  <2>2. /\ edit'[e] = [pc |-> "set", host |-> n, to |-> to]
        /\ \A o \in Edits : o # e => edit'[o] = edit[o]
    BY <1>2, <1>3
  <2>3. /\ stored \in [Hosts -> Modes] /\ stored' \in [Hosts -> Modes] /\ stored'[n] = to
        /\ \A x \in Hosts : x # n => stored'[x] = stored[x]
    BY <1>2, <1>3 DEF OverridesGood, Overrides
  <2>4. apart \subseteq apart' /\ apart' \subseteq Hosts  BY <1>3 DEF OverridesGood, Overrides
  <2>5. \A o \in Edits : edit[o].pc = "set" /\ edit[o].host = n => n \in apart'  BY <1>3 DEF Between
  <2>6. \A o \in Edits : edit'[o].pc = "set" => edit'[o].host \in Hosts
    BY <2>2 DEF OverridesGood, EditsGood
  <2>7. \A a, b \in Edits : edit'[a].pc = "set" /\ edit'[b].pc = "set" /\ edit'[a].host = edit'[b].host /\ a # b
                            => edit'[a].host \in apart'
    <3> SUFFICES ASSUME NEW a \in Edits, NEW b \in Edits, edit'[a].pc = "set", edit'[b].pc = "set",
                        edit'[a].host = edit'[b].host, a # b
                 PROVE  edit'[a].host \in apart'
      OBVIOUS
    <3>1. CASE a = e
      <4>1. edit[b].pc = "set" /\ edit[b].host = n /\ edit'[a].host = n  BY <3>1, <2>2
      <4> QED BY <4>1, <2>5
    <3>2. CASE b = e
      <4>1. edit[a].pc = "set" /\ edit[a].host = n /\ edit'[a].host = n  BY <3>2, <2>2
      <4> QED BY <4>1, <2>5
    <3>3. CASE a # e /\ b # e
      <4>1. edit'[a] = edit[a] /\ edit'[b] = edit[b]  BY <3>3, <2>2
      <4>2. edit[a].host \in apart  BY <4>1 DEF OverridesGood, EditsGood
      <4> QED BY <4>1, <4>2, <2>4
    <3> QED BY <3>1, <3>2, <3>3
  <2>8. \A a \in Edits : edit'[a].pc = "set" /\ edit'[a].host \notin apart' => edit'[a].to = stored'[edit'[a].host]
    <3> SUFFICES ASSUME NEW a \in Edits, edit'[a].pc = "set", edit'[a].host \notin apart'
                 PROVE  edit'[a].to = stored'[edit'[a].host]
      OBVIOUS
    <3>1. CASE a = e  BY <3>1, <2>2, <2>3
    <3>2. CASE a # e
      <4>1. edit'[a] = edit[a] /\ edit[a].host \notin apart  BY <3>2, <2>2, <2>4
      <4>2. edit[a].to = stored[edit[a].host] /\ edit[a].host \in Hosts  BY <4>1 DEF OverridesGood, EditsGood
      <4>3. edit[a].host # n  BY <4>1, <2>5
      <4> QED BY <4>1, <4>2, <4>3, <2>3
    <3> QED BY <3>1, <3>2
  <2>9. \A x \in Hosts : x \notin apart' /\ Between(x)' = {} => modes'[x] = stored'[x]
    <3> SUFFICES ASSUME NEW x \in Hosts, x \notin apart', Between(x)' = {} PROVE modes'[x] = stored'[x]
      OBVIOUS
    <3>1. x # n  BY <2>2 DEF Between
    <3>2. \A o \in Edits : edit[o].pc = "set" /\ edit[o].host = x => o # e /\ edit'[o] = edit[o]  BY <1>1, <2>2
    <3>3. Between(x) = {}  BY <3>2 DEF Between
    <3>4. modes[x] = stored[x]  BY <3>3, <2>4 DEF OverridesGood, OverridesKept
    <3> QED BY <3>1, <3>4, <2>3, <1>1
  <2>10. EditsGood'  BY <2>1, <2>6, <2>7, <2>8 DEF EditsGood
  <2>11. Overrides'  BY <2>3, <2>4, <1>1 DEF OverridesGood, Overrides
  <2>12. OverridesKept'  BY <2>9 DEF OverridesKept
  <2> QED BY <2>10, <2>11, <2>12 DEF OverridesGood
<1>4. CASE edit' = [edit EXCEPT ![e].pc = "over"] /\ UNCHANGED <<stored, apart>>
  <2>1. /\ edit' \in [Edits -> EditRows] /\ edit'[e].pc = "over"
        /\ \A o \in Edits : o # e => edit'[o] = edit[o]
    BY <1>2, <1>4 DEF EditRows
  <2>2. \A o \in Edits : edit'[o].pc = "set" => edit'[o] = edit[o]  BY <2>1
  <2>3. EditsGood'  BY <2>1, <2>2, <1>4 DEF OverridesGood, EditsGood
  <2>4. Overrides'  BY <1>1, <1>4 DEF OverridesGood, Overrides
  <2>5. \A x \in Hosts : Between(x)' = {} => Between(x) = {}
    <3> SUFFICES ASSUME NEW x \in Hosts, Between(x)' = {} PROVE Between(x) = {}
      OBVIOUS
    <3>1. \A o \in Edits : edit[o].pc = "set" => o # e /\ edit'[o] = edit[o]  BY <1>1, <2>1
    <3> QED BY <3>1 DEF Between
  <2>6. OverridesKept'
    <3>1. \A x \in Hosts : x \notin apart' /\ Between(x)' = {} => modes'[x] = stored'[x]
      BY <2>5, <1>1, <1>4 DEF OverridesGood, OverridesKept
    <3> QED BY <3>1 DEF OverridesKept
  <2> QED BY <2>3, <2>4, <2>6 DEF OverridesGood
<1> QED BY <1>3, <1>4 DEF StoreEdit

LEMMA SetOverrideKept ==
    ASSUME OverridesGood, NEW e \in Edits, SetOverride(e)
    PROVE  OverridesGood'
<1> DEFINE n == edit[e].host
<1>1. /\ edit[e].pc = "set" /\ modes' = [modes EXCEPT ![n] = edit[e].to]
      /\ edit' = [edit EXCEPT ![e].pc = "over"] /\ UNCHANGED <<stored, apart>>
  BY DEF SetOverride
<1>2. edit \in [Edits -> EditRows] /\ n \in Hosts /\ edit[e].to \in Modes
  BY <1>1 DEF OverridesGood, EditsGood, EditRows
<1>3. /\ edit' \in [Edits -> EditRows] /\ edit'[e].pc = "over"
      /\ \A o \in Edits : o # e => edit'[o] = edit[o]
  BY <1>1, <1>2 DEF EditRows
<1>4. \A o \in Edits : edit'[o].pc = "set" => edit'[o] = edit[o]  BY <1>3
<1>5. EditsGood'  BY <1>1, <1>3, <1>4 DEF OverridesGood, EditsGood
<1>6. /\ modes \in [Hosts -> Modes] /\ modes' \in [Hosts -> Modes] /\ modes'[n] = edit[e].to
      /\ \A x \in Hosts : x # n => modes'[x] = modes[x]
  BY <1>1, <1>2 DEF OverridesGood, Overrides
<1>7. Overrides'  BY <1>1, <1>6 DEF OverridesGood, Overrides
<1>8. \A x \in Hosts : x \notin apart /\ Between(x)' = {} => modes'[x] = stored[x]
  <2> SUFFICES ASSUME NEW x \in Hosts, x \notin apart, Between(x)' = {} PROVE modes'[x] = stored[x]
    OBVIOUS
  <2>1. CASE x = n
    <3>1. edit[e].to = stored[n]  BY <2>1, <1>1 DEF OverridesGood, EditsGood
    <3> QED BY <3>1, <2>1, <1>6
  <2>2. CASE x # n
    <3>1. \A o \in Edits : edit[o].pc = "set" /\ edit[o].host = x => edit'[o] = edit[o]  BY <2>2, <1>3
    <3>2. Between(x) = {}  BY <3>1 DEF Between
    <3> QED BY <3>2, <2>2, <1>6 DEF OverridesGood, OverridesKept
  <2> QED BY <2>1, <2>2
<1>9. OverridesKept'  BY <1>8, <1>1 DEF OverridesKept
<1> QED BY <1>5, <1>7, <1>9 DEF OverridesGood

LEMMA ReloadKept ==
    ASSUME OverridesGood, ReloadAll
    PROVE  OverridesGood'
<1>1. /\ edit' = [e \in Edits |-> IF edit[e].pc = "set" THEN [edit[e] EXCEPT !.pc = "over"] ELSE edit[e]]
      /\ stored' = stored
  BY DEF ReloadAll
<1>2. edit \in [Edits -> EditRows] /\ modes \in [Hosts -> Modes] /\ stored \in [Hosts -> Modes]
  BY DEF OverridesGood, Overrides, EditsGood
<1>3. \A e \in Edits : edit'[e] \in EditRows /\ edit'[e].pc # "set"  BY <1>1, <1>2 DEF EditRows
<1>4. edit' \in [Edits -> EditRows]  BY <1>1, <1>3
<1>5. EditsGood'  BY <1>3, <1>4 DEF EditsGood
<1>6. CASE modes' = stored /\ apart' = {}
  BY <1>1, <1>2, <1>5, <1>6 DEF OverridesGood, Overrides, OverridesKept
<1>7. CASE modes' = [n \in Hosts |-> "none"] /\ apart' = {n \in Hosts : stored[n] # "none"}
  <2>1. Overrides'  BY <1>1, <1>2, <1>7 DEF Overrides, Modes
  <2>2. \A n \in Hosts : n \notin apart' => modes'[n] = stored'[n]  BY <1>1, <1>7
  <2>3. OverridesKept'  BY <2>2 DEF OverridesKept
  <2> QED BY <1>5, <2>1, <2>3 DEF OverridesGood
<1> QED BY <1>6, <1>7 DEF ReloadAll

LEMMA OverridesNext == OverridesGood /\ RKNext => OverridesGood'
<1> SUFFICES ASSUME OverridesGood, RKNext PROVE OverridesGood'
  OBVIOUS
<1>1. ASSUME NEW s \in Starts, NEW prev \in Hosts \cup {Nobody}, BeginRank(s, prev) PROVE OverridesGood'
  BY <1>1, OverridesStay DEF BeginRank
<1>2. ASSUME NEW s \in Starts, RankNext(s) PROVE OverridesGood'
  BY <1>2, OverridesStay DEF RankNext
<1>3. ASSUME NEW s \in Starts, NEW answer \in Answers, Try(s, answer) PROVE OverridesGood'
  BY <1>3, OverridesStay DEF Try
<1>4. ASSUME NEW n \in Blamed, NEW labels \in Labels, ReportFailure(n, labels) PROVE OverridesGood'
  BY <1>4, OverridesStay DEF ReportFailure
<1>5. ASSUME Halve PROVE OverridesGood'
  BY <1>5, OverridesStay DEF Halve
<1> QED BY <1>1, <1>2, <1>3, <1>4, <1>5, StoreEditKept, SetOverrideKept, ReloadKept DEF RKNext

-----------------------------------------------------------------------------
(* The requests for a session.                                             *)

StartRows ==
    [pc: {"idle", "rank", "try", "over"}, tier: Nat, prev: Hosts \cup {Nobody}, base: Seq(Hosts), order: Seq(Hosts),
     at: Nat, last: {"none", "cut off"} \cup Answers, asked: Seq(Hosts), barred: SUBSET Hosts,
     saw: [Hosts -> [mode: Modes, score: Int]]]

\* The tiers before the next one have been ranked.
Placed(q) == IsInjective(q.base) /\ ToSet(q.base) = {n \in Hosts : Tier[n] < q.tier}
Ordered(q) == IsInjective(q.order) /\ ToSet(q.order) = {n \in Hosts : Tier[n] < q.tier /\ q.saw[n].mode # "exclude"}
Fair(q) == \A i, j \in DOMAIN q.order : i < j => Fairly(q, q.order[i], q.order[j])
FairButOne(q) ==
    \A i, j \in DOMAIN q.order :
        i < j /\ q.prev \notin {q.order[i], q.order[j]} => Fairly(q, q.order[i], q.order[j])

AsMany(q) == IF MaxAttempts <= Len(q.order) THEN MaxAttempts ELSE Len(q.order)

LEMMA TiersHaveMax == Max(Tiers) \in Nat \ {0} /\ \A n \in Hosts : Tier[n] \in Nat \ {0} /\ Tier[n] <= Max(Tiers)
<1>1. Tier \in [Hosts -> Nat \ {0}] /\ Hosts # {} /\ IsFiniteSet(Hosts)  BY RankingAssumption
<1>2. Tier \in Surjection(Hosts, Tiers)
  <2>1. \A n \in Hosts : Tier[n] \in Tiers  BY DEF Tiers
  <2>2. Tier \in [Hosts -> Tiers]  BY <1>1, <2>1
  <2> QED BY <2>2 DEF Surjection, Tiers
<1>3. IsFiniteSet(Tiers)  BY <1>1, <1>2, FS_Surjection
<1>4. Tiers # {} /\ Tiers \subseteq Int /\ \A t \in Tiers : t \in Nat \ {0}  BY <1>1 DEF Tiers
<1>5. Max(Tiers) \in Tiers /\ \A t \in Tiers : Max(Tiers) >= t  BY <1>3, <1>4, IntsHaveMax
<1>6. \A n \in Hosts : Tier[n] \in Tiers  BY DEF Tiers
<1> QED BY <1>4, <1>5, <1>6

\* Who is fairly before whom is a matter of what was seen.
LEMMA FairlySame ==
    ASSUME NEW q, NEW w, w.saw = q.saw, w.base = q.base, NEW a, NEW b
    PROVE  Fairly(w, a, b) <=> Fairly(q, a, b)
BY DEF Fairly, Standing, BestOf

\* One more tier.
Scored == \A n \in Hosts : Score(n) \in Int
OneMoreTier(q, ns, base, w) ==
    /\ w.tier = q.tier + 1 /\ w.base = q.base \o base /\ w.order = q.order \o RankTier(base)
    /\ \A n \in ns : w.saw[n] = [mode |-> modes[n], score |-> Score(n)]
    /\ \A n \in Hosts \ ns : w.saw[n] = q.saw[n]

LEMMA TierAdded ==
    ASSUME NEW q \in StartRows, Placed(q), Ordered(q), Fair(q),
           NEW ns, ns = {n \in Hosts : Tier[n] = q.tier}, NEW base \in SetToSeqs(ns),
           Scored, modes \in [Hosts -> Modes],
           NEW w, OneMoreTier(q, ns, base, w)
    PROVE  /\ w.base \in Seq(Hosts) /\ w.order \in Seq(Hosts)
           /\ Placed(w) /\ Ordered(w) /\ Fair(w)
<1> USE DEF Scored, OneMoreTier
<1> DEFINE r == RankTier(base)
           Old == {n \in Hosts : Tier[n] < q.tier}
<1>1. /\ q.tier \in Nat /\ q.base \in Seq(Hosts) /\ q.order \in Seq(Hosts)
      /\ \A n \in Hosts : Tier[n] \in Nat
  BY TiersHaveMax DEF StartRows
<1>2. IsFiniteSet(ns) /\ ns \subseteq Hosts  BY RankingAssumption, FS_Subset
<1>3. base \in Seq(ns) /\ IsInjective(base) /\ ToSet(base) = ns  BY <1>2, EachOnce
<1>4. base \in Seq(Hosts)  BY <1>2, <1>3, SeqMonotonic
<1>5. /\ r \in Seq(Hosts) /\ IsInjective(r) /\ ToSet(r) = {n \in ns : modes[n] # "exclude"}
      /\ \A i, j \in DOMAIN r : i < j => TierFair(base, ns, r[i], r[j])
  BY <1>2, TierRanked
<1> HIDE DEF r
<1>6. /\ \A n \in Old : n \in Hosts /\ n \notin ns /\ w.saw[n] = q.saw[n]
      /\ \A n \in ns : n \in Hosts /\ n \notin Old /\ w.saw[n].mode = modes[n] /\ w.saw[n].score = Score(n)
      /\ {n \in Hosts : Tier[n] < w.tier} = Old \cup ns
  <2>1. \A n \in Hosts : Tier[n] < q.tier => Tier[n] # q.tier  BY <1>1
  <2>2. \A n \in Hosts : Tier[n] < q.tier + 1 <=> Tier[n] < q.tier \/ Tier[n] = q.tier  BY <1>1
  <2>3. \A n \in Old : n \in Hosts /\ n \notin ns /\ n \in Hosts \ ns  BY <2>1
  <2>4. \A n \in Old : w.saw[n] = q.saw[n]  BY <2>3
  <2>5. \A n \in ns : n \in Hosts /\ n \notin Old  BY <2>1
  <2>6. \A n \in ns : w.saw[n].mode = modes[n] /\ w.saw[n].score = Score(n)
    <3> TAKE n \in ns
    <3>1. w.saw[n] = [mode |-> modes[n], score |-> Score(n)]  OBVIOUS
    <3> QED BY <3>1
  <2>7. {n \in Hosts : Tier[n] < w.tier} = Old \cup ns  BY <2>2
  <2> QED BY <2>3, <2>4, <2>5, <2>6, <2>7
<1>7. ToSet(q.base) \cap ToSet(base) = {}  BY <1>3, <1>6 DEF Placed
<1>8. /\ w.base \in Seq(Hosts) /\ IsInjective(w.base) /\ ToSet(w.base) = ToSet(q.base) \cup ToSet(base)
      /\ \A i \in DOMAIN q.base : w.base[i] = q.base[i] /\ i \in DOMAIN w.base
      /\ \A i \in DOMAIN base : w.base[i + Len(q.base)] = base[i] /\ i + Len(q.base) \in DOMAIN w.base
  <2>1. IsInjective(q.base)  BY DEF Placed
  <2>2. w.base = q.base \o base  OBVIOUS
  <2>3. DOMAIN q.base = 1 .. Len(q.base) /\ DOMAIN base = 1 .. Len(base) /\ Len(q.base) \in Nat /\ Len(base) \in Nat
    BY <1>1, <1>4, LenProperties
  <2>4. w.base \in Seq(Hosts) /\ IsInjective(w.base) /\ ToSet(w.base) = ToSet(q.base) \cup ToSet(base)
    <3> DEFINE both == q.base \o base
    <3>1. both \in Seq(Hosts) /\ IsInjective(both) /\ ToSet(both) = ToSet(q.base) \cup ToSet(base)
      BY <1>1, <1>3, <1>4, <1>7, <2>1, AfterIsOnce
    <3>2. w.base = both  BY <2>2
    <3> HIDE DEF both
    <3> QED BY <3>1, <3>2
  <2>5. Len(w.base) = Len(q.base) + Len(base)  BY <1>1, <1>4, <2>2, ConcatProperties
  <2>6. \A i \in 1 .. Len(w.base) :
           w.base[i] = IF i <= Len(q.base) THEN q.base[i] ELSE base[i - Len(q.base)]
    BY <1>1, <1>4, <2>2, <2>5, ConcatProperties
  <2>7. DOMAIN w.base = 1 .. Len(w.base)  BY <2>4, LenProperties
  <2>8. \A i \in DOMAIN q.base : w.base[i] = q.base[i] /\ i \in DOMAIN w.base  BY <2>3, <2>5, <2>6, <2>7
  <2>9. ASSUME NEW i \in DOMAIN base PROVE w.base[i + Len(q.base)] = base[i] /\ i + Len(q.base) \in DOMAIN w.base
    <3>1. i \in 1 .. Len(base)  BY <2>3
    <3> DEFINE k == i + Len(q.base)
    <3>2. k \in 1 .. Len(w.base) /\ ~(k <= Len(q.base)) /\ k - Len(q.base) = i
      BY <3>1, <2>3, <2>5
    <3> HIDE DEF k
    <3>3. w.base[k] = base[i]  BY <3>2, <2>6
    <3> QED BY <3>2, <3>3, <2>7 DEF k
  <2> QED BY <2>4, <2>8, <2>9
<1>9. Placed(w)  BY <1>3, <1>6, <1>8 DEF Placed
<1>10. ToSet(q.order) \cap ToSet(r) = {}  BY <1>5, <1>6 DEF Ordered
<1>11. w.order = q.order \o r  BY DEF r
<1>12. /\ w.order \in Seq(Hosts) /\ IsInjective(w.order) /\ ToSet(w.order) = ToSet(q.order) \cup ToSet(r)
       /\ DOMAIN w.order = 1 .. Len(q.order) + Len(r)
       /\ \A i \in DOMAIN w.order : \/ i \in DOMAIN q.order /\ w.order[i] = q.order[i]
                                    \/ i - Len(q.order) \in DOMAIN r /\ w.order[i] = r[i - Len(q.order)]
  <2>1. IsInjective(q.order)  BY DEF Ordered
  <2> DEFINE o == q.order \o r
  <2>2. /\ o \in Seq(Hosts) /\ IsInjective(o) /\ ToSet(o) = ToSet(q.order) \cup ToSet(r)
        /\ Follows(o, q.order, r)
    BY <1>1, <1>5, <1>10, <2>1, AfterIsOnce
  <2>3. w.order = o  BY <1>11
  <2> HIDE DEF o
  <2> QED BY <2>2, <2>3 DEF Follows
<1>13. Ordered(w)
  <2>1. ToSet(q.order) = {n \in Old : w.saw[n].mode # "exclude"}  BY <1>6 DEF Ordered
  <2>2. ToSet(r) = {n \in ns : w.saw[n].mode # "exclude"}  BY <1>5, <1>6
  <2>3. ToSet(w.order) = {n \in Old \cup ns : w.saw[n].mode # "exclude"}  BY <2>1, <2>2, <1>12
  <2>4. ToSet(w.order) = {n \in Hosts : Tier[n] < w.tier /\ w.saw[n].mode # "exclude"}  BY <2>3, <1>6
  <2> QED BY <2>4, <1>12 DEF Ordered
<1>14. \A n \in Old : Pos(w.base, n) = Pos(q.base, n)
  <2> TAKE n \in Old
  <2>1. n \in ToSet(q.base)  BY DEF Placed
  <2>2. Pos(q.base, n) \in 1 .. Len(q.base) /\ q.base[Pos(q.base, n)] = n  BY <2>1, <1>1, PlaceIsOne DEF Placed
  <2>3. Pos(q.base, n) \in DOMAIN q.base  BY <2>2, <1>1, LenProperties
  <2>4. w.base[Pos(q.base, n)] = n /\ Pos(q.base, n) \in DOMAIN w.base  BY <2>2, <2>3, <1>8
  <2>5. n \in ToSet(w.base)  BY <2>1, <1>8
  <2>6. DOMAIN w.base = 1 .. Len(w.base)  BY <1>8, LenProperties
  <2>7. \A i \in 1 .. Len(w.base) : w.base[i] = n => i = Pos(w.base, n)  BY <2>5, <1>8, PlaceIsOne
  <2> QED BY <2>4, <2>6, <2>7
<1>15. \A n \in ns : Pos(w.base, n) = Pos(base, n) + Len(q.base) /\ Pos(base, n) \in Int
  <2> TAKE n \in ns
  <2>1. n \in ToSet(base)  BY <1>3
  <2>2. Pos(base, n) \in 1 .. Len(base) /\ base[Pos(base, n)] = n  BY <2>1, <1>3, PlaceIsOne
  <2>3. Pos(base, n) \in DOMAIN base /\ Len(base) \in Nat  BY <2>2, <1>3, LenProperties
  <2>4. w.base[Pos(base, n) + Len(q.base)] = n /\ Pos(base, n) + Len(q.base) \in DOMAIN w.base  BY <2>2, <2>3, <1>8
  <2>5. n \in ToSet(w.base)  BY <2>1, <1>8
  <2>6. DOMAIN w.base = 1 .. Len(w.base)  BY <1>8, LenProperties
  <2>7. \A i \in 1 .. Len(w.base) : w.base[i] = n => i = Pos(w.base, n)  BY <2>5, <1>8, PlaceIsOne
  <2>8. Pos(base, n) \in Int  BY <2>2, <2>3
  <2> QED BY <2>4, <2>6, <2>7, <2>8
<1>16. \A n \in Old : Standing(w, n) = Standing(q, n)
  <2> TAKE n \in Old
  <2>1. Tier[n] < q.tier  OBVIOUS
  <2>2. \A m \in Hosts : Tier[m] = Tier[n] => m \in Old  BY <2>1
  <2>3. {m \in Hosts : Tier[m] = Tier[n] /\ w.saw[m].mode = "none"} = {m \in Hosts : Tier[m] = Tier[n] /\ q.saw[m].mode = "none"}
    BY <2>2, <1>6
  <2>4. {w.saw[m].score : m \in {m \in Hosts : Tier[m] = Tier[n] /\ w.saw[m].mode = "none"}}
        = {q.saw[m].score : m \in {m \in Hosts : Tier[m] = Tier[n] /\ q.saw[m].mode = "none"}}
    <3> DEFINE A == {m \in Hosts : Tier[m] = Tier[n] /\ w.saw[m].mode = "none"}
               B == {m \in Hosts : Tier[m] = Tier[n] /\ q.saw[m].mode = "none"}
    <3>1. A = B  BY <2>3
    <3>2. \A m \in A : w.saw[m].score = q.saw[m].score
      <4>1. \A m \in A : m \in Old  BY <2>2
      <4> QED BY <4>1, <1>6
    <3> HIDE DEF A, B
    <3>3. ASSUME NEW x \in {w.saw[m].score : m \in A} PROVE x \in {q.saw[m].score : m \in B}
      <4>1. PICK m \in A : x = w.saw[m].score  OBVIOUS
      <4> QED BY <4>1, <3>1, <3>2
    <3>4. ASSUME NEW x \in {q.saw[m].score : m \in B} PROVE x \in {w.saw[m].score : m \in A}
      <4>1. PICK m \in B : x = q.saw[m].score  OBVIOUS
      <4>2. x = w.saw[m].score /\ m \in A  BY <4>1, <3>1, <3>2
      <4> QED BY <4>2
    <3>5. {w.saw[m].score : m \in A} = {q.saw[m].score : m \in B}  BY <3>3, <3>4
    <3> QED BY <3>5 DEF A, B
  <2>5. BestOf(w, Tier[n]) = BestOf(q, Tier[n])  BY <2>4 DEF BestOf
  <2>6. w.saw[n] = q.saw[n]  BY <1>6
  <2> QED BY <2>5, <2>6 DEF Standing
<1>17. \A n \in ns : Standing(w, n) = Class(ns, n)
  <2> TAKE n \in ns
  <2>1. Tier[n] = q.tier  OBVIOUS
  <2>2. {m \in Hosts : Tier[m] = Tier[n] /\ w.saw[m].mode = "none"} = {m \in ns : modes[m] = "none"}
    BY <2>1, <1>6
  <2>3. {w.saw[m].score : m \in {m \in Hosts : Tier[m] = Tier[n] /\ w.saw[m].mode = "none"}}
        = {Score(m) : m \in {m \in ns : modes[m] = "none"}}
    <3> DEFINE A == {m \in Hosts : Tier[m] = Tier[n] /\ w.saw[m].mode = "none"}
               B == {m \in ns : modes[m] = "none"}
    <3>1. A = B  BY <2>2
    <3>2. \A m \in B : w.saw[m].score = Score(m)  BY <1>6
    <3> HIDE DEF A, B
    <3>3. ASSUME NEW x \in {w.saw[m].score : m \in A} PROVE x \in {Score(m) : m \in B}
      <4>1. PICK m \in A : x = w.saw[m].score  OBVIOUS
      <4> QED BY <4>1, <3>1, <3>2
    <3>4. ASSUME NEW x \in {Score(m) : m \in B} PROVE x \in {w.saw[m].score : m \in A}
      <4>1. PICK m \in B : x = Score(m)  OBVIOUS
      <4>2. x = w.saw[m].score /\ m \in A  BY <4>1, <3>1, <3>2
      <4> QED BY <4>2
    <3>5. {w.saw[m].score : m \in A} = {Score(m) : m \in B}  BY <3>3, <3>4
    <3> QED BY <3>5 DEF A, B
  <2>4. BestOf(w, Tier[n]) = Best(ns, modes)  BY <2>3 DEF BestOf, Best
  <2>5. w.saw[n].mode = modes[n] /\ w.saw[n].score = Score(n)  BY <1>6
  <2> QED BY <2>4, <2>5 DEF Standing, Class
<1>18. \A a, b \in Old : Fairly(q, a, b) => Fairly(w, a, b)
  <2> TAKE a, b \in Old
  <2>1. /\ Standing(w, a) = Standing(q, a) /\ Standing(w, b) = Standing(q, b)
        /\ Pos(w.base, a) = Pos(q.base, a) /\ Pos(w.base, b) = Pos(q.base, b)
        /\ w.saw[a] = q.saw[a] /\ w.saw[b] = q.saw[b]
    BY <1>6, <1>14, <1>16
  <2> QED BY <2>1 DEF Fairly
<1>19. \A a, b \in ns : TierFair(base, ns, a, b) => Fairly(w, a, b)
  <2> SUFFICES ASSUME NEW a \in ns, NEW b \in ns, TierFair(base, ns, a, b) PROVE Fairly(w, a, b)
    OBVIOUS
  <2>1. /\ Standing(w, a) = Class(ns, a) /\ Standing(w, b) = Class(ns, b) /\ Tier[a] = Tier[b]
        /\ w.saw[a].score = Score(a) /\ w.saw[b].score = Score(b)
    BY <1>6, <1>17
  <2>2. Pos(base, a) < Pos(base, b) => Pos(w.base, a) < Pos(w.base, b)
    <3>1. Pos(base, a) \in Int /\ Pos(base, b) \in Int /\ Len(q.base) \in Int  BY <1>1, <1>15, LenProperties
    <3>2. Pos(w.base, a) = Pos(base, a) + Len(q.base) /\ Pos(w.base, b) = Pos(base, b) + Len(q.base)  BY <1>15
    <3> QED BY <3>1, <3>2
  <2>3. CASE Class(ns, a) < Class(ns, b)
    BY <2>1, <2>3 DEF Fairly
  <2>4. CASE /\ Class(ns, a) = Class(ns, b)
             /\ IF Class(ns, a) \in {1, 2} THEN Pos(base, a) < Pos(base, b) ELSE Score(a) >= Score(b)
    BY <2>1, <2>2, <2>4 DEF Fairly
  <2> QED BY <2>3, <2>4 DEF TierFair
<1>20. \A a \in Old, b \in ns : Fairly(w, a, b)
  <2> TAKE a \in Old, b \in ns
  <2>1. Tier[a] < Tier[b]  OBVIOUS
  <2> QED BY <2>1 DEF Fairly
<1>21. \A i, j \in DOMAIN w.order : i < j => Fairly(w, w.order[i], w.order[j])
  <2> SUFFICES ASSUME NEW i \in DOMAIN w.order, NEW j \in DOMAIN w.order, i < j
               PROVE  Fairly(w, w.order[i], w.order[j])
    OBVIOUS
  <2>0. /\ Len(q.order) \in Nat /\ Len(r) \in Nat /\ DOMAIN q.order = 1 .. Len(q.order) /\ DOMAIN r = 1 .. Len(r)
        /\ i \in Int /\ j \in Int
    BY <1>1, <1>5, <1>12, LenProperties
  <2>1. \A k \in DOMAIN q.order : q.order[k] \in Old
    <3>1. \A k \in DOMAIN q.order : q.order[k] \in ToSet(q.order)  BY DEF ToSet
    <3> QED BY <3>1 DEF Ordered
  <2>2. \A k \in DOMAIN r : r[k] \in ns
    <3>1. \A k \in DOMAIN r : r[k] \in ToSet(r)  BY DEF ToSet
    <3> QED BY <3>1, <1>5
  <2>3. CASE i \in DOMAIN q.order /\ w.order[i] = q.order[i]
    <3>1. CASE j \in DOMAIN q.order /\ w.order[j] = q.order[j]
      <4>1. Fairly(q, q.order[i], q.order[j])  BY <2>3, <3>1 DEF Fair
      <4> QED BY <4>1, <2>1, <2>3, <3>1, <1>18
    <3>2. CASE j - Len(q.order) \in DOMAIN r /\ w.order[j] = r[j - Len(q.order)]
      BY <2>1, <2>2, <2>3, <3>2, <1>20
    <3> QED BY <3>1, <3>2, <1>12
  <2>4. CASE i - Len(q.order) \in DOMAIN r /\ w.order[i] = r[i - Len(q.order)]
    <3>1. CASE j \in DOMAIN q.order /\ w.order[j] = q.order[j]
      <4>1. i > Len(q.order) /\ j <= Len(q.order)  BY <2>0, <2>4, <3>1
      <4> QED BY <4>1, <2>0
    <3>2. CASE j - Len(q.order) \in DOMAIN r /\ w.order[j] = r[j - Len(q.order)]
      <4>1. i - Len(q.order) < j - Len(q.order)  BY <2>0
      <4>2. TierFair(base, ns, r[i - Len(q.order)], r[j - Len(q.order)])  BY <4>1, <2>4, <3>2, <1>5
      <4> QED BY <4>2, <2>2, <2>4, <3>2, <1>19
    <3> QED BY <3>1, <3>2, <1>12
  <2> QED BY <2>3, <2>4, <1>12
<1> QED BY <1>8, <1>9, <1>12, <1>13, <1>21 DEF Fair

\* What holds of a request, when m are the overrides in use.
Ranked(q, m) ==
    /\ Placed(q) /\ Ordered(q) /\ Fair(q) /\ q.tier \in 1 .. Max(Tiers)
    /\ q.asked = <<>> /\ q.at = 1 /\ q.last = "none"
    /\ \A n \in q.barred : m[n] = "exclude"
Tried(q) ==
    /\ Placed(q) /\ Ordered(q) /\ FairButOne(q) /\ q.tier = Max(Tiers) + 1
    /\ q.at \in 1 .. AsMany(q) /\ Len(q.asked) = q.at - 1
StartGood(q, m) ==
    /\ q.pc = "idle" => q = NoStart
    /\ q.pc = "rank" => Ranked(q, m)
    /\ q.pc = "try" => Tried(q)
    /\ q.pc \in {"rank", "try"} => ToSet(q.order) \cap q.barred = {}
    /\ ToSet(q.asked) \cap q.barred = {}
    /\ q.pc = "over" /\ q.last \in {"none", "full", "failed"} => Len(q.asked) = AsMany(q)
Starting ==
    /\ start \in [Starts -> StartRows]
    /\ \A s \in Starts : StartGood(start[s], modes)

LEMMA NobodyYet == <<>> \in Seq(Hosts) /\ ToSet(<<>>) = {} /\ Len(<<>>) = 0 /\ DOMAIN <<>> = {}
BY EmptySeq DEF ToSet

LEMMA NoStartGood ==
    /\ NoStart \in StartRows /\ \A m : StartGood(NoStart, m)
    /\ LET cut == [NoStart EXCEPT !.pc = "over", !.last = "cut off"]
       IN  cut \in StartRows /\ \A m : StartGood(cut, m)
<1>1. Nobody \in Hosts \cup {Nobody} /\ "none" \in Modes  BY DEF Modes
<1>2. [n \in Hosts |-> [mode |-> "none", score |-> 0]] \in [Hosts -> [mode: Modes, score: Int]]  BY <1>1
<1>3. NoStart \in StartRows  BY <1>1, <1>2, NobodyYet DEF NoStart, StartRows
<1>4. \A m : StartGood(NoStart, m)  BY NobodyYet DEF NoStart, StartGood
<1> DEFINE cut == [NoStart EXCEPT !.pc = "over", !.last = "cut off"]
<1>5. cut \in StartRows  BY <1>1, <1>2, NobodyYet DEF NoStart, StartRows
<1>6. cut.pc = "over" /\ cut.last = "cut off" /\ cut.asked = <<>>  BY DEF NoStart
<1>7. \A m : StartGood(cut, m)  BY <1>6, NobodyYet DEF StartGood
<1> QED BY <1>3, <1>4, <1>5, <1>7

LEMMA OneStart ==
    ASSUME Starting, NEW s \in Starts, NEW r \in StartRows, StartGood(r, modes),
           start' = [start EXCEPT ![s] = r], modes' = modes
    PROVE  Starting'
<1>1. start' \in [Starts -> StartRows]  BY DEF Starting
<1>2. \A o \in Starts : start'[o] = IF o = s THEN r ELSE start[o]  BY DEF Starting
<1>3. \A o \in Starts : StartGood(start'[o], modes)  BY <1>2 DEF Starting
<1> QED BY <1>1, <1>3 DEF Starting

LEMMA StartsStay == Starting /\ start' = start /\ modes' = modes => Starting'
BY DEF Starting

LEMMA StartsInit == RKInit => Starting
BY NoStartGood DEF RKInit, Starting

LEMMA BeginRankKept ==
    ASSUME Starting, NEW s \in Starts, NEW prev \in Hosts \cup {Nobody}, BeginRank(s, prev)
    PROVE  Starting'
<1> DEFINE out == {n \in Hosts : modes[n] = "exclude"}
           r == [NoStart EXCEPT !.pc = "rank", !.prev = prev, !.barred = out]
<1>1. start[s] = NoStart  BY DEF BeginRank, Starting, StartGood
<1>2. start' = [start EXCEPT ![s] = r]
  <2>1. start' = [start EXCEPT ![s] = [start[s] EXCEPT !.pc = "rank", !.prev = prev, !.barred = out]]
    BY DEF BeginRank
  <2> QED BY <2>1, <1>1
<1>3. /\ r.pc = "rank" /\ r.tier = 1 /\ r.prev = prev /\ r.base = <<>> /\ r.order = <<>> /\ r.at = 1
      /\ r.last = "none" /\ r.asked = <<>> /\ r.barred = out
  BY DEF NoStart
<1>4. r \in StartRows
  <2>1. NoStart \in StartRows  BY NoStartGood
  <2> QED BY <2>1 DEF StartRows
<1> HIDE DEF r
<1>5. \A n \in Hosts : ~(Tier[n] < r.tier)  BY <1>3, TiersHaveMax
<1>6. IsInjective(<<>>)  BY DEF IsInjective
<1>7. Placed(r)  BY <1>3, <1>5, <1>6, NobodyYet DEF Placed
<1>8. Ordered(r)  BY <1>3, <1>5, <1>6, NobodyYet DEF Ordered
<1>9. Fair(r)  BY <1>3, NobodyYet DEF Fair
<1>10. r.tier \in 1 .. Max(Tiers)  BY <1>3, TiersHaveMax
<1>11. Ranked(r, modes)  BY <1>3, <1>7, <1>8, <1>9, <1>10 DEF Ranked
<1>12. StartGood(r, modes)
  <2>1. ToSet(r.order) = {} /\ ToSet(r.asked) = {}  BY <1>3, NobodyYet
  <2> QED BY <1>3, <1>11, <2>1 DEF StartGood
<1>13. modes' = modes  BY DEF BeginRank
<1> QED BY <1>2, <1>4, <1>12, <1>13, OneStart

\* What ranking one more tier makes of a request.
Saw(q) == [n \in Hosts |-> IF n \in {m \in Hosts : Tier[m] = q.tier} THEN [mode |-> modes[n], score |-> Score(n)]
                           ELSE q.saw[n]]
PrevFirst(q, o) == IF q.prev \in ToSet(o) THEN <<q.prev>> \o RemoveAt(o, Pos(o, q.prev)) ELSE o
RankRow(q, base) ==
    LET o == q.order \o RankTier(base)
        done == q.tier = Max(Tiers)
    IN [q EXCEPT !.pc = IF ~done THEN "rank" ELSE IF o = <<>> THEN "over" ELSE "try",
                 !.tier = q.tier + 1, !.base = q.base \o base, !.order = IF done THEN PrevFirst(q, o) ELSE o, !.saw = Saw(q)]

LEMMA RankRowMade ==
    ASSUME NEW s, RankNext(s)
    PROVE  \E base \in SetToSeqs({n \in Hosts : Tier[n] = start[s].tier}) :
             start' = [start EXCEPT ![s] = RankRow(start[s], base)]
BY DEF RankNext, RankRow, Saw, PrevFirst

LEMMA RankNextKept ==
    ASSUME Starting, Tracked, Overrides, NEW s \in Starts, RankNext(s)
    PROVE  Starting'
<1>1. PICK q : q = start[s]  OBVIOUS
<1>0. PICK ns : ns = {n \in Hosts : Tier[n] = q.tier}  OBVIOUS
<1> DEFINE done == q.tier = Max(Tiers)
<1>a. PICK base \in SetToSeqs(ns) : start' = [start EXCEPT ![s] = RankRow(q, base)]
  BY <1>0, <1>1, RankRowMade
<1>b. PICK o, final, saw, t, all, pc, mine :
        /\ o = q.order \o RankTier(base) /\ final = PrevFirst(q, o) /\ saw = Saw(q)
        /\ t = q.tier + 1 /\ all = q.base \o base
        /\ pc = (IF ~done THEN "rank" ELSE IF o = <<>> THEN "over" ELSE "try")
        /\ mine = (IF done THEN final ELSE o)
  OBVIOUS
<1>c. PICK r : r = [q EXCEPT !.pc = pc, !.tier = t, !.base = all, !.order = mine, !.saw = saw]  OBVIOUS
<1>d. PICK w : w = [q EXCEPT !.tier = t, !.base = all, !.order = o, !.saw = saw]  OBVIOUS
<1>e. start' = [start EXCEPT ![s] = r]
  <2>1. r = RankRow(q, base)  BY <1>b, <1>c DEF RankRow
  <2> QED BY <2>1, <1>a
<1>2. modes' = modes /\ q.pc = "rank" /\ q \in StartRows  BY <1>1 DEF RankNext, Starting
<1>f. q.tier \in Nat /\ q.base \in Seq(Hosts) /\ q.order \in Seq(Hosts)  BY <1>2 DEF StartRows
<1>3. Ranked(q, modes) /\ ToSet(q.order) \cap q.barred = {}  BY <1>1, <1>2 DEF Starting, StartGood
<1>4. \A n \in Hosts : Score(n) \in Int  BY ScoreIsInt DEF Tracked
<1>5. modes \in [Hosts -> Modes]  BY DEF Overrides
<1>6. saw \in [Hosts -> [mode: Modes, score: Int]]
  <2>1. \A n \in Hosts : [mode |-> modes[n], score |-> Score(n)] \in [mode: Modes, score: Int]
    BY <1>4, <1>5
  <2>2. \A n \in Hosts : q.saw[n] \in [mode: Modes, score: Int]  BY <1>2 DEF StartRows
  <2> QED BY <2>1, <2>2, <1>0, <1>b DEF Saw
<1>7. /\ w.tier = t /\ w.base = all /\ w.order = o /\ w.saw = saw
      /\ r.pc = pc /\ r.tier = t /\ r.base = all /\ r.order = mine /\ r.saw = saw
      /\ r.prev = q.prev /\ r.asked = q.asked /\ r.at = q.at /\ r.last = q.last /\ r.barred = q.barred
  BY <1>2, <1>c, <1>d DEF StartRows
<1>9. /\ \A n \in ns : saw[n] = [mode |-> modes[n], score |-> Score(n)]
      /\ \A n \in Hosts \ ns : saw[n] = q.saw[n]
      /\ \A n \in Hosts : n \in ns <=> Tier[n] = q.tier
  BY <1>0, <1>b DEF Saw
<1>8. /\ w.base \in Seq(Hosts) /\ w.order \in Seq(Hosts) /\ Placed(w) /\ Ordered(w) /\ Fair(w)
  <2>1. Placed(q) /\ Ordered(q) /\ Fair(q)  BY <1>3 DEF Ranked
  <2>2. w.tier = q.tier + 1 /\ w.base = q.base \o base /\ w.order = q.order \o RankTier(base)  BY <1>7, <1>b
  <2>3. /\ \A n \in ns : w.saw[n] = [mode |-> modes[n], score |-> Score(n)]
        /\ \A n \in Hosts \ ns : w.saw[n] = q.saw[n]
    BY <1>7, <1>9
  <2>4. q \in StartRows  BY <1>2
  <2>5. Scored /\ OneMoreTier(q, ns, base, w)  BY <1>4, <2>2, <2>3 DEF Scored, OneMoreTier
  <2> QED BY <2>4, <1>5, <1>0, <2>1, <2>5, TierAdded
<1>10. /\ r.pc = (IF ~done THEN "rank" ELSE IF w.order = <<>> THEN "over" ELSE "try")
       /\ r.order = (IF done THEN final ELSE w.order)
       /\ r.tier = w.tier /\ r.base = w.base /\ r.saw = w.saw
  BY <1>7, <1>b
<1>11. ToSet(w.order) \cap q.barred = {}
  <2>1. \A n \in q.barred : modes[n] = "exclude"  BY <1>3 DEF Ranked
  <2>2. \A n \in ToSet(w.order) : n \in Hosts /\ Tier[n] < q.tier + 1 /\ saw[n].mode # "exclude"
    BY <1>7, <1>8, <1>b DEF Ordered
  <2>3. ASSUME NEW n \in ToSet(w.order) PROVE n \notin q.barred
    <3>1. CASE n \in ns
      <4>1. saw[n] = [mode |-> modes[n], score |-> Score(n)]  BY <3>1, <1>9
      <4>2. saw[n].mode = modes[n]  BY <4>1
      <4> QED BY <4>2, <2>1, <2>2
    <3>2. CASE n \notin ns
      <4>1. Tier[n] < q.tier
        <5>1. Tier[n] # q.tier /\ Tier[n] < q.tier + 1 /\ n \in Hosts  BY <3>2, <2>2, <1>9
        <5>2. Tier[n] \in Int  BY <5>1, TiersHaveMax
        <5> QED BY <5>1, <5>2, <1>f
      <4>2. q.saw[n].mode # "exclude"  BY <2>2, <3>2, <1>9
      <4>3. n \in ToSet(q.order)  BY <4>1, <4>2, <2>2, <1>3 DEF Ranked, Ordered
      <4> QED BY <4>3, <1>3
    <3> QED BY <3>1, <3>2
  <2> QED BY <2>3
<1>12. /\ final \in Seq(Hosts) /\ IsInjective(final) /\ ToSet(final) = ToSet(w.order)
       /\ \A i, j \in DOMAIN final :
             i < j /\ q.prev \notin {final[i], final[j]} =>
               Fairly(w, final[i], final[j])
  <2>0. IsInjective(w.order)  BY <1>8 DEF Ordered
  <2>1. CASE q.prev \notin ToSet(w.order)
    <3>1. final = w.order  BY <2>1, <1>7, <1>b DEF PrevFirst
    <3> QED BY <3>1, <2>0, <1>8 DEF Fair
  <2>2. CASE q.prev \in ToSet(w.order)
    <3>1. final = <<q.prev>> \o RemoveAt(w.order, Pos(w.order, q.prev))  BY <2>2, <1>7, <1>b DEF PrevFirst
    <3>2. /\ final \in Seq(Hosts) /\ IsInjective(final) /\ ToSet(final) = ToSet(w.order)
          /\ \A i, j \in DOMAIN final : i < j /\ q.prev \notin {final[i], final[j]} =>
               \E k, m \in DOMAIN w.order : k < m /\ w.order[k] = final[i] /\ w.order[m] = final[j]
      <4>1. w.order \in Seq(Hosts)  BY <1>8
      <4>2. final \in Seq(Hosts) /\ IsInjective(final) /\ ToSet(final) = ToSet(w.order) /\ Keeps(final, w.order, q.prev)
        <5>1. PICK p : p = q.prev  OBVIOUS
        <5>2. /\ o \in Seq(Hosts) /\ IsInjective(o) /\ p \in ToSet(o)
              /\ final = <<p>> \o RemoveAt(o, Pos(o, p))
          BY <5>1, <4>1, <3>1, <2>0, <2>2, <1>7
        <5>3. final \in Seq(Hosts) /\ IsInjective(final) /\ ToSet(final) = ToSet(o) /\ Keeps(final, o, p)
          BY <5>2, FrontOf
        <5> QED BY <5>1, <5>3, <1>7
      <4> QED BY <4>2 DEF Keeps
    <3>3. \A k, m \in DOMAIN w.order : k < m => Fairly(w, w.order[k], w.order[m])  BY <1>8 DEF Fair
    <3>4. ASSUME NEW i \in DOMAIN final, NEW j \in DOMAIN final, i < j,
                 q.prev \notin {final[i], final[j]}
          PROVE  Fairly(w, final[i], final[j])
      <4>1. PICK k \in DOMAIN w.order, m \in DOMAIN w.order :
               k < m /\ w.order[k] = final[i] /\ w.order[m] = final[j]
        BY <3>2, <3>4
      <4>2. Fairly(w, w.order[k], w.order[m])  BY <3>3, <4>1
      <4> QED BY <4>1, <4>2
    <3> QED BY <3>2, <3>4
  <2> QED BY <2>1, <2>2
<1>13. /\ r.order \in Seq(Hosts) /\ IsInjective(r.order) /\ ToSet(r.order) = ToSet(w.order)
       /\ ~done => r.order = w.order
       /\ \A i, j \in DOMAIN r.order :
             i < j /\ q.prev \notin {r.order[i], r.order[j]} => Fairly(w, r.order[i], r.order[j])
  <2> HIDE DEF done
  <2>1. CASE done
    <3>1. r.order = final  BY <2>1, <1>10
    <3> QED BY <3>1, <2>1, <1>10, <1>12
  <2>2. CASE ~done
    <3>1. r.order = w.order  BY <2>2, <1>10
    <3> QED BY <3>1, <2>2, <1>8 DEF Ordered, Fair
  <2> QED BY <2>1, <2>2
<1>14. r \in StartRows
  <2>1. all \in Seq(Hosts) /\ t \in Nat  BY <1>7, <1>8, <1>f, <1>b
  <2>2. mine \in Seq(Hosts)  BY <1>7, <1>13
  <2>3. pc \in {"idle", "rank", "try", "over"}  BY <1>b
  <2>4. saw \in [Hosts -> [mode: Modes, score: Int]]  BY <1>6
  <2> QED BY <2>1, <2>2, <2>3, <2>4, <1>2, <1>c DEF StartRows
<1>15. /\ q.tier \in 1 .. Max(Tiers) /\ q.asked = <<>> /\ q.at = 1 /\ q.last = "none"
       /\ \A n \in q.barred : modes[n] = "exclude"
  BY <1>3 DEF Ranked
<1>16. Placed(r) /\ Ordered(r) /\ (~done => Fair(r)) /\ FairButOne(r)
  <2>1. Placed(r)  BY <1>8, <1>10 DEF Placed
  <2>2. Ordered(r)  BY <1>8, <1>10, <1>13 DEF Ordered
  <2>3. \A x, y : Fairly(r, x, y) <=> Fairly(w, x, y)  BY <1>10, FairlySame
  <2>4. FairButOne(r)  BY <2>3, <1>7, <1>13 DEF FairButOne
  <2>5. ~done => Fair(r)  BY <2>3, <1>8, <1>13 DEF Fair
  <2> QED BY <2>1, <2>2, <2>4, <2>5
<1>17. StartGood(r, modes)
  <2>1. ToSet(r.order) \cap r.barred = {} /\ ToSet(r.asked) \cap r.barred = {} /\ Len(r.asked) = 0
    BY <1>7, <1>11, <1>13, <1>15, NobodyYet
  <2>2. CASE ~done
    <3>1. r.pc = "rank"  BY <2>2, <1>10
    <3>2. r.tier \in 1 .. Max(Tiers)
      <4>1. q.tier \in 1 .. Max(Tiers) /\ q.tier # Max(Tiers) /\ Max(Tiers) \in Nat  BY <2>2, <1>15, TiersHaveMax DEF done
      <4>2. r.tier = q.tier + 1  BY <1>7, <1>b
      <4> HIDE DEF done
      <4> QED BY <4>1, <4>2
    <3>3. Ranked(r, modes)  BY <3>2, <2>2, <1>7, <1>15, <1>16 DEF Ranked
    <3> QED BY <3>1, <3>3, <2>1 DEF StartGood
  <2>3. CASE done /\ w.order = <<>>
    <3>1. r.pc = "over"  BY <2>3, <1>10
    <3>2. Len(r.order) = 0
      <4>1. ToSet(r.order) = {}  BY <2>3, <1>13, NobodyYet
      <4>2. DOMAIN r.order = {}  BY <4>1 DEF ToSet
      <4>3. 1 .. Len(r.order) = {} /\ Len(r.order) \in Nat  BY <4>2, <1>13, LenProperties
      <4>4. 1 \notin 1 .. Len(r.order)  BY <4>3
      <4> QED BY <4>3, <4>4
    <3>3. AsMany(r) = 0  BY <3>2, RankingAssumption DEF AsMany
    <3> QED BY <3>1, <3>3, <2>1 DEF StartGood
  <2>4. CASE done /\ w.order # <<>>
    <3>1. r.pc = "try"  BY <2>4, <1>10
    <3>2. r.tier = Max(Tiers) + 1  BY <2>4, <1>7, <1>b DEF done
    <3>3. Len(r.order) \in Nat \ {0}
      <4>1. Len(w.order) \in Nat \ {0}  BY <2>4, <1>8, EmptySeq
      <4>2. 1 \in DOMAIN w.order  BY <4>1, <1>8, LenProperties
      <4>3. w.order[1] \in ToSet(r.order)  BY <4>2, <1>13 DEF ToSet
      <4>4. DOMAIN r.order # {}  BY <4>3 DEF ToSet
      <4> QED BY <4>4, <1>13, LenProperties
    <3>4. AsMany(r) \in Nat \ {0}  BY <3>3, RankingAssumption DEF AsMany
    <3>5. r.at \in 1 .. AsMany(r) /\ Len(r.asked) = r.at - 1
      <4>1. r.at = 1  BY <1>7, <1>15
      <4> QED BY <4>1, <3>4, <2>1
    <3>6. Tried(r)  BY <3>2, <3>5, <1>16 DEF Tried
    <3> QED BY <3>1, <3>6, <2>1 DEF StartGood
  <2> QED BY <2>2, <2>3, <2>4
<1> QED BY <1>2, <1>e, <1>14, <1>17, OneStart

LEMMA ManyIs ==
    ASSUME NEW q \in StartRows
    PROVE  AsMany(q) = Min({MaxAttempts, Len(q.order)}) /\ AsMany(q) \in Nat /\ AsMany(q) <= Len(q.order)
<1>1. q.order \in Seq(Hosts)  BY DEF StartRows
<1>2. Len(q.order) \in Nat /\ MaxAttempts \in Nat  BY <1>1, LenProperties, RankingAssumption
<1>3. Min({MaxAttempts, Len(q.order)}) = IF MaxAttempts <= Len(q.order) THEN MaxAttempts ELSE Len(q.order)
  BY <1>2, TwoIsMin
<1> QED BY <1>2, <1>3 DEF AsMany

LEMMA TryKept ==
    ASSUME Starting, NEW s \in Starts, NEW answer \in Answers, Try(s, answer)
    PROVE  Starting'
<1>1. PICK q : q = start[s]  OBVIOUS
<1>2. q \in StartRows /\ q.pc = "try" /\ modes' = modes  BY <1>1 DEF Try, Starting
<1>3. Tried(q) /\ ToSet(q.order) \cap q.barred = {} /\ ToSet(q.asked) \cap q.barred = {}
  BY <1>1, <1>2 DEF Starting, StartGood
<1>4. /\ q.order \in Seq(Hosts) /\ q.asked \in Seq(Hosts) /\ q.at \in Nat /\ q.barred \subseteq Hosts
      /\ q.last \in {"none", "cut off"} \cup Answers
  BY <1>2 DEF StartRows
<1>5. /\ AsMany(q) = Min({MaxAttempts, Len(q.order)}) /\ AsMany(q) \in Nat /\ AsMany(q) <= Len(q.order)
      /\ Len(q.order) \in Nat
  BY <1>2, <1>4, ManyIs, LenProperties
<1>6. q.at \in 1 .. AsMany(q) /\ Len(q.asked) = q.at - 1  BY <1>3 DEF Tried
<1>7. q.at \in DOMAIN q.order
  <2>1. DOMAIN q.order = 1 .. Len(q.order)  BY <1>4, LenProperties
  <2> QED BY <2>1, <1>5, <1>6
<1>8. PICK n : n = q.order[q.at]  OBVIOUS
<1>9. n \in Hosts /\ n \in ToSet(q.order)
  <2>1. n \in ToSet(q.order)  BY <1>7, <1>8 DEF ToSet
  <2>2. n \in Hosts  BY <1>4, <1>7, <1>8, ElementOfSeq, LenProperties
  <2> QED BY <2>1, <2>2
<1>a. PICK at : at = q.at + 1  OBVIOUS
<1>b. PICK asked : asked = Append(q.asked, n)  OBVIOUS
<1>c. PICK last : last = (IF answer \in {"unreached", "garbled"} THEN q.last ELSE answer)  OBVIOUS
<1>10. PICK told : told = [q EXCEPT !.at = at, !.asked = asked, !.last = last]  OBVIOUS
<1>d. q.at \in Int /\ q.at >= 1 /\ q.at <= AsMany(q)
  <2>1. AsMany(q) \in Nat  BY <1>5
  <2>2. q.at \in 1 .. AsMany(q)  BY <1>6
  <2> QED BY <2>1, <2>2
<1> DEFINE stop == answer \in {"made", "refused"} \/ q.at = AsMany(q)
<1>11. start' = [start EXCEPT ![s] = IF stop THEN Closed(told) ELSE told]
  <2>1. told = [q EXCEPT !.at = q.at + 1, !.asked = Append(q.asked, n),
                         !.last = IF answer \in {"unreached", "garbled"} THEN q.last ELSE answer]
    BY <1>a, <1>b, <1>c, <1>10
  <2> QED BY <2>1, <1>1, <1>5, <1>8 DEF Try
<1>12. /\ asked \in Seq(Hosts) /\ Len(asked) = q.at /\ ToSet(asked) \cap q.barred = {}
  <2>0. n \in Hosts /\ q.asked \in Seq(Hosts)  BY <1>4, <1>9
  <2>1. /\ asked \in Seq(Hosts) /\ Len(asked) = Len(q.asked) + 1
        /\ \A i \in 1 .. Len(q.asked) : asked[i] = q.asked[i]
        /\ asked[Len(q.asked) + 1] = n
    BY <2>0, <1>b, AppendProperties
  <2>2. Len(asked) = q.at
    <3>1. Len(asked) = Len(q.asked) + 1 /\ Len(q.asked) = q.at - 1  BY <2>1, <1>6
    <3> QED BY <3>1, <1>d
  <2>3. /\ DOMAIN asked = 1 .. q.at /\ DOMAIN q.asked = 1 .. q.at - 1
    BY <2>1, <2>2, <1>4, <1>6, LenProperties
  <2>4. ASSUME NEW i \in DOMAIN asked PROVE asked[i] \notin q.barred
    <3>1. CASE i = q.at
      <4>1. asked[i] = n  BY <3>1, <2>1, <2>2
      <4> QED BY <4>1, <1>9, <1>3
    <3>2. CASE i # q.at
      <4>1. i \in 1 .. q.at - 1
        <5>1. i \in 1 .. q.at  BY <2>3
        <5> QED BY <5>1, <3>2, <1>d
      <4>2. asked[i] = q.asked[i] /\ i \in DOMAIN q.asked  BY <4>1, <2>1, <2>3, <1>6
      <4>3. asked[i] \in ToSet(q.asked)  BY <4>2 DEF ToSet
      <4> QED BY <4>3, <1>3
    <3> QED BY <3>1, <3>2
  <2>5. ToSet(asked) \cap q.barred = {}  BY <2>4 DEF ToSet
  <2> QED BY <2>1, <2>2, <2>5
<1>13. /\ told.pc = "try" /\ told.tier = q.tier /\ told.prev = q.prev /\ told.base = q.base /\ told.order = q.order
       /\ told.at = at /\ told.last = last /\ told.asked = asked /\ told.barred = q.barred /\ told.saw = q.saw
  BY <1>2, <1>10 DEF StartRows
<1>14. at \in Nat /\ last \in {"none", "cut off"} \cup Answers
  <2>1. at \in Nat  BY <1>a, <1>d
  <2>2. last \in {"none", "cut off"} \cup Answers  BY <1>4, <1>c
  <2> QED BY <2>1, <2>2
<1>15. told \in StartRows  BY <1>2, <1>10, <1>12, <1>14 DEF StartRows
<1>16. CASE ~stop
  <2>1. q.at # AsMany(q)  BY <1>16
  <2>2. AsMany(told) = AsMany(q)  BY <1>13 DEF AsMany
  <2>3. told.at \in 1 .. AsMany(told) /\ Len(told.asked) = told.at - 1
    <3> HIDE DEF stop
    <3>1. at \in 1 .. AsMany(q) /\ q.at = at - 1
      <4>1. AsMany(q) \in Int  BY <1>5
      <4> QED BY <4>1, <2>1, <1>a, <1>d
    <3> QED BY <3>1, <2>2, <1>12, <1>13
  <2>4. Placed(told)  BY <1>3, <1>13 DEF Tried, Placed
  <2>5. Ordered(told)  BY <1>3, <1>13 DEF Tried, Ordered
  <2>6. FairButOne(told)
    <3>1. \A x, y : Fairly(told, x, y) <=> Fairly(q, x, y)  BY <1>13, FairlySame
    <3> QED BY <3>1, <1>3, <1>13 DEF Tried, FairButOne
  <2>7. Tried(told)  BY <2>3, <2>4, <2>5, <2>6, <1>3, <1>13 DEF Tried
  <2>8. StartGood(told, modes)  BY <2>7, <1>3, <1>12, <1>13 DEF StartGood
  <2>9. start' = [start EXCEPT ![s] = told]  BY <1>11, <1>16
  <2> QED BY <2>8, <2>9, <1>2, <1>15, OneStart
<1>17. CASE stop
  <2>1. PICK r : r = Closed(told)  OBVIOUS
  <2>2. r \in StartRows
    <3>1. NoStart.saw \in [Hosts -> [mode: Modes, score: Int]]  BY NoStartGood DEF StartRows
    <3>2. Nobody \in Hosts \cup {Nobody} /\ <<>> \in Seq(Hosts)  BY NobodyYet
    <3> QED BY <3>1, <3>2, <2>1, <1>15 DEF StartRows, Closed
  <2>3. r.pc = "over" /\ r.order = q.order /\ r.asked = asked /\ r.barred = q.barred /\ r.last = last
    BY <2>1, <1>13, <1>15 DEF Closed, StartRows
  <2>4. ASSUME r.last \in {"none", "full", "failed"} PROVE Len(r.asked) = AsMany(r)
    <3>1. answer \notin {"made", "refused"}  BY <2>3, <2>4, <1>c
    <3>2. q.at = AsMany(q)  BY <3>1, <1>17
    <3>3. AsMany(r) = AsMany(q)  BY <2>3 DEF AsMany
    <3> QED BY <3>2, <3>3, <2>3, <1>12
  <2>5. StartGood(r, modes)  BY <2>3, <2>4, <1>12 DEF StartGood
  <2>6. start' = [start EXCEPT ![s] = r]  BY <2>1, <1>11, <1>17
  <2> QED BY <2>2, <2>5, <2>6, <1>2, OneStart
<1> QED BY <1>16, <1>17

LEMMA EditKeepsStarts ==
    ASSUME Starting, Overrides, EditsGood, NEW e \in Edits, SetOverride(e)
    PROVE  Starting'
<1>1. PICK n : n = edit[e].host  OBVIOUS
<1>2. /\ modes' = [modes EXCEPT ![n] = edit[e].to]
      /\ start' = [s \in Starts |-> [start[s] EXCEPT !.barred = start[s].barred \ {n}]]
  BY <1>1 DEF SetOverride
<1>3. \A m \in Hosts : m # n => modes'[m] = modes[m]  BY <1>2 DEF Overrides
<1>4. ASSUME NEW s \in Starts
      PROVE  start'[s] \in StartRows /\ StartGood(start'[s], modes')
  <2>1. PICK q : q = start[s]  OBVIOUS
  <2>2. PICK r : r = [q EXCEPT !.barred = q.barred \ {n}]  OBVIOUS
  <2>3. start'[s] = r  BY <1>2, <2>1, <2>2
  <2>4. q \in StartRows /\ StartGood(q, modes)  BY <2>1 DEF Starting
  <2>5. r \in StartRows  BY <2>2, <2>4 DEF StartRows
  <2>6. /\ r.pc = q.pc /\ r.tier = q.tier /\ r.prev = q.prev /\ r.base = q.base /\ r.order = q.order /\ r.at = q.at
        /\ r.last = q.last /\ r.asked = q.asked /\ r.saw = q.saw /\ r.barred = q.barred \ {n}
    BY <2>2, <2>4 DEF StartRows
  <2>7. \A m \in r.barred : m \in q.barred /\ m # n /\ m \in Hosts  BY <2>6, <2>4 DEF StartRows
  <2>8. /\ ToSet(q.order) \cap q.barred = {} => ToSet(r.order) \cap r.barred = {}
        /\ ToSet(q.asked) \cap q.barred = {} => ToSet(r.asked) \cap r.barred = {}
    BY <2>6, <2>7
  <2>9. AsMany(r) = AsMany(q)  BY <2>6 DEF AsMany
  <2>10. Placed(q) => Placed(r)  BY <2>6 DEF Placed
  <2>11. Ordered(q) => Ordered(r)  BY <2>6 DEF Ordered
  <2>12. \A x, y : Fairly(r, x, y) <=> Fairly(q, x, y)  BY <2>6, FairlySame
  <2>13. Fair(q) => Fair(r)  BY <2>6, <2>12 DEF Fair
  <2>14. FairButOne(q) => FairButOne(r)  BY <2>6, <2>12 DEF FairButOne
  <2>15. Ranked(q, modes) => Ranked(r, modes')
    <3> SUFFICES ASSUME Ranked(q, modes) PROVE Ranked(r, modes')
      OBVIOUS
    <3>1. \A m \in r.barred : modes'[m] = "exclude"  BY <2>7, <1>3 DEF Ranked
    <3> QED BY <3>1, <2>6, <2>10, <2>11, <2>13 DEF Ranked
  <2>16. Tried(q) => Tried(r)  BY <2>6, <2>9, <2>10, <2>11, <2>14 DEF Tried
  <2>17. r.pc = "idle" => r = NoStart
    <3> SUFFICES ASSUME r.pc = "idle" PROVE r = NoStart
      OBVIOUS
    <3>1. q = NoStart  BY <2>4, <2>6 DEF StartGood
    <3>2. q.barred = {}  BY <3>1 DEF NoStart
    <3>3. q.barred \ {n} = q.barred  BY <3>2
    <3>4. r = q  BY <2>2, <2>4, <3>3 DEF StartRows
    <3> QED BY <3>1, <3>4
  <2>18. StartGood(r, modes')
    <3>1. r.pc = "rank" => Ranked(r, modes')  BY <2>4, <2>6, <2>15 DEF StartGood
    <3>2. r.pc = "try" => Tried(r)  BY <2>4, <2>6, <2>16 DEF StartGood
    <3>3. r.pc \in {"rank", "try"} => ToSet(r.order) \cap r.barred = {}  BY <2>4, <2>6, <2>8 DEF StartGood
    <3>4. ToSet(r.asked) \cap r.barred = {}  BY <2>4, <2>8 DEF StartGood
    <3>5. r.pc = "over" /\ r.last \in {"none", "full", "failed"} => Len(r.asked) = AsMany(r)
      BY <2>4, <2>6, <2>9 DEF StartGood
    <3> QED BY <2>17, <3>1, <3>2, <3>3, <3>4, <3>5 DEF StartGood
  <2> QED BY <2>3, <2>5, <2>18
<1>5. start' \in [Starts -> StartRows]
  <2>1. start' = [s \in Starts |-> start'[s]]  BY <1>2
  <2> QED BY <2>1, <1>4
<1> QED BY <1>4, <1>5 DEF Starting

LEMMA ReloadKeepsStarts ==
    ASSUME Starting, ReloadAll
    PROVE  Starting'
<1>1. PICK cut : cut = [NoStart EXCEPT !.pc = "over", !.last = "cut off"]  OBVIOUS
<1>2. start' = [s \in Starts |-> IF start[s].pc = "idle" THEN start[s] ELSE cut]  BY <1>1 DEF ReloadAll
<1>3. cut \in StartRows /\ \A m : StartGood(cut, m)  BY <1>1, NoStartGood
<1>4. ASSUME NEW s \in Starts
      PROVE  start'[s] \in StartRows /\ StartGood(start'[s], modes')
  <2>1. CASE start[s].pc = "idle"
    <3>1. start[s] = NoStart  BY <2>1 DEF Starting, StartGood
    <3>2. start'[s] = NoStart  BY <3>1, <2>1, <1>2
    <3> QED BY <3>2, NoStartGood
  <2>2. CASE start[s].pc # "idle"
    <3>1. start'[s] = cut  BY <2>2, <1>2
    <3> QED BY <3>1, <1>3
  <2> QED BY <2>1, <2>2
<1>5. start' \in [Starts -> StartRows]
  <2>1. start' = [s \in Starts |-> start'[s]]  BY <1>2
  <2> QED BY <2>1, <1>4
<1> QED BY <1>4, <1>5 DEF Starting

LEMMA StartsNext == Starting /\ Tracked /\ OverridesGood /\ RKNext => Starting'
<1> SUFFICES ASSUME Starting, Tracked, OverridesGood, RKNext PROVE Starting'
  OBVIOUS
<1>1. Overrides /\ EditsGood  BY DEF OverridesGood
<1>2. ASSUME NEW s \in Starts, NEW prev \in Hosts \cup {Nobody}, BeginRank(s, prev) PROVE Starting'
  BY <1>2, BeginRankKept
<1>3. ASSUME NEW s \in Starts, RankNext(s) PROVE Starting'
  BY <1>1, <1>3, RankNextKept
<1>4. ASSUME NEW s \in Starts, NEW answer \in Answers, Try(s, answer) PROVE Starting'
  BY <1>4, TryKept
<1>5. ASSUME NEW n \in Blamed, NEW labels \in Labels, ReportFailure(n, labels) PROVE Starting'
  BY <1>5, StartsStay DEF ReportFailure
<1>6. ASSUME Halve PROVE Starting'
  BY <1>6, StartsStay DEF Halve
<1>7. ASSUME NEW e \in Edits, SetOverride(e) PROVE Starting'
  BY <1>1, <1>7, EditKeepsStarts
<1>8. ASSUME NEW e \in Edits, NEW n \in Hosts, NEW to \in Wishes, StoreEdit(e, n, to) PROVE Starting'
  BY <1>8, StartsStay DEF StoreEdit
<1>9. ASSUME ReloadAll PROVE Starting'
  BY <1>9, ReloadKeepsStarts
<1> QED BY <1>2, <1>3, <1>4, <1>5, <1>6, <1>7, <1>8, <1>9 DEF RKNext

-----------------------------------------------------------------------------
(* The theorem.                                                            *)

RankInv == Tracked /\ halvings \in Nat /\ OverridesGood /\ Starting

LEMMA RankInvSafe == RankInv => RankingSafe
<1> SUFFICES ASSUME RankInv PROVE RankingSafe
  OBVIOUS
<1>1. Tracked /\ Overrides /\ OverridesKept /\ Starting  BY DEF RankInv, OverridesGood
<1>2. RKTypeOK  BY <1>1 DEF RKTypeOK, Tracked, Overrides, ScopesGood, ScopesFit
<1>3. AllViewersHaveMost  BY <1>1 DEF AllViewersHaveMost, Tracked, ScopesGood
<1>4. ExcludedNotAsked  BY <1>1 DEF ExcludedNotAsked, Starting, StartGood
<1>5. ASSUME NEW s \in Starts, start[s].pc = "try"
      PROVE  /\ IsInjective(start[s].order)
             /\ ToSet(start[s].order) = {n \in Hosts : start[s].saw[n].mode # "exclude"}
             /\ FairButOne(start[s])
  <2>1. PICK q : q = start[s]  OBVIOUS
  <2>2. Tried(q)  BY <1>1, <1>5, <2>1 DEF Starting, StartGood
  <2>3. \A n \in Hosts : Tier[n] < q.tier
    <3>1. q.tier = Max(Tiers) + 1  BY <2>2 DEF Tried
    <3> QED BY <3>1, TiersHaveMax
  <2>4. IsInjective(q.order) /\ FairButOne(q)  BY <2>2 DEF Tried, Ordered
  <2>5. ToSet(q.order) = {n \in Hosts : Tier[n] < q.tier /\ q.saw[n].mode # "exclude"}  BY <2>2 DEF Tried, Ordered
  <2>6. ToSet(q.order) = {n \in Hosts : q.saw[n].mode # "exclude"}  BY <2>3, <2>5
  <2> QED BY <2>1, <2>4, <2>6
<1>6. EveryoneOnce  BY <1>5 DEF EveryoneOnce
<1>7. FairOrder  BY <1>5 DEF FairOrder, FairButOne
<1>8. GivesUpLast
  <2>1. ASSUME NEW s \in Starts, start[s].pc = "over", start[s].last \in {"none", "full", "failed"}
        PROVE  Len(start[s].asked) = Min({MaxAttempts, Len(start[s].order)})
    <3>1. start[s] \in StartRows /\ StartGood(start[s], modes)  BY <1>1 DEF Starting
    <3>2. Len(start[s].asked) = AsMany(start[s])  BY <2>1, <3>1 DEF StartGood
    <3> QED BY <3>1, <3>2, ManyIs
  <2> QED BY <2>1 DEF GivesUpLast
<1> QED BY <1>1, <1>2, <1>3, <1>4, <1>6, <1>7, <1>8 DEF RankingSafe

\* In every state of every installation: the scope of all viewers has most
\* evidence and stays; the process goes by what the administrator stored,
\* outside an edit; an excluded worker is not asked; every other is in the
\* order once, tier by tier, the preferred first and the avoided last; and
\* nobody is told that no worker answers while one of the first was not asked.
THEOREM RankingIsSafe == RKSpec => RankingContract
<1>1. RKInit => RankInv  BY TrackedInit, OverridesInit, StartsInit DEF RankInv
<1>2. RankInv /\ [RKNext]_rkVars => RankInv'
  <2>1. RankInv /\ RKNext => RankInv'
    BY TrackedKept, OverridesNext, StartsNext DEF RankInv
  <2>2. RankInv /\ UNCHANGED rkVars => RankInv'
    <3> SUFFICES ASSUME RankInv, UNCHANGED rkVars PROVE RankInv'
      OBVIOUS
    <3>1. /\ tracked' = tracked /\ modes' = modes /\ stored' = stored /\ edit' = edit
          /\ start' = start /\ halvings' = halvings /\ apart' = apart
      BY DEF rkVars
    <3>2. Tracked'  BY <3>1 DEF RankInv, Tracked
    <3>3. OverridesGood'  BY <3>1, OverridesStay DEF RankInv
    <3>4. Starting'  BY <3>1, StartsStay DEF RankInv
    <3> QED BY <3>1, <3>2, <3>3, <3>4 DEF RankInv
  <2> QED BY <2>1, <2>2
<1>3. RankInv /\ RankInv' /\ [RKNext]_rkVars => UNCHANGED rkVars \/ RankingSafe'
  <2>1. RankInv' => RankingSafe'  BY RankInvSafe, PTL
  <2> QED BY <2>1
<1> QED BY <1>1, <1>2, <1>3, PTL DEF RKSpec, RankingContract
=============================================================================
