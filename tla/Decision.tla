------------------------------ MODULE Decision ------------------------------
(***************************************************************************)
(* How a title reaches a player: decision.Decide picks direct play, remux  *)
(* or transcode and the height of the picture, createLocal refuses or      *)
(* takes an encode slot, promoteNativeRemux turns a remux that cannot be   *)
(* cut at keyframes into an encode, and BuildArgs tells ffmpeg what to     *)
(* copy, scale and burn in.                                                *)
(* A request is one member of Asks; reasons and labels are left out.       *)
(***************************************************************************)
EXTENDS Integers

CONSTANT Asks      \* the requests of the instance, members of AskType

VARIABLES
    ask,    \* what the player asked for, of which file
    stage,  \* how far createLocal and the start of ffmpeg have got
    plan,   \* Decide's Result
    slot,   \* an encode slot was taken for the session
    sent    \* what the player receives

dcVars == <<ask, stage, plan, slot, sent>>

Said == {"yes", "no", "unsaid"}
ClientType ==
    [ua: {"safari", "edge", "chrome", "windows_chrome"}, hevc: Said, probe: Said,
     deep: Said, probeDeep: Said, ac3: Said, probeAc3: Said, ass: BOOLEAN]
AskType ==
    [video: {"h264", "hevc", "other"}, depth: {8, 10}, audio: {"aac", "ac3", "dts"},
     container: {"mp4", "mkv"}, height: Nat, wide: BOOLEAN, hdr: BOOLEAN,
     sub: {"none", "text", "ass", "pgs"}, quality: Nat, lan: BOOLEAN, share: {0, 480, 720, 1080},
     viewport: Nat, original: BOOLEAN, zscale: BOOLEAN, client: ClientType]
Heights == Nat

ASSUME DecisionAssumption == Asks \subseteq AskType

NoPlan == [mode |-> "none", height |-> 0, video |-> FALSE, audio |-> FALSE,
           burn |-> FALSE, refuse |-> FALSE]
Nothing == [picture |-> "none", height |-> 0, sound |-> "none", burned |-> FALSE]

DCTypeOK ==
    /\ ask \in AskType
    /\ stage \in {"asked", "decided", "admitted", "promoted", "refused", "sent"}
    /\ plan.height \in Heights /\ slot \in BOOLEAN /\ sent.height \in Heights
    /\ slot => plan.video

DCInit == ask \in Asks /\ stage = "asked" /\ plan = NoPlan /\ slot = FALSE /\ sent = Nothing

-----------------------------------------------------------------------------
(* capability.Profile: what the browser says, what its decoders answered    *)
(* and what its name lets expect.                                           *)

Told(word, otherwise) == IF word = "unsaid" THEN otherwise ELSE word = "yes"

HevcGeneric(c) ==
    /\ c.hevc # "no"
    /\ Told(c.probe, IF c.hevc = "yes" THEN c.ua # "windows_chrome"
                      ELSE c.ua \in {"safari", "edge"})

HevcOK(c, main10) ==
    IF main10
    THEN /\ c.deep # "no"
         /\ Told(c.probeDeep, c.deep = "yes" \/ (c.ua = "safari" /\ HevcGeneric(c)))
    ELSE HevcGeneric(c)

Ac3OK(c) ==
    /\ c.ac3 # "no"
    /\ Told(c.probeAc3, c.ua \in {"safari", "edge"} /\ Told(c.ac3, c.ua = "safari"))

VideoDirect(a) ==
    \/ a.video = "h264"
    \/ a.video = "hevc" /\ HevcOK(a.client, a.depth = 10)

AudioDirect(a) == a.audio = "aac" \/ (a.audio = "ac3" /\ Ac3OK(a.client))

Burns(a) == a.sub = "pgs" \/ (a.sub = "ass" /\ ~a.client.ass)

-----------------------------------------------------------------------------
(* decision.PickHeight.                                                     *)

Lesser(x, y) == IF x < y THEN x ELSE y
Snap(h) == IF h <= 480 THEN 480 ELSE IF h <= 720 THEN 720 ELSE 1080

AutoHeight(srcH, a) ==
    LET net == Lesser(srcH, IF a.lan THEN 1080 ELSE 720)
    IN  Snap(IF a.viewport > 0 THEN Lesser(Snap(a.viewport), net) ELSE net)

\* A slip: the share's limit bounds the automatic height only.
PickAutoOnly(a) ==
    LET srcH == IF a.height = 0 THEN 1080 ELSE a.height
        auto == AutoHeight(srcH, a)
        want == IF a.quality > 0 THEN Snap(a.quality)
                ELSE IF a.share > 0 THEN Lesser(auto, Snap(a.share)) ELSE auto
    IN  Lesser(want, srcH)

PickHeight(a) ==
    LET srcH == IF a.height = 0 THEN 1080 ELSE a.height
        want == IF a.quality > 0 THEN Snap(a.quality) ELSE AutoHeight(srcH, a)
        held == IF a.share > 0 /\ want > a.share THEN Snap(a.share) ELSE want
    IN  Lesser(held, srcH)

KeepsSize(a) == a.original /\ a.share = 0 /\ a.quality = 0
Height(a) == IF KeepsSize(a) THEN a.height ELSE PickHeight(a)

Is4K(a) == a.wide \/ a.height >= 2160

-----------------------------------------------------------------------------
(* decision.Decide and what follows from it.                                *)

Scales(a) == Height(a) > 0 /\ a.height > 0 /\ Height(a) < a.height

Mode(a, video, audio) ==
    IF video /\ audio THEN "transcode_av"
    ELSE IF Burns(a) /\ VideoDirect(a) /\ ~Scales(a) THEN "burn_subs"
    ELSE IF video THEN "transcode_video"
    ELSE IF audio THEN "transcode_audio"
    ELSE IF a.container = "mp4" THEN "direct" ELSE "remux"

Decided(a) ==
    LET video == ~VideoDirect(a) \/ Burns(a) \/ Scales(a)
        audio == ~AudioDirect(a)
    IN  [mode |-> Mode(a, video, audio), height |-> Height(a), video |-> video,
         audio |-> audio, burn |-> Burns(a),
         refuse |-> Is4K(a) /\ a.hdr /\ ~a.zscale /\ video]

\* Decide runs in the request and its refusal answers 409.
Decide ==
    /\ stage = "asked"
    /\ plan' = Decided(ask)
    /\ stage' = IF plan'.refuse THEN "refused" ELSE "decided"
    /\ UNCHANGED <<ask, slot, sent>>

\* createLocal takes a slot for what Decide wants encoded.
TakeSlot ==
    /\ stage = "decided"
    /\ slot' = plan.video
    /\ stage' = "admitted"
    /\ UNCHANGED <<ask, plan, sent>>

\* prepareVOD found no keyframes to cut at: PromoteRemuxToVideoXcode.
PromoteRemux ==
    /\ stage = "admitted" /\ plan.mode = "remux"
    /\ plan' = [plan EXCEPT !.video = TRUE,
                            !.mode = IF plan.audio THEN "transcode_av" ELSE "transcode_video"]
    /\ slot' = TRUE
    /\ stage' = "promoted"
    /\ UNCHANGED <<ask, sent>>

-----------------------------------------------------------------------------
(* transcode.Start, BuildArgs and BuildVF, hls.Remux, and direct play.      *)

\* BuildArgs' copyV: the picture is copied.
CopiesPicture ==
    \/ plan.mode \in {"direct", "remux"}
    \/ /\ ~plan.video /\ ~plan.burn
       /\ plan.height <= 0 \/ plan.height >= ask.height

Filtered ==
    IF CopiesPicture
    THEN [picture |-> "copied", height |-> ask.height, burned |-> FALSE,
          sound |-> IF plan.audio THEN "encoded" ELSE "copied"]
    ELSE [picture |-> "encoded", height |-> IF plan.height > 0 THEN plan.height ELSE ask.height,
          burned |-> plan.burn, sound |-> IF plan.audio THEN "encoded" ELSE "copied"]

\* transcode.Start refuses what Decide refuses.
StartRefuses == plan.mode \notin {"direct", "remux"} /\ Is4K(ask) /\ ask.hdr /\ ~ask.zscale

Send ==
    /\ stage \in {"admitted", "promoted"}
    /\ IF StartRefuses
       THEN stage' = "refused" /\ slot' = FALSE /\ UNCHANGED sent
       ELSE stage' = "sent" /\ sent' = Filtered /\ UNCHANGED slot
    /\ UNCHANGED <<ask, plan>>

DCNext == Decide \/ TakeSlot \/ PromoteRemux \/ Send

DCSpec == DCInit /\ [][DCNext]_dcVars
-----------------------------------------------------------------------------
(* Properties.                                                             *)

IsSent == stage = "sent"

\* A guest of a share with a limit is never sent a higher picture, whatever
\* quality is asked for and whether the title is a copy kept at its size.
CapHolds == IsSent /\ ask.share > 0 /\ ask.height > 0 => sent.height <= ask.share

\* ffmpeg encodes the picture exactly when a slot was taken for it: Decide,
\* the promotion and BuildArgs each decide this for themselves.
SlotIsForEncode == IsSent => (slot <=> sent.picture = "encoded")

Denied(word, answer) == word = "no" \/ answer = "no"

\* What is sent as it is in the file is nothing the browser or its decoder
\* said no to, and subtitles only ffmpeg can draw are in the picture.
PlayerCan ==
    IsSent =>
      /\ sent.picture = "copied" =>
           /\ ask.video # "other"
           /\ ask.video = "hevc" =>
                IF ask.depth = 10 THEN ~Denied(ask.client.deep, ask.client.probeDeep)
                ELSE ~Denied(ask.client.hevc, ask.client.probe)
      /\ sent.sound = "copied" =>
           /\ ask.audio # "dts"
           /\ ask.audio = "ac3" => ~Denied(ask.client.ac3, ask.client.probeAc3)
      /\ Burns(ask) => sent.burned

\* No 4K HDR picture is encoded without zscale, also not after a promotion,
\* which does not ask again; and no picture is enlarged.
SoundEncode ==
    IsSent /\ sent.picture = "encoded" =>
      /\ ask.hdr /\ Is4K(ask) => ask.zscale
      /\ ask.height > 0 => sent.height <= ask.height

\* What a player, a guest's limit and the encode slots may count on.
DecisionSafe == DCTypeOK /\ CapHolds /\ SlotIsForEncode /\ PlayerCan /\ SoundEncode

=============================================================================
