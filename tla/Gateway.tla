------------------------------- MODULE Gateway --------------------------------
(***************************************************************************)
(* The bot's connection to the Discord Gateway                             *)
(* (internal/discordbot/gateway): one goroutine that signs in, resumes its *)
(* session after a loss, waits after a refusal, and reads the token again  *)
(* when it is told that the token has changed.                             *)
(*                                                                         *)
(* Discord and the network are external: they answer what the protocol     *)
(* allows, and fail at most MaxFaults times. Durations are left out.       *)
(***************************************************************************)
EXTENDS Naturals

CONSTANTS
    Tokens,     \* bot tokens that can be saved
    Accepted,   \* those Discord accepts
    NoToken,    \* no bot configured, or no session
    MaxFaults,  \* bound: failures of Discord and the network
    MaxChanges  \* bound: changes of the setting

ASSUME GatewayAssumption ==
    Accepted \subseteq Tokens /\ NoToken \notin Tokens /\ MaxFaults \in Nat /\ MaxChanges \in Nat

VARIABLES
    setting, \* the token in the settings
    owed,    \* the setting has changed and Reload has not been called yet
    kick,    \* the reload channel holds its one message
    bot,     \* run and session: where they are, the token of this turn, the
             \* token the session was opened with, the last heartbeat's answer
    status,  \* what the administrator sees
    line,    \* the connection: up, dead (nothing arrives any more) or gone
    known,   \* Discord still knows the session
    ended,   \* the process is stopping
    mishaps, \* failures so far
    changes  \* changes so far

gwVars == <<setting, owed, kick, bot, status, line, known, ended, mishaps, changes>>

\* Every variable has its type.
GWTypeOK ==
    /\ setting \in Tokens \cup {NoToken}
    /\ {owed, kick, known, ended} \subseteq BOOLEAN
    /\ bot \in [pc: {"top", "dial", "hello", "open", "pause", "off"}, tok: Tokens \cup {NoToken},
                sess: Tokens \cup {NoToken}, acked: BOOLEAN]
    /\ status \in [state: {"disabled", "connecting", "online", "reconnecting", "failed", "stopped"},
                   rejected: BOOLEAN]
    /\ line \in {"up", "dead", "gone"}
    /\ mishaps \in 0..MaxFaults /\ changes \in 0..MaxChanges

GWInit ==
    /\ setting \in Tokens \cup {NoToken}
    /\ bot = [pc |-> "top", tok |-> NoToken, sess |-> NoToken, acked |-> TRUE]
    /\ status = [state |-> "stopped", rejected |-> FALSE]
    /\ owed = FALSE /\ kick = FALSE /\ line = "gone" /\ known = FALSE /\ ended = FALSE
    /\ mishaps = 0 /\ changes = 0

outside == <<setting, owed, ended, changes>>
Shown(state) == status' = [status EXCEPT !.state = state]
Mishap == mishaps < MaxFaults /\ mishaps' = mishaps + 1
Open == bot.pc = "open"

\* Dialled and in session's select loops.
Connected == bot.pc \in {"hello", "open"}

-----------------------------------------------------------------------------
(* How a connection ends: outcome and what run does with it.               *)

\* outRetry: a session that cannot be resumed is forgotten. A wait of zero
\* (Discord asked for it) is over at once, any other ends by itself too.
Retry(resume) ==
    /\ bot' = [bot EXCEPT !.pc = "pause", !.sess = IF resume THEN @ ELSE NoToken]
    /\ Shown("reconnecting") /\ line' = "gone"

\* outFatal: waits half an hour, or for a reload.
Fatal(rejected) ==
    /\ bot' = [bot EXCEPT !.pc = "pause", !.sess = NoToken]
    /\ status' = [state |-> "failed", rejected |-> rejected] /\ line' = "gone"

-----------------------------------------------------------------------------
(* One turn of run.                                                        *)

\* Mutant: the session of the token before is kept.
TopKeeps ==
    /\ bot.pc = "top" /\ ~ended
    /\ bot' = [bot EXCEPT !.tok = setting, !.pc = IF setting = NoToken THEN "pause" ELSE "dial"]
    /\ Shown(IF setting = NoToken THEN "disabled" ELSE "connecting")
    /\ UNCHANGED <<outside, kick, line, known, mishaps>>

\* The token is read. With another one than before everything starts anew.
Top ==
    LET new == setting # bot.tok IN
    /\ bot.pc = "top" /\ ~ended
    /\ bot' = [bot EXCEPT !.tok = setting, !.sess = IF new THEN NoToken ELSE @,
                          !.pc = IF setting = NoToken THEN "pause" ELSE "dial"]
    /\ status' = [state |-> IF setting = NoToken THEN "disabled" ELSE "connecting",
                  rejected |-> IF new THEN FALSE ELSE status.rejected]
    /\ UNCHANGED <<outside, kick, line, known, mishaps>>

Dial ==
    /\ bot.pc = "dial"
    /\ \/ bot' = [bot EXCEPT !.pc = "hello"] /\ line' = "up" /\ UNCHANGED <<status, mishaps>>
       \/ Mishap /\ Retry(TRUE)
    /\ UNCHANGED <<outside, kick, known>>

\* Discord's greeting; the answer is resume or identify, by bot.sess.
Hello ==
    /\ bot.pc = "hello" /\ line = "up"
    /\ bot' = [bot EXCEPT !.pc = "open", !.acked = TRUE]
    /\ UNCHANGED <<outside, kick, status, line, known, mishaps>>

\* No greeting in time.
NoHello ==
    /\ bot.pc = "hello" /\ line = "dead" /\ Retry(TRUE)
    /\ UNCHANGED <<outside, kick, known, mishaps>>

SigningIn == Open /\ line = "up" /\ status.state # "online"
Resuming == bot.sess # NoToken

\* READY: a new session. RESUMED: the one before.
SignedIn ==
    /\ SigningIn /\ bot.tok \in Accepted /\ (Resuming => known)
    /\ status' = [state |-> "online", rejected |-> FALSE]
    /\ bot' = [bot EXCEPT !.sess = bot.tok] /\ known' = TRUE
    /\ UNCHANGED <<outside, kick, line, mishaps>>

\* 4004: the token is refused.
Rejected ==
    /\ SigningIn /\ bot.tok \notin Accepted /\ Fatal(TRUE)
    /\ UNCHANGED <<outside, kick, known, mishaps>>

\* Invalid session, 4007 and 4009: Discord does not know the session any more.
Unknown ==
    /\ SigningIn /\ bot.tok \in Accepted /\ Resuming /\ ~known /\ Retry(FALSE)
    /\ UNCHANGED <<outside, kick, known, mishaps>>

\* A heartbeat is due: the second one without an answer gives the line up.
Beat ==
    /\ Open /\ line = "dead"
    /\ IF bot.acked THEN bot' = [bot EXCEPT !.acked = FALSE] /\ UNCHANGED <<status, line>>
                    ELSE Retry(TRUE)
    /\ UNCHANGED <<outside, kick, known, mishaps>>

ReadError ==
    /\ Connected /\ line = "gone" /\ Retry(TRUE)
    /\ UNCHANGED <<outside, kick, known, mishaps>>

\* Reload while a session is open: only another token ends it, with a normal
\* close, after which Discord forgets the session.
Reloaded ==
    /\ Open /\ kick /\ kick' = FALSE
    /\ IF setting = bot.tok THEN UNCHANGED <<bot, line, known>>
       ELSE bot' = [bot EXCEPT !.pc = "top"] /\ line' = "gone" /\ known' = FALSE
    /\ UNCHANGED <<outside, status, mishaps>>

\* wait ends by its timer, which there is unless no token is set ...
TimeOut ==
    /\ bot.pc = "pause" /\ status.state # "disabled" /\ ~ended
    /\ bot' = [bot EXCEPT !.pc = "top"]
    /\ UNCHANGED <<outside, kick, status, line, known, mishaps>>

\* ... or by a reload, also by one that was meant for an earlier moment.
WakeUp ==
    /\ bot.pc = "pause" /\ kick /\ kick' = FALSE
    /\ bot' = [bot EXCEPT !.pc = "top"]
    /\ UNCHANGED <<outside, status, line, known, mishaps>>

BotStep ==
    \/ Top \/ Dial \/ Hello \/ NoHello \/ SignedIn \/ Rejected \/ Unknown \/ Beat
    \/ ReadError \/ Reloaded \/ TimeOut \/ WakeUp

\* The context ends: noticed in every wait and select, and at the top.
Halt ==
    /\ ended /\ bot.pc # "off"
    /\ bot' = [bot EXCEPT !.pc = "off"] /\ Shown("stopped")
    /\ line' = "gone" /\ known' = (known /\ ~Connected)
    /\ UNCHANGED <<outside, kick, mishaps>>

-----------------------------------------------------------------------------
(* Discord, the network, the administrator.                                *)

\* The connection is lost, or goes dead with or without a heartbeat unanswered.
Cut ==
    /\ Connected /\ line = "up" /\ Mishap
    /\ line' \in {"dead", "gone"}
    /\ \E a \in BOOLEAN : bot' = [bot EXCEPT !.acked = a]
    /\ UNCHANGED <<outside, kick, status, known>>

\* Discord asks for a new connection, ends the session, or refuses to serve
\* this bot (4010 to 4014).
Dismiss ==
    /\ Open /\ line = "up" /\ Mishap
    /\ \/ Retry(TRUE) /\ UNCHANGED known
       \/ Retry(FALSE) /\ known' = FALSE
       \/ Fatal(FALSE) /\ known' = FALSE
    /\ UNCHANGED <<outside, kick>>

\* A session that nobody resumes is forgotten.
Forget ==
    /\ known /\ ~(Open /\ status.state = "online") /\ Mishap /\ known' = FALSE
    /\ UNCHANGED <<outside, kick, bot, status, line>>

\* runtimecfg changes the value, then calls the hook.
Configure(t) ==
    /\ t # setting /\ changes < MaxChanges /\ changes' = changes + 1
    /\ setting' = t /\ owed' = TRUE
    /\ UNCHANGED <<kick, bot, status, line, known, ended, mishaps>>

\* The channel takes one message: a second one is dropped.
Reload ==
    /\ owed /\ owed' = FALSE /\ kick' = TRUE
    /\ UNCHANGED <<setting, bot, status, line, known, ended, mishaps, changes>>

StopBot ==
    /\ ~ended /\ ended' = TRUE
    /\ UNCHANGED <<setting, owed, kick, bot, status, line, known, mishaps, changes>>

GWNext ==
    \/ BotStep \/ Halt \/ Cut \/ Dismiss \/ Forget \/ Reload \/ StopBot
    \/ \E t \in Tokens \cup {NoToken} : Configure(t)

\* Timers fire and Discord answers; the hook is called.
GWFairness == WF_gwVars(BotStep) /\ WF_gwVars(Reload)

GWSpec == GWInit /\ [][GWNext]_gwVars /\ GWFairness

-----------------------------------------------------------------------------
(* Properties.                                                             *)

\* A session is resumed with the token it was opened with, however the token
\* changes while the bot waits, dials or is greeted.
ResumesItsOwn == Open /\ Resuming => bot.sess = bot.tok

\* A token that Discord accepts gets the bot online once Discord and the
\* network work, whatever was lost before: a dead line is noticed, a session
\* Discord has forgotten is not resumed for ever, and no reload is missed.
ComesOnline ==
    \A t \in Accepted :
        []<>(setting = t /\ ~ended => status.state = "online" /\ line = "up" /\ bot.tok = t)

\* What the bot's connection keeps to.
GatewayContract == []GWTypeOK /\ [][UNCHANGED gwVars \/ ResumesItsOwn']_gwVars /\ ComesOnline

=============================================================================
