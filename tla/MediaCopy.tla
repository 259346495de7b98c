------------------------------- MODULE MediaCopy -------------------------------
(***************************************************************************)
(* Copies of Jellyfin titles on ViewDock's disk (jellyfin/mediacopy.go):   *)
(* a copy starts when a title is played, is downloaded by one run at a     *)
(* time, resumes after a restart, and is deleted when nobody has played it *)
(* for three days or when another copy needs the space.                    *)
(*                                                                         *)
(* Three files make a copy: its record (.json), what has arrived (.part)   *)
(* and the finished title (.media). The Jellyfin server is external: it    *)
(* may fail, not resume, resume elsewhere, or have replaced the title.     *)
(***************************************************************************)
EXTENDS Naturals, Sequences

CONSTANTS
    Titles,     \* titles of one Jellyfin server
    Size,       \* of each, in pieces
    MaxFaults   \* bound on restarts and replaced titles

ASSUME MediaCopyAssumption == Size \in Nat \ {0} /\ MaxFaults \in Nat

VARIABLES
    meta,    \* the record of each copy
    part,    \* the partial file: its pieces, and whether they are one file's
    media,   \* the finished file
    run,     \* runCopy of each title; "idle" when copying[base] is unset
    line,    \* copySlot: the run that has it, then those that wait for it
    sweep,   \* expired copies sweepCopies has listed and not removed yet
    room,    \* copies ensureSpace has listed for the run that has the slot
    faults,
    spoiled, \* history: titles replaced on the server while a part was here
    torn,    \* history: titles whose removal a restart interrupted
    late     \* history: titles played after they were listed for removal

mdVars == <<meta, part, media, run, line, sweep, room, faults, spoiled, torn, late>>

RunPcs == {"idle", "check", "get", "room", "body", "mark", "failed"}

\* Every variable has its type. age: 0 within copyInUse, 1 within copyKeep, 2
\* expired; err: the last run failed, less than copyRetryAfter ago.
MDTypeOK ==
    /\ meta \in [Titles -> [there: BOOLEAN, done: BOOLEAN, err: BOOLEAN, age: 0 .. 2]]
    /\ part \in [Titles -> [n: 0 .. Size, clean: BOOLEAN]]
    /\ media \in [Titles -> {"none", "whole", "mixed"}]
    /\ run \in [Titles -> RunPcs]
    /\ line \in Seq(Titles)
    /\ sweep \subseteq Titles /\ room \subseteq Titles
    /\ faults \in 0 .. MaxFaults
    /\ spoiled \subseteq Titles /\ torn \subseteq Titles /\ late \subseteq Titles

NoMeta == [there |-> FALSE, done |-> FALSE, err |-> FALSE, age |-> 0]
NoPart == [n |-> 0, clean |-> TRUE]

MDInit ==
    /\ meta = [t \in Titles |-> NoMeta] /\ part = [t \in Titles |-> NoPart]
    /\ media = [t \in Titles |-> "none"]
    /\ run = [t \in Titles |-> "idle"] /\ line = <<>>
    /\ sweep = {} /\ room = {} /\ faults = 0
    /\ spoiled = {} /\ torn = {} /\ late = {}

Fault == faults < MaxFaults /\ faults' = faults + 1
Listed == sweep \cup room
History == <<spoiled, torn, late>>

-----------------------------------------------------------------------------
(* Starting a copy.                                                        *)

\* startCopy, past its checks: the record is written and the run started.
StartRun(t, age) ==
    /\ meta' = [meta EXCEPT ![t] = [NoMeta EXCEPT !.there = TRUE, !.age = age]]
    /\ run' = [run EXCEPT ![t] = "check"]
    /\ line' = Append(line, t)

\* A viewer starts the title: copyPlayed restarts its days, from the copy when
\* it is finished (LocalCopy), from Jellyfin and with startCopy when not.
\* A record that says done is believed without a look at the file.
Play(t) ==
    /\ IF meta[t].done \/ run[t] # "idle"
       THEN /\ meta' = IF meta[t].done \/ media[t] # "none"
                       THEN [meta EXCEPT ![t].age = 0] ELSE meta
            /\ UNCHANGED <<run, line>>
       ELSE StartRun(t, 0)
    /\ late' = late \cup ({t} \cap Listed)
    /\ UNCHANGED <<part, media, sweep, room, faults, spoiled, torn>>

\* resumeCopies, every minute: what a restart interrupted, or failed an hour
\* ago, goes on. Its days are not restarted.
Resume(t) ==
    /\ meta[t].there /\ ~meta[t].done /\ meta[t].age < 2 /\ ~meta[t].err
    /\ run[t] = "idle"
    /\ StartRun(t, meta[t].age)
    /\ UNCHANGED <<part, media, sweep, room, faults, History>>

-----------------------------------------------------------------------------
(* runCopy. Only the run that has the slot does anything.                  *)

HasSlot(t) == line # <<>> /\ Head(line) = t
At(t, pc) == run[t] = pc /\ HasSlot(t)
Goto(t, pc) == run' = [run EXCEPT ![t] = pc]

\* The run ends: the slot goes to the next.
End(t) == run' = [run EXCEPT ![t] = "idle"] /\ line' = Tail(line)

\* With the slot, and before each attempt: a copy whose days are over is left to the sweep.
CheckRun(t) ==
    /\ At(t, "check")
    /\ IF meta[t].there /\ meta[t].age < 2 THEN Goto(t, "get") /\ UNCHANGED line ELSE End(t)
    /\ UNCHANGED <<meta, part, media, sweep, room, faults, History>>

\* ensureSpace: the disk is too full; finished copies nobody has played for
\* twelve hours are listed.
ListRoom(t) ==
    /\ At(t, "get") /\ Goto(t, "room")
    /\ room' = {c \in Titles : meta[c].there /\ meta[c].done /\ meta[c].age > 0}
    /\ UNCHANGED <<meta, part, media, line, sweep, faults, History>>

\* copyOnce asks for the rest of the file.
Request(t) ==
    /\ At(t, "get") \/ At(t, "room")
    /\ \/ part' = [part EXCEPT ![t] = NoPart]              \* 200: from the start
       \/ part[t].n \in 1 .. Size - 1 /\ UNCHANGED part  \* 206: where it stopped
    /\ Goto(t, "body") /\ room' = {}
    /\ UNCHANGED <<meta, media, line, sweep, faults, History>>

\* The attempt failed: there is another, or it was the last (copyAttempts).
Retried(t) == run' \in {[run EXCEPT ![t] = "check"], [run EXCEPT ![t] = "failed"]}

\* No answer, a bad one, a resume at another place, or nothing left to ask for.
Refused(t) ==
    /\ At(t, "get") \/ At(t, "room")
    /\ Retried(t) /\ room' = {}
    /\ UNCHANGED <<meta, part, media, line, sweep, faults, History>>

\* Every listed copy is gone and the disk is still too full: errNoSpace.
NoSpace(t) ==
    /\ At(t, "room") /\ room = {} /\ Goto(t, "failed")
    /\ UNCHANGED <<meta, part, media, line, sweep, room, faults, History>>

Receive(t) ==
    /\ At(t, "body") /\ part[t].n < Size
    /\ part' = [part EXCEPT ![t].n = @ + 1]
    /\ UNCHANGED <<meta, media, run, line, sweep, room, faults, History>>

\* The body breaks off, or ends; "download stopped at" when it is short.
Stopped(t) ==
    /\ At(t, "body") /\ Retried(t)
    /\ UNCHANGED <<meta, part, media, line, sweep, room, faults, History>>

\* All of it is here: the partial file becomes the finished one.
Rename(t) ==
    /\ At(t, "body") /\ part[t].n = Size /\ Goto(t, "mark")
    /\ media' = [media EXCEPT ![t] = IF part[t].clean THEN "whole" ELSE "mixed"]
    /\ part' = [part EXCEPT ![t] = NoPart]
    /\ UNCHANGED <<meta, line, sweep, room, faults, History>>

\* The record says done. Nothing removed it: this run is in s.copying.
Mark(t) ==
    /\ At(t, "mark") /\ meta[t].there
    /\ meta' = [meta EXCEPT ![t].done = TRUE]
    /\ End(t)
    /\ UNCHANGED <<part, media, sweep, room, faults, History>>

Failed(t) ==
    /\ At(t, "failed")
    /\ meta' = IF meta[t].there THEN [meta EXCEPT ![t].err = TRUE] ELSE meta
    /\ End(t)
    /\ UNCHANGED <<part, media, sweep, room, faults, History>>

-----------------------------------------------------------------------------
(* Removing copies.                                                        *)

\* removeCopy: all three files, unless the copy is being made. Whether the
\* title was played since it was listed is not asked again.
RemoveCopy(t) ==
    IF run[t] # "idle" THEN UNCHANGED <<meta, part, media>>
    ELSE /\ media' = [media EXCEPT ![t] = "none"] /\ part' = [part EXCEPT ![t] = NoPart]
         /\ meta' = [meta EXCEPT ![t] = NoMeta]

\* ensureSpace removes what it listed, one by one, until it fits (Request).
Evict(t, c) ==
    /\ At(t, "room") /\ c \in room /\ room' = room \ {c}
    /\ RemoveCopy(c) /\ late' = late \ ({c} \ sweep)
    /\ UNCHANGED <<run, line, sweep, faults, spoiled, torn>>

\* Mutant: when it was played is not looked at.
ExpiredEarly == {t \in Titles : meta[t].there}

Expired == {t \in Titles : meta[t].there /\ meta[t].age = 2}

SweepList ==
    /\ sweep = {} /\ Expired # {}
    /\ sweep' = Expired
    /\ UNCHANGED <<meta, part, media, run, line, room, faults, History>>

SweepRemove(t) ==
    /\ t \in sweep /\ sweep' = sweep \ {t}
    /\ RemoveCopy(t) /\ late' = late \ ({t} \ room)
    /\ UNCHANGED <<run, line, room, faults, spoiled, torn>>

\* The last part of the sweep: files without a record.
SweepOrphans ==
    /\ sweep = {}
    /\ part' = [t \in Titles |-> IF meta[t].there THEN part[t] ELSE NoPart]
    /\ media' = [t \in Titles |-> IF meta[t].there THEN media[t] ELSE "none"]
    /\ UNCHANGED <<meta, run, line, sweep, room, faults, History>>

-----------------------------------------------------------------------------
(* Time, restarts and the server.                                          *)

Age(t) ==
    /\ meta[t].there /\ meta[t].age < 2
    /\ meta' = [meta EXCEPT ![t].age = @ + 1]
    /\ UNCHANGED <<part, media, run, line, sweep, room, faults, History>>

AnHour(t) ==
    /\ meta[t].err
    /\ meta' = [meta EXCEPT ![t].err = FALSE]
    /\ UNCHANGED <<part, media, run, line, sweep, room, faults, History>>

\* ViewDock restarts, perhaps between two of the three removals.
Restart ==
    /\ Fault
    /\ run' = [t \in Titles |-> "idle"] /\ line' = <<>> /\ sweep' = {} /\ room' = {}
    /\ late' = {}
    /\ \/ UNCHANGED <<part, media, torn>>
       \/ \E t \in Listed :
            /\ run[t] = "idle"
            /\ media' = [media EXCEPT ![t] = "none"] /\ part' = [part EXCEPT ![t] = NoPart]
            /\ torn' = torn \cup {t}
    /\ UNCHANGED <<meta, spoiled>>

\* The title is replaced by another file of the same size.
Replace(t) ==
    /\ Fault /\ part[t].n > 0
    /\ spoiled' = spoiled \cup {t}
    /\ part' = [part EXCEPT ![t].clean = FALSE]
    /\ UNCHANGED <<meta, media, run, line, sweep, room, torn, late>>

RunStep(t) ==
    \/ CheckRun(t) \/ Request(t) \/ Refused(t) \/ NoSpace(t)
    \/ Receive(t) \/ Stopped(t) \/ Rename(t) \/ Mark(t) \/ Failed(t)

Sweep == SweepList \/ SweepOrphans \/ \E t \in Titles : SweepRemove(t)

MDNext ==
    \/ \E t \in Titles :
          \/ Play(t) \/ Resume(t) \/ RunStep(t) \/ ListRoom(t)
          \/ Age(t) \/ AnHour(t) \/ Replace(t)
          \/ \E c \in Titles : Evict(t, c)
    \/ Sweep \/ Restart

MDSpec == MDInit /\ [][MDNext]_mdVars

-----------------------------------------------------------------------------
(* Properties.                                                             *)

\* A record that says done has the whole title behind it, through resumed and
\* repeated downloads, restarts and removals, but for a title that was replaced
\* on the server half-way and one whose removal a restart interrupted.
DoneIsWhole ==
    \A t \in Titles : meta[t].done => media[t] = "whole" \/ t \in spoiled \/ t \in torn

\* A copy somebody has played within twelve hours is not taken from under them,
\* unless they started it after it had been listed for removal.
InUseStays ==
    [][\A t \in Titles :
          media[t] = "whole" /\ meta[t].done /\ media'[t] = "none" /\ meta[t].age = 0
             => t \in late]_mdVars

\* What a viewer of a copied title may count on.
CopyContract == []MDTypeOK /\ []DoneIsWhole /\ InUseStays

=============================================================================
