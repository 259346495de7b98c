---------------------------- MODULE LibraryMove ----------------------------
(***************************************************************************)
(* A library move of internal/library: titles go from one library folder   *)
(* to another, one rename or one verified copy at a time, with a journal   *)
(* (library_move_items) from which RecoverMoves finishes or undoes what a  *)
(* crash interrupted.                                                      *)
(*                                                                         *)
(* A title is moved as one folder when it has one (planFolder) and file by *)
(* file otherwise (planFiles), so only a folder can be seen half removed.  *)
(* The process may stop between any two changes of the disk, the journal   *)
(* and the catalogue, and again while it recovers.                         *)
(***************************************************************************)
EXTENDS Naturals

CONSTANTS
    Titles,     \* titles an administrator asks to move
    NoTitle,    \* the worker has no title in hand
    Folders,    \* titles moved as one folder
    Files,      \* how many files any other title has
    Cross,      \* titles whose destination is on another file system
    Faults,     \* what may go wrong besides crashes
    MaxCrashes  \* bound on restarts

\* "io": a rename, mkdir or copy fails; "leftover": a copied original cannot
\* be removed; "apply": the catalogue transaction fails; "journal": a write
\* of an item's status fails; "foreign": something else takes a destination.
FaultKinds == {"io", "leftover", "apply", "journal", "foreign"}

ASSUME MoveAssumption ==
    /\ NoTitle \notin Titles /\ Folders \subseteq Titles /\ Cross \subseteq Titles
    /\ Files \in Nat \ {0}
    /\ Faults \subseteq FaultKinds
    /\ MaxCrashes \in Nat

OpsOf(t) == IF t \in Folders THEN 1 .. 1 ELSE 1 .. Files
LastOp(t) == IF t \in Folders THEN 1 ELSE Files
Places   == {"src", "dst", "tmp", "back"}  \* tmp, back: partial copies there and back
Contents == {"none", "part", "full", "foreign"}
Slots    == Titles \X (1 .. Files) \X Places

VARIABLES
    disk,     \* what is at the places of each operation
    cat,      \* the library the catalogue lists each title in
    item,     \* status of each title's row in library_move_items
    job,      \* status of the row in library_move_jobs
    busy,     \* moves.busy names the libraries of this job
    scan,     \* a scan of one of the libraries
    w,        \* the goroutine that plans, moves or recovers
    crashes,
    torn      \* history: crashed while files were put back after fs_done

vars == <<disk, cat, item, job, busy, scan, w, crashes, torn>>

\* "failed" carries the message "Nothing was moved", "split" any other failure.
Statuses == {"none", "pending", "moving", "fs_done", "moved", "skipped",
             "failed", "split", "rolled_back"}
JobStatuses == {"none", "running", "done", "failed", "interrupted"}
Pcs == {"idle", "planned", "launch", "next", "entry", "copy", "place", "clear",
        "fs_done", "apply", "moved", "settle", "recover", "sweep", "purge", "close"}

\* mode: a running job or recovery; way: there or back; left: operations
\* still to put back; errs: some could not be; todo: titles still to do;
\* any: some title was moved.
Workers == [pc: Pcs, mode: {"run", "recover"}, t: Titles \cup {NoTitle},
            i: 1 .. Files, way: {"there", "back"}, left: SUBSET (1 .. Files),
            errs: BOOLEAN, todo: SUBSET Titles, any: BOOLEAN]
Resting == [pc |-> "idle", mode |-> "run", t |-> NoTitle, i |-> 1,
            way |-> "there", left |-> {}, errs |-> FALSE, todo |-> {}, any |-> FALSE]

\* The goroutine has a title in hand while it works on one.
InHand ==
    w.pc \in {"entry", "copy", "place", "clear", "fs_done", "apply", "moved",
              "settle", "sweep", "purge"} => w.t \in Titles

\* Every variable has its type.
TypeOK ==
    /\ disk \in [Slots -> Contents]
    /\ cat \in [Titles -> {"src", "dst"}]
    /\ item \in [Titles -> Statuses]
    /\ job \in JobStatuses
    /\ busy \in BOOLEAN
    /\ scan \in {"idle", "starting", "cataloguing"}
    /\ w \in Workers /\ InHand
    /\ crashes \in 0 .. MaxCrashes
    /\ torn \in SUBSET Titles

Init ==
    /\ disk = [s \in Slots |-> IF s[3] = "src" THEN "full" ELSE "none"]
    /\ cat = [t \in Titles |-> "src"]
    /\ item = [t \in Titles |-> "none"]
    /\ job = "none" /\ busy = FALSE /\ scan = "idle"
    /\ w = Resting
    /\ crashes = 0 /\ torn = {}

-----------------------------------------------------------------------------
(* StartMove.                                                              *)

\* Plan the request and ask the scanner; a scan that is cataloguing, or a
\* move that is under way, refuses it.
Plan ==
    /\ w.pc = "idle" /\ job = "none"
    /\ scan # "cataloguing"
    /\ w' = [w EXCEPT !.pc = "planned"]
    /\ UNCHANGED <<disk, cat, item, job, busy, scan, crashes, torn>>

\* insertJob, one transaction: eligible titles are pending, the rest skipped.
InsertJob(E) ==
    /\ w.pc = "planned"
    /\ item' = [t \in Titles |-> IF t \in E THEN "pending" ELSE "skipped"]
    /\ job' = IF E = {} THEN "done" ELSE "running"
    /\ w' = IF E = {} THEN Resting ELSE [w EXCEPT !.pc = "launch", !.todo = E]
    /\ UNCHANGED <<disk, cat, busy, scan, crashes, torn>>

\* The transaction fails and the request with it.
InsertError ==
    /\ "journal" \in Faults
    /\ w.pc = "planned"
    /\ w' = Resting
    /\ UNCHANGED <<disk, cat, item, job, busy, scan, crashes, torn>>

\* From here on MoveBusy keeps scans away.
Launch ==
    /\ w.pc = "launch"
    /\ busy' = TRUE
    /\ w' = [w EXCEPT !.pc = "next"]
    /\ UNCHANGED <<disk, cat, item, job, scan, crashes, torn>>

-----------------------------------------------------------------------------
(* moveEntry: one file or folder, there or back.                           *)

From == IF w.way = "there" THEN "src" ELSE "dst"
To   == IF w.way = "there" THEN "dst" ELSE "src"
Via  == IF w.way = "there" THEN "tmp" ELSE "back"
At(p) == <<w.t, w.i, p>>
Here(p) == disk[At(p)]

\* rollbackOps and the last loop of recoverItem: worker v puts the newest
\* operation of S back next; the title is settled when none is left.
Rewind(v, S, errs) ==
    \/ S = {} /\ w' = [v EXCEPT !.pc = "settle", !.left = {}, !.errs = errs]
    \/ \E n \in S :
        /\ \A j \in S : j <= n
        /\ w' = [v EXCEPT !.pc = IF v.mode = "run" THEN "entry" ELSE "purge",
                          !.way = "back", !.i = n, !.left = S \ {n}, !.errs = errs]

\* The entry is in place: on to the next one.
EntryDone ==
    \/ w.way = "back" /\ Rewind(w, w.left, w.errs)
    \/ w.way = "there" /\ w.i < LastOp(w.t) /\ w' = [w EXCEPT !.pc = "entry", !.i = w.i + 1]
    \/ w.way = "there" /\ w.i = LastOp(w.t) /\ w' = [w EXCEPT !.pc = "fs_done"]

\* Mutant: the operations before the failed one stay where they are.
EntryFailedNoUndo ==
    IF w.way = "back" THEN Rewind(w, w.left, TRUE) ELSE Rewind(w, {}, FALSE)

\* The entry was not moved: undo the ones before it, or note the error.
EntryFailed ==
    \/ w.way = "back" /\ Rewind(w, w.left, TRUE)
    \/ w.way = "there" /\ Rewind(w, 1 .. (w.i - 1), FALSE)

\* The copy under way, if any, is removed before the error is returned.
DropCopy == disk' = IF w.pc = "entry" THEN disk ELSE [disk EXCEPT ![At(Via)] = "none"]

\* The destination is never replaced (checked first, then renameNoReplace).
EntryTaken ==
    /\ w.pc \in {"entry", "place"} /\ Here(To) # "none"
    /\ DropCopy
    /\ EntryFailed
    /\ UNCHANGED <<cat, item, job, busy, scan, crashes, torn>>

\* One file system: a single rename.
Rename ==
    /\ w.pc = "entry" /\ Here(To) = "none" /\ w.t \notin Cross
    /\ disk' = [disk EXCEPT ![At(To)] = Here(From), ![At(From)] = "none"]
    /\ EntryDone
    /\ UNCHANGED <<cat, item, job, busy, scan, crashes, torn>>

\* Across file systems: copyTree begins a copy next to the destination.
StartCopy ==
    /\ w.pc = "entry" /\ Here(To) = "none" /\ w.t \in Cross
    /\ disk' = [disk EXCEPT ![At(Via)] = "part"]
    /\ w' = [w EXCEPT !.pc = "copy"]
    /\ UNCHANGED <<cat, item, job, busy, scan, crashes, torn>>

\* Mutant: a short copy passes for a good one.
FinishCopyUnverified ==
    /\ w.pc = "copy"
    /\ w' = [w EXCEPT !.pc = "place"]
    /\ UNCHANGED <<disk, cat, item, job, busy, scan, crashes, torn>>

\* The copy is complete, synced and verified.
FinishCopy ==
    /\ w.pc = "copy"
    /\ disk' = [disk EXCEPT ![At(Via)] = Here(From)]
    /\ w' = [w EXCEPT !.pc = "place"]
    /\ UNCHANGED <<cat, item, job, busy, scan, crashes, torn>>

\* Mutant: a plain rename, which replaces what is there.
PlaceCopyOver ==
    /\ w.pc = "place"
    /\ disk' = [disk EXCEPT ![At(To)] = Here(Via), ![At(Via)] = "none"]
    /\ w' = [w EXCEPT !.pc = "clear"]
    /\ UNCHANGED <<cat, item, job, busy, scan, crashes, torn>>

\* The copy is renamed into place.
PlaceCopy ==
    /\ w.pc = "place" /\ Here(To) = "none"
    /\ disk' = [disk EXCEPT ![At(To)] = Here(Via), ![At(Via)] = "none"]
    /\ w' = [w EXCEPT !.pc = "clear"]
    /\ UNCHANGED <<cat, item, job, busy, scan, crashes, torn>>

\* os.RemoveAll of a folder takes many steps, of a file one.
ClearPart ==
    /\ w.pc = "clear" /\ w.t \in Folders /\ Here(From) # "part"
    /\ disk' = [disk EXCEPT ![At(From)] = "part"]
    /\ UNCHANGED <<cat, item, job, busy, scan, w, crashes, torn>>

ClearAll ==
    /\ w.pc = "clear"
    /\ disk' = [disk EXCEPT ![At(From)] = "none"]
    /\ EntryDone
    /\ UNCHANGED <<cat, item, job, busy, scan, crashes, torn>>

\* leftoverError counts as moved.
Leftover ==
    /\ "leftover" \in Faults
    /\ w.pc = "clear"
    /\ EntryDone
    /\ UNCHANGED <<disk, cat, item, job, busy, scan, crashes, torn>>

\* mkdir, rename or copy fails; a failed copy is removed again.
EntryError ==
    /\ "io" \in Faults
    /\ w.pc \in {"entry", "copy", "place"}
    /\ DropCopy
    /\ EntryFailed
    /\ UNCHANGED <<cat, item, job, busy, scan, crashes, torn>>

MoveEntry ==
    \/ EntryTaken \/ Rename \/ StartCopy \/ FinishCopy \/ PlaceCopy
    \/ ClearPart \/ ClearAll \/ Leftover \/ EntryError

-----------------------------------------------------------------------------
(* runMove and executeUnit.                                                *)

\* setItem forgets a failed write.
SetItem(t, s) ==
    \/ item' = [item EXCEPT ![t] = s]
    \/ "journal" \in Faults /\ UNCHANGED item

\* The next title: the journal first, then the files.
TakeUnit(t) ==
    /\ w.pc = "next" /\ t \in w.todo
    /\ SetItem(t, "moving")
    /\ w' = [w EXCEPT !.pc = "entry", !.t = t, !.i = 1, !.way = "there",
                      !.left = {}, !.errs = FALSE, !.todo = w.todo \ {t}]
    /\ UNCHANGED <<disk, cat, job, busy, scan, crashes, torn>>

\* Mutant: the title is closed before the catalogue follows.
FilesDoneMoved ==
    /\ w.pc = "fs_done"
    /\ SetItem(w.t, "moved")
    /\ w' = [w EXCEPT !.pc = "apply"]
    /\ UNCHANGED <<disk, cat, job, busy, scan, crashes, torn>>

FilesDone ==
    /\ w.pc = "fs_done"
    /\ SetItem(w.t, "fs_done")
    /\ w' = [w EXCEPT !.pc = "apply"]
    /\ UNCHANGED <<disk, cat, job, busy, scan, crashes, torn>>

\* applyMove: the catalogue follows in one transaction.
Apply ==
    /\ w.pc = "apply"
    /\ cat' = [cat EXCEPT ![w.t] = "dst"]
    /\ w' = [w EXCEPT !.pc = "moved"]
    /\ UNCHANGED <<disk, item, job, busy, scan, crashes, torn>>

\* A running job puts the files back; recovery leaves them.
ApplyError ==
    /\ "apply" \in Faults
    /\ w.pc = "apply"
    /\ \/ w.mode = "run" /\ Rewind(w, OpsOf(w.t), FALSE)
       \/ w.mode = "recover" /\ w' = [w EXCEPT !.pc = "settle", !.errs = TRUE]
    /\ UNCHANGED <<disk, cat, item, job, busy, scan, crashes, torn>>

\* Back to the loop of runMove or RecoverMoves.
NextTitle(any) ==
    [w EXCEPT !.pc = IF w.mode = "run" THEN "next" ELSE "recover", !.t = NoTitle,
              !.i = 1, !.way = "there", !.left = {}, !.errs = FALSE, !.any = any]

SetMoved ==
    /\ w.pc = "moved"
    /\ SetItem(w.t, "moved")
    /\ w' = NextTitle(TRUE)
    /\ UNCHANGED <<disk, cat, job, busy, scan, crashes, torn>>

\* The end of undo, and of recoverItem when it did not finish the move.
Settle ==
    /\ w.pc = "settle"
    /\ SetItem(w.t, IF w.errs THEN "split"
                    ELSE IF w.mode = "run" THEN "failed" ELSE "rolled_back")
    /\ w' = NextTitle(w.any)
    /\ UNCHANGED <<disk, cat, job, busy, scan, crashes, torn>>

EndJob ==
    /\ w.pc = "next" /\ w.todo = {}
    /\ \/ job' = IF w.any THEN "done" ELSE "failed"
       \/ "journal" \in Faults /\ UNCHANGED job
    /\ busy' = FALSE
    /\ w' = Resting
    /\ UNCHANGED <<disk, cat, item, scan, crashes, torn>>

-----------------------------------------------------------------------------
(* RecoverMoves.                                                           *)

\* recoverItem of a title whose files had all moved.
RecoverFilesDone(t) ==
    /\ w.pc = "recover" /\ t \in w.todo /\ item[t] = "fs_done"
    /\ w' = [w EXCEPT !.pc = "apply", !.t = t, !.todo = w.todo \ {t}]
    /\ UNCHANGED <<disk, cat, item, job, busy, scan, crashes, torn>>

\* Mutant: a partial copy counts as well.
CompleteOrPart(t) ==
    {i \in OpsOf(t) : disk[<<t, i, "dst">>] # "none" \/ disk[<<t, i, "tmp">>] # "none"}

\* An operation is taken for complete when its destination exists.
Complete(t) == {i \in OpsOf(t) : disk[<<t, i, "dst">>] # "none"}

\* recoverItem of a title that was moving: partial copies are removed, then
\* the move is finished if every operation is complete, else undone.
RecoverMoving(t) ==
    /\ w.pc = "recover" /\ t \in w.todo /\ item[t] = "moving"
    /\ disk' = [s \in Slots |-> IF s[1] = t /\ s[3] = "tmp" THEN "none" ELSE disk[s]]
    /\ \/ /\ Complete(t) = OpsOf(t)
          /\ w' = [w EXCEPT !.t = t, !.todo = w.todo \ {t}, !.pc = "sweep", !.i = 1]
       \/ /\ Complete(t) # OpsOf(t)
          /\ Rewind([w EXCEPT !.t = t, !.todo = w.todo \ {t}], Complete(t), FALSE)
    /\ UNCHANGED <<cat, item, job, busy, scan, crashes, torn>>

\* What is left of an original is removed, a folder in many steps.
RemovePart ==
    /\ w.pc \in {"sweep", "purge"} /\ w.t \in Folders /\ Here("src") = "full"
    /\ disk' = [disk EXCEPT ![At("src")] = "part"]
    /\ UNCHANGED <<cat, item, job, busy, scan, w, crashes, torn>>

\* os.RemoveAll may fail, which nobody asks.
RemoveSource ==
    \/ disk' = [disk EXCEPT ![At("src")] = "none"]
    \/ "leftover" \in Faults /\ UNCHANGED disk

Sweep ==
    /\ w.pc = "sweep"
    /\ RemoveSource
    /\ w' = IF w.i < LastOp(w.t) THEN [w EXCEPT !.i = w.i + 1] ELSE [w EXCEPT !.pc = "apply"]
    /\ UNCHANGED <<cat, item, job, busy, scan, crashes, torn>>

Purge ==
    /\ w.pc = "purge"
    /\ RemoveSource
    /\ w' = [w EXCEPT !.pc = "entry"]
    /\ UNCHANGED <<cat, item, job, busy, scan, crashes, torn>>

\* Mutant: titles the job never reached are forgotten.
SkipPendingNone ==
    /\ w.pc = "recover" /\ w.todo = {}
    /\ w' = [w EXCEPT !.pc = "close"]
    /\ UNCHANGED <<disk, cat, item, job, busy, scan, crashes, torn>>

\* Titles the job never reached are skipped,
SkipPending ==
    /\ w.pc = "recover" /\ w.todo = {}
    /\ \/ item' = [t \in Titles |-> IF item[t] = "pending" /\ job = "running"
                                    THEN "skipped" ELSE item[t]]
       \/ "journal" \in Faults /\ UNCHANGED item
    /\ w' = [w EXCEPT !.pc = "close"]
    /\ UNCHANGED <<disk, cat, job, busy, scan, crashes, torn>>

\* and the job is closed.
CloseJob ==
    /\ w.pc = "close"
    /\ \/ job' = IF job = "running" THEN "interrupted" ELSE job
       \/ "journal" \in Faults /\ UNCHANGED job
    /\ w' = Resting
    /\ UNCHANGED <<disk, cat, item, busy, scan, crashes, torn>>

\* The process stops anywhere. It recovers before it serves, unless the
\* journal cannot be read.
Crash ==
    /\ crashes < MaxCrashes
    /\ crashes' = crashes + 1
    /\ \/ w' = [Resting EXCEPT !.pc = "recover", !.mode = "recover",
                               !.todo = {t \in Titles : item[t] \in {"moving", "fs_done"}}]
       \/ "journal" \in Faults /\ w' = Resting
    /\ busy' = FALSE /\ scan' = "idle"
    /\ torn' = torn \cup {t \in Titles : t = w.t /\ item[t] = "fs_done"
                                         /\ (w.way = "back" \/ w.pc = "settle")}
    /\ UNCHANGED <<disk, cat, item, job>>

-----------------------------------------------------------------------------
(* The scanner and other programs.                                         *)

\* Scanner.StartScan asks MoveBusy; the goroutine it starts catalogues later.
ScanStart ==
    /\ scan = "idle" /\ ~busy /\ w.mode = "run"
    /\ scan' = "starting"
    /\ UNCHANGED <<disk, cat, item, job, busy, w, crashes, torn>>

ScanCatalogue ==
    /\ scan = "starting"
    /\ scan' = "cataloguing"
    /\ UNCHANGED <<disk, cat, item, job, busy, w, crashes, torn>>

ScanEnd ==
    /\ scan = "cataloguing"
    /\ scan' = "idle"
    /\ UNCHANGED <<disk, cat, item, job, busy, w, crashes, torn>>

\* Another program takes a destination after the plan found it free.
Appear(t, i) ==
    /\ "foreign" \in Faults /\ job = "running"
    /\ disk[<<t, i, "dst">>] = "none"
    /\ disk' = [disk EXCEPT ![<<t, i, "dst">>] = "foreign"]
    /\ UNCHANGED <<cat, item, job, busy, scan, w, crashes, torn>>

-----------------------------------------------------------------------------
Worker ==
    \/ Launch \/ MoveEntry \/ FilesDone \/ Apply \/ ApplyError \/ SetMoved
    \/ Settle \/ EndJob \/ RemovePart \/ Sweep \/ Purge
    \/ SkipPending \/ CloseJob
    \/ \E t \in Titles : TakeUnit(t) \/ RecoverFilesDone(t) \/ RecoverMoving(t)

Next ==
    \/ Plan \/ InsertError \/ (\E E \in SUBSET Titles : InsertJob(E))
    \/ Worker \/ Crash
    \/ ScanStart \/ ScanCatalogue \/ ScanEnd
    \/ \E t \in Titles : \E i \in OpsOf(t) : Appear(t, i)

Spec == Init /\ [][Next]_vars

\* Nothing blocks the goroutine that moves or recovers.
FairSpec == Spec /\ WF_vars(Worker)

-----------------------------------------------------------------------------
(* What a move promises, MoveContract, as LibraryMove keeps it.            *)

PieceSet == {x \in Titles \X (1 .. Files) : x[2] \in OpsOf(x[1])}
KeptAt == [x \in PieceSet |-> {p \in {"src", "dst"} : disk[<<x[1], x[2], p>>] = "full"}]

\* What the window of the move shows of a title.
Told == [t \in Titles |->
    CASE item[t] = "moved" -> "moved"
      [] item[t] = "split" -> "split"
      [] item[t] \in {"skipped", "failed", "rolled_back"} -> "stayed"
      [] OTHER -> "open"]

Contract == INSTANCE MoveContract WITH Names <- Titles, Pieces <- PieceSet,
                kept <- KeptAt, listed <- cat, told <- Told, doubt <- torn

-----------------------------------------------------------------------------
(* Properties.                                                             *)

Whole(t, i, p) == disk[<<t, i, p>>] = "full"

\* moveEntry and recoverItem: wherever the process stops, every file or
\* folder of every title is whole at its origin or at its destination.
NothingLost == \A t \in Titles : \A i \in OpsOf(t) : Whole(t, i, "src") \/ Whole(t, i, "dst")

\* What the journal says of a title that nobody is working on is true of the
\* disk and of the catalogue.
Honest(t) ==
    /\ item[t] = "moved" =>
         cat[t] = "dst" /\ \A i \in OpsOf(t) : Whole(t, i, "dst")
    /\ item[t] \in {"none", "pending", "skipped", "failed", "rolled_back"} =>
         cat[t] = "src" /\ \A i \in OpsOf(t) : Whole(t, i, "src")
    /\ item[t] = "split" =>
         cat[t] = "src" \/ \A i \in OpsOf(t) : Whole(t, i, "dst")

\* executeUnit and recoverItem: unless a crash hit while the files were put
\* back from fs_done, the outcome in the journal is what happened.
JournalTrue == \A t \in Titles \ torn : t # w.t => Honest(t)

\* ErrDestinationExists "is returned instead of ever replacing" what another
\* program put at a destination.
NeverReplaced ==
    [][\A t \in Titles : \A i \in OpsOf(t) :
        disk[<<t, i, "dst">>] = "foreign" => disk'[<<t, i, "dst">>] = "foreign"]_vars

\* RecoverMoves and runMove: every job ends, and no title stays in between.
Settles ==
    (job = "running") ~>
        /\ job # "running"
        /\ \A t \in Titles : item[t] \notin {"pending", "moving", "fs_done"}

\* LibraryMove implements MoveContract.
KeepsContract == Contract!Promise

=============================================================================
