------------------------- MODULE LibraryMoveProofs -------------------------
(***************************************************************************)
(* Proofs about LibraryMove, for any titles, any number of files and any   *)
(* number of restarts.                                                     *)
(***************************************************************************)
EXTENDS LibraryMove, TLAPS

-----------------------------------------------------------------------------
(* Types.                                                                  *)

\* The places of an operation hold something.
LEMMA SlotType ==
    ASSUME TypeOK, NEW t \in Titles, NEW i \in 1 .. Files, NEW p \in Places
    PROVE  <<t, i, p>> \in Slots /\ disk[<<t, i, p>>] \in Contents
BY DEF TypeOK, Slots

\* The statuses and contents that the actions write are among those declared.
LEMMA Constants == /\ {"none", "part", "full", "foreign"} \subseteq Contents
                   /\ {"src", "dst", "tmp", "back"} \subseteq Places
BY DEF Contents, Places

\* A worker that starts to put operations back, or that is done with it.
LEMMA RewindType ==
    ASSUME NEW v \in Workers, NEW S \in SUBSET (1 .. Files), NEW e \in BOOLEAN,
           v.t \in Titles, Rewind(v, S, e)
    PROVE  w' \in Workers /\ w'.t = v.t /\ w'.mode = v.mode
<1>1. CASE S = {} /\ w' = [v EXCEPT !.pc = "settle", !.left = {}, !.errs = e]
  BY <1>1 DEF Workers, Pcs
<1>2. ASSUME NEW n \in S,
             w' = [v EXCEPT !.pc = IF v.mode = "run" THEN "entry" ELSE "purge",
                            !.way = "back", !.i = n, !.left = S \ {n}, !.errs = e]
      PROVE  w' \in Workers /\ w'.t = v.t /\ w'.mode = v.mode
  <2>1. n \in 1 .. Files /\ S \ {n} \in SUBSET (1 .. Files)
    OBVIOUS
  <2> QED
    BY <1>2, <2>1, ZenonT(60) DEF Workers, Pcs
<1> QED
  BY <1>1, <1>2 DEF Rewind

\* Nothing has moved yet: every variable has its type.
LEMMA InitType == Init => TypeOK
<1> SUFFICES ASSUME Init PROVE TypeOK
  OBVIOUS
<1> USE MoveAssumption DEF Init
<1>1. disk \in [Slots -> Contents]
  BY Constants
<1>2. w \in Workers /\ InHand
  BY DEF Workers, Resting, Pcs, InHand
<1>3. cat \in [Titles -> {"src", "dst"}] /\ item \in [Titles -> Statuses]
  BY DEF Statuses
<1>4. crashes \in 0 .. MaxCrashes
  OBVIOUS
<1>5. torn \in SUBSET Titles /\ busy \in BOOLEAN
  OBVIOUS
<1> QED
  BY <1>1, <1>2, <1>3, <1>4, <1>5 DEF TypeOK, JobStatuses

\* The steps of moveEntry keep the types.
LEMMA EntryType ==
    ASSUME TypeOK, MoveEntry PROVE TypeOK'
<1> USE MoveAssumption
<1>0. /\ disk \in [Slots -> Contents] /\ w \in Workers /\ InHand
      /\ w.i \in 1 .. Files /\ w.left \in SUBSET (1 .. Files) /\ w.errs \in BOOLEAN
      /\ 1 .. (w.i - 1) \in SUBSET (1 .. Files)
  BY DEF TypeOK, Workers
<1>1. /\ w.t \in Titles
      /\ \A p \in Places : Here(p) \in Contents
      /\ From \in Places /\ To \in Places /\ Via \in Places
  BY <1>0, SlotType, Constants DEF MoveEntry, EntryTaken, Rename, StartCopy, FinishCopy, PlaceCopy,
     ClearPart, ClearAll, Leftover, EntryError, InHand, Here, At, From, To, Via
<1>2. disk' \in [Slots -> Contents]
  BY <1>0, <1>1, Constants DEF MoveEntry, EntryTaken, Rename, StartCopy, FinishCopy, PlaceCopy,
     ClearPart, ClearAll, Leftover, EntryError, DropCopy
<1>3. w' \in Workers /\ InHand'
  <2>1. CASE EntryDone
    <3>1. CASE w.way = "back" /\ Rewind(w, w.left, w.errs)
      BY <3>1, <1>0, <1>1, RewindType DEF InHand
    <3>2. CASE w.way = "there" /\ w.i < LastOp(w.t) /\ w' = [w EXCEPT !.pc = "entry", !.i = w.i + 1]
      <4>1. w.i + 1 \in 1 .. Files
        BY <3>2, <1>0 DEF LastOp
      <4> QED
        BY <4>1, <3>2, <1>0, <1>1 DEF InHand, Workers, Pcs
    <3>3. CASE w.way = "there" /\ w.i = LastOp(w.t) /\ w' = [w EXCEPT !.pc = "fs_done"]
      BY <3>3, <1>0, <1>1 DEF InHand, Workers, Pcs
    <3> QED
      BY <2>1, <3>1, <3>2, <3>3 DEF EntryDone
  <2>2. CASE EntryFailed
    BY <2>2, <1>0, <1>1, RewindType DEF EntryFailed, InHand
  <2>3. CASE StartCopy \/ FinishCopy \/ PlaceCopy \/ ClearPart
    BY <2>3, <1>0, <1>1 DEF StartCopy, FinishCopy, PlaceCopy, ClearPart, InHand, Workers, Pcs
  <2> QED
    BY <2>1, <2>2, <2>3 DEF MoveEntry, EntryTaken, Rename, ClearAll, Leftover, EntryError
<1>4. UNCHANGED <<cat, item, job, busy, scan, crashes, torn>>
  BY DEF MoveEntry, EntryTaken, Rename, StartCopy, FinishCopy, PlaceCopy,
     ClearPart, ClearAll, Leftover, EntryError
<1> QED
  BY <1>2, <1>3, <1>4 DEF TypeOK

\* Back to the loop: the worker has nothing in hand.
LEMMA NextTitleType ==
    ASSUME TypeOK, NEW a \in BOOLEAN, w' = NextTitle(a)
    PROVE  w' \in Workers /\ InHand'
<1>1. w \in Workers /\ 1 \in 1 .. Files /\ {} \in SUBSET (1 .. Files)
  BY MoveAssumption DEF TypeOK
<1> QED
  BY <1>1, ZenonT(60) DEF NextTitle, Workers, Pcs, InHand

\* An idle worker is well typed.
LEMMA RestingType == ASSUME w' = Resting PROVE w' \in Workers /\ InHand'
BY MoveAssumption DEF Resting, Workers, Pcs, InHand

\* setItem keeps the statuses.
LEMMA SetItemType ==
    ASSUME TypeOK, NEW t \in Titles, NEW s \in Statuses, SetItem(t, s)
    PROVE  item' \in [Titles -> Statuses]
BY DEF TypeOK, SetItem

\* The steps of StartMove keep the types.
LEMMA StartType ==
    ASSUME TypeOK, Plan \/ InsertError \/ Launch \/ \E E \in SUBSET Titles : InsertJob(E)
    PROVE  TypeOK'
<1> USE MoveAssumption
<1>1. CASE Plan
  BY <1>1 DEF Plan, TypeOK, Workers, Pcs, InHand
<1>2. CASE InsertError
  BY <1>2, RestingType DEF InsertError, TypeOK
<1>3. CASE Launch
  <2>1. w' \in Workers /\ InHand'
    BY <1>3 DEF Launch, TypeOK, Workers, Pcs, InHand
  <2> QED
    BY <1>3, <2>1 DEF Launch, TypeOK
<1>4. ASSUME NEW E \in SUBSET Titles, InsertJob(E) PROVE TypeOK'
  <2>1. w' \in Workers /\ InHand'
    BY <1>4, RestingType DEF InsertJob, TypeOK, Workers, Pcs, InHand
  <2>2. item' \in [Titles -> Statuses] /\ job' \in JobStatuses
    BY <1>4 DEF InsertJob, Statuses, JobStatuses
  <2> QED
    BY <1>4, <2>1, <2>2 DEF InsertJob, TypeOK
<1> QED
  BY <1>1, <1>2, <1>3, <1>4

\* The steps of runMove and executeUnit keep the types.
LEMMA RunType ==
    ASSUME TypeOK,
           \/ FilesDone \/ Apply \/ ApplyError \/ SetMoved \/ Settle \/ EndJob
           \/ \E t \in Titles : TakeUnit(t)
    PROVE  TypeOK'
<1> USE MoveAssumption
<1>0. /\ w \in Workers /\ InHand /\ item \in [Titles -> Statuses] /\ w.any \in BOOLEAN
      /\ w.todo \in SUBSET Titles
  BY DEF TypeOK, Workers
<1>1. CASE FilesDone
  <2>1. w' \in Workers /\ InHand' /\ w.t \in Titles
    BY <1>0, <1>1 DEF FilesDone, Workers, Pcs, InHand
  <2>2. item' \in [Titles -> Statuses]
    BY <1>1, <2>1, SetItemType DEF FilesDone, Statuses
  <2> QED
    BY <1>1, <2>1, <2>2 DEF FilesDone, TypeOK
<1>2. CASE Apply
  <2>1. w' \in Workers /\ InHand' /\ w.t \in Titles
    BY <1>0, <1>2 DEF Apply, Workers, Pcs, InHand
  <2>2. cat' \in [Titles -> {"src", "dst"}]
    BY <1>2 DEF Apply, TypeOK
  <2> QED
    BY <1>2, <2>1, <2>2 DEF Apply, TypeOK
<1>3. CASE ApplyError
  <2>1. w.t \in Titles /\ OpsOf(w.t) \in SUBSET (1 .. Files)
    BY <1>0, <1>3 DEF ApplyError, InHand, OpsOf
  <2>2. CASE w.mode = "run" /\ Rewind(w, OpsOf(w.t), FALSE)
    <3>1. w' \in Workers /\ InHand'
      BY <1>0, <2>1, <2>2, RewindType DEF InHand
    <3> QED
      BY <1>3, <3>1 DEF ApplyError, TypeOK
  <2>3. CASE w' = [w EXCEPT !.pc = "settle", !.errs = TRUE]
    <3>1. w' \in Workers /\ InHand'
      BY <1>0, <2>1, <2>3 DEF InHand, Workers, Pcs
    <3> QED
      BY <1>3, <3>1 DEF ApplyError, TypeOK
  <2> QED
    BY <1>3, <2>2, <2>3 DEF ApplyError
<1>4. CASE SetMoved
  <2>1. w' \in Workers /\ InHand' /\ w.t \in Titles
    BY <1>0, <1>4, NextTitleType DEF SetMoved, InHand
  <2>2. item' \in [Titles -> Statuses]
    BY <1>4, <2>1, SetItemType DEF SetMoved, Statuses
  <2> QED
    BY <1>4, <2>1, <2>2 DEF SetMoved, TypeOK
<1>5. CASE Settle
  <2>1. w' \in Workers /\ InHand' /\ w.t \in Titles
    BY <1>0, <1>5, NextTitleType DEF Settle, InHand
  <2>2. item' \in [Titles -> Statuses]
    BY <1>0, <1>5, <2>1 DEF Settle, SetItem, Statuses
  <2> QED
    BY <1>5, <2>1, <2>2 DEF Settle, TypeOK
<1>6. CASE EndJob
  BY <1>6, RestingType DEF EndJob, TypeOK, JobStatuses
<1>7. ASSUME NEW t \in Titles, TakeUnit(t) PROVE TypeOK'
  <2>1. w' \in Workers /\ InHand'
    <3>1. 1 \in 1 .. Files /\ {} \in SUBSET (1 .. Files) /\ w.todo \ {t} \in SUBSET Titles
      BY <1>0
    <3> QED
      BY <1>0, <1>7, <3>1 DEF TakeUnit, Workers, Pcs, InHand
  <2>2. item' \in [Titles -> Statuses]
    BY <1>7, SetItemType DEF TakeUnit, Statuses
  <2> QED
    BY <1>7, <2>1, <2>2 DEF TakeUnit, TypeOK
<1> QED
  BY <1>1, <1>2, <1>3, <1>4, <1>5, <1>6, <1>7

\* The steps of RecoverMoves keep the types.
LEMMA RecoverType ==
    ASSUME TypeOK,
           \/ RemovePart \/ Sweep \/ Purge \/ SkipPending \/ CloseJob
           \/ \E t \in Titles : RecoverFilesDone(t) \/ RecoverMoving(t)
    PROVE  TypeOK'
<1> USE MoveAssumption, Constants
<1>0. /\ disk \in [Slots -> Contents] /\ w \in Workers /\ InHand
      /\ item \in [Titles -> Statuses] /\ w.i \in 1 .. Files /\ w.todo \in SUBSET Titles
  BY DEF TypeOK, Workers
<1>1. CASE RemovePart
  BY <1>0, <1>1 DEF RemovePart, TypeOK, InHand
<1>2. CASE Sweep
  <2>1. disk' \in [Slots -> Contents]
    BY <1>0, <1>2 DEF Sweep, RemoveSource
  <2>2. w.i < LastOp(w.t) => w.i + 1 \in 1 .. Files
    BY <1>0 DEF LastOp
  <2>3. w' \in Workers /\ InHand'
    BY <1>0, <1>2, <2>2 DEF Sweep, InHand, Workers, Pcs
  <2> QED
    BY <1>2, <2>1, <2>3 DEF Sweep, TypeOK
<1>3. CASE Purge
  <2>1. disk' \in [Slots -> Contents]
    BY <1>0, <1>3 DEF Purge, RemoveSource
  <2>2. w' \in Workers /\ InHand'
    BY <1>0, <1>3 DEF Purge, InHand, Workers, Pcs
  <2> QED
    BY <1>3, <2>1, <2>2 DEF Purge, TypeOK
<1>4. CASE SkipPending
  <2>1. w' \in Workers /\ InHand'
    BY <1>0, <1>4 DEF SkipPending, InHand, Workers, Pcs
  <2>2. item' \in [Titles -> Statuses]
    BY <1>0, <1>4 DEF SkipPending, Statuses
  <2> QED
    BY <1>4, <2>1, <2>2 DEF SkipPending, TypeOK
<1>5. CASE CloseJob
  BY <1>5, RestingType DEF CloseJob, TypeOK, JobStatuses
<1>6. ASSUME NEW t \in Titles, RecoverFilesDone(t) PROVE TypeOK'
  <2>1. w' \in Workers /\ InHand'
    BY <1>0, <1>6 DEF RecoverFilesDone, InHand, Workers, Pcs
  <2> QED
    BY <1>6, <2>1 DEF RecoverFilesDone, TypeOK
<1>7. ASSUME NEW t \in Titles, RecoverMoving(t) PROVE TypeOK'
  <2>1. disk' \in [Slots -> Contents]
    BY <1>0, <1>7 DEF RecoverMoving
  <2>2. CASE w' = [w EXCEPT !.t = t, !.todo = w.todo \ {t}, !.pc = "sweep", !.i = 1]
    <3>0. 1 \in 1 .. Files /\ w.todo \ {t} \in SUBSET Titles
      BY <1>0
    <3>1. w' \in Workers /\ InHand'
      BY <1>0, <2>2, <3>0 DEF InHand, Workers, Pcs
    <3> QED
      BY <1>7, <2>1, <3>1 DEF RecoverMoving, TypeOK
  <2>3. CASE Rewind([w EXCEPT !.t = t, !.todo = w.todo \ {t}], Complete(t), FALSE)
    <3> DEFINE v == [w EXCEPT !.t = t, !.todo = w.todo \ {t}]
    <3>1. v \in Workers /\ v.t = t
      BY <1>0 DEF Workers
    <3>2. Complete(t) \in SUBSET (1 .. Files)
      BY DEF Complete, OpsOf
    <3>3. w' \in Workers /\ w'.t = t
      <4> HIDE DEF v
      <4>1. Rewind(v, Complete(t), FALSE)
        BY <2>3 DEF v
      <4> QED
        BY <3>1, <3>2, <4>1, RewindType
    <3> QED
      BY <1>7, <2>1, <3>3 DEF RecoverMoving, TypeOK, InHand
  <2> QED
    BY <1>7, <2>2, <2>3 DEF RecoverMoving
<1> QED
  BY <1>1, <1>2, <1>3, <1>4, <1>5, <1>6, <1>7

\* Crashes, scans and other programs keep the types.
LEMMA OtherType ==
    ASSUME TypeOK,
           \/ Crash \/ ScanStart \/ ScanCatalogue \/ ScanEnd
           \/ \E t \in Titles : \E i \in OpsOf(t) : Appear(t, i)
    PROVE  TypeOK'
<1> USE MoveAssumption, Constants
<1>1. CASE Crash
  <2>1. w' \in Workers /\ InHand'
    <3> DEFINE Open == {t \in Titles : item[t] \in {"moving", "fs_done"}}
    <3>1. Open \in SUBSET Titles /\ 1 \in 1 .. Files
      OBVIOUS
    <3> HIDE DEF Open
    <3>2. CASE w' = [Resting EXCEPT !.pc = "recover", !.mode = "recover", !.todo = Open]
      BY <3>1, <3>2 DEF Resting, Workers, Pcs, InHand
    <3>3. CASE w' = Resting
      BY <3>3, RestingType
    <3> QED
      BY <1>1, <3>2, <3>3 DEF Crash, Open
  <2>2. crashes' \in 0 .. MaxCrashes
    BY <1>1 DEF Crash, TypeOK
  <2>3. torn' \in SUBSET Titles
    BY <1>1 DEF Crash, TypeOK
  <2> QED
    BY <1>1, <2>1, <2>2, <2>3 DEF Crash, TypeOK
<1>2. CASE ScanStart
  BY <1>2 DEF ScanStart, TypeOK, InHand
<1>3. CASE ScanCatalogue
  BY <1>3 DEF ScanCatalogue, TypeOK, InHand
<1>4. CASE ScanEnd
  BY <1>4 DEF ScanEnd, TypeOK, InHand
<1>5. ASSUME NEW t \in Titles, NEW i \in OpsOf(t), Appear(t, i) PROVE TypeOK'
  BY <1>5 DEF Appear, TypeOK, InHand
<1> QED
  BY <1>1, <1>2, <1>3, <1>4, <1>5

\* Every step keeps the types.
LEMMA NextType == TypeOK /\ [Next]_vars => TypeOK'
<1> SUFFICES ASSUME TypeOK, [Next]_vars PROVE TypeOK'
  OBVIOUS
<1>1. CASE UNCHANGED vars
  BY <1>1 DEF vars, TypeOK, InHand
<1>2. CASE Next
  BY <1>2, StartType, EntryType, RunType, RecoverType, OtherType DEF Next, Worker
<1> QED
  BY <1>1, <1>2

\* Every reachable state of a move and of its recovery is well typed, and a
\* goroutine past the choice of a title has one in hand.
THEOREM MoveTypeCorrect == Spec => []TypeOK
BY InitType, NextType, PTL DEF Spec

-----------------------------------------------------------------------------
(* Nothing is lost. The invariant says, for each place in the code, which  *)
(* copy of which operation is whole.                                       *)

\* The journal is written and no other program takes destinations.
Reliable == "foreign" \notin Faults /\ "journal" \notin Faults

NoForeign == \A t \in Titles : \A i \in OpsOf(t) : disk[<<t, i, "dst">>] # "foreign"

\* A title whose turn has not come is where it was.
Untouched ==
    \A t \in Titles : item[t] \in {"none", "pending"} =>
        \A i \in OpsOf(t) : Whole(t, i, "src") /\ disk[<<t, i, "dst">>] = "none"

\* Only putting back a folder from fs_done leaves half a destination, and
\* the original is whole again by then: recovery must not see it as moving.
HalfGone ==
    \A t \in Titles : \A i \in OpsOf(t) : disk[<<t, i, "dst">>] = "part" =>
        Whole(t, i, "src") /\ item[t] # "moving"

Fresh == job = "none" \/ w.pc = "planned" => \A t \in Titles : item[t] = "none"

Queued == w.mode = "run" => \A t \in w.todo : item[t] = "pending"

Modes ==
    /\ w.pc \in {"idle", "planned", "launch", "next", "fs_done"} => w.mode = "run"
    /\ w.pc \in {"recover", "close", "sweep", "purge"} => w.mode = "recover"

\* The journal has the title in hand.
InJournal ==
    w.pc \in {"entry", "copy", "place", "clear", "fs_done", "apply", "moved",
              "settle", "sweep", "purge"} => item[w.t] \in {"moving", "fs_done"}

\* On the way there: what is behind is at the destination, what is ahead at
\* the source.
There ==
    w.way = "there" /\ w.pc \in {"entry", "copy", "place", "clear"} =>
        /\ w.mode = "run" /\ item[w.t] = "moving" /\ w.i \in OpsOf(w.t)
        /\ \A j \in OpsOf(w.t) : j < w.i => Whole(w.t, j, "dst")
        /\ \A j \in OpsOf(w.t) : j > w.i => Whole(w.t, j, "src")
        /\ w.pc # "clear" => Whole(w.t, w.i, "src")
        /\ w.pc = "clear" => Whole(w.t, w.i, "dst")
        /\ w.pc = "place" => Whole(w.t, w.i, "tmp")

\* On the way back: what is still to be put back is at the destination.
Back ==
    w.way = "back" /\ w.pc \in {"entry", "copy", "place", "clear", "purge"} =>
        /\ w.i \in OpsOf(w.t) /\ w.left \subseteq OpsOf(w.t) /\ w.i \notin w.left
        /\ w.t \in Folders => w.mode = "run" /\ item[w.t] = "fs_done"
        /\ \A j \in w.left : Whole(w.t, j, "dst")
        /\ w.pc # "clear" => Whole(w.t, w.i, "dst")
        /\ w.pc = "clear" => Whole(w.t, w.i, "src")
        /\ w.pc = "place" => Whole(w.t, w.i, "back")

PurgeBack == w.pc = "purge" => w.way = "back"

\* Every operation of the title is complete.
Arrived ==
    w.pc \in {"fs_done", "sweep"} \/ (w.pc = "apply" /\ w.mode = "run") =>
        /\ \A j \in OpsOf(w.t) : Whole(w.t, j, "dst")
        /\ w.pc = "apply" => item[w.t] = "fs_done"

DiskInv == NothingLost /\ NoForeign /\ Untouched /\ HalfGone
WorkInv == Queued /\ Modes /\ InJournal /\ There /\ Back /\ PurgeBack /\ Arrived
SafeInv == TypeOK /\ DiskInv /\ Fresh /\ WorkInv

\* An operation of a title is one of its files.
LEMMA OpsInRange == \A t \in Titles : OpsOf(t) \subseteq 1 .. Files
BY MoveAssumption DEF OpsOf

\* Every place of every operation of a title is a slot of the disk.
LEMMA SlotsOf ==
    ASSUME TypeOK
    PROVE  /\ disk \in [Slots -> Contents]
           /\ \A t \in Titles : \A i \in OpsOf(t) : \A p \in Places : <<t, i, p>> \in Slots
BY OpsInRange, SlotType DEF TypeOK

\* The copies of an operation stay as they are.
Stays(t, i) ==
    /\ disk'[<<t, i, "src">>] = disk[<<t, i, "src">>]
    /\ disk'[<<t, i, "dst">>] = disk[<<t, i, "dst">>]

\* Steps that touch neither copy of anything nor the journal keep what is
\* said of both.
LEMMA DiskStays ==
    ASSUME DiskInv, item' = item, \A t \in Titles : \A i \in OpsOf(t) : Stays(t, i)
    PROVE  DiskInv'
<1>1. NothingLost'
  BY DEF DiskInv, NothingLost, Whole, Stays
<1>2. NoForeign'
  BY DEF DiskInv, NoForeign, Stays
<1>3. Untouched'
  BY DEF DiskInv, Untouched, Whole, Stays
<1>4. HalfGone'
  BY DEF DiskInv, HalfGone, Whole, Stays
<1> QED
  BY <1>1, <1>2, <1>3, <1>4 DEF DiskInv

\* A step that touches one operation keeps it if it is safe there.
LEMMA DiskAt ==
    ASSUME DiskInv, item' = item, w.t \in Titles, w.i \in OpsOf(w.t),
           item[w.t] \in {"moving", "fs_done"},
           \A t \in Titles : \A i \in OpsOf(t) : t # w.t \/ i # w.i => Stays(t, i),
           \/ disk'[<<w.t, w.i, "src">>] = "full"
           \/ disk'[<<w.t, w.i, "dst">>] = "full",
           disk'[<<w.t, w.i, "dst">>] # "foreign",
           disk'[<<w.t, w.i, "dst">>] = "part" => item[w.t] # "moving"
    PROVE  DiskInv'
<1>1. NothingLost'
  BY ZenonT(60) DEF DiskInv, NothingLost, Whole, Stays
<1>2. NoForeign'
  BY DEF DiskInv, NoForeign, Stays
<1>3. Untouched'
  BY DEF DiskInv, Untouched, Whole, Stays
<1>4. HalfGone'
  BY DEF DiskInv, HalfGone, Whole, Stays
<1> QED
  BY <1>1, <1>2, <1>3, <1>4 DEF DiskInv

\* Beginning to put back operations that are at their destination, or having
\* none to put back, establishes what is said of the worker.
LEMMA RewindWork ==
    ASSUME NEW v \in Workers, v.t \in Titles, NEW S \in SUBSET OpsOf(v.t), NEW e \in BOOLEAN,
           Rewind(v, S, e),
           \A j \in S : disk'[<<v.t, j, "dst">>] = "full",
           v.t \in Folders /\ S # {} => v.mode = "run" /\ item'[v.t] = "fs_done",
           item'[v.t] \in {"moving", "fs_done"},
           v.mode = "run" => \A t \in v.todo : item'[t] = "pending"
    PROVE  WorkInv'
<1>1. CASE S = {} /\ w' = [v EXCEPT !.pc = "settle", !.left = {}, !.errs = e]
  <2>1. w'.pc = "settle" /\ w'.mode = v.mode /\ w'.t = v.t /\ w'.todo = v.todo
    BY <1>1 DEF Workers
  <2> QED
    BY <2>1 DEF WorkInv, Queued, Modes, InJournal, There, Back, PurgeBack, Arrived
<1>2. ASSUME NEW n \in S,
             w' = [v EXCEPT !.pc = IF v.mode = "run" THEN "entry" ELSE "purge",
                            !.way = "back", !.i = n, !.left = S \ {n}, !.errs = e]
      PROVE  WorkInv'
  <2>1. /\ w'.pc = IF v.mode = "run" THEN "entry" ELSE "purge"
        /\ w'.mode = v.mode /\ w'.t = v.t /\ w'.todo = v.todo
        /\ w'.way = "back" /\ w'.i = n /\ w'.left = S \ {n}
        /\ v.mode \in {"run", "recover"}
    BY <1>2 DEF Workers
  <2> QED
    BY <2>1 DEF WorkInv, Queued, Modes, InJournal, There, Back, PurgeBack, Arrived, Whole
<1> QED
  BY <1>1, <1>2 DEF Rewind

\* What the worker has in hand while it moves an entry.
LEMMA Hand ==
    ASSUME SafeInv, w.pc \in {"entry", "copy", "place", "clear"}
    PROVE  /\ w \in Workers /\ w.t \in Titles /\ w.i \in OpsOf(w.t) /\ w.i \in 1 .. Files
           /\ w.way \in {"there", "back"} /\ w.errs \in BOOLEAN
           /\ item[w.t] \in {"moving", "fs_done"}
           /\ w.mode = "run" => \A t \in w.todo : item[t] = "pending"
           /\ OpsOf(w.t) = 1 .. LastOp(w.t) /\ LastOp(w.t) \in 1 .. Files
           /\ disk[<<w.t, w.i, "src">>] \in Contents /\ disk[<<w.t, w.i, "dst">>] \in Contents
<1>1. w \in Workers /\ w.t \in Titles /\ w.way \in {"there", "back"} /\ w.errs \in BOOLEAN
      /\ w.i \in 1 .. Files
  BY DEF SafeInv, TypeOK, InHand, Workers
<1>2. w.i \in OpsOf(w.t)
  BY <1>1 DEF SafeInv, WorkInv, There, Back
<1>3. disk[<<w.t, w.i, "src">>] \in Contents /\ disk[<<w.t, w.i, "dst">>] \in Contents
  BY <1>1, SlotType, Constants DEF SafeInv
<1>4. OpsOf(w.t) = 1 .. LastOp(w.t) /\ LastOp(w.t) \in 1 .. Files
  <2>1. CASE w.t \in Folders
    BY <2>1, MoveAssumption DEF OpsOf, LastOp
  <2>2. CASE w.t \notin Folders
    BY <2>2, MoveAssumption DEF OpsOf, LastOp
  <2> QED
    BY <2>1, <2>2
<1> QED
  BY <1>1, <1>2, <1>3, <1>4 DEF SafeInv, WorkInv, InJournal, Queued

\* An entry is in place.
LEMMA DoneWork ==
    ASSUME SafeInv, EntryDone, w.pc \in {"entry", "clear"}, item' = item,
           w.way = "there" =>
               /\ \A j \in OpsOf(w.t) : j <= w.i => disk'[<<w.t, j, "dst">>] = "full"
               /\ \A j \in OpsOf(w.t) : j > w.i => disk'[<<w.t, j, "src">>] = "full",
           w.way = "back" => \A j \in w.left : disk'[<<w.t, j, "dst">>] = "full"
    PROVE  WorkInv'
<1> USE Hand
<1>1. CASE w.way = "back" /\ Rewind(w, w.left, w.errs)
  <2>1. w.left \in SUBSET OpsOf(w.t) /\ (w.t \in Folders => w.mode = "run" /\ item[w.t] = "fs_done")
    BY <1>1 DEF SafeInv, WorkInv, Back
  <2> QED
    BY <1>1, <2>1, RewindWork
<1>2. CASE w.way = "there" /\ w.i < LastOp(w.t) /\ w' = [w EXCEPT !.pc = "entry", !.i = w.i + 1]
  <2>1. /\ w'.pc = "entry" /\ w'.mode = w.mode /\ w'.t = w.t /\ w'.todo = w.todo
        /\ w'.way = "there" /\ w'.i = w.i + 1
    BY <1>2 DEF Workers
  <2>2. w.mode = "run" /\ item[w.t] = "moving"
    BY <1>2 DEF SafeInv, WorkInv, There
  <2>3. w.i + 1 \in OpsOf(w.t) /\ \A j \in OpsOf(w.t) : j \in Nat
    BY <1>2
  <2>4. There'
    BY <1>2, <2>1, <2>2, <2>3 DEF There, Whole
  <2> QED
    BY <1>2, <2>1, <2>2, <2>4 DEF WorkInv, Queued, Modes, InJournal, Back, PurgeBack, Arrived
<1>3. CASE w.way = "there" /\ w.i = LastOp(w.t) /\ w' = [w EXCEPT !.pc = "fs_done"]
  <2>1. /\ w'.pc = "fs_done" /\ w'.mode = w.mode /\ w'.t = w.t /\ w'.todo = w.todo
        /\ w'.way = "there"
    BY <1>3 DEF Workers
  <2>2. w.mode = "run" /\ item[w.t] = "moving"
    BY <1>3 DEF SafeInv, WorkInv, There
  <2>3. \A j \in OpsOf(w.t) : disk'[<<w.t, j, "dst">>] = "full"
    BY <1>3
  <2> QED
    BY <2>1, <2>2, <2>3 DEF WorkInv, Queued, Modes, InJournal, There, Back, PurgeBack, Arrived, Whole
<1> QED
  BY <1>1, <1>2, <1>3 DEF EntryDone

\* An entry could not be moved.
LEMMA FailedWork ==
    ASSUME SafeInv, EntryFailed, w.pc \in {"entry", "copy", "place"}, item' = item,
           \A j \in OpsOf(w.t) : disk'[<<w.t, j, "dst">>] = disk[<<w.t, j, "dst">>]
    PROVE  WorkInv'
<1> USE Hand
<1>1. CASE w.way = "back" /\ Rewind(w, w.left, TRUE)
  <2>1. /\ w.left \in SUBSET OpsOf(w.t)
        /\ w.t \in Folders => w.mode = "run" /\ item[w.t] = "fs_done"
        /\ \A j \in w.left : disk'[<<w.t, j, "dst">>] = "full"
    BY <1>1 DEF SafeInv, WorkInv, Back, Whole
  <2> QED
    BY <1>1, <2>1, RewindWork
<1>2. CASE w.way = "there" /\ Rewind(w, 1 .. (w.i - 1), FALSE)
  <2>1. 1 .. (w.i - 1) \in SUBSET OpsOf(w.t)
    OBVIOUS
  <2>2. \A j \in 1 .. (w.i - 1) : disk'[<<w.t, j, "dst">>] = "full"
    BY <1>2, <2>1 DEF SafeInv, WorkInv, There, Whole
  <2>3. w.t \in Folders => 1 .. (w.i - 1) = {}
    BY DEF OpsOf
  <2> HIDE Hand
  <2>4. w \in Workers /\ w.t \in Titles /\ item'[w.t] \in {"moving", "fs_done"}
        /\ (w.mode = "run" => \A t \in w.todo : item'[t] = "pending")
    BY Hand
  <2> QED
    BY <1>2, <2>1, <2>2, <2>3, <2>4, RewindWork
<1> QED
  BY <1>1, <1>2 DEF EntryFailed

\* A step within moveEntry that leaves the worker on the same entry.
LEMMA SameEntry ==
    ASSUME SafeInv, w.pc \in {"entry", "copy", "place", "clear"}, item' = item,
           w' = w \/ w' = [w EXCEPT !.pc = "copy"] \/ w' = [w EXCEPT !.pc = "place"]
               \/ w' = [w EXCEPT !.pc = "clear"],
           w'.pc \in {"copy", "place", "clear"},
           \A t \in Titles : \A i \in OpsOf(t) : t # w.t \/ i # w.i => Stays(t, i),
           LET src == disk'[<<w.t, w.i, "src">>]
               dst == disk'[<<w.t, w.i, "dst">>] IN
           /\ w.way = "there" => /\ w'.pc # "clear" => src = "full"
                                 /\ w'.pc = "clear" => dst = "full"
                                 /\ w'.pc = "place" => disk'[<<w.t, w.i, "tmp">>] = "full"
           /\ w.way = "back"  => /\ w'.pc # "clear" => dst = "full"
                                 /\ w'.pc = "clear" => src = "full"
                                 /\ w'.pc = "place" => disk'[<<w.t, w.i, "back">>] = "full"
    PROVE  WorkInv'
<1>h. /\ w \in Workers /\ w.t \in Titles /\ w.i \in OpsOf(w.t)
      /\ w.way \in {"there", "back"} /\ item[w.t] \in {"moving", "fs_done"}
      /\ w.mode = "run" => \A t \in w.todo : item[t] = "pending"
      /\ OpsOf(w.t) \subseteq Nat
  BY Hand
<1>1. /\ w'.mode = w.mode /\ w'.t = w.t /\ w'.todo = w.todo
      /\ w'.way = w.way /\ w'.i = w.i /\ w'.left = w.left
  BY <1>h DEF Workers
<1>2. There'
  <2> SUFFICES ASSUME w.way = "there" PROVE There'
    BY <1>1 DEF There
  <2>1. /\ w.mode = "run" /\ item[w.t] = "moving"
        /\ \A j \in OpsOf(w.t) : j < w.i => disk[<<w.t, j, "dst">>] = "full"
        /\ \A j \in OpsOf(w.t) : j > w.i => disk[<<w.t, j, "src">>] = "full"
    BY DEF SafeInv, WorkInv, There, Whole
  <2>2. /\ \A j \in OpsOf(w.t) : j < w.i => disk'[<<w.t, j, "dst">>] = "full"
        /\ \A j \in OpsOf(w.t) : j > w.i => disk'[<<w.t, j, "src">>] = "full"
    <3> SUFFICES ASSUME NEW j \in OpsOf(w.t)
                 PROVE  /\ j < w.i => disk'[<<w.t, j, "dst">>] = "full"
                        /\ j > w.i => disk'[<<w.t, j, "src">>] = "full"
      OBVIOUS
    <3>1. j # w.i => Stays(w.t, j)
      BY <1>h
    <3>2. j \in Nat /\ w.i \in Nat
      BY <1>h
    <3> QED
      BY <2>1, <3>1, <3>2 DEF Stays
  <2> QED
    BY <2>1, <2>2, <1>h, <1>1 DEF There, Whole
<1>3. Back'
  <2> SUFFICES ASSUME w.way = "back" PROVE Back'
    BY <1>1 DEF Back
  <2>1. /\ w.left \subseteq OpsOf(w.t) /\ w.i \notin w.left
        /\ w.t \in Folders => w.mode = "run" /\ item[w.t] = "fs_done"
        /\ \A j \in w.left : disk[<<w.t, j, "dst">>] = "full"
    BY DEF SafeInv, WorkInv, Back, Whole
  <2>2. \A j \in w.left : disk'[<<w.t, j, "dst">>] = "full"
    <3> SUFFICES ASSUME NEW j \in w.left PROVE disk'[<<w.t, j, "dst">>] = "full"
      OBVIOUS
    <3>1. Stays(w.t, j)
      BY <2>1, <1>h
    <3> QED
      BY <2>1, <3>1 DEF Stays
  <2> QED
    BY <2>1, <2>2, <1>h, <1>1 DEF Back, Whole
<1> QED
  BY <1>h, <1>1, <1>2, <1>3 DEF WorkInv, Queued, Modes, InJournal, PurgeBack, Arrived

\* The copies that moveEntry is known to have of the entry in hand.
LEMMA EntryCopies ==
    ASSUME SafeInv, w.pc \in {"entry", "copy", "place", "clear"}
    PROVE  /\ w.pc # "clear" => disk[<<w.t, w.i, From>>] = "full"
           /\ w.pc = "clear" => disk[<<w.t, w.i, To>>] = "full"
           /\ w.pc = "place" => disk[<<w.t, w.i, Via>>] = "full"
           /\ w.way = "back" /\ w.t \in Folders => item[w.t] = "fs_done"
           /\ disk[<<w.t, w.i, "dst">>] # "foreign"
           /\ disk[<<w.t, w.i, "dst">>] = "part" => item[w.t] # "moving"
<1>1. w.way \in {"there", "back"} /\ w.t \in Titles /\ w.i \in OpsOf(w.t)
  BY Hand
<1>2. CASE w.way = "there"
  BY <1>1, <1>2 DEF SafeInv, WorkInv, There, DiskInv, NoForeign, HalfGone, Whole, From, To, Via
<1>3. CASE w.way = "back"
  BY <1>1, <1>3 DEF SafeInv, WorkInv, Back, DiskInv, NoForeign, HalfGone, Whole, From, To, Via
<1> QED
  BY <1>1, <1>2, <1>3

\* Each step of moveEntry keeps a whole copy of the entry it moves.
LEMMA EntrySafe ==
    ASSUME SafeInv, MoveEntry PROVE DiskInv' /\ Fresh' /\ WorkInv'
<1> USE Constants
<1>0. /\ w.pc \in {"entry", "copy", "place", "clear"} /\ item' = item /\ job' = job
      /\ TypeOK /\ DiskInv
  BY DEF SafeInv, MoveEntry, EntryTaken, Rename, StartCopy, FinishCopy, PlaceCopy,
     ClearPart, ClearAll, Leftover, EntryError
<1>h. /\ w \in Workers /\ w.t \in Titles /\ w.i \in OpsOf(w.t) /\ w.i \in 1 .. Files
      /\ w.way \in {"there", "back"} /\ item[w.t] \in {"moving", "fs_done"}
      /\ OpsOf(w.t) \subseteq Nat
  BY <1>0, Hand
<1>p. From \in Places /\ To \in Places /\ Via \in Places /\ From # To /\ To # Via /\ From # Via
      /\ Via # "src" /\ Via # "dst"
  BY <1>h DEF From, To, Via
<1>f. w'.pc # "planned" => Fresh'
  BY <1>0 DEF SafeInv, Fresh
<1>s. /\ disk \in [Slots -> Contents]
      /\ \A t \in Titles : \A i \in OpsOf(t) :
            <<t, i, "src">> \in Slots /\ <<t, i, "dst">> \in Slots
  BY <1>0, SlotsOf
<1>1. CASE EntryFailed /\ DropCopy /\ w.pc \in {"entry", "copy", "place"}
  <2>1. \A t \in Titles : \A i \in OpsOf(t) : Stays(t, i)
    <3>1. CASE w.pc = "entry"
      BY <1>1, <3>1 DEF DropCopy, Stays
    <3>2. CASE w.pc # "entry"
      <4>1. disk' = [disk EXCEPT ![At(Via)] = "none"]
        BY <1>1, <3>2 DEF DropCopy
      <4> QED
        BY <4>1, <1>0, <1>h, <1>p, <1>s DEF At, Stays
    <3> QED
      BY <3>1, <3>2
  <2>2. WorkInv'
    BY <1>0, <1>1, <1>h, <2>1, FailedWork DEF Stays
  <2>3. w'.pc # "planned"
    BY <1>1, <1>h DEF EntryFailed, Rewind, Workers
  <2> QED
    BY <1>0, <2>1, <2>2, <2>3, <1>f, DiskStays
<1>2. CASE StartCopy
  <2>1. w' = [w EXCEPT !.pc = "copy"] /\ w'.pc = "copy" /\ w.pc = "entry"
    BY <1>2, <1>h DEF StartCopy, Workers
  <2>2. \A t \in Titles : \A i \in OpsOf(t) : Stays(t, i)
    BY <1>2, <1>0, <1>h, <1>p, <1>s DEF At, StartCopy, Stays
  <2>3. disk'[<<w.t, w.i, From>>] = "full"
    BY <1>0, <1>h, <2>1, <2>2, EntryCopies DEF Stays, From
  <2>4. WorkInv'
    BY <1>0, <1>h, <2>1, <2>2, <2>3, SameEntry DEF From
  <2> QED
    BY <1>0, <2>1, <2>2, <2>4, <1>f, DiskStays
<1>3. CASE FinishCopy
  <2>1. w' = [w EXCEPT !.pc = "place"] /\ w'.pc = "place" /\ w.pc = "copy"
    BY <1>3, <1>h DEF FinishCopy, Workers
  <2>2. \A t \in Titles : \A i \in OpsOf(t) : Stays(t, i)
    BY <1>3, <1>0, <1>h, <1>p, <1>s DEF At, FinishCopy, Stays
  <2>3. disk'[<<w.t, w.i, From>>] = "full"
    BY <1>0, <1>h, <2>1, <2>2, EntryCopies DEF Stays, From
  <2>4. disk'[<<w.t, w.i, Via>>] = "full"
    <3>1. <<w.t, w.i, Via>> \in Slots /\ disk \in [Slots -> Contents]
      BY <1>0, <1>h, <1>p, SlotType DEF TypeOK
    <3>2. Here(From) = "full"
      BY <1>0, <2>1, EntryCopies DEF Here, At
    <3> QED
      BY <1>3, <3>1, <3>2 DEF FinishCopy, At
  <2>5. WorkInv'
    BY <1>0, <1>h, <2>1, <2>2, <2>3, <2>4, SameEntry DEF From, Via
  <2> QED
    BY <1>0, <2>1, <2>2, <2>5, <1>f, DiskStays
<1>4. CASE PlaceCopy
  <2>1. w' = [w EXCEPT !.pc = "clear"] /\ w'.pc = "clear" /\ w.pc = "place"
    BY <1>4, <1>h DEF PlaceCopy, Workers
  <2>2. Here(Via) = "full" /\ disk[<<w.t, w.i, From>>] = "full"
    BY <1>0, <2>1, EntryCopies DEF Here, At
  <2>3. disk' = [disk EXCEPT ![At(To)] = "full", ![At(Via)] = "none"]
    BY <1>4, <2>2 DEF PlaceCopy
  <2>4. \A t \in Titles : \A i \in OpsOf(t) : t # w.t \/ i # w.i => Stays(t, i)
    BY <1>0, <1>h, <1>p, <1>s, <2>3 DEF At, Stays
  <2>5. disk'[<<w.t, w.i, To>>] = "full" /\ disk'[<<w.t, w.i, From>>] = "full"
    BY <1>0, <1>h, <1>p, <1>s, <2>2, <2>3 DEF At, To, From
  <2>6. DiskInv'
    BY <1>0, <1>h, <2>4, <2>5, DiskAt DEF To, From
  <2>7. WorkInv'
    BY <1>0, <1>h, <2>1, <2>4, <2>5, SameEntry DEF To
  <2> QED
    BY <2>1, <2>6, <2>7, <1>f
<1>5. CASE ClearPart
  <2>1. w' = w /\ w.pc = "clear" /\ w.t \in Folders
    BY <1>5 DEF ClearPart
  <2>2. \A t \in Titles : \A i \in OpsOf(t) : t # w.t \/ i # w.i => Stays(t, i)
    BY <1>5, <1>0, <1>h, <1>p, <1>s DEF At, ClearPart, Stays
  <2>3. disk'[<<w.t, w.i, To>>] = "full" /\ disk'[<<w.t, w.i, From>>] = "part"
    BY <1>5, <1>0, <1>h, <1>p, <1>s, <2>1, EntryCopies DEF At, ClearPart, To, From
  <2>4. DiskInv'
    BY <1>0, <1>h, <2>1, <2>2, <2>3, EntryCopies, DiskAt DEF To, From
  <2>5. WorkInv'
    BY <1>0, <1>h, <2>1, <2>2, <2>3, SameEntry DEF To
  <2> QED
    BY <2>1, <2>4, <2>5, <1>f
<1>6. ASSUME EntryDone, w.pc \in {"entry", "clear"},
             \A t \in Titles : \A i \in OpsOf(t) : t # w.t \/ i # w.i => Stays(t, i),
             disk'[<<w.t, w.i, To>>] = "full",
             disk'[<<w.t, w.i, "dst">>] # "foreign",
             disk'[<<w.t, w.i, "dst">>] = "part" => item[w.t] # "moving"
      PROVE  DiskInv' /\ Fresh' /\ WorkInv'
  <2>1. w.way = "there" =>
            /\ \A j \in OpsOf(w.t) : j <= w.i => disk'[<<w.t, j, "dst">>] = "full"
            /\ \A j \in OpsOf(w.t) : j > w.i => disk'[<<w.t, j, "src">>] = "full"
    <3> SUFFICES ASSUME w.way = "there", NEW j \in OpsOf(w.t)
                 PROVE  /\ j <= w.i => disk'[<<w.t, j, "dst">>] = "full"
                        /\ j > w.i => disk'[<<w.t, j, "src">>] = "full"
      OBVIOUS
    <3>1. /\ j < w.i => disk[<<w.t, j, "dst">>] = "full"
          /\ j > w.i => disk[<<w.t, j, "src">>] = "full"
      BY <1>0 DEF SafeInv, WorkInv, There, Whole
    <3>2. j # w.i => Stays(w.t, j)
      BY <1>6, <1>h
    <3>3. j = w.i => disk'[<<w.t, j, "dst">>] = "full"
      BY <1>6 DEF To
    <3>4. j \in Nat /\ w.i \in Nat
      BY <1>h
    <3> QED
      BY <3>1, <3>2, <3>3, <3>4 DEF Stays
  <2>2. w.way = "back" => \A j \in w.left : disk'[<<w.t, j, "dst">>] = "full"
    BY <1>0, <1>6, <1>h DEF SafeInv, WorkInv, Back, Whole, Stays
  <2>3. WorkInv'
    BY <1>0, <1>6, <2>1, <2>2, DoneWork
  <2>4. DiskInv'
    BY <1>0, <1>6, <1>h, DiskAt DEF To
  <2>5. w'.pc # "planned"
    BY <1>6, <1>h DEF EntryDone, Rewind, Workers
  <2> QED
    BY <2>3, <2>4, <2>5, <1>f
<1>7. CASE Rename
  <2>1. w.pc = "entry" /\ EntryDone
    BY <1>7 DEF Rename
  <2>2. disk' = [disk EXCEPT ![At(To)] = "full", ![At(From)] = "none"]
    BY <1>0, <1>7, <2>1, EntryCopies DEF Rename, Here, At
  <2>3. \A t \in Titles : \A i \in OpsOf(t) : t # w.t \/ i # w.i => Stays(t, i)
    BY <1>0, <1>h, <1>p, <1>s, <2>2 DEF At, Stays
  <2>4. disk'[<<w.t, w.i, To>>] = "full" /\ disk'[<<w.t, w.i, From>>] = "none"
    BY <1>0, <1>h, <1>p, <1>s, <2>2 DEF At, To, From
  <2>5. disk'[<<w.t, w.i, "dst">>] \in {"full", "none"}
    BY <2>4, <1>h DEF To, From
  <2> QED
    BY <2>1, <2>3, <2>4, <2>5, <1>6
<1>8. CASE ClearAll
  <2>1. w.pc = "clear" /\ EntryDone /\ disk' = [disk EXCEPT ![At(From)] = "none"]
    BY <1>8 DEF ClearAll
  <2>2. \A t \in Titles : \A i \in OpsOf(t) : t # w.t \/ i # w.i => Stays(t, i)
    BY <1>0, <1>h, <1>p, <1>s, <2>1 DEF At, Stays
  <2>3. disk'[<<w.t, w.i, To>>] = "full" /\ disk'[<<w.t, w.i, From>>] = "none"
    BY <1>0, <1>h, <1>p, <1>s, <2>1, EntryCopies DEF At, To, From
  <2>4. disk'[<<w.t, w.i, "dst">>] \in {"full", "none"}
    BY <2>3, <1>h DEF To, From
  <2> QED
    BY <2>1, <2>2, <2>3, <2>4, <1>6
<1>9. CASE Leftover
  <2>1. w.pc = "clear" /\ EntryDone /\ disk' = disk
    BY <1>9 DEF Leftover
  <2>2. \A t \in Titles : \A i \in OpsOf(t) : Stays(t, i)
    BY <2>1 DEF Stays
  <2> QED
    BY <1>0, <2>1, <2>2, <1>6, EntryCopies
<1> QED
  BY <1>0, <1>1, <1>2, <1>3, <1>4, <1>5, <1>7, <1>8, <1>9 DEF MoveEntry, EntryTaken, EntryError

\* A step that only changes where the worker is, to a place nothing is said of.
LEMMA RestSafe ==
    ASSUME w'.pc \in {"idle", "launch", "next"}, w'.mode = "run",
           \A t \in w'.todo : item'[t] = "pending"
    PROVE  WorkInv'
BY DEF WorkInv, Queued, Modes, InJournal, There, Back, PurgeBack, Arrived

\* Nothing is said of a worker that rests.
LEMMA RestingSafe == ASSUME w' = Resting PROVE WorkInv' /\ w'.pc = "idle"
<1>1. w'.pc = "idle" /\ w'.mode = "run" /\ w'.todo = {}
  BY DEF Resting
<1> QED
  BY <1>1, RestSafe

\* The steps of StartMove keep every title whole.
LEMMA StartSafe ==
    ASSUME SafeInv, Reliable, Plan \/ InsertError \/ Launch \/ \E E \in SUBSET Titles : InsertJob(E)
    PROVE  DiskInv' /\ Fresh' /\ WorkInv'
<1>0. w \in Workers /\ DiskInv /\ Fresh
  BY DEF SafeInv, TypeOK
<1>d. disk' = disk /\ item' = item => DiskInv'
  BY <1>0, DiskStays DEF Stays
<1>1. CASE Plan
  <2>1. w'.pc = "planned" /\ w'.mode = w.mode /\ w'.todo = w.todo /\ w.pc = "idle"
        /\ job = "none" /\ disk' = disk /\ item' = item
    BY <1>0, <1>1 DEF Plan, Workers
  <2>2. w.mode = "run" /\ \A t \in w.todo : item[t] = "pending"
    BY <2>1 DEF SafeInv, WorkInv, Modes, Queued
  <2>3. WorkInv'
    BY <2>1, <2>2 DEF WorkInv, Queued, Modes, InJournal, There, Back, PurgeBack, Arrived
  <2>4. Fresh'
    BY <1>0, <2>1 DEF Fresh
  <2> QED
    BY <1>d, <2>1, <2>3, <2>4
<1>2. CASE InsertError
  BY <1>2 DEF InsertError, Reliable
<1>3. CASE Launch
  <2>1. w'.pc = "next" /\ w'.mode = w.mode /\ w'.todo = w.todo /\ w.pc = "launch"
        /\ disk' = disk /\ item' = item /\ job' = job
    BY <1>0, <1>3 DEF Launch, Workers
  <2>2. w.mode = "run" /\ \A t \in w.todo : item[t] = "pending"
    BY <2>1 DEF SafeInv, WorkInv, Modes, Queued
  <2> QED
    BY <1>0, <1>d, <2>1, <2>2, RestSafe DEF Fresh
<1>4. ASSUME NEW E \in SUBSET Titles, InsertJob(E) PROVE DiskInv' /\ Fresh' /\ WorkInv'
  <2>1. /\ w.pc = "planned" /\ disk' = disk /\ job' # "none"
        /\ item' = [t \in Titles |-> IF t \in E THEN "pending" ELSE "skipped"]
    BY <1>4 DEF InsertJob
  <2>2. \A t \in Titles : item[t] = "none" /\ item'[t] \in {"pending", "skipped"}
    BY <1>0, <2>1 DEF Fresh
  <2>3. DiskInv'
    BY <1>0, <2>1, <2>2 DEF DiskInv, NothingLost, NoForeign, Untouched, HalfGone, Whole
  <2>4. WorkInv' /\ w'.pc # "planned"
    <3>1. CASE E = {}
      BY <1>4, <3>1, RestingSafe DEF InsertJob
    <3>2. CASE E # {}
      <4>1. w'.pc = "launch" /\ w'.mode = w.mode /\ w'.todo = E
        BY <1>0, <1>4, <3>2 DEF InsertJob, Workers
      <4>2. w.mode = "run"
        BY <2>1 DEF SafeInv, WorkInv, Modes
      <4> QED
        BY <2>1, <4>1, <4>2, RestSafe
    <3> QED
      BY <3>1, <3>2
  <2> QED
    BY <2>1, <2>3, <2>4 DEF Fresh
<1> QED
  BY <1>1, <1>2, <1>3, <1>4

\* The journal changes only for the title in hand.
LEMMA SetItemIs ==
    ASSUME TypeOK, Reliable, NEW t \in Titles, NEW s \in Statuses, SetItem(t, s)
    PROVE  \A x \in Titles : item'[x] = IF x = t THEN s ELSE item[x]
BY DEF TypeOK, Reliable, SetItem

\* Closing a title keeps what is said of the disk.
LEMMA CloseTitle ==
    ASSUME SafeInv, Reliable, w.t \in Titles, disk' = disk, job' = job,
           w.pc \in {"moved", "settle"},
           NEW s \in {"moved", "split", "failed", "rolled_back"}, SetItem(w.t, s),
           NEW a \in BOOLEAN, w' = NextTitle(a)
    PROVE  DiskInv' /\ Fresh' /\ WorkInv'
<1>0. w \in Workers /\ TypeOK /\ s \in Statuses /\ item[w.t] \in {"moving", "fs_done"} /\ DiskInv
  BY DEF SafeInv, TypeOK, Statuses, WorkInv, InJournal
<1>1. \A x \in Titles : item'[x] = IF x = w.t THEN s ELSE item[x]
  BY <1>0, SetItemIs
<1>2. /\ w'.pc = IF w.mode = "run" THEN "next" ELSE "recover"
      /\ w'.mode = w.mode /\ w'.todo = w.todo /\ w.mode \in {"run", "recover"}
      /\ w.todo \subseteq Titles
  BY <1>0 DEF NextTitle, Workers
<1>3. w.mode = "run" => \A t \in w.todo : item'[t] = "pending"
  BY <1>0, <1>1, <1>2 DEF SafeInv, WorkInv, Queued
<1>4. WorkInv'
  BY <1>2, <1>3 DEF WorkInv, Queued, Modes, InJournal, There, Back, PurgeBack, Arrived
<1>5. DiskInv'
  BY <1>0, <1>1 DEF DiskInv, NothingLost, NoForeign, Untouched, HalfGone, Whole
<1>6. Fresh'
  BY <1>0, <1>1, <1>2 DEF SafeInv, Fresh
<1> QED
  BY <1>4, <1>5, <1>6

\* The steps of runMove and executeUnit keep every title whole.
LEMMA RunSafe ==
    ASSUME SafeInv, Reliable,
           \/ FilesDone \/ Apply \/ ApplyError \/ SetMoved \/ Settle \/ EndJob
           \/ \E t \in Titles : TakeUnit(t)
    PROVE  DiskInv' /\ Fresh' /\ WorkInv'
<1>0. w \in Workers /\ DiskInv /\ Fresh /\ TypeOK /\ InHand /\ w.any \in BOOLEAN
      /\ w.todo \subseteq Titles
  BY DEF SafeInv, TypeOK, Workers
<1>d. disk' = disk /\ item' = item => DiskInv'
  BY <1>0, DiskStays DEF Stays
<1>1. CASE FilesDone
  <2>1. /\ w'.pc = "apply" /\ w'.mode = w.mode /\ w'.t = w.t /\ w'.todo = w.todo
        /\ w.pc = "fs_done" /\ disk' = disk /\ job' = job /\ w.t \in Titles
    BY <1>0, <1>1 DEF FilesDone, Workers, InHand
  <2>2. /\ w.mode = "run" /\ item[w.t] \in {"moving", "fs_done"}
        /\ \A t \in w.todo : item[t] = "pending"
        /\ \A j \in OpsOf(w.t) : disk[<<w.t, j, "dst">>] = "full"
    BY <2>1 DEF SafeInv, WorkInv, Modes, InJournal, Queued, Arrived, Whole
  <2>3. \A x \in Titles : item'[x] = IF x = w.t THEN "fs_done" ELSE item[x]
    BY <1>0, <1>1, <2>1, SetItemIs DEF FilesDone, Statuses
  <2>4. \A t \in w.todo : item'[t] = "pending"
    BY <1>0, <2>2, <2>3
  <2>5. WorkInv'
    BY <2>1, <2>2, <2>3, <2>4 DEF WorkInv, Queued, Modes, InJournal, There, Back, PurgeBack, Arrived, Whole
  <2>6. DiskInv'
    BY <1>0, <2>1, <2>2, <2>3 DEF DiskInv, NothingLost, NoForeign, Untouched, HalfGone, Whole
  <2>7. Fresh'
    BY <1>0, <2>1, <2>2, <2>3 DEF Fresh
  <2> QED
    BY <2>5, <2>6, <2>7
<1>2. CASE Apply
  <2>1. /\ w'.pc = "moved" /\ w'.mode = w.mode /\ w'.t = w.t /\ w'.todo = w.todo
        /\ w.pc = "apply" /\ disk' = disk /\ job' = job /\ item' = item
    BY <1>0, <1>2 DEF Apply, Workers
  <2>2. WorkInv'
    BY <2>1 DEF SafeInv, WorkInv, Queued, Modes, InJournal, There, Back, PurgeBack, Arrived
  <2> QED
    BY <1>0, <1>d, <2>1, <2>2 DEF Fresh
<1>3. CASE ApplyError
  <2>1. w.pc = "apply" /\ disk' = disk /\ job' = job /\ item' = item /\ w.t \in Titles
    BY <1>0, <1>3 DEF ApplyError, InHand
  <2>2. item[w.t] \in {"moving", "fs_done"} /\ (w.mode = "run" => \A t \in w.todo : item[t] = "pending")
    BY <2>1 DEF SafeInv, WorkInv, InJournal, Queued
  <2>3. CASE w.mode = "run" /\ Rewind(w, OpsOf(w.t), FALSE)
    <3>1. item[w.t] = "fs_done" /\ \A j \in OpsOf(w.t) : disk[<<w.t, j, "dst">>] = "full"
      BY <2>1, <2>3 DEF SafeInv, WorkInv, Arrived, Whole
    <3>2. WorkInv'
      BY <1>0, <2>1, <2>2, <2>3, <3>1, RewindWork
    <3>3. w'.pc # "planned"
      BY <1>0, <2>3 DEF Rewind, Workers
    <3> QED
      BY <1>0, <1>d, <2>1, <3>2, <3>3 DEF Fresh
  <2>4. CASE w.mode = "recover" /\ w' = [w EXCEPT !.pc = "settle", !.errs = TRUE]
    <3>1. w'.pc = "settle" /\ w'.mode = "recover" /\ w'.t = w.t
      BY <1>0, <2>4 DEF Workers
    <3>2. WorkInv'
      BY <2>1, <2>2, <3>1 DEF WorkInv, Queued, Modes, InJournal, There, Back, PurgeBack, Arrived
    <3> QED
      BY <1>0, <1>d, <2>1, <3>1, <3>2 DEF Fresh
  <2> QED
    BY <1>3, <2>3, <2>4 DEF ApplyError
<1>4. CASE SetMoved
  BY <1>0, <1>4, CloseTitle DEF SetMoved, InHand
<1>5. CASE Settle
  <2>1. w.t \in Titles /\ w.pc = "settle" /\ disk' = disk /\ job' = job /\ w' = NextTitle(w.any)
    BY <1>0, <1>5 DEF Settle, InHand
  <2>2. \E s \in {"split", "failed", "rolled_back"} : SetItem(w.t, s)
    BY <1>5 DEF Settle
  <2> QED
    BY <1>0, <2>1, <2>2, CloseTitle
<1>6. CASE EndJob
  BY <1>0, <1>d, <1>6, RestingSafe DEF EndJob, Fresh, Reliable
<1>7. ASSUME NEW t \in Titles, TakeUnit(t) PROVE DiskInv' /\ Fresh' /\ WorkInv'
  <2>1. /\ w'.pc = "entry" /\ w'.mode = w.mode /\ w'.t = t /\ w'.todo = w.todo \ {t}
        /\ w'.i = 1 /\ w'.way = "there"
        /\ w.pc = "next" /\ t \in w.todo /\ disk' = disk /\ job' = job
    BY <1>0, <1>7 DEF TakeUnit, Workers
  <2>2. w.mode = "run" /\ item[t] = "pending" /\ \A x \in w.todo : item[x] = "pending"
    BY <2>1 DEF SafeInv, WorkInv, Modes, Queued
  <2>3. \A x \in Titles : item'[x] = IF x = t THEN "moving" ELSE item[x]
    BY <1>0, <1>7, SetItemIs DEF TakeUnit, Statuses
  <2>4. \A i \in OpsOf(t) : disk[<<t, i, "src">>] = "full" /\ disk[<<t, i, "dst">>] = "none"
    BY <1>0, <2>2 DEF DiskInv, Untouched, Whole
  <2>5. \A x \in w'.todo : item'[x] = "pending"
    BY <1>0, <2>1, <2>2, <2>3
  <2>6. 1 \in OpsOf(t) /\ \A j \in OpsOf(t) : ~(j < 1)
    BY MoveAssumption DEF OpsOf
  <2>7. WorkInv'
    BY <2>1, <2>2, <2>3, <2>4, <2>5, <2>6 DEF WorkInv, Queued, Modes, InJournal, There, Back, PurgeBack, Arrived, Whole
  <2>8. DiskInv'
    BY <1>0, <2>1, <2>3, <2>4 DEF DiskInv, NothingLost, NoForeign, Untouched, HalfGone, Whole
  <2>9. Fresh'
    BY <1>0, <2>1, <2>2 DEF Fresh
  <2> QED
    BY <2>7, <2>8, <2>9
<1> QED
  BY <1>1, <1>2, <1>3, <1>4, <1>5, <1>6, <1>7

\* The steps of RecoverMoves keep every title whole.
LEMMA RecoverSafe ==
    ASSUME SafeInv, Reliable,
           \/ RemovePart \/ Sweep \/ Purge \/ SkipPending \/ CloseJob
           \/ \E t \in Titles : RecoverFilesDone(t) \/ RecoverMoving(t)
    PROVE  DiskInv' /\ Fresh' /\ WorkInv'
<1> USE Constants
<1>0. w \in Workers /\ DiskInv /\ Fresh /\ TypeOK /\ InHand /\ w.todo \subseteq Titles
  BY DEF SafeInv, TypeOK, Workers
<1>d. disk' = disk /\ item' = item => DiskInv'
  BY <1>0, DiskStays DEF Stays
<1>s. /\ disk \in [Slots -> Contents]
      /\ \A t \in Titles : \A i \in OpsOf(t) :
            <<t, i, "src">> \in Slots /\ <<t, i, "dst">> \in Slots
  BY <1>0, SlotsOf
<1>1. ASSUME w.pc \in {"sweep", "purge"}, NEW c \in {"part", "none", "same"},
             IF c = "same" THEN disk' = disk ELSE disk' = [disk EXCEPT ![At("src")] = c],
             item' = item
      PROVE  DiskInv' /\ \A j \in OpsOf(w.t) : disk'[<<w.t, j, "dst">>] = disk[<<w.t, j, "dst">>]
  <2>1. w.t \in Titles
    BY <1>0, <1>1 DEF InHand
  <2>2. CASE c = "same"
    BY <1>1, <1>d, <2>2
  <2>3. CASE c # "same"
    <3>1. disk' = [disk EXCEPT ![At("src")] = c]
      BY <1>1, <2>3
    <3>2. \A t \in Titles : \A i \in OpsOf(t) : t # w.t \/ i # w.i => Stays(t, i)
      BY <1>s, <3>1 DEF Stays, At
    <3>3. \A j \in OpsOf(w.t) : disk'[<<w.t, j, "dst">>] = disk[<<w.t, j, "dst">>]
      BY <1>s, <2>1, <3>1 DEF At
    <3>4. CASE w.i \in OpsOf(w.t)
      <4>1. disk[<<w.t, w.i, "dst">>] = "full" /\ item[w.t] \in {"moving", "fs_done"}
        <5>1. CASE w.pc = "sweep"
          BY <3>4, <5>1 DEF SafeInv, WorkInv, Arrived, InJournal, Whole
        <5>2. CASE w.pc = "purge"
          BY <5>2 DEF SafeInv, WorkInv, Back, InJournal, PurgeBack, Whole
        <5> QED
          BY <1>1, <5>1, <5>2
      <4> QED
        BY <1>0, <1>1, <2>1, <3>2, <3>3, <3>4, <4>1, DiskAt
    <3>5. CASE w.i \notin OpsOf(w.t)
      <4>1. \A t \in Titles : \A i \in OpsOf(t) : Stays(t, i)
        BY <3>2, <3>5
      <4> QED
        BY <1>0, <1>1, <3>3, <4>1, DiskStays
    <3> QED
      BY <3>3, <3>4, <3>5
  <2> QED
    BY <2>2, <2>3
<1>2. CASE RemovePart
  <2>1. w' = w /\ job' = job /\ item' = item /\ w.pc \in {"sweep", "purge"} /\ w.t \in Titles
    BY <1>0, <1>2 DEF RemovePart, InHand
  <2>2. DiskInv' /\ \A j \in OpsOf(w.t) : disk'[<<w.t, j, "dst">>] = disk[<<w.t, j, "dst">>]
    BY <1>1, <1>2, <2>1 DEF RemovePart
  <2>3. WorkInv'
    <3>1. Queued' /\ Modes' /\ InJournal' /\ There' /\ PurgeBack'
      BY <2>1 DEF SafeInv, WorkInv, Queued, Modes, InJournal, There, PurgeBack
    <3>2. Back' /\ Arrived'
      BY <2>1, <2>2 DEF SafeInv, WorkInv, Back, Arrived, Whole
    <3> QED
      BY <3>1, <3>2 DEF WorkInv
  <2> QED
    BY <1>0, <2>1, <2>2, <2>3 DEF Fresh
<1>3. CASE Sweep
  <2>1. /\ w'.mode = w.mode /\ w'.t = w.t /\ w'.pc \in {"sweep", "apply"}
        /\ w.pc = "sweep" /\ job' = job /\ item' = item /\ w.t \in Titles
    BY <1>0, <1>3 DEF Sweep, Workers, InHand
  <2>2. DiskInv' /\ \A j \in OpsOf(w.t) : disk'[<<w.t, j, "dst">>] = disk[<<w.t, j, "dst">>]
    BY <1>1, <1>3, <2>1 DEF Sweep, RemoveSource
  <2>3. /\ w.mode = "recover" /\ item[w.t] \in {"moving", "fs_done"}
        /\ \A j \in OpsOf(w.t) : disk[<<w.t, j, "dst">>] = "full"
    BY <2>1 DEF SafeInv, WorkInv, Modes, InJournal, Arrived, Whole
  <2>4. WorkInv'
    BY <2>1, <2>2, <2>3 DEF WorkInv, Queued, Modes, InJournal, There, Back, PurgeBack, Arrived, Whole
  <2> QED
    BY <1>0, <2>1, <2>2, <2>4 DEF Fresh
<1>4. CASE Purge
  <2>1. /\ w'.pc = "entry" /\ w'.mode = w.mode /\ w'.t = w.t /\ w'.way = w.way /\ w'.i = w.i
        /\ w'.left = w.left /\ w.pc = "purge" /\ job' = job /\ item' = item /\ w.t \in Titles
    BY <1>0, <1>4 DEF Purge, Workers, InHand
  <2>2. DiskInv' /\ \A j \in OpsOf(w.t) : disk'[<<w.t, j, "dst">>] = disk[<<w.t, j, "dst">>]
    BY <1>1, <1>4, <2>1 DEF Purge, RemoveSource
  <2>3. /\ w.mode = "recover" /\ item[w.t] \in {"moving", "fs_done"} /\ w.way = "back"
    BY <2>1 DEF SafeInv, WorkInv, Modes, InJournal, PurgeBack
  <2>4. Back'
    BY <2>1, <2>2, <2>3 DEF SafeInv, WorkInv, Back, Whole
  <2>5. Queued' /\ Modes' /\ InJournal' /\ There' /\ Arrived' /\ PurgeBack'
    BY <2>1, <2>3 DEF Queued, Modes, InJournal, There, Arrived, PurgeBack
  <2> QED
    BY <1>0, <2>1, <2>2, <2>4, <2>5 DEF Fresh, WorkInv
<1>5. CASE SkipPending
  <2>1. /\ w'.pc = "close" /\ w'.mode = w.mode /\ w.pc = "recover" /\ job' = job /\ disk' = disk
        /\ item' = [t \in Titles |-> IF item[t] = "pending" /\ job = "running"
                                     THEN "skipped" ELSE item[t]]
    BY <1>0, <1>5 DEF SkipPending, Workers, Reliable
  <2>2. w.mode = "recover"
    BY <2>1 DEF SafeInv, WorkInv, Modes
  <2>3. \A t \in Titles : item'[t] = item[t] \/ (item'[t] = "skipped" /\ job = "running")
    BY <2>1
  <2>4. WorkInv'
    BY <2>1, <2>2 DEF WorkInv, Queued, Modes, InJournal, There, Back, PurgeBack, Arrived
  <2>5. DiskInv'
    BY <1>0, <2>1, <2>3 DEF DiskInv, NothingLost, NoForeign, Untouched, HalfGone, Whole
  <2>6. Fresh'
    BY <1>0, <2>1, <2>3 DEF Fresh
  <2> QED
    BY <2>4, <2>5, <2>6
<1>6. CASE CloseJob
  BY <1>0, <1>d, <1>6, RestingSafe DEF CloseJob, Fresh, Reliable
<1>7. ASSUME NEW t \in Titles, RecoverFilesDone(t) PROVE DiskInv' /\ Fresh' /\ WorkInv'
  <2>1. /\ w'.pc = "apply" /\ w'.mode = w.mode /\ w'.t = t /\ w.pc = "recover"
        /\ job' = job /\ disk' = disk /\ item' = item /\ item[t] = "fs_done"
    BY <1>0, <1>7 DEF RecoverFilesDone, Workers
  <2>2. w.mode = "recover"
    BY <2>1 DEF SafeInv, WorkInv, Modes
  <2>3. WorkInv'
    BY <2>1, <2>2 DEF WorkInv, Queued, Modes, InJournal, There, Back, PurgeBack, Arrived
  <2> QED
    BY <1>0, <1>d, <2>1, <2>3 DEF Fresh
<1>8. ASSUME NEW t \in Titles, RecoverMoving(t) PROVE DiskInv' /\ Fresh' /\ WorkInv'
  <2>1. /\ w.pc = "recover" /\ job' = job /\ item' = item /\ item[t] = "moving" /\ t \in w.todo
        /\ disk' = [s \in Slots |-> IF s[1] = t /\ s[3] = "tmp" THEN "none" ELSE disk[s]]
    BY <1>8 DEF RecoverMoving
  <2>2. \A x \in Titles : \A i \in OpsOf(x) : Stays(x, i)
    BY <1>s, <2>1 DEF Stays
  <2>3. \A i \in OpsOf(t) : disk[<<t, i, "dst">>] \in {"none", "full"}
    <3> SUFFICES ASSUME NEW i \in OpsOf(t) PROVE disk[<<t, i, "dst">>] \in {"none", "full"}
      OBVIOUS
    <3>1. disk[<<t, i, "dst">>] # "foreign" /\ disk[<<t, i, "dst">>] # "part"
      BY <1>0, <2>1 DEF DiskInv, NoForeign, HalfGone
    <3>2. disk[<<t, i, "dst">>] \in Contents
      BY <1>s
    <3> QED
      BY <3>1, <3>2 DEF Contents
  <2>4. Complete(t) \in SUBSET OpsOf(t) /\ \A i \in Complete(t) : disk'[<<t, i, "dst">>] = "full"
    BY <2>2, <2>3 DEF Complete, Stays
  <2>5. w.mode = "recover"
    BY <2>1 DEF SafeInv, WorkInv, Modes
  <2>6. CASE Complete(t) = OpsOf(t)
             /\ w' = [w EXCEPT !.t = t, !.todo = w.todo \ {t}, !.pc = "sweep", !.i = 1]
    <3>1. w'.pc = "sweep" /\ w'.mode = w.mode /\ w'.t = t
      BY <1>0, <2>6 DEF Workers
    <3>2. WorkInv'
      BY <2>1, <2>4, <2>5, <2>6, <3>1
      DEF WorkInv, Queued, Modes, InJournal, There, Back, PurgeBack, Arrived, Whole
    <3> QED
      BY <1>0, <2>1, <2>2, <3>1, <3>2, DiskStays DEF Fresh
  <2>7. CASE Complete(t) # OpsOf(t)
             /\ Rewind([w EXCEPT !.t = t, !.todo = w.todo \ {t}], Complete(t), FALSE)
    <3> DEFINE v == [w EXCEPT !.t = t, !.todo = w.todo \ {t}]
    <3>1. v \in Workers /\ v.t = t /\ v.mode = "recover"
      BY <1>0, <2>5 DEF Workers
    <3>2. t \in Folders => Complete(t) = {}
      <4> SUFFICES ASSUME t \in Folders PROVE Complete(t) = {}
        OBVIOUS
      <4>1. OpsOf(t) = {1}
        BY DEF OpsOf
      <4> QED
        BY <2>4, <2>7, <4>1
    <3>3. Rewind(v, Complete(t), FALSE)
      BY <2>7
    <3>4. w'.pc # "planned"
      BY <3>1, <3>3 DEF Rewind, Workers
    <3> HIDE DEF v
    <3>5. item'[v.t] \in {"moving", "fs_done"}
      BY <2>1, <3>1
    <3>6. WorkInv'
      BY <2>4, <3>1, <3>2, <3>3, <3>5, RewindWork
    <3> QED
      BY <1>0, <2>1, <2>2, <3>4, <3>6, DiskStays DEF Fresh
  <2> QED
    BY <1>8, <2>6, <2>7 DEF RecoverMoving
<1> QED
  BY <1>2, <1>3, <1>4, <1>5, <1>6, <1>7, <1>8

\* Crashes and scans keep every title whole.
LEMMA OtherSafe ==
    ASSUME SafeInv, Reliable,
           \/ Crash \/ ScanStart \/ ScanCatalogue \/ ScanEnd \/ UNCHANGED vars
           \/ \E t \in Titles : \E i \in OpsOf(t) : Appear(t, i)
    PROVE  DiskInv' /\ Fresh' /\ WorkInv'
<1>0. DiskInv /\ Fresh /\ WorkInv
  BY DEF SafeInv
<1>1. CASE Crash
  <2>1. /\ w'.pc = "recover" /\ w'.mode = "recover" /\ disk' = disk /\ item' = item /\ job' = job
    BY <1>1 DEF Crash, Resting, Reliable
  <2>2. WorkInv'
    BY <2>1 DEF WorkInv, Queued, Modes, InJournal, There, Back, PurgeBack, Arrived
  <2>3. DiskInv'
    BY <1>0, <2>1, DiskStays DEF Stays
  <2> QED
    BY <1>0, <2>1, <2>2, <2>3 DEF Fresh
<1>2. CASE ScanStart \/ ScanCatalogue \/ ScanEnd \/ UNCHANGED vars
  <2>1. w' = w /\ disk' = disk /\ item' = item /\ job' = job
    BY <1>2 DEF ScanStart, ScanCatalogue, ScanEnd, vars
  <2>2. DiskInv' /\ Fresh'
    BY <1>0, <2>1, DiskStays DEF Stays, Fresh
  <2>3. WorkInv'
    BY <1>0, <2>1 DEF WorkInv, Queued, Modes, InJournal, There, Back, PurgeBack, Arrived, Whole
  <2> QED
    BY <2>2, <2>3
<1>3. ASSUME NEW t \in Titles, NEW i \in OpsOf(t), Appear(t, i) PROVE FALSE
  BY <1>3 DEF Appear, Reliable
<1> QED
  BY <1>1, <1>2, <1>3

\* Before a move every title is whole at its origin.
LEMMA InitSafe == Init => SafeInv
<1> SUFFICES ASSUME Init PROVE SafeInv
  OBVIOUS
<1>1. TypeOK
  BY InitType
<1>2. \A t \in Titles : \A i \in OpsOf(t) :
          disk[<<t, i, "src">>] = "full" /\ disk[<<t, i, "dst">>] = "none"
  <2>1. \A t \in Titles : \A i \in OpsOf(t) :
            <<t, i, "src">> \in Slots /\ <<t, i, "dst">> \in Slots
    BY <1>1, SlotsOf, Constants
  <2> QED
    BY <2>1 DEF Init
<1>3. DiskInv
  BY <1>2 DEF DiskInv, NothingLost, NoForeign, Untouched, HalfGone, Whole
<1>4. w.pc = "idle" /\ w.mode = "run" /\ w.todo = {}
  BY DEF Init, Resting
<1>5. WorkInv
  BY <1>4 DEF WorkInv, Queued, Modes, InJournal, There, Back, PurgeBack, Arrived
<1>6. Fresh
  BY DEF Init, Fresh
<1> QED
  BY <1>1, <1>3, <1>5, <1>6 DEF SafeInv

\* Every step keeps the inductive invariant.
LEMMA NextSafe == ASSUME Reliable PROVE SafeInv /\ [Next]_vars => SafeInv'
<1> SUFFICES ASSUME SafeInv, [Next]_vars PROVE SafeInv'
  OBVIOUS
<1>1. TypeOK'
  BY NextType DEF SafeInv
<1>2. DiskInv' /\ Fresh' /\ WorkInv'
  BY StartSafe, EntrySafe, RunSafe, RecoverSafe, OtherSafe DEF Next, Worker
<1> QED
  BY <1>1, <1>2 DEF SafeInv

\* However often the process stops, and wherever, every file and folder of
\* every title stays whole at its origin or at its destination, as long as
\* the journal is written and nothing else takes destinations.
THEOREM NothingIsLost == Reliable => (Spec => []NothingLost)
<1> SUFFICES ASSUME Reliable PROVE Spec => []NothingLost
  OBVIOUS
<1>1. SafeInv => NothingLost
  BY DEF SafeInv, DiskInv
<1> QED
  BY <1>1, InitSafe, NextSafe, PTL DEF Spec

-----------------------------------------------------------------------------
(* What holds whatever the journal says: when no restart reads it, or when *)
(* what is at a destination says as much as the journal does.              *)

\* No restart; or nobody else takes destinations and folders are renamed.
Tolerant == MaxCrashes = 0 \/ ("foreign" \notin Faults /\ Folders \cap Cross = {})

\* What recovery finds at a destination is whole.
Clean == MaxCrashes # 0 => \A t \in Titles : \A i \in OpsOf(t) : disk[<<t, i, "dst">>] \in {"none", "full"}

Started == w.pc \notin {"idle", "planned", "recover", "close"} => job # "none"

Unstarted ==
    job = "none" \/ w.pc = "planned" =>
        \A t \in Titles : item[t] = "none" /\ \A i \in OpsOf(t) : Whole(t, i, "src")

\* The titles a job has yet to move are where they were.
Waiting == w.mode = "run" => w.t \notin w.todo /\ \A t \in w.todo : \A i \in OpsOf(t) : Whole(t, i, "src")

Restarted == w.mode = "recover" => MaxCrashes # 0

\* On the way there and on the way back: There and Back, without the journal.
OnTheWay ==
    w.way = "there" /\ w.pc \in {"entry", "copy", "place", "clear"} =>
        /\ w.mode = "run" /\ w.i \in OpsOf(w.t)
        /\ \A j \in OpsOf(w.t) : j < w.i => Whole(w.t, j, "dst")
        /\ \A j \in OpsOf(w.t) : j > w.i => Whole(w.t, j, "src")
        /\ w.pc # "clear" => Whole(w.t, w.i, "src")
        /\ w.pc = "clear" => Whole(w.t, w.i, "dst")
        /\ w.pc = "place" => Whole(w.t, w.i, "tmp")
OnTheWayBack ==
    w.way = "back" /\ w.pc \in {"entry", "copy", "place", "clear", "purge"} =>
        /\ w.i \in OpsOf(w.t) /\ w.left \subseteq OpsOf(w.t) /\ w.i \notin w.left
        /\ w.t \in Folders => w.mode = "run"
        /\ \A j \in w.left : Whole(w.t, j, "dst")
        /\ w.pc # "clear" => Whole(w.t, w.i, "dst")
        /\ w.pc = "clear" => Whole(w.t, w.i, "src") /\ disk[<<w.t, w.i, "dst">>] \in {"full", "part"}
        /\ w.pc = "place" => Whole(w.t, w.i, "back")
Copying == w.pc \in {"copy", "place", "clear"} => w.t \in Cross
AllThere ==
    w.pc \in {"fs_done", "sweep"} \/ (w.pc = "apply" /\ w.mode = "run") =>
        \A j \in OpsOf(w.t) : Whole(w.t, j, "dst")

\* Between two titles there is none in hand.
HandEmpty == w.pc \in {"idle", "planned", "launch", "next", "recover", "close"} => w.t = NoTitle

KeptInv == NothingLost /\ Clean
GripInv ==
    /\ Started /\ Waiting /\ Restarted /\ Modes /\ PurgeBack
    /\ OnTheWay /\ OnTheWayBack /\ Copying /\ AllThere
TolerantInv == TypeOK /\ KeptInv /\ Unstarted /\ HandEmpty /\ GripInv

\* A step that touches at most one operation keeps what is kept.
LEMMA WholeAtOne ==
    ASSUME KeptInv, w.t \in Titles, w.i \in OpsOf(w.t),
           \A t \in Titles : \A i \in OpsOf(t) : t # w.t \/ i # w.i => Stays(t, i),
           \/ disk'[<<w.t, w.i, "src">>] = "full"
           \/ disk'[<<w.t, w.i, "dst">>] = "full",
           MaxCrashes # 0 => disk'[<<w.t, w.i, "dst">>] \in {"none", "full"}
    PROVE  KeptInv'
<1>1. NothingLost'
  BY ZenonT(60) DEF KeptInv, NothingLost, Whole, Stays
<1>2. Clean'
  BY ZenonT(60) DEF KeptInv, Clean, Stays
<1> QED
  BY <1>1, <1>2 DEF KeptInv

LEMMA WholeStays == ASSUME KeptInv, \A t \in Titles : \A i \in OpsOf(t) : Stays(t, i) PROVE KeptInv'
BY DEF KeptInv, NothingLost, Clean, Whole, Stays

\* The titles that wait are not touched by a step that touches the one in hand.
LEMMA WaitingStays ==
    ASSUME TypeOK, Waiting, w'.mode = w.mode, w'.t = w.t, w'.todo = w.todo,
           \A t \in Titles : \A i \in OpsOf(t) : t # w.t => Stays(t, i)
    PROVE  Waiting'
<1>1. w.todo \subseteq Titles
  BY DEF TypeOK, Workers
<1> QED
  BY <1>1 DEF Waiting, Whole, Stays

\* Beginning to put back operations, or having none to put back.
LEMMA RewindGrip ==
    ASSUME NEW v \in Workers, v.t \in Titles, NEW S \in SUBSET OpsOf(v.t), NEW e \in BOOLEAN,
           Rewind(v, S, e), \A j \in S : disk'[<<v.t, j, "dst">>] = "full",
           v.t \in Folders /\ S # {} => v.mode = "run",
           v.mode = "recover" => MaxCrashes # 0, job' # "none",
           v.mode = "run" => v.t \notin v.todo /\ \A t \in v.todo : \A i \in OpsOf(t) : disk'[<<t, i, "src">>] = "full"
    PROVE  GripInv' /\ w'.pc # "planned"
<1>1. CASE S = {} /\ w' = [v EXCEPT !.pc = "settle", !.left = {}, !.errs = e]
  <2>1. w'.pc = "settle" /\ w'.mode = v.mode /\ w'.t = v.t /\ w'.todo = v.todo
    BY <1>1 DEF Workers
  <2> QED
    BY <2>1 DEF GripInv, Started, Waiting, Restarted, Modes, PurgeBack, OnTheWay, OnTheWayBack, Copying, AllThere, Whole
<1>2. ASSUME NEW n \in S,
             w' = [v EXCEPT !.pc = IF v.mode = "run" THEN "entry" ELSE "purge",
                            !.way = "back", !.i = n, !.left = S \ {n}, !.errs = e]
      PROVE  GripInv' /\ w'.pc # "planned"
  <2>1. /\ w'.pc = IF v.mode = "run" THEN "entry" ELSE "purge"
        /\ w'.mode = v.mode /\ w'.t = v.t /\ w'.todo = v.todo
        /\ w'.way = "back" /\ w'.i = n /\ w'.left = S \ {n}
        /\ v.mode \in {"run", "recover"}
    BY <1>2 DEF Workers
  <2>2. Started' /\ Waiting' /\ Restarted' /\ Modes' /\ PurgeBack' /\ OnTheWay' /\ Copying' /\ AllThere'
    BY <2>1 DEF Started, Waiting, Restarted, Modes, PurgeBack, OnTheWay, Copying, AllThere, Whole
  <2>3. OnTheWayBack'
    BY <2>1 DEF OnTheWayBack, Whole
  <2> QED
    BY <2>1, <2>2, <2>3 DEF GripInv
<1> QED
  BY <1>1, <1>2 DEF Rewind

\* What the worker has in hand while it moves an entry.
LEMMA Grip ==
    ASSUME TolerantInv, w.pc \in {"entry", "copy", "place", "clear"}
    PROVE  /\ w \in Workers /\ w.t \in Titles /\ w.i \in OpsOf(w.t) /\ w.i \in 1 .. Files
           /\ w.way \in {"there", "back"} /\ w.errs \in BOOLEAN /\ job # "none"
           /\ w.mode = "recover" => MaxCrashes # 0
           /\ OpsOf(w.t) = 1 .. LastOp(w.t) /\ LastOp(w.t) \in 1 .. Files
           /\ disk[<<w.t, w.i, "src">>] \in Contents /\ disk[<<w.t, w.i, "dst">>] \in Contents
<1>1. w \in Workers /\ w.t \in Titles /\ w.way \in {"there", "back"} /\ w.errs \in BOOLEAN
      /\ w.i \in 1 .. Files
  BY DEF TolerantInv, TypeOK, InHand, Workers
<1>2. w.i \in OpsOf(w.t)
  BY <1>1 DEF TolerantInv, GripInv, OnTheWay, OnTheWayBack
<1>3. disk[<<w.t, w.i, "src">>] \in Contents /\ disk[<<w.t, w.i, "dst">>] \in Contents
  BY <1>1, SlotType, Constants DEF TolerantInv
<1>4. OpsOf(w.t) = 1 .. LastOp(w.t) /\ LastOp(w.t) \in 1 .. Files
  <2>1. CASE w.t \in Folders
    BY <2>1, MoveAssumption DEF OpsOf, LastOp
  <2>2. CASE w.t \notin Folders
    BY <2>2, MoveAssumption DEF OpsOf, LastOp
  <2> QED
    BY <2>1, <2>2
<1>5. job # "none" /\ (w.mode = "recover" => MaxCrashes # 0)
  BY DEF TolerantInv, GripInv, Started, Restarted
<1> QED
  BY <1>1, <1>2, <1>3, <1>4, <1>5

\* The copies that moveEntry is known to have of the entry in hand.
LEMMA GripCopies ==
    ASSUME TolerantInv, w.pc \in {"entry", "copy", "place", "clear"}
    PROVE  /\ w.pc # "clear" => disk[<<w.t, w.i, From>>] = "full"
           /\ w.pc = "clear" => disk[<<w.t, w.i, To>>] = "full"
           /\ w.pc = "place" => disk[<<w.t, w.i, Via>>] = "full"
<1>1. w.way \in {"there", "back"}
  BY Grip
<1>2. CASE w.way = "there"
  BY <1>2 DEF TolerantInv, GripInv, OnTheWay, Whole, From, To, Via
<1>3. CASE w.way = "back"
  BY <1>3 DEF TolerantInv, GripInv, OnTheWayBack, Whole, From, To, Via
<1> QED
  BY <1>1, <1>2, <1>3

\* An entry is in place.
LEMMA DoneGrip ==
    ASSUME TolerantInv, EntryDone, w.pc \in {"entry", "clear"}, job' = job,
           \A t \in Titles : \A i \in OpsOf(t) : t # w.t \/ i # w.i => Stays(t, i),
           disk'[<<w.t, w.i, To>>] = "full"
    PROVE  GripInv' /\ w'.pc # "planned"
<1>h. /\ w \in Workers /\ w.t \in Titles /\ w.i \in OpsOf(w.t) /\ w.i \in 1 .. Files
      /\ w.way \in {"there", "back"} /\ w.errs \in BOOLEAN /\ job # "none"
      /\ w.mode = "recover" => MaxCrashes # 0
      /\ OpsOf(w.t) = 1 .. LastOp(w.t) /\ LastOp(w.t) \in 1 .. Files
  BY Grip
<1>w. w.mode = "run" => w.t \notin w.todo /\ \A t \in w.todo : \A i \in OpsOf(t) : disk'[<<t, i, "src">>] = "full"
  <2>1. w.todo \subseteq Titles
    BY <1>h DEF Workers
  <2> QED
    BY <2>1 DEF TolerantInv, GripInv, Waiting, Whole, Stays
<1>1. CASE w.way = "back" /\ Rewind(w, w.left, w.errs)
  <2>1. w.left \in SUBSET OpsOf(w.t) /\ (w.t \in Folders => w.mode = "run") /\ w.i \notin w.left
        /\ \A j \in w.left : disk[<<w.t, j, "dst">>] = "full"
    BY <1>1 DEF TolerantInv, GripInv, OnTheWayBack, Whole
  <2>2. \A j \in w.left : disk'[<<w.t, j, "dst">>] = "full"
    BY <1>h, <2>1 DEF Stays
  <2> QED
    BY <1>h, <1>w, <1>1, <2>1, <2>2, RewindGrip
<1>2. CASE w.way = "there" /\ w'.pc \in {"entry", "fs_done"}
  <2>1. w.mode = "run" /\ /\ \A j \in OpsOf(w.t) : j < w.i => disk[<<w.t, j, "dst">>] = "full"
                          /\ \A j \in OpsOf(w.t) : j > w.i => disk[<<w.t, j, "src">>] = "full"
    BY <1>2 DEF TolerantInv, GripInv, OnTheWay, Whole
  <2>2. /\ \A j \in OpsOf(w.t) : j < w.i => disk'[<<w.t, j, "dst">>] = "full"
        /\ \A j \in OpsOf(w.t) : j > w.i => disk'[<<w.t, j, "src">>] = "full"
        /\ disk'[<<w.t, w.i, "dst">>] = "full"
    <3>1. \A j \in OpsOf(w.t) : j # w.i => Stays(w.t, j)
      BY <1>h
    <3>2. \A j \in OpsOf(w.t) : j < w.i \/ j > w.i => j # w.i
      BY <1>h
    <3>3. disk'[<<w.t, w.i, "dst">>] = "full"
      BY <1>2 DEF To
    <3> QED
      BY <2>1, <3>1, <3>2, <3>3 DEF Stays
  <2>3. CASE w.i < LastOp(w.t) /\ w' = [w EXCEPT !.pc = "entry", !.i = w.i + 1]
    <3>1. /\ w'.pc = "entry" /\ w'.mode = w.mode /\ w'.t = w.t /\ w'.todo = w.todo
          /\ w'.way = "there" /\ w'.i = w.i + 1
      BY <1>h, <1>2, <2>3 DEF Workers
    <3>2. /\ w.i + 1 \in OpsOf(w.t)
          /\ \A j \in OpsOf(w.t) : j < w.i + 1 => j < w.i \/ j = w.i
          /\ \A j \in OpsOf(w.t) : j > w.i + 1 \/ j = w.i + 1 => j > w.i
      BY <1>h, <2>3
    <3>3. OnTheWay'
      BY <2>1, <2>2, <3>1, <3>2 DEF OnTheWay, Whole
    <3>4. Started' /\ Waiting' /\ Restarted' /\ Modes' /\ PurgeBack' /\ OnTheWayBack' /\ Copying' /\ AllThere'
      BY <1>h, <1>w, <2>1, <3>1 DEF Started, Waiting, Restarted, Modes, PurgeBack, OnTheWayBack, Copying, AllThere, Whole
    <3> QED
      BY <3>1, <3>3, <3>4 DEF GripInv
  <2>4. CASE w.i = LastOp(w.t) /\ w' = [w EXCEPT !.pc = "fs_done"]
    <3>1. /\ w'.pc = "fs_done" /\ w'.mode = w.mode /\ w'.t = w.t /\ w'.todo = w.todo /\ w'.way = "there"
      BY <1>h, <1>2, <2>4 DEF Workers
    <3>2. \A j \in OpsOf(w.t) : disk'[<<w.t, j, "dst">>] = "full"
      BY <1>h, <2>2, <2>4
    <3>3. AllThere'
      BY <3>1, <3>2 DEF AllThere, Whole
    <3>4. Started' /\ Waiting' /\ Restarted' /\ Modes' /\ PurgeBack' /\ OnTheWay' /\ OnTheWayBack' /\ Copying'
      BY <1>h, <1>w, <2>1, <3>1 DEF Started, Waiting, Restarted, Modes, PurgeBack, OnTheWay, OnTheWayBack, Copying, Whole
    <3> QED
      BY <3>1, <3>3, <3>4 DEF GripInv
  <2> QED
    BY <1>2, <2>3, <2>4 DEF EntryDone
<1>3. w.way = "there" => w'.pc \in {"entry", "fs_done"}
  BY <1>h DEF EntryDone, Workers
<1> QED
  BY <1>h, <1>1, <1>2, <1>3 DEF EntryDone

\* An entry could not be moved.
LEMMA FailedGrip ==
    ASSUME TolerantInv, EntryFailed, w.pc \in {"entry", "copy", "place"}, job' = job,
           \A t \in Titles : \A i \in OpsOf(t) : Stays(t, i)
    PROVE  GripInv' /\ w'.pc # "planned"
<1>h. /\ w \in Workers /\ w.t \in Titles /\ w.i \in OpsOf(w.t) /\ w.i \in 1 .. Files /\ job # "none"
      /\ w.mode = "recover" => MaxCrashes # 0
      /\ OpsOf(w.t) = 1 .. LastOp(w.t) /\ LastOp(w.t) \in 1 .. Files
  BY Grip
<1>w. w.mode = "run" => w.t \notin w.todo /\ \A t \in w.todo : \A i \in OpsOf(t) : disk'[<<t, i, "src">>] = "full"
  <2>1. w.todo \subseteq Titles
    BY <1>h DEF Workers
  <2> QED
    BY <2>1 DEF TolerantInv, GripInv, Waiting, Whole, Stays
<1>1. CASE w.way = "back" /\ Rewind(w, w.left, TRUE)
  <2>1. /\ w.left \in SUBSET OpsOf(w.t) /\ (w.t \in Folders => w.mode = "run")
        /\ \A j \in w.left : disk'[<<w.t, j, "dst">>] = "full"
    BY <1>h, <1>1 DEF TolerantInv, GripInv, OnTheWayBack, Whole, Stays
  <2> QED
    BY <1>h, <1>w, <1>1, <2>1, RewindGrip
<1>2. CASE w.way = "there" /\ Rewind(w, 1 .. (w.i - 1), FALSE)
  <2>1. 1 .. (w.i - 1) \in SUBSET OpsOf(w.t) /\ \A j \in 1 .. (w.i - 1) : j < w.i
    BY <1>h
  <2>2. \A j \in 1 .. (w.i - 1) : disk'[<<w.t, j, "dst">>] = "full"
    BY <1>h, <1>2, <2>1 DEF TolerantInv, GripInv, OnTheWay, Whole, Stays
  <2>3. w.t \in Folders => w.mode = "run"
    BY <1>2 DEF TolerantInv, GripInv, OnTheWay
  <2> QED
    BY <1>h, <1>w, <1>2, <2>1, <2>2, <2>3, RewindGrip
<1> QED
  BY <1>1, <1>2 DEF EntryFailed

\* A step within moveEntry that leaves the worker on the same entry.
LEMMA SameGrip ==
    ASSUME TolerantInv, w.pc \in {"entry", "copy", "place", "clear"}, job' = job,
           w' = w \/ w' = [w EXCEPT !.pc = "copy"] \/ w' = [w EXCEPT !.pc = "place"]
               \/ w' = [w EXCEPT !.pc = "clear"],
           w'.pc \in {"copy", "place", "clear"}, w.t \in Cross,
           \A t \in Titles : \A i \in OpsOf(t) : t # w.t \/ i # w.i => Stays(t, i),
           w'.pc # "clear" => disk'[<<w.t, w.i, From>>] = "full",
           w'.pc = "clear" => disk'[<<w.t, w.i, To>>] = "full" /\ disk'[<<w.t, w.i, From>>] \in {"full", "part"},
           w'.pc = "place" => disk'[<<w.t, w.i, Via>>] = "full"
    PROVE  GripInv' /\ w'.pc # "planned"
<1>h. /\ w \in Workers /\ w.t \in Titles /\ w.i \in OpsOf(w.t) /\ job # "none"
      /\ w.way \in {"there", "back"} /\ OpsOf(w.t) \subseteq Nat
  BY Grip
<1>1. /\ w'.mode = w.mode /\ w'.t = w.t /\ w'.todo = w.todo
      /\ w'.way = w.way /\ w'.i = w.i /\ w'.left = w.left
  BY <1>h DEF Workers
<1>2. OnTheWay'
  <2> SUFFICES ASSUME w.way = "there" PROVE OnTheWay'
    BY <1>1 DEF OnTheWay
  <2>1. /\ w.mode = "run"
        /\ \A j \in OpsOf(w.t) : j < w.i => disk[<<w.t, j, "dst">>] = "full"
        /\ \A j \in OpsOf(w.t) : j > w.i => disk[<<w.t, j, "src">>] = "full"
    BY DEF TolerantInv, GripInv, OnTheWay, Whole
  <2>2. \A j \in OpsOf(w.t) : j # w.i => Stays(w.t, j)
    BY <1>h
  <2>3. \A j \in OpsOf(w.t) : j < w.i \/ j > w.i => j # w.i
    BY <1>h
  <2>4. /\ \A j \in OpsOf(w.t) : j < w.i => disk'[<<w.t, j, "dst">>] = "full"
        /\ \A j \in OpsOf(w.t) : j > w.i => disk'[<<w.t, j, "src">>] = "full"
    BY <2>1, <2>2, <2>3 DEF Stays
  <2>5. From = "src" /\ To = "dst" /\ Via = "tmp"
    BY DEF From, To, Via
  <2> QED
    BY <2>1, <2>4, <2>5, <1>h, <1>1 DEF OnTheWay, Whole
<1>3. OnTheWayBack'
  <2> SUFFICES ASSUME w.way = "back" PROVE OnTheWayBack'
    BY <1>1 DEF OnTheWayBack
  <2>1. /\ w.left \subseteq OpsOf(w.t) /\ w.i \notin w.left /\ (w.t \in Folders => w.mode = "run")
        /\ \A j \in w.left : disk[<<w.t, j, "dst">>] = "full"
    BY DEF TolerantInv, GripInv, OnTheWayBack, Whole
  <2>2. \A j \in w.left : disk'[<<w.t, j, "dst">>] = "full"
    BY <1>h, <2>1 DEF Stays
  <2>3. From = "dst" /\ To = "src" /\ Via = "back"
    BY DEF From, To, Via
  <2> QED
    BY <2>1, <2>2, <2>3, <1>h, <1>1 DEF OnTheWayBack, Whole
<1>4. Waiting'
  BY <1>1, WaitingStays DEF TolerantInv, GripInv
<1>5. Started' /\ Restarted' /\ Modes' /\ PurgeBack' /\ Copying' /\ AllThere'
  BY <1>h, <1>1 DEF TolerantInv, GripInv, Started, Restarted, Modes, PurgeBack, Copying, AllThere
<1> QED
  BY <1>2, <1>3, <1>4, <1>5 DEF GripInv

\* The steps of moveEntry keep every title whole, whatever the journal says.
LEMMA EntryGrip ==
    ASSUME TolerantInv, Tolerant, MoveEntry
    PROVE  KeptInv' /\ GripInv' /\ w'.pc # "planned" /\ job' = job /\ job # "none"
<1> USE Constants
<1>0. /\ w.pc \in {"entry", "copy", "place", "clear"} /\ job' = job /\ TypeOK /\ KeptInv
  BY DEF TolerantInv, MoveEntry, EntryTaken, Rename, StartCopy, FinishCopy, PlaceCopy,
     ClearPart, ClearAll, Leftover, EntryError
<1>h. /\ w \in Workers /\ w.t \in Titles /\ w.i \in OpsOf(w.t) /\ w.i \in 1 .. Files
      /\ w.way \in {"there", "back"} /\ job # "none"
  BY <1>0, Grip
<1>p. From \in Places /\ To \in Places /\ Via \in Places /\ From # To /\ To # Via /\ From # Via
      /\ Via # "src" /\ Via # "dst"
  BY <1>h DEF From, To, Via
<1>s. /\ disk \in [Slots -> Contents]
      /\ \A t \in Titles : \A i \in OpsOf(t) :
            <<t, i, "src">> \in Slots /\ <<t, i, "dst">> \in Slots
  BY <1>0, SlotsOf
<1>1. CASE EntryFailed /\ DropCopy /\ w.pc \in {"entry", "copy", "place"}
  <2>1. \A t \in Titles : \A i \in OpsOf(t) : Stays(t, i)
    <3>1. CASE w.pc = "entry"
      BY <1>1, <3>1 DEF DropCopy, Stays
    <3>2. CASE w.pc # "entry"
      <4>1. disk' = [disk EXCEPT ![At(Via)] = "none"]
        BY <1>1, <3>2 DEF DropCopy
      <4> QED
        BY <4>1, <1>0, <1>h, <1>p, <1>s DEF At, Stays
    <3> QED
      BY <3>1, <3>2
  <2> QED
    BY <1>0, <1>1, <1>h, <2>1, FailedGrip, WholeStays
<1>2. CASE StartCopy
  <2>1. w' = [w EXCEPT !.pc = "copy"] /\ w'.pc = "copy" /\ w.pc = "entry" /\ w.t \in Cross
    BY <1>2, <1>h DEF StartCopy, Workers
  <2>2. \A t \in Titles : \A i \in OpsOf(t) : Stays(t, i)
    BY <1>2, <1>0, <1>h, <1>p, <1>s DEF At, StartCopy, Stays
  <2>3. disk'[<<w.t, w.i, From>>] = "full"
    BY <1>0, <1>h, <2>1, <2>2, GripCopies DEF Stays, From
  <2>4. GripInv' /\ w'.pc # "planned"
    BY <1>0, <2>1, <2>2, <2>3, SameGrip
  <2> QED
    BY <1>0, <1>h, <2>2, <2>4, WholeStays
<1>3. CASE FinishCopy
  <2>1. w' = [w EXCEPT !.pc = "place"] /\ w'.pc = "place" /\ w.pc = "copy" /\ w.t \in Cross
    BY <1>3, <1>h DEF FinishCopy, Workers, TolerantInv, GripInv, Copying
  <2>2. \A t \in Titles : \A i \in OpsOf(t) : Stays(t, i)
    BY <1>3, <1>0, <1>h, <1>p, <1>s DEF At, FinishCopy, Stays
  <2>3. disk'[<<w.t, w.i, From>>] = "full"
    BY <1>0, <1>h, <2>1, <2>2, GripCopies DEF Stays, From
  <2>4. disk'[<<w.t, w.i, Via>>] = "full"
    <3>1. <<w.t, w.i, Via>> \in Slots /\ disk \in [Slots -> Contents]
      BY <1>0, <1>h, <1>p, SlotType DEF TypeOK
    <3>2. Here(From) = "full"
      BY <1>0, <2>1, GripCopies DEF Here, At
    <3> QED
      BY <1>3, <3>1, <3>2 DEF FinishCopy, At
  <2>5. GripInv' /\ w'.pc # "planned"
    BY <1>0, <2>1, <2>2, <2>3, <2>4, SameGrip
  <2> QED
    BY <1>0, <1>h, <2>2, <2>5, WholeStays
<1>4. CASE PlaceCopy
  <2>1. w' = [w EXCEPT !.pc = "clear"] /\ w'.pc = "clear" /\ w.pc = "place" /\ w.t \in Cross
    BY <1>4, <1>h DEF PlaceCopy, Workers, TolerantInv, GripInv, Copying
  <2>2. Here(Via) = "full" /\ disk[<<w.t, w.i, From>>] = "full"
    BY <1>0, <2>1, GripCopies DEF Here, At
  <2>3. disk' = [disk EXCEPT ![At(To)] = "full", ![At(Via)] = "none"]
    BY <1>4, <2>2 DEF PlaceCopy
  <2>4. \A t \in Titles : \A i \in OpsOf(t) : t # w.t \/ i # w.i => Stays(t, i)
    BY <1>0, <1>h, <1>p, <1>s, <2>3 DEF At, Stays
  <2>5. disk'[<<w.t, w.i, To>>] = "full" /\ disk'[<<w.t, w.i, From>>] = "full"
    BY <1>0, <1>h, <1>p, <1>s, <2>2, <2>3 DEF At, To, From
  <2>6. disk'[<<w.t, w.i, "src">>] = "full" /\ disk'[<<w.t, w.i, "dst">>] = "full"
    BY <1>h, <2>5 DEF To, From
  <2>7. KeptInv'
    BY <1>0, <1>h, <2>4, <2>6, WholeAtOne
  <2>8. GripInv' /\ w'.pc # "planned"
    BY <1>0, <2>1, <2>4, <2>5, SameGrip
  <2> QED
    BY <1>0, <1>h, <2>7, <2>8
<1>5. CASE ClearPart
  <2>1. w' = w /\ w.pc = "clear" /\ w.t \in Folders /\ w.t \in Cross
    BY <1>5 DEF ClearPart, TolerantInv, GripInv, Copying
  <2>2. \A t \in Titles : \A i \in OpsOf(t) : t # w.t \/ i # w.i => Stays(t, i)
    BY <1>5, <1>0, <1>h, <1>p, <1>s DEF At, ClearPart, Stays
  <2>3. disk'[<<w.t, w.i, To>>] = "full" /\ disk'[<<w.t, w.i, From>>] = "part"
    BY <1>5, <1>0, <1>h, <1>p, <1>s, <2>1, GripCopies DEF At, ClearPart, To, From
  <2>4. MaxCrashes = 0
    BY <2>1 DEF Tolerant
  <2>5. disk'[<<w.t, w.i, "src">>] = "full" \/ disk'[<<w.t, w.i, "dst">>] = "full"
    BY <1>h, <2>3 DEF To
  <2>6. KeptInv'
    BY <1>0, <1>h, <2>2, <2>4, <2>5, WholeAtOne
  <2>7. GripInv' /\ w'.pc # "planned"
    BY <1>0, <2>1, <2>2, <2>3, SameGrip
  <2> QED
    BY <1>0, <1>h, <2>6, <2>7
<1>7. CASE Rename
  <2>1. w.pc = "entry" /\ EntryDone
    BY <1>7 DEF Rename
  <2>2. disk' = [disk EXCEPT ![At(To)] = "full", ![At(From)] = "none"]
    BY <1>0, <1>7, <2>1, GripCopies DEF Rename, Here, At
  <2>3. \A t \in Titles : \A i \in OpsOf(t) : t # w.t \/ i # w.i => Stays(t, i)
    BY <1>0, <1>h, <1>p, <1>s, <2>2 DEF At, Stays
  <2>4. disk'[<<w.t, w.i, To>>] = "full" /\ disk'[<<w.t, w.i, From>>] = "none"
    BY <1>0, <1>h, <1>p, <1>s, <2>2 DEF At, To, From
  <2>5. /\ disk'[<<w.t, w.i, "dst">>] \in {"full", "none"}
        /\ disk'[<<w.t, w.i, "src">>] = "full" \/ disk'[<<w.t, w.i, "dst">>] = "full"
    BY <2>4, <1>h DEF To, From
  <2>6. KeptInv'
    BY <1>0, <1>h, <2>3, <2>5, WholeAtOne
  <2> QED
    BY <1>0, <1>h, <2>1, <2>3, <2>4, <2>6, DoneGrip
<1>8. CASE ClearAll
  <2>1. w.pc = "clear" /\ EntryDone /\ disk' = [disk EXCEPT ![At(From)] = "none"]
    BY <1>8 DEF ClearAll
  <2>2. \A t \in Titles : \A i \in OpsOf(t) : t # w.t \/ i # w.i => Stays(t, i)
    BY <1>0, <1>h, <1>p, <1>s, <2>1 DEF At, Stays
  <2>3. disk'[<<w.t, w.i, To>>] = "full" /\ disk'[<<w.t, w.i, From>>] = "none"
    BY <1>0, <1>h, <1>p, <1>s, <2>1, GripCopies DEF At, To, From
  <2>4. /\ disk'[<<w.t, w.i, "dst">>] \in {"full", "none"}
        /\ disk'[<<w.t, w.i, "src">>] = "full" \/ disk'[<<w.t, w.i, "dst">>] = "full"
    BY <2>3, <1>h DEF To, From
  <2>5. KeptInv'
    BY <1>0, <1>h, <2>2, <2>4, WholeAtOne
  <2> QED
    BY <1>0, <1>h, <2>1, <2>2, <2>3, <2>5, DoneGrip
<1>9. CASE Leftover
  <2>1. w.pc = "clear" /\ EntryDone /\ disk' = disk
    BY <1>9 DEF Leftover
  <2>2. \A t \in Titles : \A i \in OpsOf(t) : Stays(t, i)
    BY <2>1 DEF Stays
  <2>3. disk'[<<w.t, w.i, To>>] = "full"
    BY <2>1, GripCopies DEF To
  <2> QED
    BY <1>0, <1>h, <2>1, <2>2, <2>3, DoneGrip, WholeStays
<1> QED
  BY <1>0, <1>1, <1>2, <1>3, <1>4, <1>5, <1>7, <1>8, <1>9 DEF MoveEntry, EntryTaken, EntryError

\* Nothing is said of a worker that rests.
LEMMA RestingGrip == ASSUME w' = Resting PROVE GripInv' /\ w'.pc = "idle"
<1>1. w'.pc = "idle" /\ w'.mode = "run" /\ w'.todo = {}
  BY DEF Resting
<1>2. w'.t = w'.t /\ w'.t \notin w'.todo
  BY <1>1
<1> QED
  BY <1>1, <1>2 DEF GripInv, Started, Waiting, Restarted, Modes, PurgeBack, OnTheWay, OnTheWayBack, Copying, AllThere

\* The steps of StartMove: the titles are where they were.
LEMMA StartGrip ==
    ASSUME TolerantInv, Plan \/ InsertError \/ Launch \/ \E E \in SUBSET Titles : InsertJob(E)
    PROVE  KeptInv' /\ Unstarted' /\ GripInv'
<1>0. w \in Workers /\ KeptInv /\ Unstarted /\ GripInv /\ HandEmpty
  BY DEF TolerantInv, TypeOK
<1>d. disk' = disk => KeptInv'
  BY <1>0, WholeStays DEF Stays
<1>u. disk' = disk /\ item' = item /\ (job = "none" \/ w.pc = "planned") => Unstarted'
  BY <1>0 DEF Unstarted, Whole
<1>1. CASE Plan
  <2>1. w'.pc = "planned" /\ w'.mode = w.mode /\ w'.todo = w.todo /\ w.pc = "idle" /\ w'.t = w.t
        /\ job = "none" /\ job' = job /\ disk' = disk /\ item' = item
    BY <1>0, <1>1 DEF Plan, Workers
  <2>2. w.mode = "run" /\ w'.t \notin w'.todo
        /\ \A t \in w'.todo : \A i \in OpsOf(t) : Whole(t, i, "src")
    BY <1>0, <2>1 DEF GripInv, Modes, Waiting
  <2>3. GripInv'
    BY <2>1, <2>2 DEF GripInv, Started, Waiting, Restarted, Modes, PurgeBack, OnTheWay, OnTheWayBack, Copying, AllThere, Whole
  <2> QED
    BY <1>d, <1>u, <2>1, <2>3
<1>2. CASE InsertError
  BY <1>2, <1>d, <1>u, RestingGrip DEF InsertError
<1>3. CASE Launch
  <2>1. w'.pc = "next" /\ w'.mode = w.mode /\ w'.todo = w.todo /\ w.pc = "launch" /\ w'.t = w.t
        /\ job' = job /\ disk' = disk /\ item' = item
    BY <1>0, <1>3 DEF Launch, Workers
  <2>2. w.mode = "run" /\ w'.t \notin w'.todo /\ job # "none"
        /\ \A t \in w'.todo : \A i \in OpsOf(t) : Whole(t, i, "src")
    BY <1>0, <2>1 DEF GripInv, Modes, Waiting, Started
  <2>3. GripInv'
    BY <2>1, <2>2 DEF GripInv, Started, Waiting, Restarted, Modes, PurgeBack, OnTheWay, OnTheWayBack, Copying, AllThere, Whole
  <2> QED
    BY <1>d, <2>1, <2>2, <2>3 DEF Unstarted
<1>4. ASSUME NEW E \in SUBSET Titles, InsertJob(E) PROVE KeptInv' /\ Unstarted' /\ GripInv'
  <2>1. w.pc = "planned" /\ disk' = disk /\ job' # "none"
    BY <1>4 DEF InsertJob
  <2>2. CASE E = {}
    BY <1>4, <1>d, <2>1, <2>2, RestingGrip DEF InsertJob, Unstarted
  <2>3. CASE E # {}
    <3>1. w'.pc = "launch" /\ w'.mode = w.mode /\ w'.todo = E /\ w'.t = w.t
      BY <1>0, <1>4, <2>3 DEF InsertJob, Workers
    <3>2. w.mode = "run" /\ w.t = NoTitle
      BY <1>0, <2>1 DEF GripInv, Modes, HandEmpty
    <3>3. \A t \in E : \A i \in OpsOf(t) : Whole(t, i, "src")
      BY <1>0, <2>1 DEF Unstarted
    <3>4. w'.t \notin w'.todo
      BY <3>1, <3>2, MoveAssumption
    <3>5. GripInv'
      BY <2>1, <3>1, <3>2, <3>3, <3>4
      DEF GripInv, Started, Waiting, Restarted, Modes, PurgeBack, OnTheWay, OnTheWayBack, Copying, AllThere, Whole
    <3> QED
      BY <1>d, <2>1, <3>1, <3>5 DEF Unstarted
  <2> QED
    BY <2>2, <2>3
<1> QED
  BY <1>1, <1>2, <1>3, <1>4

\* Back to the loop with nothing in hand.
LEMMA NextTitleGrip ==
    ASSUME TolerantInv, NEW a \in BOOLEAN, w' = NextTitle(a), disk' = disk, job' = job,
           w.pc \in {"moved", "settle"}
    PROVE  KeptInv' /\ Unstarted' /\ GripInv'
<1>0. w \in Workers /\ KeptInv /\ GripInv /\ job # "none" /\ w.todo \subseteq Titles
  BY DEF TolerantInv, TypeOK, Workers, GripInv, Started
<1>1. /\ w'.pc = IF w.mode = "run" THEN "next" ELSE "recover"
      /\ w'.mode = w.mode /\ w'.todo = w.todo /\ w.mode \in {"run", "recover"}
      /\ w'.t = NoTitle /\ NoTitle \notin w.todo
  BY <1>0, MoveAssumption DEF NextTitle, Workers
<1>2. Waiting'
  BY <1>0, <1>1 DEF GripInv, Waiting, Whole
<1>3. Restarted'
  BY <1>0, <1>1 DEF GripInv, Restarted
<1>4. GripInv'
  BY <1>0, <1>1, <1>2, <1>3 DEF GripInv, Started, Modes, PurgeBack, OnTheWay, OnTheWayBack, Copying, AllThere
<1> QED
  BY <1>0, <1>1, <1>4, WholeStays DEF Stays, Unstarted

\* The steps of runMove and executeUnit.
LEMMA RunGrip ==
    ASSUME TolerantInv,
           \/ FilesDone \/ Apply \/ ApplyError \/ SetMoved \/ Settle \/ EndJob
           \/ \E t \in Titles : TakeUnit(t)
    PROVE  KeptInv' /\ Unstarted' /\ GripInv'
<1>0. w \in Workers /\ KeptInv /\ GripInv /\ TypeOK /\ InHand
  BY DEF TolerantInv, TypeOK
<1>d. disk' = disk => KeptInv'
  BY <1>0, WholeStays DEF Stays
<1>j. w.pc \in {"fs_done", "apply", "moved", "settle", "next"} => job # "none"
  BY <1>0 DEF GripInv, Started
<1>1. CASE FilesDone
  <2>1. /\ w'.pc = "apply" /\ w'.mode = w.mode /\ w'.t = w.t /\ w'.todo = w.todo
        /\ w.pc = "fs_done" /\ disk' = disk /\ job' = job
    BY <1>0, <1>1 DEF FilesDone, Workers
  <2>2. w.mode = "run" /\ \A j \in OpsOf(w.t) : Whole(w.t, j, "dst")
    BY <1>0, <2>1 DEF GripInv, Modes, AllThere
  <2>3. Waiting' /\ AllThere'
    BY <1>0, <2>1, <2>2 DEF GripInv, Waiting, AllThere, Whole
  <2>4. GripInv'
    BY <1>j, <2>1, <2>2, <2>3 DEF GripInv, Started, Restarted, Modes, PurgeBack, OnTheWay, OnTheWayBack, Copying
  <2> QED
    BY <1>d, <1>j, <2>1, <2>4 DEF Unstarted
<1>2. CASE Apply
  <2>1. /\ w'.pc = "moved" /\ w'.mode = w.mode /\ w'.t = w.t /\ w'.todo = w.todo
        /\ w.pc = "apply" /\ disk' = disk /\ job' = job
    BY <1>0, <1>2 DEF Apply, Workers
  <2>2. Waiting' /\ Restarted'
    BY <1>0, <2>1 DEF GripInv, Waiting, Restarted, Whole
  <2>3. GripInv'
    BY <1>j, <2>1, <2>2 DEF GripInv, Started, Modes, PurgeBack, OnTheWay, OnTheWayBack, Copying, AllThere
  <2> QED
    BY <1>d, <1>j, <2>1, <2>3 DEF Unstarted
<1>3. CASE ApplyError
  <2>1. w.pc = "apply" /\ disk' = disk /\ job' = job /\ w.t \in Titles
    BY <1>0, <1>3 DEF ApplyError, InHand
  <2>2. CASE w.mode = "run" /\ Rewind(w, OpsOf(w.t), FALSE)
    <3>1. \A j \in OpsOf(w.t) : disk'[<<w.t, j, "dst">>] = "full"
      BY <1>0, <2>1, <2>2 DEF GripInv, AllThere, Whole
    <3>2. w.t \notin w.todo /\ \A t \in w.todo : \A i \in OpsOf(t) : disk'[<<t, i, "src">>] = "full"
      BY <1>0, <2>1, <2>2 DEF GripInv, Waiting, Whole
    <3>3. GripInv' /\ w'.pc # "planned"
      BY <1>0, <1>j, <2>1, <2>2, <3>1, <3>2, RewindGrip
    <3> QED
      BY <1>d, <1>j, <2>1, <3>3 DEF Unstarted
  <2>3. CASE w.mode = "recover" /\ w' = [w EXCEPT !.pc = "settle", !.errs = TRUE]
    <3>1. w'.pc = "settle" /\ w'.mode = "recover"
      BY <1>0, <2>3 DEF Workers
    <3>2. MaxCrashes # 0
      BY <1>0, <2>3 DEF GripInv, Restarted
    <3>3. GripInv'
      BY <1>j, <2>1, <3>1, <3>2
      DEF GripInv, Started, Waiting, Restarted, Modes, PurgeBack, OnTheWay, OnTheWayBack, Copying, AllThere
    <3> QED
      BY <1>d, <1>j, <2>1, <3>1, <3>3 DEF Unstarted
  <2> QED
    BY <1>3, <2>2, <2>3 DEF ApplyError
<1>4. CASE SetMoved
  BY <1>4, NextTitleGrip DEF SetMoved
<1>5. CASE Settle
  <2>1. w.any \in BOOLEAN
    BY <1>0 DEF Workers
  <2> QED
    BY <1>5, <2>1, NextTitleGrip DEF Settle
<1>6. CASE EndJob
  <2>1. job' # "none" /\ disk' = disk /\ w' = Resting
    BY <1>6, <1>j DEF EndJob
  <2> QED
    BY <1>d, <2>1, RestingGrip DEF Unstarted
<1>7. ASSUME NEW t \in Titles, TakeUnit(t) PROVE KeptInv' /\ Unstarted' /\ GripInv'
  <2>1. /\ w'.pc = "entry" /\ w'.mode = w.mode /\ w'.t = t /\ w'.todo = w.todo \ {t}
        /\ w'.i = 1 /\ w'.way = "there"
        /\ w.pc = "next" /\ t \in w.todo /\ disk' = disk /\ job' = job
    BY <1>0, <1>7 DEF TakeUnit, Workers
  <2>2. w.mode = "run"
    BY <1>0, <2>1 DEF GripInv, Modes
  <2>3. \A x \in w.todo : \A i \in OpsOf(x) : Whole(x, i, "src")
    BY <1>0, <2>2 DEF GripInv, Waiting
  <2>4. 1 \in OpsOf(t) /\ \A j \in OpsOf(t) : ~(j < 1)
    BY MoveAssumption DEF OpsOf
  <2>5. Waiting'
    BY <2>1, <2>3 DEF Waiting, Whole
  <2>6. OnTheWay'
    BY <2>1, <2>2, <2>3, <2>4 DEF OnTheWay, Whole
  <2>7. GripInv'
    BY <1>j, <2>1, <2>2, <2>5, <2>6
    DEF GripInv, Started, Restarted, Modes, PurgeBack, OnTheWayBack, Copying, AllThere
  <2> QED
    BY <1>d, <1>j, <2>1, <2>7 DEF Unstarted
<1> QED
  BY <1>1, <1>2, <1>3, <1>4, <1>5, <1>6, <1>7

\* What recovery leaves of an original whose copy is at the destination.
LEMMA SourceGone ==
    ASSUME TolerantInv, w.pc \in {"sweep", "purge"}, NEW c \in {"part", "none", "same"},
           IF c = "same" THEN disk' = disk ELSE disk' = [disk EXCEPT ![At("src")] = c]
    PROVE  KeptInv' /\ \A j \in OpsOf(w.t) : disk'[<<w.t, j, "dst">>] = disk[<<w.t, j, "dst">>]
<1> USE Constants
<1>0. KeptInv /\ TypeOK /\ w.t \in Titles
  BY DEF TolerantInv, TypeOK, InHand
<1>s. /\ disk \in [Slots -> Contents]
      /\ \A t \in Titles : \A i \in OpsOf(t) :
            <<t, i, "src">> \in Slots /\ <<t, i, "dst">> \in Slots
  BY <1>0, SlotsOf
<1>1. CASE c = "same"
  BY <1>0, <1>1, WholeStays DEF Stays
<1>2. CASE c # "same"
  <2>1. disk' = [disk EXCEPT ![At("src")] = c]
    BY <1>2
  <2>2. \A t \in Titles : \A i \in OpsOf(t) : t # w.t \/ i # w.i => Stays(t, i)
    BY <1>s, <2>1 DEF Stays, At
  <2>3. \A j \in OpsOf(w.t) : disk'[<<w.t, j, "dst">>] = disk[<<w.t, j, "dst">>]
    BY <1>0, <1>s, <2>1 DEF At
  <2>4. CASE w.i \in OpsOf(w.t)
    <3>1. disk[<<w.t, w.i, "dst">>] = "full"
      BY <2>4 DEF TolerantInv, GripInv, AllThere, OnTheWayBack, PurgeBack, Whole
    <3> QED
      BY <1>0, <2>2, <2>3, <2>4, <3>1, WholeAtOne
  <2>5. CASE w.i \notin OpsOf(w.t)
    <3>1. \A t \in Titles : \A i \in OpsOf(t) : Stays(t, i)
      BY <2>2, <2>5
    <3> QED
      BY <1>0, <2>3, <3>1, WholeStays
  <2> QED
    BY <2>3, <2>4, <2>5
<1> QED
  BY <1>1, <1>2

\* The steps of RecoverMoves: what is at a destination is whole.
LEMMA RecoverGrip ==
    ASSUME TolerantInv,
           \/ RemovePart \/ Sweep \/ Purge \/ SkipPending \/ CloseJob
           \/ \E t \in Titles : RecoverFilesDone(t) \/ RecoverMoving(t)
    PROVE  KeptInv' /\ Unstarted' /\ GripInv'
<1> USE Constants
<1>0. w \in Workers /\ KeptInv /\ Unstarted /\ GripInv /\ TypeOK /\ InHand
  BY DEF TolerantInv, TypeOK
<1>d. disk' = disk => KeptInv'
  BY <1>0, WholeStays DEF Stays
<1>j. w.pc \in {"sweep", "purge"} => job # "none" /\ w.mode = "recover" /\ w.t \in Titles
  BY <1>0 DEF GripInv, Started, Modes, InHand
<1>m. w.mode = "recover" => MaxCrashes # 0
  BY <1>0 DEF GripInv, Restarted
<1>1. CASE RemovePart
  <2>1. w' = w /\ job' = job /\ w.pc \in {"sweep", "purge"}
    BY <1>1 DEF RemovePart
  <2>2. KeptInv' /\ \A j \in OpsOf(w.t) : disk'[<<w.t, j, "dst">>] = disk[<<w.t, j, "dst">>]
    BY <1>1, <2>1, SourceGone DEF RemovePart
  <2>3. Started' /\ Waiting' /\ Restarted' /\ Modes' /\ PurgeBack' /\ OnTheWay' /\ Copying'
    BY <1>0, <1>j, <2>1 DEF GripInv, Started, Waiting, Restarted, Modes, PurgeBack, OnTheWay, Copying
  <2>4. OnTheWayBack' /\ AllThere'
    BY <1>0, <2>1, <2>2 DEF GripInv, OnTheWayBack, AllThere, Whole
  <2> QED
    BY <1>j, <2>1, <2>2, <2>3, <2>4 DEF GripInv, Unstarted
<1>2. CASE Sweep
  <2>1. /\ w'.mode = w.mode /\ w'.t = w.t /\ w'.pc \in {"sweep", "apply"}
        /\ w.pc = "sweep" /\ job' = job
    BY <1>0, <1>2 DEF Sweep, Workers
  <2>2. KeptInv' /\ \A j \in OpsOf(w.t) : disk'[<<w.t, j, "dst">>] = disk[<<w.t, j, "dst">>]
    BY <1>2, <2>1, SourceGone DEF Sweep, RemoveSource
  <2>3. \A j \in OpsOf(w.t) : disk[<<w.t, j, "dst">>] = "full"
    BY <1>0, <2>1 DEF GripInv, AllThere, Whole
  <2>4. GripInv'
    BY <1>j, <1>m, <2>1, <2>2, <2>3
    DEF GripInv, Started, Waiting, Restarted, Modes, PurgeBack, OnTheWay, OnTheWayBack, Copying, AllThere, Whole
  <2> QED
    BY <1>j, <2>1, <2>2, <2>4 DEF Unstarted
<1>3. CASE Purge
  <2>1. /\ w'.pc = "entry" /\ w'.mode = w.mode /\ w'.t = w.t /\ w'.way = w.way /\ w'.i = w.i
        /\ w'.left = w.left /\ w.pc = "purge" /\ job' = job
    BY <1>0, <1>3 DEF Purge, Workers
  <2>2. KeptInv' /\ \A j \in OpsOf(w.t) : disk'[<<w.t, j, "dst">>] = disk[<<w.t, j, "dst">>]
    BY <1>3, <2>1, SourceGone DEF Purge, RemoveSource
  <2>3. w.mode = "recover" /\ w.way = "back" /\ MaxCrashes # 0
    BY <1>0, <1>j, <1>m, <2>1 DEF GripInv, PurgeBack
  <2>4. OnTheWayBack'
    BY <1>0, <2>1, <2>2, <2>3 DEF GripInv, OnTheWayBack, Whole
  <2>5. Started' /\ Waiting' /\ Restarted' /\ Modes' /\ PurgeBack' /\ OnTheWay' /\ Copying' /\ AllThere'
    BY <1>j, <2>1, <2>3 DEF Started, Waiting, Restarted, Modes, PurgeBack, OnTheWay, Copying, AllThere
  <2> QED
    BY <1>j, <2>1, <2>2, <2>4, <2>5 DEF GripInv, Unstarted
<1>4. CASE SkipPending
  <2>1. w'.pc = "close" /\ w'.mode = w.mode /\ w.pc = "recover" /\ job' = job /\ disk' = disk
    BY <1>0, <1>4 DEF SkipPending, Workers
  <2>2. \A t \in Titles : item[t] = "none" => item'[t] = "none"
    BY <1>4 DEF SkipPending
  <2>3. w.mode = "recover"
    BY <1>0, <2>1 DEF GripInv, Modes
  <2>4. GripInv'
    BY <1>m, <2>1, <2>3
    DEF GripInv, Started, Waiting, Restarted, Modes, PurgeBack, OnTheWay, OnTheWayBack, Copying, AllThere
  <2>5. Unstarted'
    BY <1>0, <2>1, <2>2 DEF Unstarted, Whole
  <2> QED
    BY <1>d, <2>1, <2>4, <2>5
<1>5. CASE CloseJob
  <2>1. w' = Resting /\ disk' = disk /\ item' = item /\ (job' = "none" => job = "none")
    BY <1>5 DEF CloseJob
  <2> QED
    BY <1>0, <1>d, <2>1, RestingGrip DEF Unstarted, Whole
<1>6. ASSUME NEW t \in Titles, RecoverFilesDone(t) PROVE KeptInv' /\ Unstarted' /\ GripInv'
  <2>1. /\ w'.pc = "apply" /\ w'.mode = w.mode /\ w.pc = "recover"
        /\ job' = job /\ disk' = disk /\ item[t] = "fs_done"
    BY <1>0, <1>6 DEF RecoverFilesDone, Workers
  <2>2. w.mode = "recover" /\ job # "none"
    BY <1>0, <2>1 DEF GripInv, Modes, Unstarted
  <2>3. GripInv'
    BY <1>m, <2>1, <2>2
    DEF GripInv, Started, Waiting, Restarted, Modes, PurgeBack, OnTheWay, OnTheWayBack, Copying, AllThere
  <2> QED
    BY <1>d, <2>1, <2>2, <2>3 DEF Unstarted
<1>7. ASSUME NEW t \in Titles, RecoverMoving(t) PROVE KeptInv' /\ Unstarted' /\ GripInv'
  <2>1. /\ w.pc = "recover" /\ job' = job /\ item[t] = "moving"
        /\ disk' = [s \in Slots |-> IF s[1] = t /\ s[3] = "tmp" THEN "none" ELSE disk[s]]
    BY <1>7 DEF RecoverMoving
  <2>2. w.mode = "recover" /\ job # "none" /\ MaxCrashes # 0
    BY <1>0, <1>m, <2>1 DEF GripInv, Modes, Unstarted
  <2>3. \A x \in Titles : \A i \in OpsOf(x) : Stays(x, i)
    BY <1>0, <2>1, SlotsOf DEF Stays
  <2>4. Complete(t) \in SUBSET OpsOf(t) /\ \A i \in Complete(t) : disk'[<<t, i, "dst">>] = "full"
    BY <1>0, <2>2, <2>3 DEF KeptInv, Clean, Complete, Stays
  <2>5. KeptInv'
    BY <1>0, <2>3, WholeStays
  <2>6. CASE Complete(t) = OpsOf(t)
             /\ w' = [w EXCEPT !.t = t, !.todo = w.todo \ {t}, !.pc = "sweep", !.i = 1]
    <3>1. w'.pc = "sweep" /\ w'.mode = w.mode /\ w'.t = t
      BY <1>0, <2>6 DEF Workers
    <3>2. GripInv'
      BY <2>1, <2>2, <2>4, <2>6, <3>1
      DEF GripInv, Started, Waiting, Restarted, Modes, PurgeBack, OnTheWay, OnTheWayBack, Copying, AllThere, Whole
    <3> QED
      BY <2>1, <2>2, <2>5, <3>1, <3>2 DEF Unstarted
  <2>7. CASE Complete(t) # OpsOf(t)
             /\ Rewind([w EXCEPT !.t = t, !.todo = w.todo \ {t}], Complete(t), FALSE)
    <3> DEFINE v == [w EXCEPT !.t = t, !.todo = w.todo \ {t}]
    <3>1. v \in Workers /\ v.t = t /\ v.mode = "recover"
      BY <1>0, <2>2 DEF Workers
    <3>2. t \in Folders => Complete(t) = {}
      <4> SUFFICES ASSUME t \in Folders PROVE Complete(t) = {}
        OBVIOUS
      <4>1. OpsOf(t) = {1}
        BY DEF OpsOf
      <4> QED
        BY <2>4, <2>7, <4>1
    <3>3. Rewind(v, Complete(t), FALSE)
      BY <2>7
    <3> HIDE DEF v
    <3>4. GripInv' /\ w'.pc # "planned"
      BY <2>1, <2>2, <2>4, <3>1, <3>2, <3>3, RewindGrip
    <3> QED
      BY <2>1, <2>2, <2>5, <3>4 DEF Unstarted
  <2> QED
    BY <1>7, <2>6, <2>7 DEF RecoverMoving
<1> QED
  BY <1>1, <1>2, <1>3, <1>4, <1>5, <1>6, <1>7

\* Crashes, scans and other programs.
LEMMA OtherGrip ==
    ASSUME TolerantInv, Tolerant,
           \/ Crash \/ ScanStart \/ ScanCatalogue \/ ScanEnd \/ UNCHANGED vars
           \/ \E t \in Titles : \E i \in OpsOf(t) : Appear(t, i)
    PROVE  KeptInv' /\ Unstarted' /\ GripInv'
<1>0. w \in Workers /\ KeptInv /\ Unstarted /\ GripInv /\ TypeOK
  BY DEF TolerantInv, TypeOK
<1>d. disk' = disk => KeptInv'
  BY <1>0, WholeStays DEF Stays
<1>1. CASE Crash
  <2>1. disk' = disk /\ item' = item /\ job' = job /\ MaxCrashes # 0
    BY <1>0, <1>1, MoveAssumption DEF Crash, TypeOK
  <2>2. CASE w' = Resting
    BY <1>0, <1>d, <2>1, <2>2, RestingGrip DEF Unstarted, Whole
  <2>3. CASE w'.pc = "recover" /\ w'.mode = "recover"
    <3>1. GripInv'
      BY <2>1, <2>3
      DEF GripInv, Started, Waiting, Restarted, Modes, PurgeBack, OnTheWay, OnTheWayBack, Copying, AllThere
    <3> QED
      BY <1>0, <1>d, <2>1, <2>3, <3>1 DEF Unstarted, Whole
  <2> QED
    BY <1>1, <2>2, <2>3 DEF Crash, Resting
<1>2. CASE ScanStart \/ ScanCatalogue \/ ScanEnd \/ UNCHANGED vars
  <2>1. w' = w /\ disk' = disk /\ item' = item /\ job' = job
    BY <1>2 DEF ScanStart, ScanCatalogue, ScanEnd, vars
  <2>2. GripInv'
    BY <1>0, <2>1
    DEF GripInv, Started, Waiting, Restarted, Modes, PurgeBack, OnTheWay, OnTheWayBack, Copying, AllThere, Whole
  <2> QED
    BY <1>0, <1>d, <2>1, <2>2 DEF Unstarted, Whole
<1>3. ASSUME NEW t \in Titles, NEW i \in OpsOf(t), Appear(t, i)
      PROVE  KeptInv' /\ Unstarted' /\ GripInv'
  <2>1. w' = w /\ item' = item /\ job' = job /\ MaxCrashes = 0 /\ job # "none"
        /\ disk' = [disk EXCEPT ![<<t, i, "dst">>] = "foreign"] /\ disk[<<t, i, "dst">>] = "none"
    BY <1>3 DEF Appear, Tolerant
  <2>2. \A x \in Titles : \A j \in OpsOf(x) : \A p \in Places : <<x, j, p>> \in Slots
    BY <1>0, SlotsOf
  <2>3. \A x \in Titles : \A j \in OpsOf(x) : \A p \in Places :
            disk[<<x, j, p>>] # "none" => disk'[<<x, j, p>>] = disk[<<x, j, p>>]
    BY <1>0, <2>1, <2>2 DEF TypeOK
  <2>4. \A x \in Titles : \A j \in OpsOf(x) : \A p \in Places : Whole(x, j, p) => Whole(x, j, p)'
    BY <2>3 DEF Whole
  <2>5. KeptInv'
    BY <1>0, <2>1, <2>4, Constants DEF KeptInv, NothingLost, Clean
  <2>6. w.pc \in {"entry", "copy", "place", "clear", "fs_done", "apply", "sweep", "purge"} => w.t \in Titles
    BY <1>0 DEF TypeOK, InHand
  <2>7. Started' /\ Restarted' /\ Modes' /\ PurgeBack' /\ Copying'
    BY <1>0, <2>1 DEF GripInv, Started, Restarted, Modes, PurgeBack, Copying
  <2>8. Waiting'
    <3>1. w.todo \subseteq Titles
      BY <1>0 DEF Workers
    <3> QED
      BY <1>0, <2>1, <2>4, <3>1, Constants DEF GripInv, Waiting
  <2>9. OnTheWay'
    BY <1>0, <2>1, <2>4, <2>6, Constants DEF GripInv, OnTheWay
  <2>10. OnTheWayBack'
    BY <1>0, <2>1, <2>3, <2>4, <2>6, Constants DEF GripInv, OnTheWayBack
  <2>11. AllThere'
    BY <1>0, <2>1, <2>4, <2>6, Constants DEF GripInv, AllThere
  <2>12. Unstarted'
    BY <1>0, <2>1, <2>4, Constants DEF Unstarted
  <2> QED
    BY <2>5, <2>7, <2>8, <2>9, <2>10, <2>11, <2>12 DEF GripInv
<1> QED
  BY <1>1, <1>2, <1>3


\* Between two titles the worker has none in hand.
LEMMA HandStaysEmpty == ASSUME TypeOK, HandEmpty, [Next]_vars PROVE HandEmpty'
<1>0. w \in Workers
  BY DEF TypeOK
<1> USE DEF HandEmpty
<1>1. CASE UNCHANGED w
  BY <1>1
<1>r. w' = Resting => HandEmpty'
  BY DEF Resting
<1>2. CASE Plan \/ InsertError \/ Launch \/ \E E \in SUBSET Titles : InsertJob(E)
  <2>1. CASE Plan \/ Launch
    <3>1. w'.t = w.t /\ w.pc \in {"idle", "launch"}
      BY <1>0, <2>1 DEF Plan, Launch, Workers
    <3> QED
      BY <3>1
  <2>2. CASE InsertError
    BY <1>r, <2>2 DEF InsertError
  <2>3. ASSUME NEW E \in SUBSET Titles, InsertJob(E) PROVE HandEmpty'
    <3>1. CASE E = {}
      BY <1>r, <2>3, <3>1 DEF InsertJob
    <3>2. CASE E # {}
      <4>1. w'.t = w.t /\ w.pc = "planned"
        BY <1>0, <2>3, <3>2 DEF InsertJob, Workers
      <4> QED
        BY <4>1
    <3> QED
      BY <3>1, <3>2
  <2> QED
    BY <1>2, <2>1, <2>2, <2>3
<1>3. CASE MoveEntry
  <2>1. CASE EntryDone \/ EntryFailed
    <3>1. w'.pc \in {"settle", "entry", "purge", "fs_done"}
      BY <1>0, <2>1 DEF EntryDone, EntryFailed, Rewind, Workers
    <3> QED
      BY <3>1
  <2>2. CASE StartCopy \/ FinishCopy \/ PlaceCopy
    <3>1. w'.pc \in {"copy", "place", "clear"}
      BY <1>0, <2>2 DEF StartCopy, FinishCopy, PlaceCopy, Workers
    <3> QED
      BY <3>1
  <2>3. CASE ClearPart
    BY <1>1, <2>3 DEF ClearPart
  <2> QED
    BY <1>3, <2>1, <2>2, <2>3 DEF MoveEntry, EntryTaken, Rename, ClearAll, Leftover, EntryError
<1>4. CASE FilesDone \/ Apply \/ \E t \in Titles : TakeUnit(t) \/ RecoverFilesDone(t)
  <2>1. w'.pc \in {"apply", "moved", "entry"}
    BY <1>0, <1>4 DEF FilesDone, Apply, TakeUnit, RecoverFilesDone, Workers
  <2> QED
    BY <2>1
<1>5. CASE ApplyError \/ Sweep \/ Purge
  <2>1. w'.pc \in {"settle", "entry", "purge", "sweep", "apply"}
    BY <1>0, <1>5 DEF ApplyError, Sweep, Purge, Rewind, Workers
  <2> QED
    BY <2>1
<1>6. CASE SetMoved \/ Settle
  <2>1. w'.t = NoTitle
    BY <1>0, <1>6 DEF SetMoved, Settle, NextTitle, Workers
  <2> QED
    BY <2>1
<1>7. CASE EndJob \/ CloseJob \/ Crash
  <2> DEFINE Open == {t \in Titles : item[t] \in {"moving", "fs_done"}}
  <2> HIDE DEF Open
  <2>1. CASE w' = [Resting EXCEPT !.pc = "recover", !.mode = "recover", !.todo = Open]
    BY <2>1 DEF Resting
  <2> QED
    BY <1>r, <1>7, <2>1 DEF EndJob, CloseJob, Crash, Open
<1>8. CASE SkipPending
  <2>1. w'.t = w.t /\ w.pc = "recover"
    BY <1>0, <1>8 DEF SkipPending, Workers
  <2> QED
    BY <2>1
<1>9. ASSUME NEW t \in Titles, RecoverMoving(t) PROVE HandEmpty'
  <2> DEFINE v == [w EXCEPT !.t = t, !.todo = w.todo \ {t}]
  <2>1. v \in Workers /\ v.mode = w.mode
    BY <1>0 DEF Workers
  <2>2. CASE w' = [w EXCEPT !.t = t, !.todo = w.todo \ {t}, !.pc = "sweep", !.i = 1]
    BY <1>0, <2>2 DEF Workers
  <2>3. CASE Rewind(v, Complete(t), FALSE)
    <3> HIDE DEF v
    <3>1. w'.pc \in {"settle", "entry", "purge"}
      BY <2>1, <2>3 DEF Rewind, Workers
    <3> QED
      BY <3>1
  <2> QED
    BY <1>9, <2>2, <2>3 DEF RecoverMoving
<1>10. CASE RemovePart \/ ScanStart \/ ScanCatalogue \/ ScanEnd \/ \E t \in Titles : \E i \in OpsOf(t) : Appear(t, i)
  BY <1>1, <1>10 DEF RemovePart, ScanStart, ScanCatalogue, ScanEnd, Appear
<1> QED
  BY <1>1, <1>2, <1>3, <1>4, <1>5, <1>6, <1>7, <1>8, <1>9, <1>10 DEF Next, Worker, vars

\* Before a move nothing is under way.
LEMMA InitTolerant == Init => TolerantInv
<1> SUFFICES ASSUME Init PROVE TolerantInv
  OBVIOUS
<1>1. SafeInv
  BY InitSafe
<1>2. \A t \in Titles : \A i \in OpsOf(t) : disk[<<t, i, "src">>] = "full" /\ disk[<<t, i, "dst">>] = "none"
  <2>1. \A t \in Titles : item[t] = "none"
    BY DEF Init
  <2> QED
    BY <1>1, <2>1 DEF SafeInv, DiskInv, Untouched, Whole
<1>3. KeptInv /\ Unstarted
  BY <1>2 DEF KeptInv, NothingLost, Clean, Unstarted, Whole, Init
<1>4. w.pc = "idle" /\ w.mode = "run" /\ w.todo = {} /\ w.t = NoTitle
  BY DEF Init, Resting
<1>5. GripInv /\ HandEmpty
  BY <1>4 DEF GripInv, Started, Waiting, Restarted, Modes, PurgeBack, OnTheWay, OnTheWayBack, Copying, AllThere, HandEmpty
<1> QED
  BY <1>1, <1>3, <1>5 DEF SafeInv, TolerantInv

\* Every step keeps the second invariant.
LEMMA NextTolerant == ASSUME Tolerant PROVE TolerantInv /\ [Next]_vars => TolerantInv'
<1> SUFFICES ASSUME TolerantInv, [Next]_vars PROVE TolerantInv'
  OBVIOUS
<1>1. TypeOK'
  BY NextType DEF TolerantInv
<1>2. HandEmpty'
  BY HandStaysEmpty DEF TolerantInv
<1>3. KeptInv' /\ Unstarted' /\ GripInv'
  <2>1. CASE MoveEntry
    BY <2>1, EntryGrip DEF Unstarted
  <2>2. CASE ~MoveEntry
    BY <2>2, StartGrip, RunGrip, RecoverGrip, OtherGrip DEF Next, Worker
  <2> QED
    BY <2>1, <2>2
<1> QED
  BY <1>1, <1>2, <1>3 DEF TolerantInv

\* Whatever the journal says and however many of its writes fail, nothing is
\* lost, as long as restarts see folders renamed in one step and nobody else
\* takes destinations; without restarts, whoever takes them.
THEOREM NothingIsLostUnrecorded == Tolerant => (Spec => []NothingLost)
<1> SUFFICES ASSUME Tolerant PROVE Spec => []NothingLost
  OBVIOUS
<1>1. TolerantInv => NothingLost
  BY DEF TolerantInv, KeptInv
<1> QED
  BY <1>1, InitTolerant, NextTolerant, PTL DEF Spec

\* The entry in hand changes its destination only when nothing else is there.
LEMMA EntryLeaves ==
    ASSUME TolerantInv, MoveEntry, NEW t \in Titles, NEW i \in OpsOf(t),
           disk[<<t, i, "dst">>] = "foreign"
    PROVE  disk'[<<t, i, "dst">>] = "foreign"
<1> USE Constants
<1>0. w.pc \in {"entry", "copy", "place", "clear"} /\ TypeOK
  BY DEF TolerantInv, MoveEntry, EntryTaken, Rename, StartCopy, FinishCopy, PlaceCopy,
     ClearPart, ClearAll, Leftover, EntryError
<1>h. w.t \in Titles /\ w.i \in OpsOf(w.t) /\ w.i \in 1 .. Files /\ w.way \in {"there", "back"}
  BY <1>0, Grip
<1>s. disk \in [Slots -> Contents] /\ <<t, i, "dst">> \in Slots
  BY <1>0, SlotsOf
<1>1. CASE DropCopy \/ StartCopy \/ FinishCopy
  <2>1. disk' = disk \/ \E c : disk' = [disk EXCEPT ![At(Via)] = c]
    BY <1>1 DEF DropCopy, StartCopy, FinishCopy
  <2>2. Via # "dst"
    BY DEF Via
  <2> QED
    BY <1>s, <2>1, <2>2 DEF At
<1>2. CASE Rename \/ PlaceCopy
  <2>1. Here(To) = "none"
    BY <1>2 DEF Rename, PlaceCopy
  <2>2. w.pc # "clear" /\ (\E p, c, d : p \in {From, Via} /\ disk' = [disk EXCEPT ![At(To)] = c, ![At(p)] = d])
    BY <1>2 DEF Rename, PlaceCopy
  <2>3. disk[<<w.t, w.i, From>>] = "full"
    BY <1>0, <2>2, GripCopies
  <2>4. To = "dst" \/ From = "dst"
    BY <1>h DEF To, From
  <2>5. <<t, i>> # <<w.t, w.i>>
    BY <2>1, <2>3, <2>4 DEF Here, At
  <2> QED
    BY <1>s, <2>2, <2>5 DEF At
<1>3. CASE ClearPart \/ ClearAll
  <2>1. w.pc = "clear" /\ \E c : disk' = [disk EXCEPT ![At(From)] = c]
    BY <1>3 DEF ClearPart, ClearAll
  <2>2. w.way = "back" => disk[<<w.t, w.i, "dst">>] # "foreign"
    BY <2>1 DEF TolerantInv, GripInv, OnTheWayBack
  <2>3. w.way = "there" => From # "dst"
    BY DEF From
  <2> QED
    BY <1>h, <1>s, <2>1, <2>2, <2>3 DEF At
<1> QED
  BY <1>1, <1>2, <1>3 DEF MoveEntry, EntryTaken, Leftover, EntryError

\* What another program put at a destination is never replaced, there or on
\* the way back, as long as no restart takes it for a file of the move.
THEOREM ForeignIsNeverReplaced == Tolerant => (Spec => NeverReplaced)
<1> SUFFICES ASSUME Tolerant PROVE Spec => NeverReplaced
  OBVIOUS
<1> DEFINE Kept == \A t \in Titles : \A i \in OpsOf(t) :
                      disk[<<t, i, "dst">>] = "foreign" => disk'[<<t, i, "dst">>] = "foreign"
<1>1. ASSUME TolerantInv, [Next]_vars PROVE Kept
  <2> SUFFICES ASSUME NEW t \in Titles, NEW i \in OpsOf(t), disk[<<t, i, "dst">>] = "foreign"
               PROVE  disk'[<<t, i, "dst">>] = "foreign"
    OBVIOUS
  <2>s. TypeOK /\ disk \in [Slots -> Contents] /\ <<t, i, "dst">> \in Slots
    BY <1>1, SlotsOf, Constants DEF TolerantInv, TypeOK
  <2>1. CASE MoveEntry
    BY <1>1, <2>1, EntryLeaves
  <2>2. CASE disk' = disk
    BY <2>2
  <2>3. CASE RemovePart \/ Sweep \/ Purge
    <3>1. disk' = disk \/ \E c : disk' = [disk EXCEPT ![At("src")] = c]
      BY <2>3 DEF RemovePart, Sweep, Purge, RemoveSource
    <3> QED
      BY <2>s, <3>1 DEF At
  <2>4. CASE \E x \in Titles : RecoverMoving(x)
    BY <2>s, <2>4 DEF RecoverMoving
  <2>5. CASE \E x \in Titles : \E j \in OpsOf(x) : Appear(x, j)
    BY <2>s, <2>5 DEF Appear
  <2> QED
    BY <1>1, <2>1, <2>2, <2>3, <2>4, <2>5
    DEF Next, Worker, vars, Plan, InsertError, InsertJob, Launch, FilesDone, Apply, ApplyError,
        SetMoved, Settle, EndJob, SkipPending, CloseJob, TakeUnit, RecoverFilesDone, Crash,
        ScanStart, ScanCatalogue, ScanEnd
<1>2. TolerantInv /\ [Next]_vars => [Kept]_vars
  BY <1>1
<1> QED
  BY <1>2, InitTolerant, NextTolerant, PTL DEF Spec, NeverReplaced

-----------------------------------------------------------------------------
(***************************************************************************)
(* What builds on NothingIsLost: what the journal says of a title is true, *)
(* and a move implements MoveContract.                                     *)
(*                                                                         *)
(* The journal alone says too little for an induction: while the worker    *)
(* has a title in hand, its status is "moving" or "fs_done" and the disk   *)
(* and the catalogue change under it. TrueInv says for each place in the   *)
(* code what is true of them, so that whatever status is written next is   *)
(* earned.                                                                 *)
(***************************************************************************)

\* Every file or folder of a title is whole at the place p.
AllWhole(t, p) == \A i \in OpsOf(t) : Whole(t, i, p)

\* The titles whose journal is not in doubt.
Sound == Titles \ torn

Truth == \A t \in Sound : Honest(t)

\* The catalogue follows only what has arrived, and nothing that it follows
\* is put back.
CatTrue == \A t \in Sound : cat[t] = "dst" => AllWhole(t, "dst")

\* The worker is putting its title back, or has done so.
Undoing == w.pc = "settle" \/ (w.way = "back" /\ w.pc \in {"entry", "copy", "place", "clear", "purge"})

\* A title whose files had all moved has them there, until they are put back.
FsDoneTrue == \A t \in Sound : item[t] = "fs_done" /\ ~(t = w.t /\ Undoing) => AllWhole(t, "dst")

\* The catalogue has not followed while a title is on its way or put back.
CatBehind ==
    w.t \in Sound =>
        /\ w.mode = "run" /\ w.pc \in {"entry", "copy", "place", "clear", "fs_done", "apply", "settle"} => cat[w.t] = "src"
        /\ w.way = "back" /\ w.pc \in {"entry", "copy", "place", "clear", "purge"} => cat[w.t] = "src"
        /\ w.pc = "settle" /\ ~w.errs => cat[w.t] = "src"
        /\ w.pc = "moved" => cat[w.t] = "dst"

\* What has been put back without an error, and what never left, is whole at
\* the origin.
BackTrue ==
    w.t \in Sound /\ ~w.errs =>
        /\ w.way = "back" /\ w.pc \in {"entry", "copy", "place", "clear", "purge"} =>
             \A j \in OpsOf(w.t) : j # w.i /\ j \notin w.left => Whole(w.t, j, "src")
        /\ w.pc = "settle" => AllWhole(w.t, "src")

\* Recovery completes only what has arrived.
RecoverTrue == w.t \in Sound /\ w.pc = "apply" => AllWhole(w.t, "dst")

TrueInv == Truth /\ CatTrue /\ FsDoneTrue /\ CatBehind /\ BackTrue /\ RecoverTrue

-----------------------------------------------------------------------------
(* Steps of the worker.                                                    *)

\* Beginning to put back S, or having nothing to put back, when the catalogue
\* has not followed and everything outside S is at the origin.
LEMMA RewindTrue ==
    ASSUME NEW v \in Workers, v.t \in Titles, NEW S \in SUBSET OpsOf(v.t), NEW e \in BOOLEAN,
           Rewind(v, S, e),
           v.t \notin torn' => cat'[v.t] = "src",
           v.t \notin torn' /\ ~e => \A j \in OpsOf(v.t) : j \notin S => disk'[<<v.t, j, "src">>] = "full"
    PROVE  CatBehind' /\ BackTrue' /\ RecoverTrue' /\ w'.t = v.t /\ Undoing'
<1>1. CASE S = {} /\ w' = [v EXCEPT !.pc = "settle", !.left = {}, !.errs = e]
  <2>1. w'.pc = "settle" /\ w'.t = v.t /\ w'.errs = e
    BY <1>1 DEF Workers
  <2> QED
    BY <1>1, <2>1 DEF CatBehind, BackTrue, RecoverTrue, Undoing, Sound, AllWhole, Whole
<1>2. ASSUME NEW n \in S,
             w' = [v EXCEPT !.pc = IF v.mode = "run" THEN "entry" ELSE "purge",
                            !.way = "back", !.i = n, !.left = S \ {n}, !.errs = e]
      PROVE  CatBehind' /\ BackTrue' /\ RecoverTrue' /\ w'.t = v.t /\ Undoing'
  <2>1. /\ w'.pc \in {"entry", "purge"} /\ w'.t = v.t /\ w'.errs = e
        /\ w'.way = "back" /\ w'.i = n /\ w'.left = S \ {n}
    BY <1>2 DEF Workers
  <2> QED
    BY <2>1 DEF CatBehind, BackTrue, RecoverTrue, Undoing, Sound, AllWhole, Whole
<1> QED
  BY <1>1, <1>2 DEF Rewind

\* What a step of moveEntry leaves alone, and how the entry in hand may change.
LEMMA EntryEffect ==
    ASSUME SafeInv, MoveEntry
    PROVE  /\ item' = item /\ cat' = cat /\ torn' = torn
           /\ \A t \in Titles : \A i \in OpsOf(t) : t # w.t \/ i # w.i => Stays(t, i)
           /\ \/ EntryFailed /\ w.pc \in {"entry", "copy", "place"} /\ Stays(w.t, w.i)
              \/ /\ EntryDone /\ w.pc \in {"entry", "clear"}
                 /\ w.way = "back" => disk'[<<w.t, w.i, "src">>] = "full"
              \/ w' \in {w, [w EXCEPT !.pc = "copy"], [w EXCEPT !.pc = "place"], [w EXCEPT !.pc = "clear"]}
<1> USE Constants
<1>0. /\ w.pc \in {"entry", "copy", "place", "clear"} /\ item' = item /\ cat' = cat /\ torn' = torn
      /\ TypeOK
  BY DEF SafeInv, MoveEntry, EntryTaken, Rename, StartCopy, FinishCopy, PlaceCopy,
     ClearPart, ClearAll, Leftover, EntryError
<1>h. w.t \in Titles /\ w.i \in OpsOf(w.t) /\ w.way \in {"there", "back"}
  BY <1>0, Hand
<1>p. From \in Places /\ To \in Places /\ Via \in Places /\ From # To /\ To # Via /\ From # Via
      /\ Via # "src" /\ Via # "dst"
  BY <1>h DEF From, To, Via
<1>s. /\ disk \in [Slots -> Contents]
      /\ \A t \in Titles : \A i \in OpsOf(t) : \A p \in Places : <<t, i, p>> \in Slots
  BY <1>0, SlotsOf
<1>c. /\ w.pc # "clear" => disk[<<w.t, w.i, From>>] = "full"
      /\ w.pc = "clear" => disk[<<w.t, w.i, To>>] = "full"
  BY <1>0, EntryCopies
<1>1. CASE EntryTaken \/ EntryError
  <2>1. EntryFailed /\ DropCopy /\ w.pc \in {"entry", "copy", "place"}
    BY <1>0, <1>1 DEF EntryTaken, EntryError
  <2>2. \A t \in Titles : \A i \in OpsOf(t) : Stays(t, i)
    <3>1. CASE w.pc = "entry"
      BY <2>1, <3>1 DEF DropCopy, Stays
    <3>2. CASE w.pc # "entry"
      <4>1. disk' = [disk EXCEPT ![At(Via)] = "none"]
        BY <2>1, <3>2 DEF DropCopy
      <4> QED
        BY <4>1, <1>h, <1>p, <1>s DEF At, Stays
    <3> QED
      BY <3>1, <3>2
  <2> QED
    BY <1>0, <1>h, <2>1, <2>2
<1>2. CASE Rename
  <2>1. disk' = [disk EXCEPT ![At(To)] = Here(From), ![At(From)] = "none"] /\ EntryDone /\ w.pc = "entry"
    BY <1>2 DEF Rename
  <2>2. \A t \in Titles : \A i \in OpsOf(t) : t # w.t \/ i # w.i => Stays(t, i)
    BY <2>1, <1>h, <1>p, <1>s DEF At, Stays
  <2>3. disk'[At(To)] = Here(From)
    BY <2>1, <1>h, <1>p, <1>s DEF At
  <2>4. w.way = "back" => disk'[<<w.t, w.i, "src">>] = "full"
    BY <2>1, <2>3, <1>c DEF At, Here, To
  <2> QED
    BY <1>0, <2>1, <2>2, <2>4
<1>3. CASE StartCopy \/ FinishCopy
  <2>1. PICK c : disk' = [disk EXCEPT ![At(Via)] = c]
    BY <1>3 DEF StartCopy, FinishCopy
  <2>2. \A t \in Titles : \A i \in OpsOf(t) : Stays(t, i)
    BY <2>1, <1>h, <1>p, <1>s DEF At, Stays
  <2> QED
    BY <1>0, <1>3, <2>2 DEF StartCopy, FinishCopy
<1>4. CASE PlaceCopy
  <2>1. disk' = [disk EXCEPT ![At(To)] = Here(Via), ![At(Via)] = "none"]
    BY <1>4 DEF PlaceCopy
  <2>2. \A t \in Titles : \A i \in OpsOf(t) : t # w.t \/ i # w.i => Stays(t, i)
    BY <2>1, <1>h, <1>p, <1>s DEF At, Stays
  <2> QED
    BY <1>0, <1>4, <2>2 DEF PlaceCopy
<1>5. CASE ClearPart \/ ClearAll \/ Leftover
  <2>1. w.pc = "clear" /\ (disk' = disk \/ disk' = [disk EXCEPT ![At(From)] = "part"] \/ disk' = [disk EXCEPT ![At(From)] = "none"])
        /\ (w' = w \/ EntryDone)
    BY <1>5 DEF ClearPart, ClearAll, Leftover
  <2>2. \A t \in Titles : \A i \in OpsOf(t) : t # w.t \/ i # w.i => Stays(t, i)
    BY <2>1, <1>h, <1>p, <1>s DEF At, Stays
  <2>3. disk'[At(To)] = disk[At(To)]
    BY <2>1, <1>h, <1>p, <1>s DEF At
  <2>4. w.way = "back" => disk'[<<w.t, w.i, "src">>] = "full"
    BY <2>1, <2>3, <1>c DEF At, To
  <2> QED
    BY <1>0, <2>1, <2>2, <2>4
<1> QED
  BY <1>1, <1>2, <1>3, <1>4, <1>5 DEF MoveEntry

\* A step that changes neither journal nor catalogue, and no copy of a title
\* that the worker does not have in hand, keeps what is said of the others.
LEMMA OthersTrue ==
    ASSUME TrueInv, item' = item, cat' = cat, torn' = torn,
           NEW h, h \in Titles => item[h] \in {"moving", "fs_done"},
           h \notin torn => cat[h] = "src" \/ \A i \in OpsOf(h) : disk'[<<h, i, "dst">>] = disk[<<h, i, "dst">>],
           \A t \in Titles : t # h => \A i \in OpsOf(t) : Stays(t, i),
           \A t \in Titles : item[t] = "fs_done" /\ t = w.t /\ Undoing => t = h,
           h \in Sound /\ item[h] = "fs_done" => (h = w'.t /\ Undoing') \/ \A i \in OpsOf(h) : disk'[<<h, i, "dst">>] = "full"
    PROVE  Truth' /\ CatTrue' /\ FsDoneTrue'
<1> USE DEF Sound
<1>1. Truth'
  <2> SUFFICES ASSUME NEW t \in Titles, t \notin torn PROVE Honest(t)'
    BY DEF Truth
  <2>1. Honest(t)
    BY DEF TrueInv, Truth
  <2>2. CASE t = h
    BY <2>2 DEF Honest
  <2>3. CASE t # h
    BY <2>1, <2>3 DEF Honest, Whole, Stays
  <2> QED
    BY <2>2, <2>3
<1>2. CatTrue'
  BY DEF TrueInv, CatTrue, AllWhole, Whole, Stays
<1>3. FsDoneTrue'
  BY DEF TrueInv, FsDoneTrue, AllWhole, Whole, Stays
<1> QED
  BY <1>1, <1>2, <1>3

\* Each step of moveEntry keeps what the journal and the catalogue say true.
LEMMA EntryTrue ==
    ASSUME SafeInv, TrueInv, MoveEntry PROVE TrueInv'
<1> USE DEF Sound
<1>0. w.pc \in {"entry", "copy", "place", "clear"}
  BY DEF MoveEntry, EntryTaken, Rename, StartCopy, FinishCopy, PlaceCopy,
     ClearPart, ClearAll, Leftover, EntryError
<1>h. /\ w \in Workers /\ w.t \in Titles /\ w.i \in OpsOf(w.t) /\ w.way \in {"there", "back"}
      /\ item[w.t] \in {"moving", "fs_done"} /\ OpsOf(w.t) \subseteq Nat /\ OpsOf(w.t) = 1 .. LastOp(w.t)
      /\ w.errs \in BOOLEAN
  BY <1>0, Hand
<1>e. /\ item' = item /\ cat' = cat /\ torn' = torn
      /\ \A t \in Titles : \A i \in OpsOf(t) : t # w.t \/ i # w.i => Stays(t, i)
  BY EntryEffect
<1>c. w.t \notin torn => cat[w.t] = "src"
  <2>1. w.way = "there" => w.mode = "run"
    BY <1>0 DEF SafeInv, WorkInv, There
  <2> QED
    BY <1>0, <1>h, <2>1 DEF TrueInv, CatBehind
<1>t. w.way = "there" => /\ item[w.t] = "moving"
                         /\ \A j \in OpsOf(w.t) : j > w.i => disk[<<w.t, j, "src">>] = "full"
                         /\ w.pc # "clear" => disk[<<w.t, w.i, "src">>] = "full"
  BY <1>0 DEF SafeInv, WorkInv, There, Whole
<1>b. w.way = "back" =>
        /\ w.left \subseteq OpsOf(w.t)
        /\ w.t \notin torn /\ ~w.errs =>
             \A j \in OpsOf(w.t) : j # w.i /\ j \notin w.left => disk[<<w.t, j, "src">>] = "full"
  BY <1>0, <1>h DEF SafeInv, WorkInv, Back, TrueInv, BackTrue, Whole
<1>1. /\ CatBehind' /\ BackTrue' /\ RecoverTrue' /\ w'.t = w.t
      /\ w.way = "back" => Undoing'
  <2>1. CASE EntryFailed /\ w.pc \in {"entry", "copy", "place"} /\ Stays(w.t, w.i)
    <3>1. CASE w.way = "back" /\ Rewind(w, w.left, TRUE)
      BY <1>h, <1>e, <1>c, <1>b, <3>1, RewindTrue
    <3>2. CASE w.way = "there" /\ Rewind(w, 1 .. (w.i - 1), FALSE)
      <4>1. 1 .. (w.i - 1) \in SUBSET OpsOf(w.t)
        BY <1>h, <1>0, Hand
      <4>2. \A j \in OpsOf(w.t) : j \notin 1 .. (w.i - 1) => disk'[<<w.t, j, "src">>] = "full"
        <5> SUFFICES ASSUME NEW j \in OpsOf(w.t), j \notin 1 .. (w.i - 1) PROVE disk'[<<w.t, j, "src">>] = "full"
          OBVIOUS
        <5>1. j = w.i \/ (j > w.i /\ j # w.i)
          BY <1>h, <1>0, Hand
        <5>2. CASE j = w.i
          BY <1>t, <2>1, <3>2, <5>2 DEF Stays
        <5>3. CASE j > w.i /\ j # w.i
          BY <1>h, <1>e, <1>t, <3>2, <5>3 DEF Stays
        <5> QED
          BY <5>1, <5>2, <5>3
      <4> QED
        BY <1>h, <1>e, <1>c, <3>2, <4>1, <4>2, RewindTrue
    <3> QED
      BY <2>1, <3>1, <3>2 DEF EntryFailed
  <2>2. CASE EntryDone /\ w.pc \in {"entry", "clear"} /\ (w.way = "back" => disk'[<<w.t, w.i, "src">>] = "full")
    <3>1. CASE w.way = "back" /\ Rewind(w, w.left, w.errs)
      <4>1. w.t \notin torn /\ ~w.errs => \A j \in OpsOf(w.t) : j \notin w.left => disk'[<<w.t, j, "src">>] = "full"
        BY <1>h, <1>e, <1>b, <2>2, <3>1 DEF Stays
      <4> QED
        BY <1>h, <1>e, <1>c, <1>b, <3>1, <4>1, RewindTrue, ZenonT(60)
    <3>2. CASE w.way = "there" /\ (w' = [w EXCEPT !.pc = "entry", !.i = w.i + 1] \/ w' = [w EXCEPT !.pc = "fs_done"])
      <4>1. w'.way = "there" /\ w'.t = w.t /\ w'.pc \in {"entry", "fs_done"}
        BY <1>h, <3>2 DEF Workers
      <4> QED
        BY <1>e, <1>c, <3>2, <4>1 DEF CatBehind, BackTrue, RecoverTrue
    <3> QED
      BY <2>2, <3>1, <3>2 DEF EntryDone
  <2>3. CASE w' \in {w, [w EXCEPT !.pc = "copy"], [w EXCEPT !.pc = "place"], [w EXCEPT !.pc = "clear"]}
    <3>1. /\ w'.way = w.way /\ w'.t = w.t /\ w'.i = w.i /\ w'.left = w.left /\ w'.errs = w.errs
          /\ w'.pc \in {"entry", "copy", "place", "clear"}
      BY <1>h, <1>0, <2>3 DEF Workers
    <3> QED
      BY <1>e, <1>h, <1>c, <1>b, <3>1, ZenonT(60) DEF CatBehind, BackTrue, RecoverTrue, Undoing, Whole, Stays
  <2> QED
    BY <2>1, <2>2, <2>3, EntryEffect
<1>2. Truth' /\ CatTrue' /\ FsDoneTrue'
  <2>1. w.t \notin torn => cat[w.t] = "src"
    BY <1>c
  <2>2. item[w.t] = "fs_done" => w.way = "back"
    BY <1>h, <1>t
  <2> QED
    BY <1>h, <1>e, <1>1, <2>1, <2>2, OthersTrue
<1> QED
  BY <1>1, <1>2 DEF TrueInv

\* Steps that leave the disk, the catalogue and torn alone and write at most
\* the status of the title in hand.
LEMMA CloseTrue ==
    ASSUME TypeOK, TrueInv, disk' = disk, cat' = cat, torn' = torn,
           NEW h \in Titles, NEW s, item' = [item EXCEPT ![h] = s],
           h \notin torn => Honest(h)',
           \A t \in Titles : t = w.t => t = h,
           s # "fs_done" \/ h \in torn \/ AllWhole(h, "dst")
    PROVE  Truth' /\ CatTrue' /\ FsDoneTrue'
<1>1. \A t \in Titles : item'[t] = IF t = h THEN s ELSE item[t]
  BY DEF TypeOK
<1>2. Truth'
  BY <1>1 DEF TrueInv, Truth, Honest, Sound, Whole
<1>3. CatTrue'
  BY DEF TrueInv, CatTrue, AllWhole, Whole, Sound
<1>4. FsDoneTrue'
  BY <1>1 DEF TrueInv, FsDoneTrue, AllWhole, Whole, Sound
<1> QED
  BY <1>2, <1>3, <1>4

\* Nothing but the worker changes, and it neither stops nor starts undoing.
LEMMA SameTrue ==
    ASSUME TrueInv, disk' = disk, cat' = cat, item' = item, torn' = torn,
           \A t \in Titles \ torn : item[t] = "fs_done" /\ t = w.t /\ Undoing =>
               (t = w'.t /\ Undoing') \/ AllWhole(t, "dst")
    PROVE  Truth' /\ CatTrue' /\ FsDoneTrue'
BY DEF TrueInv, Truth, Honest, CatTrue, FsDoneTrue, AllWhole, Whole, Sound

\* A worker without a title in hand owes nothing.
LEMMA RestTrue ==
    ASSUME w'.pc \in {"idle", "planned", "launch", "next", "recover", "close"}
    PROVE  CatBehind' /\ BackTrue' /\ RecoverTrue' /\ ~Undoing'
BY DEF CatBehind, BackTrue, RecoverTrue, Undoing

\* Each step of a running job.
LEMMA RunTrue ==
    ASSUME Reliable, SafeInv, TrueInv,
           (\E t \in Titles : TakeUnit(t)) \/ FilesDone \/ Apply \/ ApplyError \/ SetMoved \/ Settle \/ EndJob
    PROVE  TrueInv'
<1> USE DEF Sound
<1>w. w \in Workers /\ TypeOK
  BY DEF SafeInv, TypeOK
<1>1. ASSUME NEW t \in Titles, TakeUnit(t) PROVE TrueInv'
  <2>1. /\ item' = [item EXCEPT ![t] = "moving"] /\ w.pc = "next" /\ t \in w.todo
        /\ disk' = disk /\ cat' = cat /\ torn' = torn
    BY <1>1 DEF TakeUnit, SetItem, Reliable
  <2>2. w'.pc = "entry" /\ w'.t = t /\ w'.way = "there"
    BY <1>1, <1>w DEF TakeUnit, Workers
  <2>3. item[t] = "pending"
    BY <2>1 DEF SafeInv, WorkInv, Queued, Modes
  <2>4. t \notin torn => cat[t] = "src"
    BY <2>3 DEF TrueInv, Truth, Honest
  <2>5. CatBehind' /\ BackTrue' /\ RecoverTrue'
    BY <2>1, <2>2, <2>4 DEF CatBehind, BackTrue, RecoverTrue
  <2>6. item'[t] = "moving" /\ \A u \in Titles : u # t => item'[u] = item[u]
    BY <2>1, <1>w DEF TypeOK
  <2>7. Truth' /\ CatTrue'
    BY <2>1, <2>6 DEF TrueInv, Truth, Honest, CatTrue, AllWhole, Whole
  <2>8. ~Undoing
    BY <2>1 DEF Undoing
  <2>9. FsDoneTrue'
    BY <2>1, <2>6, <2>8 DEF TrueInv, FsDoneTrue, AllWhole, Whole
  <2> QED
    BY <2>5, <2>7, <2>9 DEF TrueInv
<1>2. CASE FilesDone
  <2>1. /\ item' = [item EXCEPT ![w.t] = "fs_done"] /\ w.pc = "fs_done" /\ w.mode = "run"
        /\ disk' = disk /\ cat' = cat /\ torn' = torn
    BY <1>2 DEF FilesDone, SetItem, Reliable, SafeInv, WorkInv, Modes
  <2>2. w'.pc = "apply" /\ w'.t = w.t /\ w'.mode = "run" /\ w.t \in Titles
    BY <1>2, <1>w, <2>1 DEF FilesDone, Workers, TypeOK, InHand
  <2>3. AllWhole(w.t, "dst")
    BY <2>1 DEF SafeInv, WorkInv, Arrived, AllWhole
  <2>4. w.t \notin torn => cat[w.t] = "src"
    BY <2>1, <2>2 DEF TrueInv, CatBehind
  <2>5. CatBehind' /\ BackTrue' /\ RecoverTrue'
    BY <2>1, <2>2, <2>3, <2>4 DEF CatBehind, BackTrue, RecoverTrue, AllWhole, Whole
  <2>h. PICK h \in Titles : h = w.t
    BY <2>2
  <2>6. Honest(h)'
    BY <2>1, <2>h, <1>w DEF Honest, TypeOK
  <2>7. Truth' /\ CatTrue' /\ FsDoneTrue'
    BY <1>w, <2>1, <2>h, <2>3, <2>6, CloseTrue
  <2> QED
    BY <2>5, <2>7 DEF TrueInv
<1>3. CASE Apply
  <2>1. /\ cat' = [cat EXCEPT ![w.t] = "dst"] /\ w.pc = "apply"
        /\ disk' = disk /\ item' = item /\ torn' = torn
    BY <1>3 DEF Apply
  <2>2. w'.pc = "moved" /\ w'.t = w.t /\ w.t \in Titles /\ item[w.t] \in {"moving", "fs_done"}
    BY <1>3, <1>w, <2>1 DEF Apply, Workers, TypeOK, InHand, SafeInv, WorkInv, InJournal
  <2>3. cat'[w.t] = "dst" /\ \A t \in Titles : t # w.t => cat'[t] = cat[t]
    BY <2>1, <2>2, <1>w DEF TypeOK
  <2>4. w.t \notin torn => AllWhole(w.t, "dst")
    BY <2>1, <2>2 DEF TrueInv, RecoverTrue
  <2>5. CatBehind' /\ BackTrue' /\ RecoverTrue'
    BY <2>1, <2>2, <2>3 DEF CatBehind, BackTrue, RecoverTrue
  <2>6. Truth'
    BY <2>1, <2>2, <2>3 DEF TrueInv, Truth, Honest, Whole
  <2>7. CatTrue' /\ FsDoneTrue'
    BY <2>1, <2>2, <2>3, <2>4 DEF TrueInv, CatTrue, FsDoneTrue, AllWhole, Whole, Undoing
  <2> QED
    BY <2>5, <2>6, <2>7 DEF TrueInv
<1>4. CASE ApplyError
  <2>1. w.pc = "apply" /\ disk' = disk /\ cat' = cat /\ item' = item /\ torn' = torn
    BY <1>4 DEF ApplyError
  <2>2. w.t \in Titles /\ ~Undoing
    BY <1>w, <2>1 DEF TypeOK, InHand, Undoing
  <2>3. Truth' /\ CatTrue' /\ FsDoneTrue'
    BY <2>1, <2>2, SameTrue
  <2>4. CASE w.mode = "run" /\ Rewind(w, OpsOf(w.t), FALSE)
    <3>1. w.t \notin torn => cat[w.t] = "src"
      BY <2>1, <2>2, <2>4 DEF TrueInv, CatBehind
    <3>2. CatBehind' /\ BackTrue' /\ RecoverTrue'
      BY <1>w, <2>1, <2>2, <2>4, <3>1, RewindTrue
    <3> QED
      BY <2>3, <3>2 DEF TrueInv
  <2>5. CASE w.mode = "recover" /\ w' = [w EXCEPT !.pc = "settle", !.errs = TRUE]
    <3>1. w'.pc = "settle" /\ w'.errs = TRUE /\ w'.mode = "recover"
      BY <1>w, <2>5 DEF Workers
    <3>2. CatBehind' /\ BackTrue' /\ RecoverTrue'
      BY <3>1 DEF CatBehind, BackTrue, RecoverTrue
    <3> QED
      BY <2>3, <3>2 DEF TrueInv
  <2> QED
    BY <1>4, <2>4, <2>5 DEF ApplyError
<1>5. CASE SetMoved \/ Settle
  <2>1. /\ w.pc \in {"moved", "settle"} /\ disk' = disk /\ cat' = cat /\ torn' = torn
        /\ w.t \in Titles
    BY <1>5, <1>w DEF SetMoved, Settle, TypeOK, InHand
  <2>2. w'.pc \in {"next", "recover"}
    BY <1>5, <1>w DEF SetMoved, Settle, NextTitle, Workers
  <2>3. CatBehind' /\ BackTrue' /\ RecoverTrue'
    BY <2>2, RestTrue
  <2>h. PICK h \in Titles : h = w.t
    BY <2>1
  <2>4. CASE SetMoved
    <3>1. item' = [item EXCEPT ![w.t] = "moved"] /\ w.pc = "moved"
      BY <2>4 DEF SetMoved, SetItem, Reliable
    <3>2. w.t \notin torn => cat[w.t] = "dst" /\ AllWhole(w.t, "dst")
      BY <2>1, <3>1 DEF TrueInv, CatBehind, CatTrue
    <3>3. item'[w.t] = "moved"
      BY <2>1, <3>1, <1>w DEF TypeOK
    <3>4. w.t \notin torn => Honest(h)'
      <4>1. w.t \notin torn => cat'[w.t] = "dst" /\ \A i \in OpsOf(w.t) : disk'[<<w.t, i, "dst">>] = "full"
        BY <2>1, <3>2 DEF AllWhole, Whole
      <4> QED
        BY <2>h, <3>3, <4>1 DEF Honest, Whole
    <3>5. Truth' /\ CatTrue' /\ FsDoneTrue'
      BY <1>w, <2>1, <2>h, <3>1, <3>4, CloseTrue
    <3> QED
      BY <2>3, <3>5 DEF TrueInv
  <2>5. CASE Settle
    <3> DEFINE s == IF w.errs THEN "split" ELSE IF w.mode = "run" THEN "failed" ELSE "rolled_back"
    <3>1. item' = [item EXCEPT ![w.t] = s] /\ w.pc = "settle"
      BY <2>5 DEF Settle, SetItem, Reliable
    <3>2. w.t \notin torn => cat[w.t] = "src" \/ AllWhole(w.t, "dst")
      BY <2>1, <1>w DEF TrueInv, CatTrue, TypeOK
    <3>3. w.t \notin torn /\ ~w.errs => cat[w.t] = "src" /\ AllWhole(w.t, "src")
      BY <2>1, <3>1 DEF TrueInv, CatBehind, BackTrue
    <3>4. item'[w.t] = s
      BY <2>1, <3>1, <1>w DEF TypeOK
    <3>5. w.t \notin torn => Honest(h)'
      <4>1. w.t \notin torn => cat'[w.t] = "src" \/ \A i \in OpsOf(w.t) : disk'[<<w.t, i, "dst">>] = "full"
        BY <2>1, <3>2 DEF AllWhole, Whole
      <4>2. w.t \notin torn /\ ~w.errs => cat'[w.t] = "src" /\ \A i \in OpsOf(w.t) : disk'[<<w.t, i, "src">>] = "full"
        BY <2>1, <3>3 DEF AllWhole, Whole
      <4> QED
        BY <2>h, <3>4, <4>1, <4>2 DEF Honest, Whole
    <3>6. s # "fs_done"
      OBVIOUS
    <3> HIDE DEF s
    <3>7. Truth' /\ CatTrue' /\ FsDoneTrue'
      BY <1>w, <2>1, <2>h, <3>1, <3>5, <3>6, CloseTrue
    <3> QED
      BY <2>3, <3>7 DEF TrueInv
  <2> QED
    BY <1>5, <2>4, <2>5
<1>6. CASE EndJob
  <2>1. /\ w.pc = "next" /\ w' = Resting /\ disk' = disk /\ cat' = cat /\ item' = item /\ torn' = torn
    BY <1>6 DEF EndJob
  <2>2. w'.pc = "idle" /\ ~Undoing
    BY <2>1 DEF Resting, Undoing
  <2>3. Truth' /\ CatTrue' /\ FsDoneTrue'
    BY <2>1, <2>2, SameTrue
  <2> QED
    BY <2>2, <2>3, RestTrue DEF TrueInv
<1> QED
  BY <1>1, <1>2, <1>3, <1>4, <1>5, <1>6

\* Each step of recovery.
LEMMA RecoveryTrue ==
    ASSUME Reliable, SafeInv, TrueInv,
           \/ \E t \in Titles : RecoverFilesDone(t) \/ RecoverMoving(t)
           \/ RemovePart \/ Sweep \/ Purge \/ SkipPending \/ CloseJob
    PROVE  TrueInv'
<1> USE DEF Sound
<1>w. w \in Workers /\ TypeOK
  BY DEF SafeInv, TypeOK
<1>s. /\ disk \in [Slots -> Contents]
      /\ \A t \in Titles : \A i \in OpsOf(t) : \A p \in Places : <<t, i, p>> \in Slots
  BY <1>w, SlotsOf
<1>1. ASSUME NEW t \in Titles, RecoverFilesDone(t) PROVE TrueInv'
  <2>1. /\ w.pc = "recover" /\ w.mode = "recover" /\ item[t] = "fs_done"
        /\ disk' = disk /\ cat' = cat /\ item' = item /\ torn' = torn
    BY <1>1 DEF RecoverFilesDone, SafeInv, WorkInv, Modes
  <2>2. w'.pc = "apply" /\ w'.t = t /\ w'.mode = "recover"
    BY <1>1, <1>w, <2>1 DEF RecoverFilesDone, Workers
  <2>3. ~Undoing
    BY <2>1 DEF Undoing
  <2>4. t \notin torn => AllWhole(t, "dst")
    BY <2>1, <2>3 DEF TrueInv, FsDoneTrue
  <2>5. CatBehind' /\ BackTrue' /\ RecoverTrue'
    BY <2>1, <2>2, <2>4 DEF CatBehind, BackTrue, RecoverTrue, AllWhole, Whole
  <2>6. Truth' /\ CatTrue' /\ FsDoneTrue'
    BY <2>1, <2>3, SameTrue
  <2> QED
    BY <2>5, <2>6 DEF TrueInv
<1>2. ASSUME NEW t \in Titles, RecoverMoving(t) PROVE TrueInv'
  <2>1. /\ w.pc = "recover" /\ w.mode = "recover" /\ item[t] = "moving"
        /\ cat' = cat /\ item' = item /\ torn' = torn
    BY <1>2 DEF RecoverMoving, SafeInv, WorkInv, Modes
  <2>2. \A u \in Titles : \A i \in OpsOf(u) : Stays(u, i)
    BY <1>2, <1>s, SlotsOf DEF RecoverMoving, Stays, Slots, Places
  <2>3. ~Undoing
    BY <2>1 DEF Undoing
  <2>4. Truth' /\ CatTrue' /\ FsDoneTrue'
    BY <2>1, <2>2, <2>3, OthersTrue DEF Stays
  <2>5. CASE Complete(t) = OpsOf(t) /\ w' = [w EXCEPT !.t = t, !.todo = w.todo \ {t}, !.pc = "sweep", !.i = 1]
    <3>1. w'.pc = "sweep"
      BY <1>w, <2>5 DEF Workers
    <3>2. CatBehind' /\ BackTrue' /\ RecoverTrue'
      BY <2>1, <3>1, <1>w, <2>5 DEF CatBehind, BackTrue, RecoverTrue, Workers
    <3> QED
      BY <2>4, <3>2 DEF TrueInv
  <2>6. CASE Complete(t) # OpsOf(t) /\ Rewind([w EXCEPT !.t = t, !.todo = w.todo \ {t}], Complete(t), FALSE)
    <3> DEFINE v == [w EXCEPT !.t = t, !.todo = w.todo \ {t}]
    <3>1. v \in Workers /\ v.t = t
      BY <1>w DEF Workers
    <3>2. Complete(t) \in SUBSET OpsOf(t)
      BY DEF Complete
    <3>3. t \notin torn' => cat'[t] = "src"
      <4>1. ~AllWhole(t, "dst")
        BY <2>6 DEF Complete, AllWhole, Whole
      <4> QED
        BY <2>1, <4>1, <1>w DEF TrueInv, CatTrue, TypeOK
    <3>4. \A j \in OpsOf(t) : j \notin Complete(t) => disk'[<<t, j, "src">>] = "full"
      BY <2>2 DEF SafeInv, DiskInv, NothingLost, Complete, Whole, Stays
    <3> HIDE DEF v
    <3>5. Rewind(v, Complete(t), FALSE)
      BY <2>6 DEF v
    <3>6. CatBehind' /\ BackTrue' /\ RecoverTrue'
      <4>1. Complete(t) \in SUBSET OpsOf(v.t) /\ v.t \in Titles
        BY <3>1, <3>2
      <4>2. v.t \notin torn' => cat'[v.t] = "src"
        BY <3>1, <3>3
      <4>3. \A j \in OpsOf(v.t) : j \notin Complete(t) => disk'[<<v.t, j, "src">>] = "full"
        BY <3>1, <3>4
      <4> QED
        BY <3>1, <3>5, <4>1, <4>2, <4>3, RewindTrue
    <3> QED
      BY <2>4, <3>6 DEF TrueInv
  <2> QED
    BY <1>2, <2>5, <2>6 DEF RecoverMoving
<1>3. CASE RemovePart \/ Sweep \/ Purge
  <2>1. /\ w.pc \in {"sweep", "purge"} /\ w.mode = "recover" /\ w.t \in Titles
        /\ cat' = cat /\ item' = item /\ torn' = torn /\ item[w.t] \in {"moving", "fs_done"}
    BY <1>3, <1>w DEF RemovePart, Sweep, Purge, SafeInv, WorkInv, Modes, InJournal, TypeOK, InHand
  <2>2. disk' = disk \/ disk' = [disk EXCEPT ![At("src")] = "part"] \/ disk' = [disk EXCEPT ![At("src")] = "none"]
    BY <1>3 DEF RemovePart, Sweep, Purge, RemoveSource
  <2>3. /\ \A t \in Titles : \A i \in OpsOf(t) : t # w.t \/ i # w.i => Stays(t, i)
        /\ \A t \in Titles : \A i \in OpsOf(t) : disk'[<<t, i, "dst">>] = disk[<<t, i, "dst">>]
    BY <2>1, <2>2, <1>s DEF At, Stays, Places
  <2>4. /\ w'.t = w.t /\ w'.mode = w.mode /\ w'.way = w.way /\ w'.left = w.left /\ w'.errs = w.errs
        /\ w.pc = "purge" => w'.pc \in {"purge", "entry"} /\ w'.i = w.i
        /\ w.pc = "sweep" => w'.pc \in {"sweep", "apply"}
    BY <1>3, <1>w DEF RemovePart, Sweep, Purge, Workers
  <2>5. w.pc = "purge" => w.way = "back"
    BY DEF SafeInv, WorkInv, PurgeBack
  <2>6. w.pc = "sweep" => AllWhole(w.t, "dst") /\ \A i \in OpsOf(w.t) : disk'[<<w.t, i, "dst">>] = "full"
    BY <2>1, <2>3 DEF SafeInv, WorkInv, Arrived, AllWhole, Whole
  <2>7. CatBehind'
    BY <2>1, <2>4, <2>5 DEF TrueInv, CatBehind
  <2>8. BackTrue'
    <3>1. PICK h \in Titles : h = w.t /\ h = w'.t
      BY <2>1, <2>4
    <3>2. CASE w.pc = "sweep"
      BY <2>4, <3>2 DEF BackTrue
    <3>3. CASE w.pc = "purge"
      <4>1. ASSUME h \notin torn, ~w.errs, NEW j \in OpsOf(h), j # w.i, j \notin w.left
            PROVE  disk'[<<h, j, "src">>] = "full"
        <5>1. disk[<<h, j, "src">>] = "full"
          BY <2>5, <3>1, <3>3, <4>1 DEF TrueInv, BackTrue, Whole
        <5> QED
          BY <2>3, <3>1, <4>1, <5>1 DEF Stays
      <4> QED
        BY <2>1, <2>4, <3>1, <3>3, <4>1 DEF BackTrue, Whole
    <3> QED
      BY <2>1, <3>2, <3>3
  <2>9. RecoverTrue'
    BY <2>1, <2>4, <2>6 DEF RecoverTrue, AllWhole, Whole
  <2>10. w.pc = "purge" => Undoing'
    BY <2>4, <2>5 DEF Undoing
  <2>11. Truth' /\ CatTrue' /\ FsDoneTrue'
    <3> HIDE DEF Undoing, Sound
    <3> QED
      BY <2>1, <2>3, <2>4, <2>6, <2>10, OthersTrue DEF Stays
  <2> QED
    BY <2>7, <2>8, <2>9, <2>11 DEF TrueInv
<1>4. CASE SkipPending
  <2>1. /\ w.pc = "recover" /\ disk' = disk /\ cat' = cat /\ torn' = torn
        /\ item' = [t \in Titles |-> IF item[t] = "pending" /\ job = "running" THEN "skipped" ELSE item[t]]
    BY <1>4 DEF SkipPending, Reliable
  <2>2. w'.pc = "close"
    BY <1>4, <1>w DEF SkipPending, Workers
  <2>3. \A t \in Titles : item'[t] = item[t] \/ (item[t] = "pending" /\ item'[t] = "skipped")
    BY <2>1
  <2>4. ~Undoing
    BY <2>1 DEF Undoing
  <2>5. Truth' /\ CatTrue'
    BY <2>1, <2>3 DEF TrueInv, Truth, Honest, CatTrue, AllWhole, Whole
  <2>6. FsDoneTrue'
    BY <2>1, <2>3, <2>4 DEF TrueInv, FsDoneTrue, AllWhole, Whole
  <2> QED
    BY <2>2, <2>5, <2>6, RestTrue DEF TrueInv
<1>5. CASE CloseJob
  <2>1. w.pc = "close" /\ w' = Resting /\ disk' = disk /\ cat' = cat /\ item' = item /\ torn' = torn
    BY <1>5 DEF CloseJob
  <2>2. w'.pc = "idle" /\ ~Undoing
    BY <2>1 DEF Resting, Undoing
  <2>3. Truth' /\ CatTrue' /\ FsDoneTrue'
    BY <2>1, <2>2, SameTrue
  <2> QED
    BY <2>2, <2>3, RestTrue DEF TrueInv
<1> QED
  BY <1>1, <1>2, <1>3, <1>4, <1>5

\* Each step of anybody else.
LEMMA OtherTrue ==
    ASSUME Reliable, SafeInv, TrueInv,
           \/ Plan \/ InsertError \/ (\E E \in SUBSET Titles : InsertJob(E)) \/ Launch \/ Crash
           \/ ScanStart \/ ScanCatalogue \/ ScanEnd
           \/ \E t \in Titles : \E i \in OpsOf(t) : Appear(t, i)
    PROVE  TrueInv'
<1> USE DEF Sound
<1>w. w \in Workers /\ TypeOK
  BY DEF SafeInv, TypeOK
<1>0. ~InsertError /\ \A t \in Titles : \A i \in OpsOf(t) : ~Appear(t, i)
  BY DEF Reliable, InsertError, Appear
<1>1. CASE Plan \/ Launch
  <2>1. /\ w.pc \in {"idle", "launch"} /\ disk' = disk /\ cat' = cat /\ item' = item /\ torn' = torn
        /\ w'.pc \in {"planned", "next"}
    BY <1>1, <1>w DEF Plan, Launch, Workers
  <2>2. Truth' /\ CatTrue' /\ FsDoneTrue'
    BY <2>1, SameTrue DEF Undoing
  <2> QED
    BY <2>1, <2>2, RestTrue DEF TrueInv
<1>2. ASSUME NEW E \in SUBSET Titles, InsertJob(E) PROVE TrueInv'
  <2>1. /\ w.pc = "planned" /\ disk' = disk /\ cat' = cat /\ torn' = torn
        /\ \A t \in Titles : item'[t] \in {"pending", "skipped"}
    BY <1>2 DEF InsertJob
  <2>2. w'.pc \in {"idle", "launch"}
    BY <1>2, <1>w DEF InsertJob, Workers, Resting
  <2>3. \A t \in Titles : item[t] = "none"
    BY <2>1 DEF SafeInv, Fresh
  <2>4. Truth' /\ CatTrue' /\ FsDoneTrue'
    BY <2>1, <2>3 DEF TrueInv, Truth, Honest, CatTrue, FsDoneTrue, AllWhole, Whole
  <2> QED
    BY <2>2, <2>4, RestTrue DEF TrueInv
<1>3. CASE Crash
  <2>1. /\ disk' = disk /\ cat' = cat /\ item' = item
        /\ torn' = torn \cup {t \in Titles : t = w.t /\ item[t] = "fs_done" /\ (w.way = "back" \/ w.pc = "settle")}
    BY <1>3 DEF Crash
  <2>2. w'.pc \in {"idle", "recover"}
    <3>1. Resting \in Workers
      BY MoveAssumption DEF Resting, Workers, Pcs
    <3>2. Resting.pc = "idle"
      BY DEF Resting
    <3>3. CASE w' = Resting
      BY <3>2, <3>3
    <3>4. CASE w' = [Resting EXCEPT !.pc = "recover", !.mode = "recover",
                                    !.todo = {t \in Titles : item[t] \in {"moving", "fs_done"}}]
      BY <3>1, <3>4 DEF Workers
    <3> QED
      BY <1>3, <3>3, <3>4 DEF Crash
  <2>3. Truth' /\ CatTrue'
    BY <2>1 DEF TrueInv, Truth, Honest, CatTrue, AllWhole, Whole
  <2>4. FsDoneTrue'
    BY <2>1 DEF TrueInv, FsDoneTrue, AllWhole, Whole, Undoing
  <2> QED
    BY <2>2, <2>3, <2>4, RestTrue DEF TrueInv
<1>4. CASE ScanStart \/ ScanCatalogue \/ ScanEnd
  <2>1. disk' = disk /\ cat' = cat /\ item' = item /\ torn' = torn /\ w' = w
    BY <1>4 DEF ScanStart, ScanCatalogue, ScanEnd
  <2> QED
    BY <2>1 DEF TrueInv, Truth, Honest, CatTrue, FsDoneTrue, CatBehind, BackTrue, RecoverTrue, AllWhole, Whole, Undoing
<1> QED
  BY <1>0, <1>1, <1>2, <1>3, <1>4

\* In the beginning every title is where it was, and says so.
LEMMA InitTrue == ASSUME Init PROVE TrueInv
<1>1. \A t \in Titles : item[t] = "none" /\ cat[t] = "src"
  BY DEF Init
<1>2. \A t \in Titles : \A i \in OpsOf(t) : Whole(t, i, "src")
  <2> SUFFICES ASSUME NEW t \in Titles, NEW i \in OpsOf(t) PROVE disk[<<t, i, "src">>] = "full"
    BY DEF Whole
  <2>1. <<t, i, "src">> \in Slots
    BY OpsInRange DEF Slots, Places
  <2> QED
    BY <2>1 DEF Init
<1>3. w.pc = "idle"
  BY DEF Init, Resting
<1> QED
  BY <1>1, <1>2, <1>3 DEF TrueInv, Truth, Honest, CatTrue, FsDoneTrue, CatBehind, BackTrue, RecoverTrue, Sound

\* The invariant is inductive.
LEMMA NextTrue == ASSUME Reliable PROVE SafeInv /\ TrueInv /\ [Next]_vars => TrueInv'
<1> SUFFICES ASSUME SafeInv, TrueInv, [Next]_vars PROVE TrueInv'
  OBVIOUS
<1>1. CASE UNCHANGED vars
  <2>1. disk' = disk /\ cat' = cat /\ item' = item /\ w' = w /\ torn' = torn
    BY <1>1 DEF vars
  <2>2. Truth' /\ CatTrue' /\ FsDoneTrue'
    BY <2>1 DEF TrueInv, Truth, Honest, CatTrue, FsDoneTrue, AllWhole, Whole, Undoing, Sound
  <2>3. CatBehind' /\ RecoverTrue'
    BY <2>1 DEF TrueInv, CatBehind, RecoverTrue, AllWhole, Whole, Sound
  <2>4. BackTrue'
    BY <2>1 DEF TrueInv, BackTrue, AllWhole, Whole, Sound
  <2> QED
    BY <2>2, <2>3, <2>4 DEF TrueInv
<1>2. CASE Next
  BY <1>2, EntryTrue, RunTrue, RecoveryTrue, OtherTrue DEF Next, Worker
<1> QED
  BY <1>1, <1>2

\* With a journal that is written and destinations nobody else takes, the
\* status that runMove, executeUnit and recoverItem leave in the journal says
\* what has become of a title, on the disk and in the catalogue, however often
\* the process stopped; only a crash while files were put back from fs_done
\* leaves a title of which nothing is claimed.
THEOREM JournalIsTrue == Reliable => (Spec => []JournalTrue)
<1> SUFFICES ASSUME Reliable PROVE Spec => []JournalTrue
  OBVIOUS
<1>1. Init => SafeInv /\ TrueInv
  BY InitSafe, InitTrue
<1>2. SafeInv /\ TrueInv /\ [Next]_vars => (SafeInv /\ TrueInv)'
  BY NextSafe, NextTrue
<1>3. TrueInv => JournalTrue
  BY DEF TrueInv, Truth, JournalTrue, Sound
<1> QED
  BY <1>1, <1>2, <1>3, PTL DEF Spec

-----------------------------------------------------------------------------
(* LibraryMove implements MoveContract. The lemmas build the steps of the  *)
(* contract from what a step of the code does to the disk and the journal. *)

\* Where a piece of a title is whole.
LEMMA KeptOf ==
    /\ \A t \in Titles : \A i \in OpsOf(t) : <<t, i>> \in PieceSet
    /\ \A x \in PieceSet : x[1] \in Titles /\ x[2] \in OpsOf(x[1]) /\ x = <<x[1], x[2]>>
BY OpsInRange DEF PieceSet

\* A title that is whole at a place is so in the contract.
LEMMA AllWholeIsAllAt ==
    ASSUME NEW t \in Titles, NEW p \in {"src", "dst"}, AllWhole(t, p)
    PROVE  Contract!AllAt(t, p)
BY KeptOf DEF Contract!AllAt, KeptAt, AllWhole, Whole

\* Copies that stay are kept where they were.
LEMMA KeptStays ==
    ASSUME \A t \in Titles : \A i \in OpsOf(t) : Stays(t, i)
    PROVE  KeptAt' = KeptAt
<1>1. ASSUME NEW x \in PieceSet
      PROVE  {p \in {"src", "dst"} : disk'[<<x[1], x[2], p>>] = "full"}
           = {p \in {"src", "dst"} : disk[<<x[1], x[2], p>>] = "full"}
  BY KeptOf DEF Stays
<1> QED
  BY <1>1 DEF KeptAt, PieceSet

\* Telling the same of every title.
LEMMA ToldSame ==
    ASSUME \A t \in Titles : item'[t] = item[t] \/ ({item[t], item'[t]} \subseteq {"none", "pending", "moving", "fs_done"})
    PROVE  Told' = Told
<1> DEFINE word(s) == CASE s = "moved" -> "moved"
                        [] s = "split" -> "split"
                        [] s \in {"skipped", "failed", "rolled_back"} -> "stayed"
                        [] OTHER -> "open"
<1>1. \A t \in Titles : word(item'[t]) = word(item[t])
  OBVIOUS
<1> QED
  BY <1>1 DEF Told

\* One piece changes place.
LEMMA OneShifts ==
    ASSUME SafeInv', item' = item, cat' = cat, torn' = torn,
           NEW h \in Titles, NEW n \in OpsOf(h), item[h] \in {"moving", "fs_done"},
           \A t \in Titles : \A i \in OpsOf(t) : t # h \/ i # n => Stays(t, i)
    PROVE  Contract!Shift(<<h, n>>)
<1> DEFINE S == {p \in {"src", "dst"} : disk'[<<h, n, p>>] = "full"}
           x == <<h, n>>
<1>1. x \in PieceSet /\ x[1] = h
  BY KeptOf
<1>2. S \in SUBSET {"src", "dst"} /\ S # {}
  BY DEF SafeInv, DiskInv, NothingLost, Whole
<1>3. \A y \in PieceSet : KeptAt'[y] = IF y = x THEN S ELSE KeptAt[y]
  <2> SUFFICES ASSUME NEW y \in PieceSet PROVE KeptAt'[y] = IF y = x THEN S ELSE KeptAt[y]
    OBVIOUS
  <2>1. KeptAt'[y] = {p \in {"src", "dst"} : disk'[<<y[1], y[2], p>>] = "full"}
    BY DEF KeptAt, PieceSet
  <2>2. KeptAt[y] = {p \in {"src", "dst"} : disk[<<y[1], y[2], p>>] = "full"}
    BY DEF KeptAt
  <2>3. CASE y = x
    BY <2>1, <2>3
  <2>4. CASE y # x
    <3>1. y[1] \in Titles /\ y[2] \in OpsOf(y[1]) /\ (y[1] # h \/ y[2] # n)
      BY <2>4, KeptOf
    <3>2. Stays(y[1], y[2])
      BY <3>1
    <3> QED
      BY <2>1, <2>2, <2>4, <3>2 DEF Stays
  <2> QED
    BY <2>3, <2>4
<1>4. KeptAt' = [KeptAt EXCEPT ![x] = S]
  <2> HIDE DEF S, x
  <2>1. KeptAt' = [y \in PieceSet |-> KeptAt'[y]]
    BY DEF KeptAt, PieceSet
  <2>2. [KeptAt EXCEPT ![x] = S] = [y \in PieceSet |-> IF y = x THEN S ELSE KeptAt[y]]
    BY DEF KeptAt
  <2> QED
    BY <1>3, <2>1, <2>2
<1>5. Told' = Told
  BY ToldSame
<1>6. Told[h] = "open"
  BY DEF Told
<1> HIDE DEF S
<1> QED
  BY <1>1, <1>2, <1>4, <1>5, <1>6 DEF Contract!Shift, Contract!Ends

\* Titles are closed.
LEMMA TitlesClose ==
    ASSUME disk' = disk, cat' = cat, torn' = torn, NEW S \in SUBSET Titles,
           \A t \in S : Told[t] = "open" /\ Told'[t] # "open" /\ (t \notin torn => Honest(t)'),
           \A t \in Titles \ S : Told'[t] = Told[t]
    PROVE  Contract!Close(S)
<1> DEFINE word == [t \in S |-> Told'[t]]
<1>1. \A t \in Titles : Told'[t] \in {"moved", "stayed", "split", "open"}
  BY DEF Told
<1>2. word \in [S -> {"moved", "stayed", "split"}]
  BY <1>1
<1>3. KeptAt' = KeptAt
  BY DEF KeptAt, PieceSet
<1>4. ASSUME NEW t \in S, t \notin torn PROVE Contract!Earned(t, word[t])
  <2>1. Honest(t)' /\ t \in Titles
    BY <1>4
  <2>2. \A p \in {"src", "dst"} : (\A i \in OpsOf(t) : disk'[<<t, i, p>>] = "full") => Contract!AllAt(t, p)
    BY <2>1, AllWholeIsAllAt DEF AllWhole, Whole
  <2>3. CASE item'[t] = "moved"
    <3>1. word[t] = "moved"
      BY <2>1, <2>3 DEF Told
    <3> QED
      BY <2>1, <2>2, <2>3, <3>1 DEF Contract!Earned, Honest, Whole
  <2>4. CASE item'[t] \in {"skipped", "failed", "rolled_back"}
    <3>1. word[t] = "stayed"
      BY <2>1, <2>4 DEF Told
    <3> QED
      BY <2>1, <2>2, <2>4, <3>1 DEF Contract!Earned, Honest, Whole
  <2>5. CASE item'[t] = "split"
    <3>1. word[t] = "split"
      BY <2>1, <2>5 DEF Told
    <3> QED
      BY <2>1, <2>2, <2>5, <3>1 DEF Contract!Earned, Honest, Whole
  <2> QED
    BY <2>1, <2>3, <2>4, <2>5 DEF Told
<1>5. Told' = [t \in Titles |-> IF t \in S THEN word[t] ELSE Told[t]]
  <2>1. \A t \in Titles : Told'[t] = IF t \in S THEN word[t] ELSE Told[t]
    OBVIOUS
  <2>2. Told' = [t \in Titles |-> Told'[t]]
    BY DEF Told
  <2> HIDE DEF word
  <2> QED
    BY <2>1, <2>2
<1> HIDE DEF word
<1> QED
  BY <1>2, <1>3, <1>4, <1>5 DEF Contract!Close

\* Nothing that the contract speaks of changes.
LEMMA NothingTold ==
    ASSUME \A t \in Titles : \A i \in OpsOf(t) : Stays(t, i), cat' = cat, torn' = torn,
           \A t \in Titles : item'[t] = item[t] \/ ({item[t], item'[t]} \subseteq {"none", "pending", "moving", "fs_done"})
    PROVE  UNCHANGED Contract!contract
BY KeptStays, ToldSame DEF Contract!contract

\* Every step of the code is a step of the contract or changes nothing there.
LEMMA StepKeepsContract ==
    ASSUME Reliable, SafeInv, TrueInv, SafeInv', TrueInv', Next
    PROVE  Contract!Onwards \/ UNCHANGED Contract!contract
<1>w. w \in Workers /\ TypeOK
  BY DEF SafeInv, TypeOK
<1>s. /\ disk \in [Slots -> Contents]
      /\ \A t \in Titles : \A i \in OpsOf(t) : \A p \in Places : <<t, i, p>> \in Slots
  BY <1>w, SlotsOf
<1>h. \A t \in Titles : t \notin torn' => Honest(t)'
  BY DEF TrueInv, Truth, Sound
<1>0. ~InsertError /\ \A t \in Titles : \A i \in OpsOf(t) : ~Appear(t, i)
  BY DEF Reliable, InsertError, Appear
<1>1. CASE Plan \/ Launch \/ ScanStart \/ ScanCatalogue \/ ScanEnd \/ ApplyError \/ EndJob \/ CloseJob
           \/ \E t \in Titles : RecoverFilesDone(t)
  <2>1. disk' = disk /\ cat' = cat /\ item' = item /\ torn' = torn
    BY <1>1 DEF Plan, Launch, ScanStart, ScanCatalogue, ScanEnd, ApplyError, EndJob, CloseJob, RecoverFilesDone
  <2> QED
    BY <2>1, NothingTold DEF Stays
<1>2. ASSUME NEW t \in Titles, TakeUnit(t) PROVE UNCHANGED Contract!contract
  <2>1. /\ disk' = disk /\ cat' = cat /\ torn' = torn /\ item' = [item EXCEPT ![t] = "moving"]
        /\ w.pc = "next" /\ t \in w.todo
    BY <1>2 DEF TakeUnit, SetItem, Reliable
  <2>2. item[t] = "pending"
    BY <2>1 DEF SafeInv, WorkInv, Queued, Modes
  <2>3. \A u \in Titles : item'[u] = IF u = t THEN "moving" ELSE item[u]
    BY <2>1, <1>w DEF TypeOK
  <2> QED
    BY <2>1, <2>2, <2>3, NothingTold DEF Stays
<1>3. CASE FilesDone
  <2>1. /\ disk' = disk /\ cat' = cat /\ torn' = torn /\ item' = [item EXCEPT ![w.t] = "fs_done"]
        /\ w.pc = "fs_done"
    BY <1>3 DEF FilesDone, SetItem, Reliable
  <2>2. item[w.t] \in {"moving", "fs_done"}
    BY <2>1 DEF SafeInv, WorkInv, InJournal
  <2>3. \A u \in Titles : item'[u] = IF u = w.t THEN "fs_done" ELSE item[u]
    BY <2>1, <1>w DEF TypeOK
  <2> QED
    BY <2>1, <2>2, <2>3, NothingTold DEF Stays
<1>4. CASE MoveEntry
  <2>1. w.t \in Titles /\ w.i \in OpsOf(w.t) /\ item[w.t] \in {"moving", "fs_done"}
    BY <1>4, Hand DEF MoveEntry, EntryTaken, Rename, StartCopy, FinishCopy, PlaceCopy,
       ClearPart, ClearAll, Leftover, EntryError
  <2>2. /\ item' = item /\ cat' = cat /\ torn' = torn
        /\ \A t \in Titles : \A i \in OpsOf(t) : t # w.t \/ i # w.i => Stays(t, i)
    BY <1>4, EntryEffect
  <2>3. Contract!Shift(<<w.t, w.i>>)
    BY <2>1, <2>2, OneShifts
  <2>4. <<w.t, w.i>> \in PieceSet
    BY <2>1, KeptOf
  <2> QED
    BY <2>3, <2>4 DEF Contract!Onwards
<1>5. CASE RemovePart \/ Sweep \/ Purge
  <2>1. /\ w.t \in Titles /\ item[w.t] \in {"moving", "fs_done"}
        /\ item' = item /\ cat' = cat /\ torn' = torn
        /\ disk' = disk \/ disk' = [disk EXCEPT ![At("src")] = "part"] \/ disk' = [disk EXCEPT ![At("src")] = "none"]
    BY <1>5, <1>w DEF RemovePart, Sweep, Purge, RemoveSource, SafeInv, WorkInv, InJournal, TypeOK, InHand
  <2>2. \A t \in Titles : \A i \in OpsOf(t) : t # w.t \/ i # w.i => Stays(t, i)
    BY <2>1, <1>s DEF At, Stays, Places
  <2>3. CASE w.i \in OpsOf(w.t)
    <3>1. Contract!Shift(<<w.t, w.i>>)
      BY <2>1, <2>2, <2>3, OneShifts
    <3>2. <<w.t, w.i>> \in PieceSet
      BY <2>1, <2>3, KeptOf
    <3> QED
      BY <3>1, <3>2 DEF Contract!Onwards
  <2>4. CASE w.i \notin OpsOf(w.t)
    BY <2>1, <2>2, <2>4, NothingTold
  <2> QED
    BY <2>3, <2>4
<1>6. ASSUME NEW t \in Titles, RecoverMoving(t) PROVE UNCHANGED Contract!contract
  <2>1. \A u \in Titles : \A i \in OpsOf(u) : Stays(u, i)
    BY <1>6, <1>s DEF RecoverMoving, Stays, Slots, Places
  <2>2. item' = item /\ cat' = cat /\ torn' = torn
    BY <1>6 DEF RecoverMoving
  <2> QED
    BY <2>1, <2>2, NothingTold
<1>7. CASE Apply
  <2>1. /\ cat' = [cat EXCEPT ![w.t] = "dst"] /\ w.pc = "apply" /\ w.t \in Titles
        /\ disk' = disk /\ item' = item /\ torn' = torn /\ item[w.t] \in {"moving", "fs_done"}
    BY <1>7, <1>w DEF Apply, TypeOK, InHand, SafeInv, WorkInv, InJournal
  <2>2. w.t \in torn \/ Contract!AllAt(w.t, "dst")
    BY <2>1, AllWholeIsAllAt DEF TrueInv, RecoverTrue, Sound
  <2>3. KeptAt' = KeptAt /\ Told' = Told
    BY <2>1, KeptStays, ToldSame DEF Stays
  <2>4. Told[w.t] = "open"
    BY <2>1 DEF Told
  <2>5. Contract!Relist(w.t)
    BY <2>1, <2>2, <2>3, <2>4 DEF Contract!Relist
  <2> QED
    BY <2>1, <2>5 DEF Contract!Onwards
<1>8. CASE SetMoved \/ Settle
  <2>1. /\ w.pc \in {"moved", "settle"} /\ w.t \in Titles /\ disk' = disk /\ cat' = cat /\ torn' = torn
        /\ item[w.t] \in {"moving", "fs_done"}
    BY <1>8, <1>w DEF SetMoved, Settle, TypeOK, InHand, SafeInv, WorkInv, InJournal
  <2>2. PICK s \in {"moved", "split", "failed", "rolled_back"} : item' = [item EXCEPT ![w.t] = s]
    BY <1>8 DEF SetMoved, Settle, SetItem, Reliable
  <2>3. \A u \in Titles : item'[u] = IF u = w.t THEN s ELSE item[u]
    BY <2>2, <1>w DEF TypeOK
  <2>4. Told[w.t] = "open" /\ Told'[w.t] # "open"
    BY <2>1, <2>3 DEF Told
  <2>5. \A t \in Titles \ {w.t} : Told'[t] = Told[t]
    BY <2>3 DEF Told
  <2>6. {w.t} \in SUBSET Titles
    BY <2>1
  <2>7. Contract!Close({w.t})
    BY <1>h, <2>1, <2>4, <2>5, <2>6, TitlesClose
  <2> QED
    BY <2>6, <2>7 DEF Contract!Onwards
<1>9. CASE SkipPending
  <2> DEFINE S == {t \in Titles : item[t] = "pending" /\ job = "running"}
  <2>1. /\ disk' = disk /\ cat' = cat /\ torn' = torn
        /\ \A t \in Titles : item'[t] = IF t \in S THEN "skipped" ELSE item[t]
    BY <1>9 DEF SkipPending, Reliable
  <2>2. \A t \in S : Told[t] = "open" /\ Told'[t] # "open"
    BY <2>1 DEF Told
  <2>3. \A t \in Titles \ S : Told'[t] = Told[t]
    BY <2>1 DEF Told
  <2>4. S \in SUBSET Titles
    OBVIOUS
  <2> HIDE DEF S
  <2>5. Contract!Close(S)
    BY <1>h, <2>1, <2>2, <2>3, <2>4, TitlesClose
  <2> QED
    BY <2>4, <2>5 DEF Contract!Onwards
<1>10. ASSUME NEW E \in SUBSET Titles, InsertJob(E) PROVE Contract!Onwards
  <2>1. /\ disk' = disk /\ cat' = cat /\ torn' = torn /\ w.pc = "planned"
        /\ \A t \in Titles : item'[t] = IF t \in E THEN "pending" ELSE "skipped"
    BY <1>10 DEF InsertJob
  <2>2. \A t \in Titles : item[t] = "none"
    BY <2>1 DEF SafeInv, Fresh
  <2>3. \A t \in Titles \ E : Told[t] = "open" /\ Told'[t] # "open"
    BY <2>1, <2>2 DEF Told
  <2>4. \A t \in Titles \ (Titles \ E) : Told'[t] = Told[t]
    BY <2>1, <2>2 DEF Told
  <2>5. Contract!Close(Titles \ E)
    BY <1>h, <2>1, <2>3, <2>4, TitlesClose
  <2> QED
    BY <2>5 DEF Contract!Onwards
<1>11. CASE Crash
  <2> DEFINE S == {t \in Titles : t = w.t /\ item[t] = "fs_done" /\ (w.way = "back" \/ w.pc = "settle")}
  <2>1. disk' = disk /\ cat' = cat /\ item' = item /\ torn' = torn \cup S
    BY <1>11 DEF Crash
  <2>2. KeptAt' = KeptAt /\ Told' = Told
    BY <2>1, KeptStays, ToldSame DEF Stays
  <2>3. S \in SUBSET Titles
    OBVIOUS
  <2> HIDE DEF S
  <2>4. Contract!Distrust(S)
    BY <2>1, <2>2 DEF Contract!Distrust
  <2> QED
    BY <2>3, <2>4 DEF Contract!Onwards
<1> QED
  BY <1>0, <1>1, <1>2, <1>3, <1>4, <1>5, <1>6, <1>7, <1>8, <1>9, <1>10, <1>11 DEF Next, Worker

\* The first state is one of the contract.
LEMMA InitKeepsContract == ASSUME Init PROVE Contract!Begin
<1>1. \A t \in Titles : \A i \in OpsOf(t) : \A p \in {"src", "dst"} :
        disk[<<t, i, p>>] = IF p = "src" THEN "full" ELSE "none"
  <2> SUFFICES ASSUME NEW t \in Titles, NEW i \in OpsOf(t), NEW p \in {"src", "dst"}
               PROVE  disk[<<t, i, p>>] = IF p = "src" THEN "full" ELSE "none"
    OBVIOUS
  <2>1. <<t, i, p>> \in Slots
    BY OpsInRange DEF Slots, Places
  <2> QED
    BY <2>1 DEF Init
<1>2. ASSUME NEW x \in PieceSet PROVE {p \in {"src", "dst"} : disk[<<x[1], x[2], p>>] = "full"} = {"src"}
  BY <1>1, KeptOf
<1>3. KeptAt = [x \in PieceSet |-> {"src"}]
  BY <1>2 DEF KeptAt
<1>4. Told = [t \in Titles |-> "open"]
  BY DEF Init, Told
<1> QED
  BY <1>3, <1>4 DEF Init, Contract!Begin

\* With a journal that is written and destinations nobody else takes, what
\* runMove, moveEntry and RecoverMoves do is a move as MoveContract promises
\* it: pieces change place one at a time and always keep a whole copy, the
\* catalogue follows a title that has arrived, and a title is closed once,
\* with what has become of it.
THEOREM MoveKeepsContract == Reliable => (Spec => KeepsContract)
<1> SUFFICES ASSUME Reliable PROVE Spec => Contract!Promise
  BY DEF KeepsContract
<1>1. Init => SafeInv /\ TrueInv /\ Contract!Begin
  BY InitSafe, InitTrue, InitKeepsContract
<1>2. SafeInv /\ TrueInv /\ [Next]_vars => (SafeInv /\ TrueInv)'
  BY NextSafe, NextTrue
<1>3. SafeInv /\ TrueInv /\ SafeInv' /\ TrueInv' /\ [Next]_vars => [Contract!Onwards]_(Contract!contract)
  <2> SUFFICES ASSUME SafeInv, TrueInv, SafeInv', TrueInv', [Next]_vars
               PROVE  Contract!Onwards \/ UNCHANGED Contract!contract
    OBVIOUS
  <2>1. CASE UNCHANGED vars
    BY <2>1, NothingTold DEF vars, Stays
  <2>2. CASE Next
    BY <2>2, StepKeepsContract
  <2> QED
    BY <2>1, <2>2
<1> QED
  BY <1>1, <1>2, <1>3, PTL DEF Spec, Contract!Promise

=============================================================================
