------------------------------- MODULE Upload -------------------------------
(***************************************************************************)
(* Resumable uploads of internal/upload: the rows of the uploads table,    *)
(* the staging files, the library folder they end in, and the requests and *)
(* the sweep that change them.                                             *)
(*                                                                         *)
(* WriteAt holds the upload's own mutex from its first check to the end of *)
(* finalize, so an upload has one writer; Delete and Sweep take no mutex,  *)
(* and different uploads share nothing but the library folder. All uploads *)
(* of an instance have the same file name, the case in which they meet.    *)
(***************************************************************************)
EXTENDS Integers

CONSTANTS
    Uploads,    \* upload ids
    NoUpload,   \* nobody's file
    Library,    \* a file that was in the library before
    Size,       \* declared size, in pieces
    MaxChunk,   \* pieces one PUT may carry
    Names,      \* candidate names uniqueDest tries
    Taken,      \* the sets of names that may be taken at first
    Faults,     \* what may go wrong
    MaxFaults   \* bound on how often it does

\* "io": a read, copy or removal fails; "db": a statement fails, be it for
\* the database or because the client went away and took its context along;
\* "crash": the process stops. "cross" is not counted: with it, staging and
\* library may be on two file systems, and a rename between them fails.
FaultKinds == {"io", "db", "crash", "cross"}

ASSUME UploadAssumption ==
    /\ NoUpload \notin Uploads /\ Library \notin Uploads \cup {NoUpload}
    /\ Size \in Nat \ {0} /\ MaxChunk \in Nat \ {0} /\ Names \in Nat \ {0}
    /\ Taken \subseteq SUBSET (1 .. Names)
    /\ Faults \subseteq FaultKinds
    /\ MaxFaults \in Nat

VARIABLES
    row,        \* status and offset_bytes of each upload's row
    staged,     \* length of the staging file, or NoFile
    lib,        \* whose file has each candidate name, and whether it is whole
    catalogued, \* names that were ingested
    put,        \* the PUT that holds the upload's mutex
    del,        \* a DELETE of the upload
    sweep,      \* the sweep: the row it has read and what it is about to do
    faults,     \* faults so far
    clashed,    \* history: chose a name another upload was using as well
    unmarked    \* history: was finalized although it could not be marked

vars == <<row, staged, lib, catalogued, put, del, sweep, faults, clashed, unmarked>>

\* What no code keeps.
ghosts == <<clashed, unmarked>>

NoFile   == -1
Places   == 1 .. Names
Terminal == {"complete", "failed", "cancelled"}
Open     == {"open", "lapsed"} \* lapsed: expires_at has passed
Statuses == {"none", "processing", "gone"} \cup Open \cup Terminal
Rows     == [status: Statuses, offset: 0 .. Size]
Entries  == [by: Uploads \cup {NoUpload, Library}, whole: BOOLEAN]
Free     == [by |-> NoUpload, whole |-> FALSE]
Pcs      == {"idle", "insert", "write", "record", "process", "verify", "name",
             "place", "copy", "clear", "ingest", "complete", "fail", "mark"}

\* off: the offset the PUT began at; next: where it got to; dest: its name.
Puts == [pc: Pcs, off: 0 .. Size, next: 0 .. Size, dest: Places]
Idle == [pc |-> "idle", off |-> 0, next |-> 0, dest |-> 1]

Resting == [of |-> NoUpload, pc |-> "idle"]

\* Every variable has its type.
TypeOK ==
    /\ row \in [Uploads -> Rows]
    /\ staged \in [Uploads -> NoFile .. Size]
    /\ lib \in [Places -> Entries]
    /\ catalogued \in SUBSET Places
    /\ put \in [Uploads -> Puts]
    /\ del \in [Uploads -> {"idle", "mark"}]
    /\ sweep \in [of: Uploads \cup {NoUpload}, pc: {"idle", "remove", "mark"}]
    /\ faults \in 0 .. MaxFaults
    /\ clashed \in SUBSET Uploads /\ unmarked \in SUBSET Uploads

Init ==
    /\ row = [u \in Uploads |-> [status |-> "none", offset |-> 0]]
    /\ staged = [u \in Uploads |-> NoFile]
    /\ \E taken \in Taken :
         /\ lib = [n \in Places |-> IF n \in taken THEN [by |-> Library, whole |-> TRUE] ELSE Free]
         /\ catalogued = taken
    /\ put = [u \in Uploads |-> Idle]
    /\ del = [u \in Uploads |-> "idle"]
    /\ sweep = Resting
    /\ faults = 0 /\ clashed = {} /\ unmarked = {}

-----------------------------------------------------------------------------
(* Pieces the actions share.                                               *)

Fault(kind) ==
    /\ kind \in Faults /\ faults < MaxFaults
    /\ faults' = faults + 1

\* An UPDATE ... WHERE id = ?: a row that is not there is not updated, and
\* nothing is asked of the status it replaces.
SetStatus(u, s) ==
    row' = IF row[u].status \in {"none", "gone"} THEN row ELSE [row EXCEPT ![u].status = s]

\* The same, by a statement that may fail unnoticed.
TrySetStatus(u, s) ==
    \/ SetStatus(u, s) /\ UNCHANGED faults
    \/ Fault("db") /\ UNCHANGED row

Goto(u, pc) == put' = [put EXCEPT ![u].pc = pc]
Unlock(u) == put' = [put EXCEPT ![u] = Idle]
RemoveStaged(u) == staged' = [staged EXCEPT ![u] = NoFile]

-----------------------------------------------------------------------------
(* Create.                                                                 *)

\* The staging file comes first,
Create(u) ==
    /\ put[u].pc = "idle" /\ row[u].status = "none" /\ staged[u] = NoFile
    /\ staged' = [staged EXCEPT ![u] = 0]
    /\ Goto(u, "insert")
    /\ UNCHANGED <<row, lib, catalogued, del, sweep, ghosts, faults>>

\* then the row, or the file goes again.
Insert(u) ==
    /\ put[u].pc = "insert"
    /\ \/ row' = [row EXCEPT ![u] = [status |-> "open", offset |-> 0]] /\ UNCHANGED <<staged, faults>>
       \/ Fault("db") /\ RemoveStaged(u) /\ UNCHANGED row
    /\ Unlock(u)
    /\ UNCHANGED <<lib, catalogued, del, sweep, ghosts>>

-----------------------------------------------------------------------------
(* WriteAt.                                                                *)

\* The mutex is free, the session open, the offset right and the file there.
Begin(u) ==
    /\ put[u].pc = "idle"
    /\ row[u].status = "open" /\ staged[u] # NoFile
    /\ put' = [put EXCEPT ![u] = [Idle EXCEPT !.pc = "write", !.off = row[u].offset]]
    /\ UNCHANGED <<row, staged, lib, catalogued, del, sweep, ghosts, faults>>

\* k pieces are written at the offset, unless the file was unlinked.
Extend(u, k) ==
    LET end == put[u].off + k IN
    staged' = [staged EXCEPT ![u] = IF @ = NoFile \/ @ > end THEN @ ELSE end]

\* Mutant: the next offset is where the chunk should have ended.
WriteFullChunk(u, k) ==
    /\ put[u].pc = "write"
    /\ k \in 0 .. MaxChunk /\ put[u].off + k <= Size
    /\ \E n \in k .. MaxChunk :
         /\ put[u].off + n <= Size
         /\ put' = [put EXCEPT ![u].pc = "record", ![u].next = put[u].off + n]
    /\ Extend(u, k)
    /\ UNCHANGED <<row, lib, catalogued, del, sweep, ghosts, faults>>

\* What the request carries, at most a chunk and at most what remains.
Write(u, k) ==
    /\ put[u].pc = "write"
    /\ k \in 0 .. MaxChunk /\ put[u].off + k <= Size
    /\ Extend(u, k)
    /\ put' = [put EXCEPT ![u].pc = "record", ![u].next = put[u].off + k]
    /\ UNCHANGED <<row, lib, catalogued, del, sweep, ghosts, faults>>

\* The request breaks off: its bytes stay, its offset is not recorded.
WriteError(u, k) ==
    /\ Fault("io")
    /\ put[u].pc = "write"
    /\ k \in 0 .. MaxChunk /\ put[u].off + k <= Size
    /\ Extend(u, k)
    /\ Unlock(u)
    /\ UNCHANGED <<row, lib, catalogued, del, sweep, ghosts>>

\* The offset is compared and set on an open row; the last one finalizes.
Record(u) ==
    /\ put[u].pc = "record"
    /\ row[u].status \in Open /\ row[u].offset = put[u].off
    /\ row' = [row EXCEPT ![u] = [status |-> "open", offset |-> put[u].next]]
    /\ IF put[u].next >= Size THEN put' = [put EXCEPT ![u] = [Idle EXCEPT !.pc = "process"]] ELSE Unlock(u)
    /\ UNCHANGED <<staged, lib, catalogued, del, sweep, ghosts, faults>>

\* Someone closed the session meanwhile, or the statement failed.
RecordRefused(u) ==
    /\ put[u].pc = "record"
    /\ \/ (row[u].status \notin Open \/ row[u].offset # put[u].off) /\ UNCHANGED faults
       \/ Fault("db")
    /\ Unlock(u)
    /\ UNCHANGED <<row, staged, lib, catalogued, del, sweep, ghosts>>

-----------------------------------------------------------------------------
(* finalize and fail.                                                      *)

\* Mutant: the session stays open while it is finalized.
SetProcessingNot(u) ==
    /\ put[u].pc = "process"
    /\ Goto(u, "verify")
    /\ UNCHANGED <<row, staged, lib, catalogued, del, sweep, ghosts, faults>>

SetProcessing(u) ==
    /\ put[u].pc = "process"
    /\ TrySetStatus(u, "processing")
    /\ unmarked' = IF faults' = faults THEN unmarked ELSE unmarked \cup {u}
    /\ Goto(u, "verify")
    /\ UNCHANGED <<staged, lib, catalogued, del, sweep, clashed>>

\* fsync, the size and the probe; then the library is looked up.
Verify(u) ==
    /\ put[u].pc = "verify" /\ staged[u] = Size
    /\ Goto(u, "name")
    /\ UNCHANGED <<row, staged, lib, catalogued, del, sweep, ghosts, faults>>

\* The file is missing, is not a video, or a step before its name failed.
Reject(u) ==
    /\ put[u].pc = "verify"
    /\ Goto(u, "fail")
    /\ UNCHANGED <<row, staged, lib, catalogued, del, sweep, ghosts, faults>>

\* Uploads that have chosen name n and are still putting a file there.
Choosers(n) == {v \in Uploads : put[v].pc \in {"place", "copy"} /\ put[v].dest = n}

\* Mutant: the first candidate is never looked at.
UniqueDestFirst(u) ==
    /\ put[u].pc = "name"
    /\ put' = [put EXCEPT ![u].pc = "place", ![u].dest = 1]
    /\ clashed' = IF Choosers(1) = {} THEN clashed ELSE clashed \cup Choosers(1) \cup {u}
    /\ UNCHANGED <<row, staged, lib, catalogued, del, sweep, faults, unmarked>>

\* uniqueDest: the first candidate that nobody has, if there is one.
UniqueDest(u) ==
    /\ put[u].pc = "name"
    /\ \/ \E n \in Places :
            /\ lib[n].by = NoUpload /\ \A m \in 1 .. (n - 1) : lib[m].by # NoUpload
            /\ put' = [put EXCEPT ![u].pc = "place", ![u].dest = n]
            /\ clashed' = IF Choosers(n) = {} THEN clashed ELSE clashed \cup Choosers(n) \cup {u}
       \/ /\ \A n \in Places : lib[n].by # NoUpload
          /\ Goto(u, "fail") /\ UNCHANGED clashed
    /\ UNCHANGED <<row, staged, lib, catalogued, del, sweep, faults, unmarked>>

\* atomicPlace by rename, which replaces what it finds.
Rename(u) ==
    /\ put[u].pc = "place" /\ staged[u] # NoFile
    /\ lib' = [lib EXCEPT ![put[u].dest] = [by |-> u, whole |-> TRUE]]
    /\ RemoveStaged(u)
    /\ Goto(u, "ingest")
    /\ UNCHANGED <<row, catalogued, del, sweep, ghosts, faults>>

\* atomicPlace by copy, into a file that must not exist.
StartCopy(u) ==
    /\ "cross" \in Faults
    /\ put[u].pc = "place" /\ staged[u] # NoFile /\ lib[put[u].dest].by = NoUpload
    /\ lib' = [lib EXCEPT ![put[u].dest] = [by |-> u, whole |-> FALSE]]
    /\ Goto(u, "copy")
    /\ UNCHANGED <<row, staged, catalogued, del, sweep, ghosts, faults>>

\* The copy goes on in the open files, whatever became of their names.
FinishCopy(u) ==
    /\ put[u].pc = "copy"
    /\ lib' = IF lib[put[u].dest].by = u THEN [lib EXCEPT ![put[u].dest].whole = TRUE] ELSE lib
    /\ Goto(u, "clear")
    /\ UNCHANGED <<row, staged, catalogued, del, sweep, ghosts, faults>>

\* A copy that cannot begin or does not end removes what has its name.
PlaceError(u) ==
    /\ \/ put[u].pc = "place" /\ staged[u] = NoFile /\ UNCHANGED faults
       \/ /\ put[u].pc = "place" /\ "cross" \in Faults /\ lib[put[u].dest].by # NoUpload
          /\ UNCHANGED faults
       \/ put[u].pc = "copy" /\ Fault("io")
    /\ lib' = [lib EXCEPT ![put[u].dest] = Free]
    /\ Goto(u, "fail")
    /\ UNCHANGED <<row, staged, catalogued, del, sweep, ghosts>>

\* The staging file of a copy is removed, if it can be.
ClearStaged(u) ==
    /\ put[u].pc = "clear"
    /\ \/ RemoveStaged(u) /\ UNCHANGED faults
       \/ Fault("io") /\ UNCHANGED staged
    /\ Goto(u, "ingest")
    /\ UNCHANGED <<row, lib, catalogued, del, sweep, ghosts>>

\* IngestFile catalogues what it finds at the name.
Ingest(u) ==
    /\ put[u].pc = "ingest"
    /\ \/ /\ lib[put[u].dest].by # NoUpload
          /\ catalogued' = catalogued \cup {put[u].dest}
          /\ Goto(u, "complete") /\ UNCHANGED faults
       \/ /\ (lib[put[u].dest].by = NoUpload /\ UNCHANGED faults) \/ Fault("db")
          /\ Goto(u, "fail") /\ UNCHANGED catalogued
    /\ UNCHANGED <<row, staged, lib, del, sweep, ghosts>>

Complete(u) ==
    /\ put[u].pc = "complete"
    /\ \/ SetStatus(u, "complete") /\ Unlock(u) /\ UNCHANGED faults
       \/ Fault("db") /\ Goto(u, "fail") /\ UNCHANGED row
    /\ UNCHANGED <<staged, lib, catalogued, del, sweep, ghosts>>

\* fail reads the row for the staging file's path, removes the file
Fail(u) ==
    /\ put[u].pc = "fail"
    /\ \/ RemoveStaged(u) /\ UNCHANGED faults
       \/ Fault("db") /\ UNCHANGED staged
    /\ Goto(u, "mark")
    /\ UNCHANGED <<row, lib, catalogued, del, sweep, ghosts>>

\* and marks the row.
MarkFailed(u) ==
    /\ put[u].pc = "mark"
    /\ TrySetStatus(u, "failed")
    /\ Unlock(u)
    /\ UNCHANGED <<staged, lib, catalogued, del, sweep, ghosts>>

Finalize(u) ==
    \/ SetProcessing(u) \/ Verify(u) \/ Reject(u) \/ UniqueDest(u) \/ Rename(u)
    \/ StartCopy(u) \/ FinishCopy(u) \/ PlaceError(u) \/ ClearStaged(u)
    \/ Ingest(u) \/ Complete(u) \/ Fail(u) \/ MarkFailed(u)

-----------------------------------------------------------------------------
(* Delete, Sweep, time and restarts.                                       *)

\* Delete removes the file of any row it finds, whatever its status,
Delete(u) ==
    /\ del[u] = "idle" /\ row[u].status \notin {"none", "gone"}
    /\ RemoveStaged(u)
    /\ del' = [del EXCEPT ![u] = "mark"]
    /\ UNCHANGED <<row, lib, catalogued, put, sweep, ghosts, faults>>

\* and then marks the row.
MarkDeleted(u) ==
    /\ del[u] = "mark"
    /\ TrySetStatus(u, "cancelled")
    /\ del' = [del EXCEPT ![u] = "idle"]
    /\ UNCHANGED <<staged, lib, catalogued, put, sweep, ghosts>>

\* Mutant: only sessions with something staged are looked at.
SweepReadStaged(u) ==
    /\ sweep = Resting /\ row[u].status = "lapsed" /\ staged[u] # NoFile
    /\ sweep' = [of |-> u, pc |-> "remove"]
    /\ UNCHANGED <<row, staged, lib, catalogued, put, del, ghosts, faults>>

\* Sweep decides from the row it read,
SweepRead(u) ==
    /\ sweep = Resting /\ row[u].status = "lapsed"
    /\ sweep' = [of |-> u, pc |-> "remove"]
    /\ UNCHANGED <<row, staged, lib, catalogued, put, del, ghosts, faults>>

\* removes the file,
SweepRemove(u) ==
    /\ sweep = [of |-> u, pc |-> "remove"]
    /\ RemoveStaged(u)
    /\ sweep' = [of |-> u, pc |-> "mark"]
    /\ UNCHANGED <<row, lib, catalogued, put, del, ghosts, faults>>

\* and marks the row.
SweepMark(u) ==
    /\ sweep = [of |-> u, pc |-> "mark"]
    /\ TrySetStatus(u, "cancelled")
    /\ sweep' = Resting
    /\ UNCHANGED <<staged, lib, catalogued, put, del, ghosts>>

\* A row that ended seven days ago is deleted; no request lasts that long.
SweepOld(u) ==
    /\ row[u].status \in Terminal
    /\ put[u].pc = "idle" /\ del[u] = "idle" /\ sweep = Resting
    /\ staged' = IF row[u].status = "complete" THEN staged ELSE [staged EXCEPT ![u] = NoFile]
    /\ row' = [row EXCEPT ![u] = [status |-> "gone", offset |-> 0]]
    /\ UNCHANGED <<lib, catalogued, put, del, sweep, ghosts, faults>>

\* A day passes without a PUT.
Expire(u) ==
    /\ row[u].status = "open"
    /\ SetStatus(u, "lapsed")
    /\ UNCHANGED <<staged, lib, catalogued, put, del, sweep, ghosts, faults>>

\* The process stops anywhere; files and rows stay as they are.
Crash ==
    /\ Fault("crash")
    /\ put' = [u \in Uploads |-> Idle]
    /\ del' = [u \in Uploads |-> "idle"]
    /\ sweep' = Resting
    /\ UNCHANGED <<row, staged, lib, catalogued, ghosts>>

-----------------------------------------------------------------------------
Sweep(u) == SweepRead(u) \/ SweepRemove(u) \/ SweepMark(u)

Next ==
    \/ \E u \in Uploads :
        \/ Create(u) \/ Insert(u) \/ Begin(u) \/ Record(u) \/ RecordRefused(u)
        \/ \E k \in 0 .. MaxChunk : Write(u, k) \/ WriteError(u, k)
        \/ Finalize(u)
        \/ Delete(u) \/ MarkDeleted(u) \/ Sweep(u) \/ SweepOld(u) \/ Expire(u)
    \/ Crash

Spec == Init /\ [][Next]_vars

\* Sweep runs at every start and every fifteen minutes.
FairSpec == Spec /\ WF_vars(\E u \in Uploads : Sweep(u))

-----------------------------------------------------------------------------
(* Properties.                                                             *)

\* u's whole file is in the library and the catalogue knows it.
InLibrary(u) == \E n \in catalogued : lib[n] = [by |-> u, whole |-> TRUE]

\* WriteAt: the offset a client is told to resume from is backed by what is
\* staged, after broken requests and restarts as well.
OffsetStaged ==
    \A u \in Uploads :
        row[u].status \in Open /\ staged[u] # NoFile => row[u].offset <= staged[u]

\* finalize: an upload that is complete has its whole file in the library,
\* unless another upload chose the same name before the file was placed.
CompletePlaced ==
    \A u \in Uploads \ clashed : row[u].status = "complete" => InLibrary(u)

\* finalize: whatever is retried after a fault or a restart, an upload ends up
\* in the library under one name at most, unless its row still said "open".
PlacedOnce ==
    \A m, n \in Places :
        lib[m].by = lib[n].by /\ lib[m].by \in Uploads \ unmarked => m = n

\* Sweep: a session that is open and has expired does not stay open.
AbandonedEnds ==
    \A u \in Uploads :
        row[u].status = "lapsed" ~> row[u].status # "lapsed"

\* Claim of docs/uploads.md: "completed media stays in the library".
CompletedStays == \A u \in Uploads : row[u].status = "complete" => InLibrary(u)
=============================================================================
