---------------------------- MODULE UploadProofs ----------------------------
(***************************************************************************)
(* Proofs about Upload, for any number of uploads, sizes, names and faults.*)
(***************************************************************************)
EXTENDS Upload, TLAPS

\* Where an upload stands is a small record: changing one field of it, or
\* putting Idle in its place, leaves a well-typed table of requests.
LEMMA PutTyped ==
    ASSUME TypeOK, NEW u \in Uploads, NEW pc \in Pcs
    PROVE  /\ Goto(u, pc) => put' \in [Uploads -> Puts]
           /\ Unlock(u) => put' \in [Uploads -> Puts]
           /\ put' = [put EXCEPT ![u] = [Idle EXCEPT !.pc = pc]] => put' \in [Uploads -> Puts]
  <1>1. put[u] \in Puts /\ [put[u] EXCEPT !.pc = pc] \in Puts
    BY DEF TypeOK, Puts
  <1>2. Idle \in Puts /\ [Idle EXCEPT !.pc = pc] \in Puts
    BY UploadAssumption DEF Idle, Puts, Pcs, Places
  <1>3. Goto(u, pc) => put' \in [Uploads -> Puts]
    BY <1>1 DEF Goto, TypeOK
  <1>4. Unlock(u) => put' \in [Uploads -> Puts]
    BY <1>2 DEF Unlock, TypeOK
  <1>5. put' = [put EXCEPT ![u] = [Idle EXCEPT !.pc = pc]] => put' \in [Uploads -> Puts]
    BY <1>2 DEF TypeOK
  <1> QED BY <1>3, <1>4, <1>5

\* An UPDATE of a row's status, made or lost, leaves a well-typed table.
LEMMA StatusTyped ==
    ASSUME TypeOK, NEW u \in Uploads, NEW s \in Statuses
    PROVE  /\ SetStatus(u, s) => row' \in [Uploads -> Rows]
           /\ TrySetStatus(u, s) => row' \in [Uploads -> Rows] /\ faults' \in 0 .. MaxFaults
  <1>1. [row[u] EXCEPT !.status = s] \in Rows
    BY DEF TypeOK, Rows
  <1>2. SetStatus(u, s) => row' \in [Uploads -> Rows]
    BY <1>1 DEF SetStatus, TypeOK
  <1>3. \A k \in FaultKinds : Fault(k) => faults' \in 0 .. MaxFaults
    BY UploadAssumption DEF Fault, TypeOK
  <1> QED BY <1>2, <1>3 DEF TrySetStatus, TypeOK, FaultKinds

\* A counted fault stays within the bound.
LEMMA FaultTyped ==
    ASSUME TypeOK, NEW k, Fault(k)
    PROVE  faults' \in 0 .. MaxFaults
  BY UploadAssumption DEF Fault, TypeOK

\* What a chunk leaves of the staging file is no longer than the upload.
LEMMA ExtendTyped ==
    ASSUME TypeOK, NEW u \in Uploads, NEW k \in 0 .. MaxChunk, put[u].off + k <= Size, Extend(u, k)
    PROVE  staged' \in [Uploads -> NoFile .. Size]
  <1>1. put[u].off \in 0 .. Size /\ staged[u] \in NoFile .. Size
    BY DEF TypeOK, Puts
  <1>2. put[u].off + k \in NoFile .. Size
    BY <1>1, UploadAssumption DEF NoFile
  <1> QED BY <1>1, <1>2 DEF Extend, TypeOK

\* The removal of a staging file.
LEMMA RemoveTyped ==
    ASSUME TypeOK, NEW u \in Uploads, RemoveStaged(u)
    PROVE  staged' \in [Uploads -> NoFile .. Size]
  BY UploadAssumption DEF RemoveStaged, TypeOK, NoFile

\* What finalize may put at a name of the library.
LEMMA LibTyped ==
    ASSUME TypeOK, NEW n \in Places, NEW e \in Entries, lib' = [lib EXCEPT ![n] = e]
    PROVE  lib' \in [Places -> Entries]
  BY DEF TypeOK

-----------------------------------------------------------------------------
(* Types.                                                                  *)

\* No upload exists yet: every variable has its type.
LEMMA InitTyped == Init => TypeOK
  <1> SUFFICES ASSUME Init PROVE TypeOK
    OBVIOUS
  <1>1. [status |-> "none", offset |-> 0] \in Rows /\ Idle \in Puts
    BY UploadAssumption DEF Rows, Statuses, Idle, Puts, Pcs, Places
  <1>2. Free \in Entries /\ 0 \in 0 .. MaxFaults /\ NoFile \in NoFile .. Size
    BY UploadAssumption DEF Free, Entries, NoFile
  <1>3. Resting \in [of: Uploads \cup {NoUpload}, pc: {"idle", "remove", "mark"}]
    BY DEF Resting
  <1>4. lib \in [Places -> Entries] /\ catalogued \in SUBSET Places
    <2>1. PICK taken \in SUBSET Places :
            /\ lib = [n \in Places |-> IF n \in taken THEN [by |-> Library, whole |-> TRUE] ELSE Free]
            /\ catalogued = taken
      BY UploadAssumption DEF Init, Places
    <2>2. [by |-> Library, whole |-> TRUE] \in Entries
      BY DEF Entries
    <2> QED BY <1>2, <2>1, <2>2
  <1> QED BY <1>1, <1>2, <1>3, <1>4 DEF Init, TypeOK

\* Create, WriteAt and their failures keep the types.
LEMMA WriteTyped ==
    ASSUME TypeOK, NEW u \in Uploads,
           \/ Create(u) \/ Insert(u) \/ Begin(u) \/ Record(u) \/ RecordRefused(u)
           \/ \E k \in 0 .. MaxChunk : Write(u, k) \/ WriteError(u, k)
    PROVE  TypeOK'
  <1>0. /\ row[u] \in Rows /\ put[u] \in Puts /\ staged[u] \in NoFile .. Size
        /\ {"insert", "write", "record", "process"} \subseteq Pcs
    BY DEF TypeOK, Pcs
  <1>1. CASE Create(u)
    <2>1. staged' \in [Uploads -> NoFile .. Size]
      BY <1>1, UploadAssumption DEF Create, TypeOK, NoFile
    <2>2. put' \in [Uploads -> Puts]
      BY <1>1, <1>0, PutTyped DEF Create
    <2> QED BY <1>1, <2>1, <2>2 DEF Create, TypeOK, ghosts
  <1>2. CASE Insert(u)
    <2>1. [status |-> "open", offset |-> 0] \in Rows
      BY UploadAssumption DEF Rows, Statuses, Open
    <2>2. row' \in [Uploads -> Rows]
      BY <1>2, <2>1 DEF Insert, TypeOK
    <2>3. staged' \in [Uploads -> NoFile .. Size] /\ faults' \in 0 .. MaxFaults
      BY <1>2, RemoveTyped, FaultTyped DEF Insert, TypeOK
    <2>4. put' \in [Uploads -> Puts]
      BY <1>2, <1>0, PutTyped DEF Insert
    <2> QED BY <1>2, <2>2, <2>3, <2>4 DEF Insert, TypeOK, ghosts
  <1>3. CASE Begin(u)
    <2>1. [Idle EXCEPT !.pc = "write", !.off = row[u].offset] \in Puts
      <3>1. row[u].offset \in 0 .. Size /\ 0 \in 0 .. Size /\ 1 \in Places
        BY <1>0, UploadAssumption DEF Rows, Places
      <3>2. Idle \in Puts /\ "write" \in Pcs
        BY <3>1 DEF Idle, Puts, Pcs
      <3> QED BY <3>1, <3>2 DEF Puts
    <2> QED BY <1>3, <2>1 DEF Begin, TypeOK, ghosts
  <1>4. CASE Record(u)
    <2>1. [status |-> "open", offset |-> put[u].next] \in Rows
      BY <1>0 DEF Puts, Rows, Statuses, Open
    <2>2. row' \in [Uploads -> Rows]
      BY <1>4, <2>1 DEF Record, TypeOK
    <2>3. put' \in [Uploads -> Puts]
      BY <1>4, <1>0, PutTyped DEF Record
    <2> QED BY <1>4, <2>2, <2>3 DEF Record, TypeOK, ghosts
  <1>5. CASE RecordRefused(u)
    <2>1. put' \in [Uploads -> Puts] /\ faults' \in 0 .. MaxFaults
      BY <1>5, <1>0, PutTyped, FaultTyped DEF RecordRefused, TypeOK
    <2> QED BY <1>5, <2>1 DEF RecordRefused, TypeOK, ghosts
  <1>6. ASSUME NEW k \in 0 .. MaxChunk, Write(u, k) PROVE TypeOK'
    <2>1. put[u].off + k \in 0 .. Size
      BY <1>6, <1>0, UploadAssumption DEF Write, Puts
    <2>2. [put[u] EXCEPT !.pc = "record", !.next = put[u].off + k] \in Puts
      BY <1>0, <2>1 DEF Puts
    <2>3. put' \in [Uploads -> Puts]
      BY <1>6, <2>2 DEF Write, TypeOK
    <2>4. staged' \in [Uploads -> NoFile .. Size]
      BY <1>6, ExtendTyped DEF Write
    <2> QED BY <1>6, <2>3, <2>4 DEF Write, TypeOK, ghosts
  <1>7. ASSUME NEW k \in 0 .. MaxChunk, WriteError(u, k) PROVE TypeOK'
    <2>1. put' \in [Uploads -> Puts] /\ faults' \in 0 .. MaxFaults
      BY <1>7, <1>0, PutTyped, FaultTyped DEF WriteError
    <2>2. staged' \in [Uploads -> NoFile .. Size]
      BY <1>7, ExtendTyped DEF WriteError
    <2> QED BY <1>7, <2>1, <2>2 DEF WriteError, TypeOK, ghosts
  <1> QED BY <1>1, <1>2, <1>3, <1>4, <1>5, <1>6, <1>7

\* The steps of finalize and fail keep the types.
LEMMA FinalizeTyped ==
    ASSUME TypeOK, NEW u \in Uploads, Finalize(u)
    PROVE  TypeOK'
  <1>0. /\ put[u] \in Puts /\ put[u].dest \in Places /\ lib[put[u].dest] \in Entries
        /\ Pcs = {"idle", "insert", "write", "record", "process", "verify", "name",
                  "place", "copy", "clear", "ingest", "complete", "fail", "mark"}
        /\ {"processing", "complete", "failed"} \subseteq Statuses
    BY DEF TypeOK, Puts, Pcs, Statuses, Terminal
  <1>1. CASE SetProcessing(u)
    <2>1. row' \in [Uploads -> Rows] /\ faults' \in 0 .. MaxFaults
      BY <1>1, <1>0, StatusTyped DEF SetProcessing
    <2>2. put' \in [Uploads -> Puts]
      BY <1>1, <1>0, PutTyped DEF SetProcessing
    <2> QED BY <1>1, <2>1, <2>2 DEF SetProcessing, TypeOK
  <1>2. CASE Verify(u) \/ Reject(u)
    <2>1. put' \in [Uploads -> Puts]
      BY <1>2, <1>0, PutTyped DEF Verify, Reject
    <2> QED BY <1>2, <2>1 DEF Verify, Reject, TypeOK, ghosts
  <1>3. CASE UniqueDest(u)
    <2>1. \A n \in Places : [put[u] EXCEPT !.pc = "place", !.dest = n] \in Puts
      BY <1>0 DEF Puts
    <2>2. put' \in [Uploads -> Puts]
      <3>1. CASE Goto(u, "fail")
        BY <3>1, <1>0, PutTyped
      <3>2. CASE \E n \in Places : put' = [put EXCEPT ![u].pc = "place", ![u].dest = n]
        <4>1. PICK n \in Places : put' = [put EXCEPT ![u].pc = "place", ![u].dest = n]
          BY <3>2
        <4>2. put' = [put EXCEPT ![u] = [put[u] EXCEPT !.pc = "place", !.dest = n]]
          BY <4>1, <1>0 DEF TypeOK, Puts
        <4> QED BY <4>2, <2>1 DEF TypeOK
      <3> QED BY <1>3, <3>1, <3>2 DEF UniqueDest
    <2>3. clashed' \in SUBSET Uploads
      BY <1>3 DEF UniqueDest, TypeOK, Choosers
    <2> QED BY <1>3, <2>2, <2>3 DEF UniqueDest, TypeOK
  <1>4. CASE Rename(u)
    <2>1. [by |-> u, whole |-> TRUE] \in Entries
      BY DEF Entries
    <2>2. lib' \in [Places -> Entries]
      BY <1>4, <1>0, <2>1, LibTyped DEF Rename
    <2>3. put' \in [Uploads -> Puts] /\ staged' \in [Uploads -> NoFile .. Size]
      BY <1>4, <1>0, PutTyped, RemoveTyped DEF Rename
    <2> QED BY <1>4, <2>2, <2>3 DEF Rename, TypeOK, ghosts
  <1>5. CASE StartCopy(u)
    <2>1. [by |-> u, whole |-> FALSE] \in Entries
      BY DEF Entries
    <2>2. lib' \in [Places -> Entries]
      BY <1>5, <1>0, <2>1, LibTyped DEF StartCopy
    <2>3. put' \in [Uploads -> Puts]
      BY <1>5, <1>0, PutTyped DEF StartCopy
    <2> QED BY <1>5, <2>2, <2>3 DEF StartCopy, TypeOK, ghosts
  <1>6. CASE FinishCopy(u)
    <2>1. [lib[put[u].dest] EXCEPT !.whole = TRUE] \in Entries
      BY <1>0 DEF Entries
    <2>2. lib' \in [Places -> Entries]
      BY <1>6, <1>0, <2>1 DEF FinishCopy, TypeOK
    <2>3. put' \in [Uploads -> Puts]
      BY <1>6, <1>0, PutTyped DEF FinishCopy
    <2> QED BY <1>6, <2>2, <2>3 DEF FinishCopy, TypeOK, ghosts
  <1>7. CASE PlaceError(u)
    <2>1. Free \in Entries
      BY DEF Free, Entries
    <2>2. lib' \in [Places -> Entries]
      BY <1>7, <1>0, <2>1, LibTyped DEF PlaceError
    <2>3. put' \in [Uploads -> Puts] /\ faults' \in 0 .. MaxFaults
      BY <1>7, <1>0, PutTyped, FaultTyped DEF PlaceError, TypeOK
    <2> QED BY <1>7, <2>2, <2>3 DEF PlaceError, TypeOK, ghosts
  <1>8. CASE ClearStaged(u) \/ Fail(u)
    <2>1. staged' \in [Uploads -> NoFile .. Size] /\ faults' \in 0 .. MaxFaults
      BY <1>8, RemoveTyped, FaultTyped DEF ClearStaged, Fail, TypeOK
    <2>2. put' \in [Uploads -> Puts]
      BY <1>8, <1>0, PutTyped DEF ClearStaged, Fail
    <2> QED BY <1>8, <2>1, <2>2 DEF ClearStaged, Fail, TypeOK, ghosts
  <1>9. CASE Ingest(u)
    <2>1. catalogued' \in SUBSET Places
      BY <1>9, <1>0 DEF Ingest, TypeOK
    <2>2. put' \in [Uploads -> Puts] /\ faults' \in 0 .. MaxFaults
      BY <1>9, <1>0, PutTyped, FaultTyped DEF Ingest, TypeOK
    <2> QED BY <1>9, <2>1, <2>2 DEF Ingest, TypeOK, ghosts
  <1>10. CASE Complete(u)
    <2>1. row' \in [Uploads -> Rows]
      BY <1>10, <1>0, StatusTyped DEF Complete, TypeOK
    <2>2. put' \in [Uploads -> Puts] /\ faults' \in 0 .. MaxFaults
      BY <1>10, <1>0, PutTyped, FaultTyped DEF Complete, TypeOK
    <2> QED BY <1>10, <2>1, <2>2 DEF Complete, TypeOK, ghosts
  <1>11. CASE MarkFailed(u)
    <2>1. row' \in [Uploads -> Rows] /\ faults' \in 0 .. MaxFaults
      BY <1>11, <1>0, StatusTyped DEF MarkFailed
    <2>2. put' \in [Uploads -> Puts]
      BY <1>11, <1>0, PutTyped DEF MarkFailed
    <2> QED BY <1>11, <2>1, <2>2 DEF MarkFailed, TypeOK, ghosts
  <1> QED
    BY <1>1, <1>2, <1>3, <1>4, <1>5, <1>6, <1>7, <1>8, <1>9, <1>10, <1>11 DEF Finalize

\* Delete, Sweep and the passing of time keep the types.
LEMMA RestTyped ==
    ASSUME TypeOK, NEW u \in Uploads,
           Delete(u) \/ MarkDeleted(u) \/ Sweep(u) \/ SweepOld(u) \/ Expire(u)
    PROVE  TypeOK'
  <1> DEFINE Sweeps == [of: Uploads \cup {NoUpload}, pc: {"idle", "remove", "mark"}]
  <1>0. /\ {"cancelled", "gone", "lapsed"} \subseteq Statuses
        /\ sweep \in Sweeps /\ Resting \in Sweeps
        /\ [of |-> u, pc |-> "remove"] \in Sweeps /\ [of |-> u, pc |-> "mark"] \in Sweeps
    BY DEF TypeOK, Statuses, Terminal, Open, Resting
  <1>1. CASE Delete(u)
    <2>1. staged' \in [Uploads -> NoFile .. Size]
      BY <1>1, RemoveTyped DEF Delete
    <2>2. del' \in [Uploads -> {"idle", "mark"}]
      BY <1>1 DEF Delete, TypeOK
    <2> QED BY <1>1, <2>1, <2>2 DEF Delete, TypeOK, ghosts
  <1>2. CASE MarkDeleted(u)
    <2>1. row' \in [Uploads -> Rows] /\ faults' \in 0 .. MaxFaults
      BY <1>2, <1>0, StatusTyped DEF MarkDeleted
    <2>2. del' \in [Uploads -> {"idle", "mark"}]
      BY <1>2 DEF MarkDeleted, TypeOK
    <2> QED BY <1>2, <2>1, <2>2 DEF MarkDeleted, TypeOK, ghosts
  <1>3. CASE SweepRead(u)
    BY <1>3, <1>0 DEF SweepRead, TypeOK, ghosts
  <1>4. CASE SweepRemove(u)
    <2>1. staged' \in [Uploads -> NoFile .. Size]
      BY <1>4, RemoveTyped DEF SweepRemove
    <2> QED BY <1>4, <1>0, <2>1 DEF SweepRemove, TypeOK, ghosts
  <1>5. CASE SweepMark(u)
    <2>1. row' \in [Uploads -> Rows] /\ faults' \in 0 .. MaxFaults
      BY <1>5, <1>0, StatusTyped DEF SweepMark
    <2> QED BY <1>5, <1>0, <2>1 DEF SweepMark, TypeOK, ghosts
  <1>6. CASE SweepOld(u)
    <2>1. [status |-> "gone", offset |-> 0] \in Rows /\ NoFile \in NoFile .. Size
      BY <1>0, UploadAssumption DEF Rows, NoFile
    <2>2. row' \in [Uploads -> Rows] /\ staged' \in [Uploads -> NoFile .. Size]
      BY <1>6, <2>1 DEF SweepOld, TypeOK
    <2> QED BY <1>6, <2>2 DEF SweepOld, TypeOK, ghosts
  <1>7. CASE Expire(u)
    <2>1. row' \in [Uploads -> Rows]
      BY <1>7, <1>0, StatusTyped DEF Expire
    <2> QED BY <1>7, <2>1 DEF Expire, TypeOK, ghosts
  <1> QED BY <1>1, <1>2, <1>3, <1>4, <1>5, <1>6, <1>7 DEF Sweep

\* A restart keeps the types.
LEMMA CrashTyped ==
    ASSUME TypeOK, Crash
    PROVE  TypeOK'
  <1>1. Idle \in Puts /\ Resting \in [of: Uploads \cup {NoUpload}, pc: {"idle", "remove", "mark"}]
    BY UploadAssumption DEF Idle, Puts, Pcs, Places, Resting
  <1>2. faults' \in 0 .. MaxFaults
    BY FaultTyped DEF Crash
  <1> QED BY <1>1, <1>2 DEF Crash, TypeOK, ghosts

\* Every step keeps the types.
LEMMA NextTyped ==
    ASSUME TypeOK, [Next]_vars
    PROVE  TypeOK'
  <1>1. CASE UNCHANGED vars
    BY <1>1 DEF vars, TypeOK
  <1>2. ASSUME NEW u \in Uploads,
               \/ Create(u) \/ Insert(u) \/ Begin(u) \/ Record(u) \/ RecordRefused(u)
               \/ \E k \in 0 .. MaxChunk : Write(u, k) \/ WriteError(u, k)
        PROVE  TypeOK'
    BY <1>2, WriteTyped
  <1> QED
    BY <1>1, <1>2, FinalizeTyped, RestTyped, CrashTyped DEF Next

\* Upload: for any number of uploads, any sizes and any faults, every row,
\* staging file, request and library entry keeps its type; in particular no
\* offset and no staging file grows past the declared size.
THEOREM UploadTypeCorrect == Spec => []TypeOK
  <1> QED BY InitTyped, NextTyped, PTL DEF Spec

-----------------------------------------------------------------------------
(* The inductive invariant.                                                *)

\* The staging file holds what the row counts and what the PUT is about to
\* count.
BackedBy(u) ==
    /\ row[u].offset <= staged[u]
    /\ put[u].pc = "record" => put[u].next <= staged[u]

\* So it is for every staging file, whatever the row's status; a row that is
\* not there counts nothing.
Backed ==
    \A u \in Uploads :
        /\ staged[u] # NoFile => BackedBy(u)
        /\ row[u].status = "none" => row[u].offset = 0

Placing(u) == put[u].pc \in {"place", "copy"}

\* Two uploads that are placing a file at one name have clashed.
OneChooser ==
    \A u, v \in Uploads :
        u # v /\ Placing(u) /\ Placing(v) /\ put[u].dest = put[v].dest => u \in clashed

\* Nobody is placing a file where an upload that has not clashed has its own,
\* but that upload itself while it copies.
Undisturbed ==
    \A u, v \in Uploads :
        /\ Placing(v) /\ lib[put[v].dest].by = u
        /\ put[v].pc = "copy" => u # v
        => u \in clashed

\* How far the file of an upload that has not clashed is at its name.
Progress ==
    \A u \in Uploads \ clashed :
        /\ put[u].pc = "copy" => lib[put[u].dest].by = u
        /\ put[u].pc \in {"clear", "ingest", "complete"} =>
             lib[put[u].dest] = [by |-> u, whole |-> TRUE]
        /\ put[u].pc = "complete" => put[u].dest \in catalogued

\* No PUT is at work on a completed upload.
CompleteIdle ==
    \A u \in Uploads : row[u].status = "complete" => put[u].pc = "idle"

PlaceInv == OneChooser /\ Undisturbed /\ Progress /\ CompleteIdle /\ CompletePlaced

-----------------------------------------------------------------------------
(* What most steps leave alone.                                            *)

\* A step that only removes staging files, resets offsets and leaves those
\* requests that are about to record where they are.
Shrinks ==
    \A v \in Uploads :
        /\ staged'[v] \in {NoFile, staged[v]}
        /\ row'[v].offset \in {0, row[v].offset}
        /\ row'[v].status = "none" => row[v].status = "none"
        /\ put'[v].pc = "record" => put'[v] = put[v]

\* A step that touches neither the library nor a request that is placing a
\* file, and completes no upload.
Quiet ==
    /\ lib' = lib /\ clashed' = clashed /\ catalogued' = catalogued
    /\ \A v \in Uploads :
        /\ put'[v].pc \in {"place", "copy", "clear", "ingest", "complete"} => put'[v] = put[v]
        /\ row'[v].status = "complete" => row[v].status = "complete" /\ put'[v].pc = put[v].pc

\* Setting a status resets no offset and completes nothing by itself.
LEMMA StatusFrame ==
    ASSUME TypeOK, NEW u \in Uploads, NEW s \in Statuses \ {"none", "complete"},
           SetStatus(u, s) \/ TrySetStatus(u, s)
    PROVE  \A v \in Uploads :
               /\ row'[v].offset = row[v].offset
               /\ row'[v].status = "complete" => row[v].status = "complete"
               /\ row'[v].status = "none" => row[v].status = "none"
               /\ v # u => row'[v] = row[v]
               /\ row'[u].status = "complete" => row'[u] = row[u]
  <1>1. row \in [Uploads -> Rows] /\ s # "complete"
    BY DEF TypeOK
  <1>2. \/ row' = row
        \/ row' = [row EXCEPT ![u].status = s]
    BY DEF SetStatus, TrySetStatus
  <1> QED BY <1>1, <1>2 DEF Rows

\* A request that moves on to a pc at which it places nothing and records
\* nothing.
LEMMA PutFrame ==
    ASSUME TypeOK, NEW u \in Uploads,
           NEW pc \in Pcs \ {"place", "copy", "clear", "ingest", "complete", "record"},
           \/ Goto(u, pc) \/ Unlock(u)
           \/ put' = [put EXCEPT ![u] = [Idle EXCEPT !.pc = pc]]
    PROVE  /\ put'[u].pc \notin {"place", "copy", "clear", "ingest", "complete", "record"}
           /\ \A v \in Uploads \ {u} : put'[v] = put[v]
  <1>1. put \in [Uploads -> Puts] /\ put[u] \in Puts
    BY DEF TypeOK
  <1>2. CASE Goto(u, pc)
    BY <1>1, <1>2 DEF Goto, Puts
  <1>3. CASE Unlock(u)
    BY <1>1, <1>3 DEF Unlock, Idle
  <1>4. CASE put' = [put EXCEPT ![u] = [Idle EXCEPT !.pc = pc]]
    BY <1>1, <1>4 DEF Idle
  <1> QED BY <1>2, <1>3, <1>4

\* Such a step keeps what is staged in step with what is counted.
LEMMA ShrinksBacked ==
    ASSUME TypeOK, TypeOK', Backed, Shrinks
    PROVE  Backed'
  <1>0. \A u \in Uploads : row'[u].status = "none" => row'[u].offset = 0
    BY DEF Backed, Shrinks
  <1> SUFFICES ASSUME NEW u \in Uploads, staged'[u] # NoFile
               PROVE  /\ row'[u].offset <= staged'[u]
                      /\ put'[u].pc = "record" => put'[u].next <= staged'[u]
    BY <1>0 DEF Backed, BackedBy
  <1>1. staged'[u] = staged[u] /\ staged'[u] \in 0 .. Size
    BY UploadAssumption DEF Shrinks, TypeOK, NoFile
  <1>2. row[u].offset <= staged[u] /\ row'[u].offset \in {0, row[u].offset}
    BY <1>1 DEF Backed, BackedBy, Shrinks
  <1>3. put'[u].pc = "record" => put'[u] = put[u]
    BY DEF Shrinks
  <1> QED BY <1>1, <1>2, <1>3 DEF Backed, BackedBy

\* Such a step keeps every file where it is.
LEMMA QuietPlace ==
    ASSUME TypeOK, PlaceInv, Quiet
    PROVE  PlaceInv'
  <1> USE DEF PlaceInv
  <1>0. /\ lib' = lib /\ clashed' = clashed /\ catalogued' = catalogued
        /\ \A v \in Uploads :
            /\ put'[v].pc \in {"place", "copy", "clear", "ingest", "complete"} => put'[v] = put[v]
            /\ row'[v].status = "complete" => row[v].status = "complete" /\ put'[v].pc = put[v].pc
    BY DEF Quiet
  <1>1. \A v \in Uploads : Placing(v)' => Placing(v) /\ put'[v] = put[v]
    BY <1>0 DEF Placing
  <1>2. OneChooser'
    BY <1>0, <1>1 DEF OneChooser
  <1>3. Undisturbed'
    BY <1>0, <1>1 DEF Undisturbed
  <1>4. Progress'
    BY <1>0 DEF Progress
  <1>5. CompleteIdle'
    BY <1>0 DEF CompleteIdle
  <1>6. CompletePlaced'
    BY <1>0 DEF CompletePlaced, InLibrary
  <1> QED BY <1>2, <1>3, <1>4, <1>5, <1>6

\* The steps of Create, WriteAt and finalize that place nothing are quiet.
LEMMA RequestQuiet ==
    ASSUME TypeOK, CompleteIdle, NEW u \in Uploads,
           \/ Create(u) \/ Insert(u) \/ Begin(u) \/ Record(u) \/ RecordRefused(u)
           \/ \E k \in 0 .. MaxChunk : Write(u, k) \/ WriteError(u, k)
           \/ SetProcessing(u) \/ Verify(u) \/ Reject(u) \/ Fail(u) \/ MarkFailed(u)
    PROVE  Quiet
  <1> DEFINE P == {"place", "copy", "clear", "ingest", "complete"}
  <1>0. /\ put \in [Uploads -> Puts] /\ put[u] \in Puts /\ row \in [Uploads -> Rows]
        /\ {"insert", "write", "process", "verify", "name", "fail", "mark"} \subseteq
             Pcs \ {"place", "copy", "clear", "ingest", "complete", "record"}
        /\ {"processing", "failed"} \subseteq Statuses \ {"none", "complete"}
    BY DEF TypeOK, Pcs, Statuses, Terminal
  <1>1. lib' = lib /\ clashed' = clashed /\ catalogued' = catalogued
    BY DEF Create, Insert, Begin, Record, RecordRefused, Write, WriteError,
       SetProcessing, Verify, Reject, Fail, MarkFailed, ghosts
  <1>2. put'[u].pc \notin P /\ \A v \in Uploads \ {u} : put'[v] = put[v]
    <2>1. CASE Begin(u)
      <3>1. put'[u].pc = "write"
        BY <2>1, <1>0 DEF Begin, Idle
      <3> QED BY <2>1, <3>1, <1>0 DEF Begin
    <2>2. CASE \E k \in 0 .. MaxChunk : Write(u, k)
      <3>1. put'[u].pc = "record"
        BY <2>2, <1>0 DEF Write, Puts
      <3> QED BY <2>2, <3>1, <1>0 DEF Write
    <2>3. CASE Create(u)
      BY <2>3, <1>0, PutFrame DEF Create
    <2>4. CASE Insert(u) \/ RecordRefused(u) \/ MarkFailed(u)
      BY <2>4, <1>0, PutFrame DEF Insert, RecordRefused, MarkFailed
    <2>5. CASE \E k \in 0 .. MaxChunk : WriteError(u, k)
      BY <2>5, <1>0, PutFrame DEF WriteError
    <2>6. CASE Record(u)
      BY <2>6, <1>0, PutFrame DEF Record
    <2>7. CASE SetProcessing(u) \/ Verify(u)
      BY <2>7, <1>0, PutFrame DEF SetProcessing, Verify
    <2>8. CASE Reject(u) \/ Fail(u)
      BY <2>8, <1>0, PutFrame DEF Reject, Fail
    <2> QED BY <2>1, <2>2, <2>3, <2>4, <2>5, <2>6, <2>7, <2>8
  <1>3. \A v \in Uploads : row'[v].status = "complete" => row[v].status = "complete"
    <2>1. CASE Insert(u)
      BY <2>1, <1>0 DEF Insert
    <2>2. CASE Record(u)
      BY <2>2, <1>0 DEF Record, Rows
    <2>3. CASE SetProcessing(u) \/ MarkFailed(u)
      BY <2>3, <1>0, StatusFrame DEF SetProcessing, MarkFailed
    <2>4. CASE row' = row
      BY <2>4
    <2> QED
      BY <2>1, <2>2, <2>3, <2>4 DEF Create, Begin, RecordRefused, Write, WriteError,
         Verify, Reject, Fail
  <1>4. row'[u].status # "complete"
    <2>1. CASE put[u].pc # "idle"
      BY <2>1, <1>3 DEF CompleteIdle
    <2>2. CASE put[u].pc = "idle"
      BY <2>2, <1>3 DEF Create, Insert, Begin, Record, RecordRefused, Write, WriteError,
         SetProcessing, Verify, Reject, Fail, MarkFailed
    <2> QED BY <2>1, <2>2
  <1> QED BY <1>1, <1>2, <1>3, <1>4 DEF Quiet

\* Delete, Sweep, time and restarts are quiet.
LEMMA RestQuiet ==
    ASSUME TypeOK, CompleteIdle,
           \/ \E u \in Uploads : Delete(u) \/ MarkDeleted(u) \/ Sweep(u) \/ SweepOld(u) \/ Expire(u)
           \/ Crash
    PROVE  Quiet
  <1>0. row \in [Uploads -> Rows] /\ {"cancelled", "lapsed"} \subseteq Statuses \ {"none", "complete"}
    BY DEF TypeOK, Statuses, Terminal, Open
  <1>1. ASSUME NEW u \in Uploads, Delete(u) \/ SweepRead(u) \/ SweepRemove(u)
        PROVE  Quiet
    BY <1>1 DEF Delete, SweepRead, SweepRemove, ghosts, Quiet
  <1>2. ASSUME NEW u \in Uploads, MarkDeleted(u) \/ SweepMark(u) \/ Expire(u)
        PROVE  Quiet
    BY <1>2, <1>0, StatusFrame DEF MarkDeleted, SweepMark, Expire, ghosts, Quiet
  <1>3. ASSUME NEW u \in Uploads, SweepOld(u) PROVE Quiet
    BY <1>3, <1>0 DEF SweepOld, ghosts, Quiet
  <1>4. CASE Crash
    <2>1. \A v \in Uploads : put'[v].pc = "idle" /\ row'[v] = row[v]
      BY <1>4 DEF Crash, Idle
    <2>2. \A v \in Uploads : row[v].status = "complete" => put[v].pc = "idle"
      BY DEF CompleteIdle
    <2> QED BY <1>4, <2>1, <2>2 DEF Crash, ghosts, Quiet
  <1> QED BY <1>1, <1>2, <1>3, <1>4 DEF Sweep

-----------------------------------------------------------------------------
(* The steps that place a file.                                            *)

\* An upload that chooses a name, or finds none left.
LEMMA UniqueDestPlace ==
    ASSUME TypeOK, PlaceInv, NEW u \in Uploads, UniqueDest(u)
    PROVE  PlaceInv'
  <1> USE DEF PlaceInv
  <1>0. put \in [Uploads -> Puts] /\ put[u] \in Puts /\ put[u].pc = "name"
    BY DEF TypeOK, UniqueDest
  <1>1. CASE Goto(u, "fail") /\ clashed' = clashed
    <2>1. put'[u].pc = "fail" /\ \A v \in Uploads \ {u} : put'[v] = put[v]
      BY <1>1, <1>0 DEF Goto, Puts
    <2>2. row[u].status # "complete"
      BY <1>0 DEF CompleteIdle
    <2>3. Quiet
      BY <1>1, <2>1, <2>2 DEF UniqueDest, Quiet
    <2> QED BY <2>3, QuietPlace
  <1>2. ASSUME NEW n \in Places, lib[n].by = NoUpload,
               put' = [put EXCEPT ![u].pc = "place", ![u].dest = n],
               clashed' = IF Choosers(n) = {} THEN clashed ELSE clashed \cup Choosers(n) \cup {u}
        PROVE  PlaceInv'
    <2>1. /\ put'[u].pc = "place" /\ put'[u].dest = n
          /\ \A v \in Uploads \ {u} : put'[v] = put[v]
      BY <1>2, <1>0 DEF Puts
    <2>2. lib' = lib /\ row' = row /\ catalogued' = catalogued /\ clashed \subseteq clashed'
      BY <1>2 DEF UniqueDest
    <2>3. \A v \in Uploads \ {u} : (Placing(v)' => Placing(v)) /\ ~Placing(u)
      BY <2>1, <1>0 DEF Placing
    <2>4. OneChooser'
      <3> SUFFICES ASSUME NEW x \in Uploads, NEW y \in Uploads, x # y, Placing(x)', Placing(y)',
                          put'[x].dest = put'[y].dest
                   PROVE  x \in clashed'
        BY DEF OneChooser
      <3>1. CASE x # u /\ y # u
        BY <3>1, <2>1, <2>2, <2>3 DEF OneChooser
      <3>2. CASE x = u
        <4>1. y \in Choosers(n)
          BY <3>2, <2>1, <2>3 DEF Choosers, Placing
        <4> QED BY <4>1, <1>2, <3>2
      <3>3. CASE y = u
        <4>1. x \in Choosers(n)
          BY <3>3, <2>1, <2>3 DEF Choosers, Placing
        <4> QED BY <4>1, <1>2
      <3> QED BY <3>1, <3>2, <3>3
    <2>5. Undisturbed'
      <3> SUFFICES ASSUME NEW x \in Uploads, NEW y \in Uploads, Placing(y)',
                          lib'[put'[y].dest].by = x, put'[y].pc = "copy" => x # y
                   PROVE  x \in clashed'
        BY DEF Undisturbed
      <3>1. y # u
        BY <1>2, <2>1, <2>2, UploadAssumption
      <3> QED BY <3>1, <2>1, <2>2, <2>3 DEF Undisturbed
    <2>6. Progress'
      BY <2>1, <2>2 DEF Progress
    <2>7. CompleteIdle' /\ CompletePlaced'
      BY <1>0, <2>1, <2>2 DEF CompleteIdle, CompletePlaced, InLibrary
    <2> QED BY <2>4, <2>5, <2>6, <2>7
  <1> QED BY <1>1, <1>2 DEF UniqueDest

\* An upload that writes at its chosen name, or removes what is there: nobody
\* who has not clashed has a file there or is putting one there.
LEMMA LibStep ==
    ASSUME TypeOK, PlaceInv, NEW u \in Uploads, Placing(u),
           lib'[put[u].dest].by \in {u, NoUpload, lib[put[u].dest].by},
           \A m \in Places \ {put[u].dest} : lib'[m] = lib[m],
           clashed' = clashed, catalogued' = catalogued, row' = row,
           \A v \in Uploads \ {u} : put'[v] = put[v],
           put'[u].dest = put[u].dest,
           put'[u].pc \in {"copy", "clear", "ingest", "fail"},
           put'[u].pc = "copy" => lib'[put[u].dest].by = u,
           put'[u].pc \in {"clear", "ingest"} =>
               u \in clashed \/ lib'[put[u].dest] = [by |-> u, whole |-> TRUE]
    PROVE  PlaceInv'
  <1> USE DEF PlaceInv
  <1> DEFINE n == put[u].dest
  <1>0. /\ lib \in [Places -> Entries] /\ n \in Places
        /\ \A m \in Places \ {n} : lib'[m] = lib[m]
        /\ \A v \in Uploads : put[v].dest \in Places
        /\ catalogued \subseteq Places
    BY DEF TypeOK, Puts
  <1>1. \A x \in Uploads \ {u} : x \notin clashed =>
            /\ Placing(x) => put[x].dest # n
            /\ lib[n].by # x
    BY DEF OneChooser, Undisturbed
  <1>2. \A v \in Uploads \ {u} : Placing(v)' <=> Placing(v)
    BY DEF Placing
  <1>3. OneChooser'
    <2> SUFFICES ASSUME NEW x \in Uploads, NEW y \in Uploads, x # y, Placing(x)', Placing(y)',
                        put'[x].dest = put'[y].dest
                 PROVE  x \in clashed
      BY DEF OneChooser
    <2>1. Placing(x) /\ Placing(y) /\ put[x].dest = put[y].dest
      BY <1>2
    <2> QED BY <2>1 DEF OneChooser
  <1>4. Undisturbed'
    <2> SUFFICES ASSUME NEW x \in Uploads, NEW y \in Uploads, Placing(y)',
                        lib'[put'[y].dest].by = x, put'[y].pc = "copy" => x # y
                 PROVE  x \in clashed
      BY DEF Undisturbed
    <2>1. CASE y = u
      BY <2>1, <1>0 DEF Placing
    <2>2. CASE y # u /\ put[y].dest # n
      BY <2>2, <1>0, <1>2 DEF Undisturbed
    <2>3. CASE y # u /\ put[y].dest = n
      <3>1. u \in clashed /\ lib'[n].by = x /\ Placing(y)
        BY <2>3, <1>2 DEF OneChooser
      <3>2. lib'[n].by = x /\ x # NoUpload
        BY <3>1, UploadAssumption
      <3>3. CASE lib'[n].by = u
        BY <3>1, <3>2, <3>3
      <3>4. CASE lib'[n].by = lib[n].by
        BY <3>1, <3>2, <3>4, <2>3 DEF Undisturbed
      <3> QED BY <3>2, <3>3, <3>4
    <2> QED BY <2>1, <2>2, <2>3
  <1>5. Progress'
    <2> SUFFICES ASSUME NEW x \in Uploads, x \notin clashed
                 PROVE  /\ put'[x].pc = "copy" => lib'[put'[x].dest].by = x
                        /\ put'[x].pc \in {"clear", "ingest", "complete"} =>
                             lib'[put'[x].dest] = [by |-> x, whole |-> TRUE]
                        /\ put'[x].pc = "complete" => put'[x].dest \in catalogued'
      BY DEF Progress
    <2>1. CASE x = u
      BY <2>1, <1>0
    <2>2. CASE x # u /\ put[x].dest # n
      BY <2>2, <1>0 DEF Progress
    <2>3. CASE x # u /\ put[x].dest = n
      <3>1. ~Placing(x) /\ lib[n].by # x /\ put'[x] = put[x]
        BY <2>3, <1>1
      <3>2. put[x].pc \notin {"clear", "ingest", "complete"}
        <4>1. [by |-> x, whole |-> TRUE].by = x
          OBVIOUS
        <4>2. lib[put[x].dest] # [by |-> x, whole |-> TRUE]
          BY <4>1, <3>1, <2>3
        <4> QED BY <4>2 DEF Progress
      <3> QED BY <3>1, <3>2 DEF Placing
    <2> QED BY <2>1, <2>2, <2>3
  <1>6. CompleteIdle'
    BY DEF CompleteIdle, Placing
  <1>7. CompletePlaced'
    <2> SUFFICES ASSUME NEW x \in Uploads, x \notin clashed, row[x].status = "complete"
                 PROVE  \E m \in catalogued : lib'[m] = [by |-> x, whole |-> TRUE]
      BY DEF CompletePlaced, InLibrary
    <2>1. x # u
      BY DEF CompleteIdle, Placing
    <2>2. PICK m \in catalogued : lib[m] = [by |-> x, whole |-> TRUE]
      BY DEF CompletePlaced, InLibrary
    <2>3. m # n
      BY <2>1, <2>2, <1>1
    <2> QED BY <2>2, <2>3, <1>0
  <1> QED BY <1>3, <1>4, <1>5, <1>6, <1>7

\* rename, copy, the end of a copy and its failure.
LEMMA WriterPlace ==
    ASSUME TypeOK, PlaceInv, NEW u \in Uploads,
           Rename(u) \/ StartCopy(u) \/ FinishCopy(u) \/ PlaceError(u)
    PROVE  PlaceInv'
  <1> USE DEF PlaceInv
  <1>0. /\ put \in [Uploads -> Puts] /\ put[u] \in Puts
        /\ lib \in [Places -> Entries] /\ put[u].dest \in Places
        /\ Placing(u)
    BY DEF TypeOK, Puts, Placing, Rename, StartCopy, FinishCopy, PlaceError
  <1>1. clashed' = clashed /\ catalogued' = catalogued /\ row' = row
    BY DEF Rename, StartCopy, FinishCopy, PlaceError, ghosts
  <1>2. ASSUME NEW pc \in Pcs, Goto(u, pc)
        PROVE  /\ put'[u].pc = pc /\ put'[u].dest = put[u].dest
               /\ \A v \in Uploads \ {u} : put'[v] = put[v]
    BY <1>2, <1>0 DEF Goto, Puts
  <1>3. {"copy", "clear", "ingest", "fail"} \subseteq Pcs
    BY DEF Pcs
  <1>4. CASE Rename(u)
    <2>1. /\ lib'[put[u].dest] = [by |-> u, whole |-> TRUE] /\ lib'[put[u].dest].by = u
          /\ \A m \in Places \ {put[u].dest} : lib'[m] = lib[m]
      BY <1>4, <1>0 DEF Rename
    <2>2. /\ put'[u].pc = "ingest" /\ put'[u].dest = put[u].dest
          /\ \A v \in Uploads \ {u} : put'[v] = put[v]
      BY <1>4, <1>2, <1>3 DEF Rename
    <2> QED BY <1>0, <1>1, <2>1, <2>2, LibStep
  <1>5. CASE StartCopy(u)
    <2>1. /\ lib'[put[u].dest].by = u
          /\ \A m \in Places \ {put[u].dest} : lib'[m] = lib[m]
      BY <1>5, <1>0 DEF StartCopy
    <2>2. /\ put'[u].pc = "copy" /\ put'[u].dest = put[u].dest
          /\ \A v \in Uploads \ {u} : put'[v] = put[v]
      BY <1>5, <1>2, <1>3 DEF StartCopy
    <2> QED BY <1>0, <1>1, <2>1, <2>2, LibStep
  <1>6. CASE FinishCopy(u)
    <2>1. /\ put'[u].pc = "clear" /\ put'[u].dest = put[u].dest
          /\ \A v \in Uploads \ {u} : put'[v] = put[v]
      BY <1>6, <1>2, <1>3 DEF FinishCopy
    <2>2. lib[put[u].dest] \in Entries /\ \A m \in Places \ {put[u].dest} : lib'[m] = lib[m]
      BY <1>6, <1>0 DEF FinishCopy
    <2>3. CASE lib[put[u].dest].by = u
      <3>1. lib'[put[u].dest] = [lib[put[u].dest] EXCEPT !.whole = TRUE]
        BY <1>6, <2>3, <1>0 DEF FinishCopy
      <3>2. lib'[put[u].dest] = [by |-> u, whole |-> TRUE] /\ lib'[put[u].dest].by = u
        BY <3>1, <2>2, <2>3 DEF Entries
      <3> QED BY <1>0, <1>1, <2>1, <2>2, <3>2, LibStep
    <2>4. CASE lib[put[u].dest].by # u
      <3>1. u \in clashed
        BY <1>6, <2>4 DEF FinishCopy, Progress
      <3>2. lib'[put[u].dest] = lib[put[u].dest]
        BY <1>6, <2>4 DEF FinishCopy
      <3> QED BY <1>0, <1>1, <2>1, <2>2, <3>1, <3>2, LibStep
    <2> QED BY <2>3, <2>4
  <1>7. CASE PlaceError(u)
    <2>1. /\ lib'[put[u].dest].by = NoUpload
          /\ \A m \in Places \ {put[u].dest} : lib'[m] = lib[m]
      BY <1>7, <1>0 DEF PlaceError, Free
    <2>2. /\ put'[u].pc = "fail" /\ put'[u].dest = put[u].dest
          /\ \A v \in Uploads \ {u} : put'[v] = put[v]
      BY <1>7, <1>2, <1>3 DEF PlaceError
    <2> QED BY <1>0, <1>1, <2>1, <2>2, LibStep
  <1> QED BY <1>4, <1>5, <1>6, <1>7

\* The staging file is cleared, the file catalogued and the row completed.
LEMMA EndPlace ==
    ASSUME TypeOK, PlaceInv, NEW u \in Uploads,
           ClearStaged(u) \/ Ingest(u) \/ Complete(u)
    PROVE  PlaceInv'
  <1> USE DEF PlaceInv
  <1>0. /\ put \in [Uploads -> Puts] /\ put[u] \in Puts /\ row \in [Uploads -> Rows]
        /\ row[u].status # "complete"
    BY DEF TypeOK, CompleteIdle, ClearStaged, Ingest, Complete
  <1>1. lib' = lib /\ clashed' = clashed /\ catalogued \subseteq catalogued'
    BY DEF ClearStaged, Ingest, Complete, ghosts
  <1>2. \A v \in Uploads \ {u} : put'[v] = put[v] /\ row'[v] = row[v]
    BY <1>0 DEF ClearStaged, Ingest, Complete, Goto, Unlock, SetStatus
  <1>3. put'[u].pc \notin {"place", "copy", "clear"}
    BY <1>0 DEF ClearStaged, Ingest, Complete, Goto, Unlock, Idle, Puts
  <1>4. \A v \in Uploads : Placing(v)' => Placing(v) /\ put'[v] = put[v]
    BY <1>2, <1>3 DEF Placing
  <1>5. OneChooser' /\ Undisturbed'
    BY <1>1, <1>4 DEF OneChooser, Undisturbed
  <1>6. Progress'
    <2> SUFFICES ASSUME NEW x \in Uploads, x \notin clashed
                 PROVE  /\ put'[x].pc = "copy" => lib[put'[x].dest].by = x
                        /\ put'[x].pc \in {"clear", "ingest", "complete"} =>
                             lib[put'[x].dest] = [by |-> x, whole |-> TRUE]
                        /\ put'[x].pc = "complete" => put'[x].dest \in catalogued'
      BY <1>1 DEF Progress
    <2>1. CASE x # u
      BY <2>1, <1>1, <1>2 DEF Progress
    <2>2. CASE x = u /\ ClearStaged(u)
      <3>1. put'[u].pc = "ingest" /\ put'[u].dest = put[u].dest /\ put[u].pc = "clear"
        BY <2>2, <1>0 DEF ClearStaged, Goto, Puts
      <3> QED BY <2>2, <3>1 DEF Progress
    <2>3. CASE x = u /\ Ingest(u)
      <3>1. /\ put[u].pc = "ingest" /\ put'[u].dest = put[u].dest
            /\ put'[u].pc = "fail" \/ (put'[u].pc = "complete" /\ put[u].dest \in catalogued')
        BY <2>3, <1>0 DEF Ingest, Goto, Puts
      <3> QED BY <2>3, <3>1 DEF Progress
    <2>4. CASE x = u /\ Complete(u)
      <3>1. put'[u].pc \in {"idle", "fail"}
        BY <2>4, <1>0 DEF Complete, Goto, Unlock, Idle, Puts
      <3> QED BY <2>4, <3>1
    <2> QED BY <2>1, <2>2, <2>3, <2>4
  <1>7. row'[u].status = "complete" => Complete(u) /\ put'[u] = Idle
    BY <1>0 DEF ClearStaged, Ingest, Complete, Unlock
  <1>8. CompleteIdle'
    BY <1>2, <1>7 DEF CompleteIdle, Idle
  <1>9. CompletePlaced'
    <2> SUFFICES ASSUME NEW x \in Uploads, x \notin clashed, row'[x].status = "complete"
                 PROVE  \E m \in catalogued' : lib[m] = [by |-> x, whole |-> TRUE]
      BY <1>1 DEF CompletePlaced, InLibrary
    <2>1. CASE x # u
      BY <2>1, <1>1, <1>2 DEF CompletePlaced, InLibrary
    <2>2. CASE x = u
      <3>1. put[u].pc = "complete"
        BY <2>2, <1>7 DEF Complete
      <3>2. lib[put[u].dest] = [by |-> u, whole |-> TRUE] /\ put[u].dest \in catalogued
        BY <3>1, <2>2 DEF Progress
      <3> QED BY <3>2, <2>2, <1>1
    <2> QED BY <2>1, <2>2
  <1> QED BY <1>5, <1>6, <1>8, <1>9

\* Every step keeps the placement invariant.
LEMMA NextPlace ==
    ASSUME TypeOK, PlaceInv, [Next]_vars
    PROVE  PlaceInv'
  <1>1. CASE UNCHANGED vars
    <2>1. Quiet
      BY <1>1 DEF vars, Quiet
    <2> QED BY <2>1, QuietPlace
  <1>2. ASSUME NEW u \in Uploads,
               \/ Create(u) \/ Insert(u) \/ Begin(u) \/ Record(u) \/ RecordRefused(u)
               \/ \E k \in 0 .. MaxChunk : Write(u, k) \/ WriteError(u, k)
               \/ SetProcessing(u) \/ Verify(u) \/ Reject(u) \/ Fail(u) \/ MarkFailed(u)
        PROVE  PlaceInv'
    BY <1>2, RequestQuiet, QuietPlace DEF PlaceInv
  <1>3. CASE \/ \E u \in Uploads :
                  Delete(u) \/ MarkDeleted(u) \/ Sweep(u) \/ SweepOld(u) \/ Expire(u)
             \/ Crash
    BY <1>3, RestQuiet, QuietPlace DEF PlaceInv
  <1>4. ASSUME NEW u \in Uploads, Finalize(u)
        PROVE  PlaceInv'
    BY <1>2, <1>4, UniqueDestPlace, WriterPlace, EndPlace DEF Finalize
  <1> QED BY <1>1, <1>2, <1>3, <1>4 DEF Next

\* finalize: an upload that is complete has its whole file in the library and
\* in the catalogue, unless another upload chose its name while the file was
\* being placed; for any number of uploads, requests, faults and restarts.
THEOREM CompleteIsPlaced == Spec => []CompletePlaced
  <1>1. Init => PlaceInv
    BY UploadAssumption DEF Init, PlaceInv, OneChooser, Undisturbed, Progress, CompleteIdle,
       CompletePlaced, Placing, Idle
  <1> QED BY <1>1, InitTyped, NextTyped, NextPlace, PTL DEF Spec, PlaceInv

-----------------------------------------------------------------------------
(* What is staged.                                                         *)

\* The steps of finalize shrink.
LEMMA FinalizeShrinks ==
    ASSUME TypeOK, NEW u \in Uploads, Finalize(u)
    PROVE  Shrinks
  <1>0. /\ put \in [Uploads -> Puts] /\ put[u] \in Puts /\ row \in [Uploads -> Rows]
        /\ staged \in [Uploads -> NoFile .. Size]
        /\ {"processing", "failed"} \subseteq Statuses \ {"none", "complete"}
    BY DEF TypeOK, Statuses, Terminal
  <1>1. \A v \in Uploads : staged'[v] \in {NoFile, staged[v]}
    BY <1>0 DEF Finalize, SetProcessing, Verify, Reject, UniqueDest, Rename, StartCopy, FinishCopy,
       PlaceError, ClearStaged, Ingest, Complete, Fail, MarkFailed, RemoveStaged
  <1>2. \A v \in Uploads :
            row'[v].offset = row[v].offset /\ (row'[v].status = "none" => row[v].status = "none")
    <2>1. \A s \in Statuses \ {"none"} : SetStatus(u, s) => \A v \in Uploads :
            row'[v].offset = row[v].offset /\ (row'[v].status = "none" => row[v].status = "none")
      BY <1>0 DEF SetStatus, Rows
    <2>2. {"processing", "failed", "complete"} \subseteq Statuses \ {"none"}
      BY DEF Statuses, Terminal
    <2>3. row' = row \/ \E s \in Statuses \ {"none"} : SetStatus(u, s)
      BY <2>2 DEF Finalize, SetProcessing, Verify, Reject, UniqueDest, Rename, StartCopy, FinishCopy,
         PlaceError, ClearStaged, Ingest, Complete, Fail, MarkFailed, TrySetStatus
    <2> QED BY <2>1, <2>3
  <1>3. \A v \in Uploads \ {u} : put'[v] = put[v]
    BY <1>0 DEF Finalize, SetProcessing, Verify, Reject, UniqueDest, Rename, StartCopy, FinishCopy,
       PlaceError, ClearStaged, Ingest, Complete, Fail, MarkFailed, Goto, Unlock
  <1>4. put'[u].pc # "record"
    BY <1>0 DEF Finalize, SetProcessing, Verify, Reject, UniqueDest, Rename, StartCopy, FinishCopy,
       PlaceError, ClearStaged, Ingest, Complete, Fail, MarkFailed, Goto, Unlock, Idle, Puts
  <1> QED BY <1>1, <1>2, <1>3, <1>4 DEF Shrinks

\* Delete, Sweep, time and restarts shrink.
LEMMA RestShrinks ==
    ASSUME TypeOK,
           \/ \E u \in Uploads : Delete(u) \/ MarkDeleted(u) \/ Sweep(u) \/ SweepOld(u) \/ Expire(u)
           \/ Crash
    PROVE  Shrinks
  <1>0. /\ row \in [Uploads -> Rows] /\ staged \in [Uploads -> NoFile .. Size]
        /\ {"cancelled", "lapsed"} \subseteq Statuses \ {"none", "complete"}
    BY DEF TypeOK, Statuses, Terminal, Open
  <1>1. ASSUME NEW u \in Uploads, Delete(u) \/ SweepRead(u) \/ SweepRemove(u)
        PROVE  Shrinks
    BY <1>0, <1>1 DEF Delete, SweepRead, SweepRemove, RemoveStaged, Shrinks
  <1>2. ASSUME NEW u \in Uploads, MarkDeleted(u) \/ SweepMark(u) \/ Expire(u)
        PROVE  Shrinks
    BY <1>2, <1>0, StatusFrame DEF MarkDeleted, SweepMark, Expire, Shrinks
  <1>3. ASSUME NEW u \in Uploads, SweepOld(u) PROVE Shrinks
    BY <1>3, <1>0 DEF SweepOld, Shrinks
  <1>4. CASE Crash
    BY <1>4 DEF Crash, Idle, Shrinks
  <1> QED BY <1>1, <1>2, <1>3, <1>4 DEF Sweep

\* Create and WriteAt keep what is staged in step with what is counted: the
\* bytes are in the file before their offset is in the row.
LEMMA WriteBacked ==
    ASSUME TypeOK, TypeOK', Backed, NEW u \in Uploads,
           \/ Create(u) \/ Insert(u) \/ Begin(u) \/ Record(u) \/ RecordRefused(u)
           \/ \E k \in 0 .. MaxChunk : Write(u, k) \/ WriteError(u, k)
    PROVE  Backed'
  <1>0. /\ put \in [Uploads -> Puts] /\ put[u] \in Puts /\ row \in [Uploads -> Rows]
        /\ row[u] \in Rows /\ staged \in [Uploads -> NoFile .. Size]
        /\ {"insert", "process"} \subseteq
             Pcs \ {"place", "copy", "clear", "ingest", "complete", "record"}
    BY DEF TypeOK, Pcs
  <1>1. CASE Create(u)
    <2>1. \A v \in Uploads \ {u} : put'[v] = put[v] /\ staged'[v] = staged[v]
      BY <1>0, <1>1 DEF Create, Goto
    <2>2. row' = row /\ staged'[u] = 0 /\ put'[u].pc = "insert" /\ row[u].offset = 0
      BY <1>0, <1>1 DEF Create, Goto, Puts, Backed
    <2> QED BY <2>1, <2>2 DEF Backed, BackedBy
  <1>2. CASE Insert(u) \/ RecordRefused(u)
    <2>1. put'[u].pc # "record" /\ \A v \in Uploads \ {u} : put'[v] = put[v]
      BY <1>2, <1>0, PutFrame DEF Insert, RecordRefused
    <2>2. Shrinks
      BY <1>2, <2>1, <1>0 DEF Insert, RecordRefused, RemoveStaged, Shrinks
    <2> QED BY <2>2, ShrinksBacked
  <1>3. CASE Begin(u)
    <2>1. put'[u].pc = "write" /\ \A v \in Uploads \ {u} : put'[v] = put[v]
      BY <1>3, <1>0 DEF Begin, Idle
    <2>2. Shrinks
      BY <1>3, <2>1, <1>0 DEF Begin, Shrinks
    <2> QED BY <2>2, ShrinksBacked
  <1>4. CASE Record(u)
    <2>1. put'[u].pc # "record" /\ \A v \in Uploads \ {u} : put'[v] = put[v]
      BY <1>4, <1>0, PutFrame DEF Record
    <2>2. /\ row'[u].offset = put[u].next /\ row'[u].status = "open"
          /\ put[u].pc = "record" /\ staged' = staged
          /\ \A v \in Uploads \ {u} : row'[v] = row[v]
      BY <1>4, <1>0 DEF Record, Rows
    <2> QED BY <2>1, <2>2 DEF Backed, BackedBy
  <1>5. ASSUME NEW k \in 0 .. MaxChunk, Write(u, k) \/ WriteError(u, k)
        PROVE  Backed'
    <2>1. /\ row' = row /\ \A v \in Uploads \ {u} : put'[v] = put[v] /\ staged'[v] = staged[v]
          /\ put[u].off \in 0 .. Size /\ staged[u] \in NoFile .. Size
      BY <1>0, <1>5 DEF Write, WriteError, Unlock, Extend, Puts
    <2>2. /\ staged[u] = NoFile => staged'[u] = NoFile
          /\ staged[u] # NoFile => staged'[u] >= staged[u] /\ staged'[u] >= put[u].off + k
      BY <1>0, <1>5, <2>1, UploadAssumption DEF Write, WriteError, Extend, NoFile
    <2>3. put'[u].pc = "record" => put'[u].next = put[u].off + k
      BY <1>0, <1>5 DEF Write, WriteError, Unlock, Idle, Puts
    <2>4. row[u].offset \in 0 .. Size /\ staged'[u] \in NoFile .. Size
      BY <1>0 DEF Rows, TypeOK
    <2>5. ASSUME staged'[u] # NoFile
          PROVE  row[u].offset <= staged'[u] /\ (put'[u].pc = "record" => put'[u].next <= staged'[u])
      <3>1. staged[u] # NoFile /\ row[u].offset <= staged[u]
        BY <2>2, <2>5 DEF Backed, BackedBy
      <3>2. staged[u] \in 0 .. Size /\ staged'[u] \in 0 .. Size
        BY <2>1, <2>4, <2>5, <3>1, UploadAssumption DEF NoFile
      <3> QED BY <2>1, <2>2, <2>3, <2>4, <3>1, <3>2
    <2> QED BY <2>1, <2>5 DEF Backed, BackedBy
  <1> QED BY <1>1, <1>2, <1>3, <1>4, <1>5

\* WriteAt: what a client is told to resume from is backed by what is staged,
\* for any number of uploads, sizes, chunks, broken requests and restarts.
THEOREM OffsetIsStaged == Spec => []OffsetStaged
  <1>1. Init => Backed
    <2> SUFFICES ASSUME Init PROVE Backed
      OBVIOUS
    <2>1. \A u \in Uploads : staged[u] = NoFile /\ row[u].offset = 0
      BY DEF Init
    <2> QED BY <2>1 DEF Backed
  <1>2. TypeOK /\ Backed /\ [Next]_vars => Backed'
    <2> SUFFICES ASSUME TypeOK, Backed, [Next]_vars PROVE Backed'
      OBVIOUS
    <2>0. TypeOK'
      BY NextTyped
    <2>1. CASE UNCHANGED vars
      BY <2>1 DEF vars, Backed, BackedBy
    <2>2. CASE Next
      BY <2>0, <2>2, WriteBacked, FinalizeShrinks, RestShrinks, ShrinksBacked DEF Next
    <2> QED BY <2>1, <2>2
  <1>3. Backed => OffsetStaged
    BY DEF Backed, BackedBy, OffsetStaged
  <1> QED BY <1>1, <1>2, <1>3, InitTyped, NextTyped, PTL DEF Spec

-----------------------------------------------------------------------------
(* One name each.                                                          *)

\* A row whose upload may be finalized, now or in the future.
Fresh == Open \cup {"none"}

\* The request has not placed its file yet; it is finalizing it.
Early == {"insert", "write", "record", "process", "verify", "name", "place"}
Finalizing == {"verify", "name", "place", "copy", "clear", "ingest", "complete", "fail", "mark"}

\* An upload that is finalized and could be marked is not finalized again,
\* neither is one that has a file in the library: its row says so, and the
\* request that placed the file is past its place.
OnceInv ==
    /\ \A u \in Uploads : put[u].pc # "idle" => (put[u].pc = "insert" <=> row[u].status = "none")
    /\ \A u \in Uploads \ unmarked :
        /\ put[u].pc \in Finalizing => row[u].status \notin Fresh
        /\ \A n \in Places : lib[n].by = u => row[u].status \notin Fresh /\ put[u].pc \notin Early
    /\ PlacedOnce

\* What every step keeps to: a row that is done stays done, a request gets to
\* finalizing by marking the row, and only a request at its place takes a name.
OnceStep ==
    /\ unmarked \subseteq unmarked'
    /\ \A v \in Uploads :
        /\ row'[v].status \in Fresh => row[v].status \in Fresh
        /\ put'[v].pc \notin {"idle", "insert"} => row'[v].status # "none"
        /\ put'[v].pc = "insert" => row'[v].status = "none"
        /\ put'[v].pc \in Early => put[v].pc \in Early \/ row[v].status \in Fresh
        /\ put'[v].pc \in Finalizing =>
             put[v].pc \in Finalizing \/ v \in unmarked' \/ row'[v].status \notin Fresh
        /\ \A n \in Places : lib'[n].by = v => lib[n].by = v \/ (put[v].pc = "place" /\ put[v].dest = n)
        /\ (\E n \in Places : lib'[n].by = v /\ lib[n].by # v) => put'[v].pc \notin Early

\* An UPDATE that closes a row reopens none and makes none.
LEMMA CloseFrame ==
    ASSUME TypeOK, NEW u \in Uploads, NEW s \in Statuses \ Fresh,
           SetStatus(u, s) \/ TrySetStatus(u, s)
    PROVE  \A v \in Uploads :
               /\ row'[v].status \in Fresh => row'[v] = row[v]
               /\ row'[v].status = "none" <=> row[v].status = "none"
               /\ v # u => row'[v] = row[v]
  <1>1. row \in [Uploads -> Rows]
    BY DEF TypeOK
  <1>2. \/ row' = row
        \/ row[u].status # "none" /\ row' = [row EXCEPT ![u].status = s]
    BY DEF SetStatus, TrySetStatus
  <1> QED BY <1>1, <1>2 DEF Rows, Fresh

\* Create and WriteAt.
LEMMA WriteOnce ==
    ASSUME TypeOK, OnceInv, NEW u \in Uploads,
           \/ Create(u) \/ Insert(u) \/ Begin(u) \/ Record(u) \/ RecordRefused(u)
           \/ \E k \in 0 .. MaxChunk : Write(u, k) \/ WriteError(u, k)
    PROVE  OnceStep
  <1>0. /\ put \in [Uploads -> Puts] /\ put[u] \in Puts /\ row \in [Uploads -> Rows]
    BY DEF TypeOK
  <1>1. lib' = lib /\ unmarked' = unmarked
    BY DEF Create, Insert, Begin, Record, RecordRefused, Write, WriteError, ghosts
  <1>2. \A v \in Uploads \ {u} : put'[v] = put[v] /\ row'[v] = row[v]
    BY <1>0 DEF Create, Insert, Begin, Record, RecordRefused, Write, WriteError, Goto, Unlock
  <1>3. \A v \in Uploads : put[v].pc # "idle" => (put[v].pc = "insert" <=> row[v].status = "none")
    BY DEF OnceInv
  <1>4. /\ row'[u].status \in Fresh => row[u].status \in Fresh
        /\ put'[u].pc \notin {"idle", "insert"} => row'[u].status # "none"
        /\ put'[u].pc = "insert" => row'[u].status = "none"
        /\ put'[u].pc \in Early => put[u].pc \in Early \/ row[u].status \in Fresh
        /\ put'[u].pc \notin Finalizing
    <2>1. CASE Create(u)
      <3>1. put'[u].pc = "insert" /\ row' = row /\ row[u].status = "none"
        BY <1>0, <2>1 DEF Create, Goto, Puts
      <3> QED BY <3>1 DEF Fresh, Early, Finalizing
    <2>2. CASE Insert(u)
      <3>1. put'[u].pc = "idle" /\ row[u].status = "none"
        BY <1>0, <1>3, <2>2 DEF Insert, Unlock, Idle
      <3> QED BY <3>1 DEF Fresh, Early, Finalizing
    <2>3. CASE Begin(u)
      <3>1. put'[u].pc = "write" /\ row' = row /\ row[u].status = "open"
        BY <1>0, <2>3 DEF Begin, Idle
      <3> QED BY <3>1 DEF Fresh, Open, Early, Finalizing
    <2>4. CASE Record(u)
      <3>1. /\ put'[u].pc \in {"process", "idle"} /\ put[u].pc = "record"
            /\ row[u].status \in Open /\ row'[u].status = "open"
        BY <1>0, <2>4 DEF Record, Unlock, Idle, Rows
      <3> QED BY <3>1 DEF Fresh, Early, Finalizing
    <2>5. CASE RecordRefused(u) \/ \E k \in 0 .. MaxChunk : WriteError(u, k)
      <3>1. put'[u].pc = "idle" /\ row' = row
        BY <1>0, <2>5 DEF RecordRefused, WriteError, Unlock, Idle
      <3> QED BY <3>1 DEF Early, Finalizing
    <2>6. CASE \E k \in 0 .. MaxChunk : Write(u, k)
      <3>1. put'[u].pc = "record" /\ put[u].pc = "write" /\ row' = row
        BY <1>0, <2>6, ZenonT(60) DEF Write, Puts
      <3> QED BY <1>3, <3>1 DEF Early, Finalizing
    <2> QED BY <2>1, <2>2, <2>3, <2>4, <2>5, <2>6
  <1> QED BY <1>1, <1>2, <1>3, <1>4 DEF OnceStep

\* finalize and fail.
LEMMA FinalizeOnce ==
    ASSUME TypeOK, OnceInv, NEW u \in Uploads, Finalize(u)
    PROVE  OnceStep
  <1>0. /\ put \in [Uploads -> Puts] /\ put[u] \in Puts /\ row \in [Uploads -> Rows]
        /\ lib \in [Places -> Entries] /\ put[u].dest \in Places
        /\ {"processing", "complete", "failed"} \subseteq Statuses \ Fresh
    BY DEF TypeOK, Statuses, Terminal, Fresh, Open, Puts
  <1>1. unmarked \subseteq unmarked' /\ \A v \in Uploads \ {u} : put'[v] = put[v]
    BY <1>0 DEF Finalize, SetProcessing, Verify, Reject, UniqueDest, Rename, StartCopy, FinishCopy,
       PlaceError, ClearStaged, Ingest, Complete, Fail, MarkFailed, Goto, Unlock, ghosts
  <1>2. \A v \in Uploads :
            /\ row'[v].status \in Fresh => row'[v] = row[v]
            /\ row'[v].status = "none" <=> row[v].status = "none"
            /\ v # u => row'[v] = row[v]
    <2>1. CASE row' = row
      BY <2>1
    <2>2. CASE \E s \in Statuses \ Fresh : SetStatus(u, s) \/ TrySetStatus(u, s)
      BY <2>2, CloseFrame
    <2> QED
      BY <1>0, <2>1, <2>2 DEF Finalize, SetProcessing, Verify, Reject, UniqueDest, Rename, StartCopy, FinishCopy,
         PlaceError, ClearStaged, Ingest, Complete, Fail, MarkFailed
  <1>3. \A v \in Uploads : put[v].pc # "idle" => (put[v].pc = "insert" <=> row[v].status = "none")
    BY DEF OnceInv
  <1>4. put[u].pc \notin {"idle", "insert"} /\ put'[u].pc # "insert"
    BY <1>0 DEF Finalize, SetProcessing, Verify, Reject, UniqueDest, Rename, StartCopy, FinishCopy,
       PlaceError, ClearStaged, Ingest, Complete, Fail, MarkFailed, Goto, Unlock, Idle, Puts
  <1>5. put'[u].pc \in Early => put[u].pc \in Early
    BY <1>0 DEF Finalize, SetProcessing, Verify, Reject, UniqueDest, Rename, StartCopy, FinishCopy,
       PlaceError, ClearStaged, Ingest, Complete, Fail, MarkFailed, Goto, Unlock, Idle, Puts, Early
  <1>6. put[u].pc \in Finalizing \/ u \in unmarked' \/ row'[u].status \notin Fresh
    <2>1. CASE SetProcessing(u)
      <3>1. u \in unmarked' \/ SetStatus(u, "processing")
        BY <2>1, UploadAssumption DEF SetProcessing, TrySetStatus, Fault, TypeOK
      <3>2. CASE SetStatus(u, "processing")
        <4>1. row[u].status # "none"
          BY <1>3, <1>4
        <4>2. row'[u].status \in {"gone", "processing"}
          BY <1>0, <3>2, <4>1 DEF SetStatus, Rows
        <4> QED BY <4>2 DEF Fresh, Open
      <3> QED BY <3>1, <3>2
    <2>2. CASE ~SetProcessing(u)
      BY <2>2 DEF Finalize, Verify, Reject, UniqueDest, Rename, StartCopy, FinishCopy,
         PlaceError, ClearStaged, Ingest, Complete, Fail, MarkFailed, Finalizing
    <2> QED BY <2>1, <2>2
  <1>7. CASE lib' = lib
    BY <1>1, <1>2, <1>3, <1>4, <1>5, <1>6, <1>7 DEF OnceStep
  <1>8. CASE Rename(u) \/ StartCopy(u)
    <2>1. /\ put[u].pc = "place" /\ put'[u].pc \in {"ingest", "copy"}
          /\ \A n \in Places : lib'[n].by = IF n = put[u].dest THEN u ELSE lib[n].by
      BY <1>0, <1>8 DEF Rename, StartCopy, Goto, Puts
    <2>2. put'[u].pc \notin Early
      BY <2>1 DEF Early
    <2> QED BY <1>1, <1>2, <1>3, <1>4, <1>6, <2>1, <2>2 DEF OnceStep
  <1>9. CASE FinishCopy(u) \/ PlaceError(u)
    <2>1. \A n \in Places : lib'[n].by \in {lib[n].by, NoUpload}
      BY <1>0, <1>9 DEF FinishCopy, PlaceError, Free, Entries
    <2>2. \A n \in Places : \A v \in Uploads : lib'[n].by = v => lib[n].by = v
      BY <2>1, UploadAssumption
    <2> QED BY <1>1, <1>2, <1>3, <1>4, <1>5, <1>6, <2>2 DEF OnceStep
  <1> QED
    BY <1>7, <1>8, <1>9 DEF Finalize, SetProcessing, Verify, Reject, UniqueDest, ClearStaged, Ingest, Complete,
       Fail, MarkFailed

\* Delete, Sweep, time and restarts.
LEMMA RestOnce ==
    ASSUME TypeOK, OnceInv,
           \/ \E u \in Uploads : Delete(u) \/ MarkDeleted(u) \/ Sweep(u) \/ SweepOld(u) \/ Expire(u)
           \/ Crash
    PROVE  OnceStep
  <1>0. /\ put \in [Uploads -> Puts] /\ row \in [Uploads -> Rows] /\ "cancelled" \in Statuses \ Fresh
    BY DEF TypeOK, Statuses, Terminal, Fresh, Open
  <1>1. lib' = lib /\ unmarked' = unmarked
    BY DEF Delete, MarkDeleted, Sweep, SweepRead, SweepRemove, SweepMark, SweepOld, Expire, Crash, ghosts
  <1>2. \A v \in Uploads : put'[v] = put[v] \/ put'[v].pc = "idle"
    BY DEF Delete, MarkDeleted, Sweep, SweepRead, SweepRemove, SweepMark, SweepOld, Expire, Crash, Idle
  <1>3. \A v \in Uploads : /\ row'[v].status \in Fresh => row[v].status \in Fresh
                           /\ row'[v].status = "none" <=> row[v].status = "none"
    <2>1. ASSUME NEW u \in Uploads, MarkDeleted(u) \/ SweepMark(u)
          PROVE  \A v \in Uploads : /\ row'[v].status \in Fresh => row[v].status \in Fresh
                                    /\ row'[v].status = "none" <=> row[v].status = "none"
      BY <1>0, <2>1, CloseFrame DEF MarkDeleted, SweepMark
    <2>2. ASSUME NEW u \in Uploads, Expire(u) \/ SweepOld(u)
          PROVE  \A v \in Uploads : /\ row'[v].status \in Fresh => row[v].status \in Fresh
                                    /\ row'[v].status = "none" <=> row[v].status = "none"
      BY <1>0, <2>2 DEF Expire, SweepOld, SetStatus, Fresh, Open, Terminal, Rows
    <2> QED BY <2>1, <2>2 DEF Delete, Sweep, SweepRead, SweepRemove, Crash
  <1>4. \A v \in Uploads : put[v].pc # "idle" => (put[v].pc = "insert" <=> row[v].status = "none")
    BY DEF OnceInv
  <1>5. ASSUME NEW v \in Uploads
        PROVE  /\ put'[v].pc \notin {"idle", "insert"} => row'[v].status # "none"
               /\ put'[v].pc = "insert" => row'[v].status = "none"
               /\ put'[v].pc \in Early => put[v].pc \in Early
               /\ put'[v].pc \in Finalizing => put[v].pc \in Finalizing
    <2>1. CASE put'[v] = put[v]
      BY <1>3, <1>4, <2>1
    <2>2. CASE put'[v].pc = "idle"
      BY <2>2 DEF Early, Finalizing
    <2> QED BY <1>2, <2>1, <2>2
  <1> QED BY <1>1, <1>3, <1>5 DEF OnceStep

\* Such steps keep the invariant.
LEMMA OnceStepKeeps ==
    ASSUME TypeOK, OnceInv, OnceStep PROVE OnceInv'
  <1>1. ASSUME NEW u \in Uploads, u \notin unmarked'
        PROVE  /\ put'[u].pc \in Finalizing => row'[u].status \notin Fresh
               /\ \A n \in Places : lib'[n].by = u => row'[u].status \notin Fresh /\ put'[u].pc \notin Early
    <2>0. u \notin unmarked
      BY <1>1 DEF OnceStep
    <2>1. put'[u].pc \in Finalizing => row'[u].status \notin Fresh
      BY <1>1, <2>0 DEF OnceStep, OnceInv
    <2>2. ASSUME NEW n \in Places, lib'[n].by = u
          PROVE  row'[u].status \notin Fresh /\ put'[u].pc \notin Early
      <3>1. CASE lib[n].by = u
        BY <2>0, <3>1 DEF OnceStep, OnceInv
      <3>2. CASE lib[n].by # u
        <4>1. put[u].pc \in Finalizing /\ put'[u].pc \notin Early
          BY <2>2, <3>2 DEF OnceStep, Finalizing
        <4> QED BY <2>0, <4>1 DEF OnceStep, OnceInv
      <3> QED BY <3>1, <3>2
    <2> QED BY <2>1, <2>2
  <1>2. PlacedOnce'
    <2> SUFFICES ASSUME NEW m \in Places, NEW n \in Places,
                        lib'[m].by = lib'[n].by, lib'[m].by \in Uploads, lib'[m].by \notin unmarked'
                 PROVE  m = n
      BY DEF PlacedOnce
    <2>1. PICK u \in Uploads : u = lib'[m].by /\ u = lib'[n].by /\ u \notin unmarked
      BY DEF OnceStep
    <2>2. CASE lib[m].by = u /\ lib[n].by = u
      BY <2>1, <2>2 DEF OnceInv, PlacedOnce
    <2>3. CASE lib[m].by # u /\ lib[n].by # u
      BY <2>1, <2>3 DEF OnceStep
    <2>4. CASE \/ lib[m].by = u /\ lib[n].by # u
               \/ lib[m].by # u /\ lib[n].by = u
      <3>1. put[u].pc \in Early
        BY <2>1, <2>4 DEF OnceStep, Early
      <3> QED BY <2>1, <2>4, <3>1 DEF OnceInv
    <2> QED BY <2>2, <2>3, <2>4
  <1>3. \A u \in Uploads : put'[u].pc # "idle" => (put'[u].pc = "insert" <=> row'[u].status = "none")
    BY DEF OnceStep
  <1> QED BY <1>1, <1>2, <1>3 DEF OnceInv

\* finalize: whatever is retried after a fault or a restart, an upload has one
\* name in the library at most, unless it was finalized although its row
\* could not be marked; for any number of uploads, names and faults.
THEOREM UploadPlacedOnce == Spec => []PlacedOnce
  <1>1. Init => OnceInv
    <2> SUFFICES ASSUME Init PROVE OnceInv
      OBVIOUS
    <2>1. \A u \in Uploads : put[u].pc = "idle"
      BY DEF Init, Idle
    <2>2. \A n \in Places : lib[n].by \notin Uploads
      BY UploadAssumption DEF Init, Free
    <2> QED BY <2>1, <2>2 DEF OnceInv, PlacedOnce, Early, Finalizing
  <1>2. TypeOK /\ OnceInv /\ [Next]_vars => OnceInv'
    <2> SUFFICES ASSUME TypeOK, OnceInv, [Next]_vars PROVE OnceInv'
      OBVIOUS
    <2>1. CASE UNCHANGED vars
      BY <2>1 DEF vars, OnceInv, PlacedOnce
    <2>2. CASE Next
      BY <2>2, WriteOnce, FinalizeOnce, RestOnce, OnceStepKeeps DEF Next
    <2> QED BY <2>1, <2>2
  <1>3. OnceInv => PlacedOnce
    BY DEF OnceInv
  <1> QED BY <1>1, <1>2, <1>3, InitTyped, NextTyped, PTL DEF Spec
=============================================================================
