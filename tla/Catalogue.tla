------------------------------ MODULE Catalogue -------------------------------
(***************************************************************************)
(* What the catalogue lists of the files on disk (scan/scanner.go,         *)
(* scan/attach.go and library/service.go): scans of libraries, one file at *)
(* a time from uploads, files attached by hand, and libraries that are     *)
(* created, given another type and deleted meanwhile. One library's folder *)
(* lies inside the other's.                                                *)
(***************************************************************************)
EXTENDS Integers, FiniteSets

CONSTANTS
    Outer, Inner,  \* the two libraries; Inner's folder is in Outer's
    Files,         \* videos that may be in the folders
    Nested,        \* those in Inner's folder
    KindOf,        \* what the name of each says: "movie" or "episode"
    Scans,         \* requests to scan
    MaxEvents      \* bound: changes on disk, uploads, administrators' requests and
                   \* transactions that the database refuses

VARIABLES
    disk,      \* files on disk
    mounted,   \* the outer folder can be reached
    type,      \* content type of each library, or "none": there is no such library
    rows,      \* availability of each file in each library, or "none"
    titles,    \* kinds of titles listed: pairs of library and kind
    runs,      \* Scanner.runs
    running,   \* scan_runs that say "running"
    flag,      \* Scanner.cataloguing
    scan,      \* what each scan is doing
    upload,    \* the library an upload has read the type of, with that type
    admin,     \* what an administrator has had checked and not yet written
    mixed,     \* history: something was catalogued between a check and its write
    doubled,   \* history: two scans of one library at once
    events     \* events so far

ctVars == <<disk, mounted, type, rows, titles, runs, running, flag, scan, upload,
            admin, mixed, doubled, events>>

ASSUME CatalogueAssumption ==
    /\ Outer # Inner /\ Nested \subseteq Files /\ MaxEvents \in Nat
    /\ KindOf \in [Files -> {"movie", "episode"}]

Libs == {Outer, Inner}
Types == {"movies", "tv", "mixed"}
Kinds == {"movie", "episode"}
Availability == {"online", "offline", "missing"}
Folder(lib) == IF lib = Inner THEN Nested ELSE Files

NoScan == [pc |-> "idle", lib |-> Outer, type |-> "none", found |-> {}, seen |-> {},
           left |-> {}, at |-> {}, stat |-> "none", quiet |-> TRUE, ok |-> FALSE]
Ended == [NoScan EXCEPT !.pc = "ended"]
NoUpload == [lib |-> Outer, type |-> "none"]
NoAdmin == [do |-> "none", lib |-> Inner, type |-> "none", alone |-> TRUE]

ScanPC == {"idle", "asked", "started", "batch", "mark", "write", "report", "release", "ended"}
Scanning == [pc: ScanPC, lib: Libs, type: Types \cup {"none"}, found: SUBSET Files, seen: SUBSET Files,
             left: SUBSET Files, at: SUBSET Files, stat: Availability \cup {"none"},
             quiet: BOOLEAN, ok: BOOLEAN]
Active(r) == scan[r].pc \notin {"idle", "ended"}
Cataloguing(r) == scan[r].pc \in {"batch", "mark", "write"}

CTTypeOK ==
    /\ disk \subseteq Files /\ mounted \in BOOLEAN
    /\ type \in [Libs -> Types \cup {"none"}]
    /\ scan \in [Scans -> Scanning] /\ upload \in [lib: Libs, type: Types \cup {"none"}]
    /\ admin \in [do: {"none", "create", "change"}, lib: Libs, type: Types \cup {"none"}, alone: BOOLEAN]
    /\ mixed \in BOOLEAN /\ doubled \in BOOLEAN /\ events \in 0 .. MaxEvents
    /\ rows \in [Libs -> [Files -> Availability \cup {"none"}]]
    /\ titles \subseteq Libs \X Kinds
    /\ runs \subseteq Libs /\ flag \subseteq Libs /\ running \subseteq Scans \X Libs
    /\ \A r \in Scans : scan[r].seen \subseteq scan[r].found /\ scan[r].found \subseteq Folder(scan[r].lib)

CTStart ==
    /\ disk = Files /\ mounted = TRUE
    /\ type = [lib \in Libs |-> IF lib = Outer THEN "mixed" ELSE "none"]
    /\ rows = [lib \in Libs |-> [f \in Files |-> "none"]]
    /\ titles = {} /\ runs = {} /\ running = {} /\ flag = {}
    /\ scan = [r \in Scans |-> NoScan]
    /\ upload = NoUpload /\ admin = NoAdmin
    /\ mixed = FALSE /\ doubled = FALSE
    /\ events = 0

Event == events < MaxEvents /\ events' = events + 1

\* Something is catalogued between a check of an administrator's and its write.
Overlapped == IF admin = NoAdmin THEN admin ELSE [admin EXCEPT !.alone = FALSE]

\* Somebody else changed what the scans under way look at.
Disturbed(s) == [r \in Scans |-> [s[r] EXCEPT !.quiet = @ /\ s[r].pc \in {"idle", "asked", "started"}]]

-----------------------------------------------------------------------------
(* One file into the catalogue: Scanner.upsertFile, in a transaction.      *)

\* kindFits: a library of one type takes new files of that type only.
Fits(ct, kind) == ct = "mixed" \/ (ct = "movies" /\ kind = "movie") \/ (ct = "tv" /\ kind = "episode")

\* A slip: files are catalogued without a look at the type of the library.
UpsertAny(lib, f, ct) ==
    /\ rows' = [rows EXCEPT ![lib][f] = "online"]
    /\ titles' = titles \cup {<<lib, KindOf[f]>>}

\* A row that exists is refreshed whatever the type; ct was read before.
Upsert(lib, f, ct) ==
    IF rows[lib][f] = "none" /\ ~Fits(ct, KindOf[f])
    THEN UNCHANGED <<rows, titles>>
    ELSE /\ rows' = [rows EXCEPT ![lib][f] = "online"]
         /\ titles' = titles \cup {<<lib, KindOf[f]>>}

-----------------------------------------------------------------------------
(* A scan: StartScan, runScan and scanLibrary.                             *)

\* StartScan's check of runs; a second request joins the scan that its row
\* of scan_runs shows, and starts another one if there is no such row.
Ask(r, lib) ==
    /\ scan[r].pc = "idle" /\ type[lib] # "none"
    /\ lib \in runs => \A o \in Scans : <<o, lib>> \notin running
    /\ runs' = runs \cup {lib}
    /\ doubled' = (doubled \/ \E o \in Scans : Active(o) /\ scan[o].lib = lib)
    /\ scan' = [scan EXCEPT ![r] = [NoScan EXCEPT !.pc = "asked", !.lib = lib]]
    /\ UNCHANGED <<disk, mounted, type, rows, titles, running, flag, upload, admin, mixed, events>>

InsertRun(r) ==
    /\ scan[r].pc = "asked" /\ type[scan[r].lib] # "none"
    /\ running' = running \cup {<<r, scan[r].lib>>}
    /\ scan' = [scan EXCEPT ![r].pc = "started"]
    /\ UNCHANGED <<disk, mounted, type, rows, titles, runs, flag, upload, admin, mixed, doubled, events>>

InsertRunFails(r) ==
    /\ scan[r].pc = "asked"
    /\ (type[scan[r].lib] = "none" /\ UNCHANGED events) \/ Event
    /\ runs' = runs \ {scan[r].lib}
    /\ scan' = [scan EXCEPT ![r] = Ended]
    /\ UNCHANGED <<disk, mounted, type, rows, titles, running, flag, upload, admin, mixed, doubled>>

\* A folder that cannot be reached says nothing about its files.
RootGone(r) ==
    /\ scan[r].pc = "started" /\ type[scan[r].lib] # "none" /\ ~mounted
    /\ rows' = [rows EXCEPT ![scan[r].lib] =
         [f \in Files |-> IF @[f] = "none" THEN "none" ELSE "offline"]]
    /\ scan' = [scan EXCEPT ![r].pc = "report"]
    /\ UNCHANGED <<disk, mounted, type, titles, runs, running, flag, upload, admin, mixed, doubled, events>>

\* The type of the library, the other libraries inside its folder, and the
\* files that the walk finds.
ReadAndWalk(r) ==
    LET lib == scan[r].lib
        skip == IF lib = Outer /\ type[Inner] # "none" THEN Nested ELSE {}
    IN  /\ scan[r].pc = "started" /\ type[lib] # "none" /\ mounted
        /\ flag' = flag \cup {lib}
        /\ scan' = [Disturbed(scan) EXCEPT ![r].pc = "batch", ![r].type = type[lib],
             ![r].found = (Folder(lib) \ skip) \cap disk, ![r].quiet = \A o \in Scans \ {r} : ~Cataloguing(o)]
        /\ admin' = Overlapped
        /\ UNCHANGED <<disk, mounted, type, rows, titles, runs, running, upload, mixed, doubled, events>>

LibraryGone(r) ==
    /\ scan[r].pc = "started" /\ type[scan[r].lib] = "none"
    /\ scan' = [scan EXCEPT ![r].pc = "report"]
    /\ UNCHANGED <<disk, mounted, type, rows, titles, runs, running, flag, upload, admin, mixed, doubled, events>>

\* catalogueBatch, for batches of one file.
Batch(r, f) ==
    /\ scan[r].pc = "batch" /\ f \in scan[r].found \ scan[r].seen
    /\ type[scan[r].lib] # "none"
    /\ Upsert(scan[r].lib, f, scan[r].type)
    /\ scan' = [scan EXCEPT ![r].seen = @ \cup {f}]
    /\ UNCHANGED <<disk, mounted, type, runs, running, flag, upload, admin, mixed, doubled, events>>

\* The first batch that fails ends the scan; its library may be gone.
BatchFails(r) ==
    /\ scan[r].pc = "batch" /\ scan[r].seen # scan[r].found
    /\ (type[scan[r].lib] = "none" /\ UNCHANGED events) \/ Event
    /\ flag' = flag \ {scan[r].lib}
    /\ scan' = [scan EXCEPT ![r].pc = "report"]
    /\ UNCHANGED <<disk, mounted, type, rows, titles, runs, running, upload, admin, mixed, doubled>>

\* markUnseen: the rows are listed, and then each file that was not seen is
\* looked for and its row is written.
ListRows(r) ==
    /\ scan[r].pc = "batch" /\ scan[r].seen = scan[r].found
    /\ scan' = [scan EXCEPT ![r].pc = "mark",
                  ![r].left = {f \in Files \ scan[r].seen : rows[scan[r].lib][f] # "none"}]
    /\ UNCHANGED <<disk, mounted, type, rows, titles, runs, running, flag, upload, admin, mixed, doubled, events>>

\* media.ClassifyAvailability: missing is said only of a file whose library
\* folder can be reached.
Classify(f) == IF ~mounted THEN "offline" ELSE IF f \in disk THEN "online" ELSE "missing"

StatRow(r, f) ==
    /\ scan[r].pc = "mark" /\ f \in scan[r].left
    /\ scan' = [scan EXCEPT ![r].pc = "write", ![r].at = {f}, ![r].stat = Classify(f)]
    /\ UNCHANGED <<disk, mounted, type, rows, titles, runs, running, flag, upload, admin, mixed, doubled, events>>

\* The update of a row that is gone by now changes nothing.
WriteFile(r, f) ==
    /\ scan[r].pc = "write" /\ f \in scan[r].at
    /\ rows' = [rows EXCEPT ![scan[r].lib][f] = IF @ = "none" THEN "none" ELSE scan[r].stat]
    /\ scan' = [scan EXCEPT ![r].pc = "mark", ![r].left = @ \ {f}, ![r].at = {}]
    /\ UNCHANGED <<disk, mounted, type, titles, runs, running, flag, upload, admin, mixed, doubled, events>>

EndCatalogue(r) ==
    /\ scan[r].pc = "mark" /\ scan[r].left = {}
    /\ flag' = flag \ {scan[r].lib}
    /\ scan' = [scan EXCEPT ![r].pc = "report", ![r].ok = TRUE]
    /\ UNCHANGED <<disk, mounted, type, rows, titles, runs, running, upload, admin, mixed, doubled, events>>

\* An error of this update is dropped: the row says "running" for good.
ReportScan(r) ==
    /\ scan[r].pc = "report"
    /\ \/ running' = running \ {<<r, scan[r].lib>>} /\ UNCHANGED events
       \/ Event /\ UNCHANGED running
    /\ scan' = [scan EXCEPT ![r].pc = "release"]
    /\ UNCHANGED <<disk, mounted, type, rows, titles, runs, flag, upload, admin, mixed, doubled>>

ReleaseScan(r) ==
    /\ scan[r].pc = "release"
    /\ runs' = runs \ {scan[r].lib}
    /\ scan' = [scan EXCEPT ![r] = Ended]
    /\ UNCHANGED <<disk, mounted, type, rows, titles, running, flag, upload, admin, mixed, doubled, events>>

ScanStep(r) ==
    \/ InsertRun(r) \/ InsertRunFails(r) \/ RootGone(r) \/ ReadAndWalk(r) \/ LibraryGone(r)
    \/ \E f \in Files : Batch(r, f) \/ StatRow(r, f) \/ WriteFile(r, f)
    \/ BatchFails(r) \/ ListRows(r) \/ EndCatalogue(r) \/ ReportScan(r) \/ ReleaseScan(r)

-----------------------------------------------------------------------------
(* IngestFile for an upload, which puts files into a library folder itself *)
(* and never into a folder below it.                                       *)

IngestRead(lib) ==
    /\ upload = NoUpload /\ type[lib] # "none" /\ Event
    /\ upload' = [lib |-> lib, type |-> type[lib]]
    /\ admin' = Overlapped
    /\ UNCHANGED <<disk, mounted, type, rows, titles, runs, running, flag, scan, mixed, doubled>>

Ingest(f) ==
    /\ upload # NoUpload /\ f \in disk /\ mounted
    /\ f \in IF upload.lib = Inner THEN Nested ELSE Files \ Nested
    /\ IF type[upload.lib] = "none"
       THEN UNCHANGED <<rows, titles>>
       ELSE Upsert(upload.lib, f, upload.type)
    /\ upload' = NoUpload /\ scan' = Disturbed(scan)
    /\ UNCHANGED <<disk, mounted, type, runs, running, flag, admin, mixed, doubled, events>>

-----------------------------------------------------------------------------
(* Administrators: library.Service.Create, Update and Delete, which check  *)
(* and then write, and Attach.                                             *)

Alone == upload = NoUpload /\ \A r \in Scans : ~Cataloguing(r)

\* notCatalogued: no library lists a file of the folder.
MayCreate(ct) == type[Inner] = "none" /\ \A f \in Nested : rows[Outer][f] = "none"

\* typeChangeAllowed: the titles it has must fit the new type.
MayChange(lib, ct) ==
    /\ type[lib] \notin {"none", ct}
    /\ ct = "movies" => <<lib, "episode">> \notin titles
    /\ ct = "tv" => <<lib, "movie">> \notin titles

\* The library created is a new one: nothing of an earlier Inner goes on.
CheckCreate(ct) ==
    /\ admin = NoAdmin /\ Event /\ MayCreate(ct)
    /\ \A r \in Scans : Active(r) => scan[r].lib # Inner
    /\ upload.lib # Inner
    /\ admin' = [do |-> "create", lib |-> Inner, type |-> ct, alone |-> Alone]
    /\ UNCHANGED <<disk, mounted, type, rows, titles, runs, running, flag, scan, upload, mixed, doubled>>

CheckType(lib, ct) ==
    /\ admin = NoAdmin /\ Event /\ MayChange(lib, ct)
    /\ admin' = [do |-> "change", lib |-> lib, type |-> ct, alone |-> Alone]
    /\ UNCHANGED <<disk, mounted, type, rows, titles, runs, running, flag, scan, upload, mixed, doubled>>

WriteLibrary ==
    /\ admin # NoAdmin
    /\ type' = [type EXCEPT ![admin.lib] =
         IF admin.do = "change" /\ @ = "none" THEN "none" ELSE admin.type]
    /\ mixed' = (mixed \/ ~admin.alone)
    /\ admin' = NoAdmin
    /\ UNCHANGED <<disk, mounted, rows, titles, runs, running, flag, scan, upload, doubled, events>>

\* Everything of the library goes with it.
Delete(lib) ==
    /\ admin = NoAdmin /\ type[lib] # "none" /\ Event
    /\ type' = [type EXCEPT ![lib] = "none"]
    /\ rows' = [rows EXCEPT ![lib] = [f \in Files |-> "none"]]
    /\ titles' = {t \in titles : t[1] # lib}
    /\ UNCHANGED <<disk, mounted, runs, running, flag, scan, upload, admin, mixed, doubled>>

\* A file is made a movie or an episode by hand.
Attach(lib, f, kind) ==
    /\ rows[lib][f] # "none" /\ Fits(type[lib], kind) /\ <<lib, kind>> \notin titles
    /\ Event
    /\ titles' = titles \cup {<<lib, kind>>}
    /\ admin' = Overlapped
    /\ UNCHANGED <<disk, mounted, type, rows, runs, running, flag, scan, upload, mixed, doubled>>

Disk ==
    /\ Event
    /\ \/ \E f \in Files : (disk' = (disk \ {f}) \cup ({f} \ disk)) /\ UNCHANGED mounted
       \/ mounted' = ~mounted /\ UNCHANGED disk
    /\ scan' = Disturbed(scan)
    /\ UNCHANGED <<type, rows, titles, runs, running, flag, upload, admin, mixed, doubled>>

CTNext ==
    \/ \E r \in Scans : ScanStep(r) \/ \E lib \in Libs : Ask(r, lib)
    \/ \E lib \in Libs : IngestRead(lib) \/ Delete(lib)
    \/ \E f \in Files : Ingest(f) \/ \E lib \in Libs, kind \in Kinds : Attach(lib, f, kind)
    \/ \E ct \in Types : CheckCreate(ct) \/ \E lib \in Libs : CheckType(lib, ct)
    \/ WriteLibrary \/ Disk

CTSpec == CTStart /\ [][CTNext]_ctVars

-----------------------------------------------------------------------------
(* Properties.                                                             *)

\* "one file is never catalogued by two libraries", unless something was
\* being catalogued while a library was checked and written.
OneOwner == mixed \/ \A f \in Files : rows[Outer][f] = "none" \/ rows[Inner][f] = "none"

\* "a library's type always describes its content", with the same exception.
TypeDescribes ==
    mixed \/ \A lib \in Libs :
      /\ type[lib] = "movies" => <<lib, "episode">> \notin titles
      /\ type[lib] = "tv" => <<lib, "movie">> \notin titles

\* A move that asks whether a library is being catalogued is told so, unless
\* two scans of the library overlapped and the first has taken the flag down.
FlagUp == doubled \/ \A r \in Scans : Cataloguing(r) => scan[r].lib \in flag

\* A scan during which nothing else changed leaves the truth: what is on
\* disk and fits is online, what is not is missing.
QuietScanTrue ==
    \A r \in Scans : scan[r].ok /\ scan[r].quiet => \A f \in scan[r].found \cup Files :
      LET row == rows[scan[r].lib][f]
      IN  /\ f \in scan[r].found /\ Fits(scan[r].type, KindOf[f]) /\ type[scan[r].lib] # "none" => row = "online"
          /\ row # "none" => row = Classify(f)

CatalogueSafe == CTTypeOK /\ OneOwner /\ TypeDescribes /\ FlagUp /\ QuietScanTrue

=============================================================================
