----------------------------- MODULE PeopleProofs ----------------------------
(***************************************************************************)
(* Proofs about what several people and processes change at the same time. *)
(***************************************************************************)
EXTENDS Catalogue, Updates, Streams, Households, Flight, FiniteSetTheorems, SequenceTheorems,
        NaturalsInduction, TLAPS

-----------------------------------------------------------------------------
(* The catalogue.                                                          *)

InCatalogue(s) == s.pc \in {"batch", "mark", "write"}

\* A row is of a file in the folder of a library that is there, and its title
\* is listed; titles are of libraries that are there.
RowsListed ==
    /\ \A lib \in Libs, f \in Files : rows[lib][f] # "none" =>
          f \in Folder(lib) /\ type[lib] # "none" /\ <<lib, KindOf[f]>> \in titles
    /\ \A lib \in Libs, kind \in Kinds : <<lib, kind>> \in titles => type[lib] # "none"

\* How far a scan has come.
WalkedAs(s) ==
    /\ s.pc \in {"idle", "asked", "started"} => s.seen = {}
    /\ s.ok => s.pc \in {"report", "release"} /\ s.seen = s.found
    /\ s.pc = "write" => s.at \subseteq s.left
    /\ s.pc \in {"mark", "write"} => s.seen = s.found /\ s.left \cap s.seen = {}

Walked == \A r \in Scans : WalkedAs(scan[r])

\* What an administrator has had checked is so when it is written, unless
\* something was catalogued in between.
AdminChecked ==
    /\ admin # NoAdmin => admin.do \in {"create", "change"} /\ admin.type \in Types
    /\ admin.do = "create" => /\ admin.lib = Inner /\ type[Inner] = "none" /\ upload.lib # Inner
                              /\ \A r \in Scans : Active(r) => scan[r].lib # Inner
    /\ admin # NoAdmin /\ admin.alone =>
          /\ upload = NoUpload /\ \A r \in Scans : ~Cataloguing(r)
          /\ admin.do = "create" => \A f \in Nested : rows[Outer][f] = "none"
          /\ admin.do = "change" => /\ admin.type = "movies" => <<admin.lib, "episode">> \notin titles
                                    /\ admin.type = "tv" => <<admin.lib, "movie">> \notin titles

\* While the inner library is there the outer one has no file of its folder
\* and no scan of the outer one has found one.
Owned ==
    mixed \/ (type[Inner] # "none" =>
      /\ \A f \in Nested : rows[Outer][f] = "none"
      /\ \A r \in Scans : Cataloguing(r) /\ scan[r].lib = Outer => scan[r].found \cap Nested = {})

\* The type that a scan or an upload has read is still that of the library.
TypeRead ==
    mixed \/
      /\ \A r \in Scans : Cataloguing(r) /\ type[scan[r].lib] # "none" => scan[r].type = type[scan[r].lib]
      /\ upload # NoUpload /\ type[upload.lib] # "none" => upload.type = type[upload.lib]

OneScan == doubled \/ \A r, o \in Scans : r # o /\ Active(r) /\ Active(o) => scan[r].lib # scan[o].lib

\* While nothing else changed, what a scan has seen is online if it fits, the
\* rows it has still to look at are in left, and the others are right.
UndisturbedAs(r, s) ==
    (InCatalogue(s) \/ s.ok) /\ s.quiet =>
      /\ mounted /\ s.found \subseteq disk
      /\ \A o \in Scans \ {r} : ~Cataloguing(o)
      /\ \A f \in s.seen : \/ rows[s.lib][f] = "online"
                           \/ rows[s.lib][f] = "none" /\ ~(Fits(s.type, KindOf[f]) /\ type[s.lib] # "none")
      /\ s.pc # "batch" => \A f \in Files \ (s.left \cup s.seen) : rows[s.lib][f] \in {"none", Classify(f)}
      /\ s.ok => s.left = {}
      /\ s.pc = "write" => \A f \in s.at : s.stat = Classify(f)

Undisturbed == \A r \in Scans : UndisturbedAs(r, scan[r])

CTInv == /\ CTTypeOK /\ RowsListed /\ Walked /\ AdminChecked /\ Owned /\ TypeRead /\ OneScan
         /\ FlagUp /\ Undisturbed /\ TypeDescribes

LEMMA CTTypes ==
    CTTypeOK =>
      /\ scan \in [Scans -> Scanning]
      /\ \A r \in Scans :
            /\ scan[r].pc \in ScanPC /\ scan[r].lib \in Libs /\ scan[r].type \in Types \cup {"none"}
            /\ scan[r].found \subseteq Files /\ scan[r].seen \subseteq Files /\ scan[r].left \subseteq Files
            /\ scan[r].at \subseteq Files /\ scan[r].stat \in Availability \cup {"none"}
            /\ scan[r].quiet \in BOOLEAN /\ scan[r].ok \in BOOLEAN
            /\ scan[r].seen \subseteq scan[r].found /\ scan[r].found \subseteq Folder(scan[r].lib)
      /\ upload.lib \in Libs /\ upload.type \in Types \cup {"none"}
      /\ admin.do \in {"none", "create", "change"} /\ admin.lib \in Libs
      /\ admin.type \in Types \cup {"none"} /\ admin.alone \in BOOLEAN
      /\ \A lib \in Libs : type[lib] \in Types \cup {"none"} /\ rows[lib] \in [Files -> Availability \cup {"none"}]
<1> SUFFICES ASSUME CTTypeOK
             PROVE  \A r \in Scans :
                      /\ scan[r].pc \in ScanPC /\ scan[r].lib \in Libs /\ scan[r].type \in Types \cup {"none"}
                      /\ scan[r].found \subseteq Files /\ scan[r].seen \subseteq Files
                      /\ scan[r].left \subseteq Files
                      /\ scan[r].at \subseteq Files /\ scan[r].stat \in Availability \cup {"none"}
                      /\ scan[r].quiet \in BOOLEAN /\ scan[r].ok \in BOOLEAN
  BY DEF CTTypeOK
<1> QED
  BY DEF CTTypeOK, Scanning

\* The constant records.
LEMMA ScanStarts ==
    /\ NoScan \in Scanning /\ NoScan.pc = "idle" /\ NoScan.seen = {} /\ NoScan.found = {} /\ NoScan.ok = FALSE
    /\ Ended \in Scanning /\ Ended.pc = "ended" /\ Ended.seen = {} /\ Ended.found = {} /\ Ended.ok = FALSE
    /\ NoUpload \in [lib: Libs, type: Types \cup {"none"}] /\ NoUpload.lib = Outer
    /\ NoAdmin \in [do: {"none", "create", "change"}, lib: Libs, type: Types \cup {"none"}, alone: BOOLEAN]
    /\ NoAdmin.do = "none"
<1>1. /\ NoScan \in Scanning /\ NoScan.pc = "idle" /\ NoScan.seen = {} /\ NoScan.found = {}
      /\ NoScan.ok = FALSE
  BY DEF NoScan, Scanning, ScanPC, Libs
<1>2. "ended" \in ScanPC
  BY DEF ScanPC
<1>3. /\ Ended \in Scanning /\ Ended.pc = "ended" /\ Ended.seen = {} /\ Ended.found = {}
      /\ Ended.ok = FALSE
  BY <1>1, <1>2 DEF Ended, Scanning
<1> QED
  BY <1>1, <1>3 DEF NoUpload, NoAdmin, Libs

LEMMA CTInitInv == CTStart => CTInv
<1> SUFFICES ASSUME CTStart PROVE CTInv
  OBVIOUS
<1>1. \A r \in Scans : scan[r] = NoScan
  BY DEF CTStart
<1>2. CTTypeOK
  <2>1. type \in [Libs -> Types \cup {"none"}] /\ rows \in [Libs -> [Files -> Availability \cup {"none"}]]
    BY DEF CTStart, Types
  <2>2. scan \in [Scans -> Scanning] /\ upload \in [lib: Libs, type: Types \cup {"none"}]
    BY ScanStarts DEF CTStart
  <2>3. admin \in [do: {"none", "create", "change"}, lib: Libs, type: Types \cup {"none"}, alone: BOOLEAN]
    BY ScanStarts DEF CTStart
  <2>4. events \in 0 .. MaxEvents
    BY CatalogueAssumption DEF CTStart
  <2> QED
    BY <1>1, <2>1, <2>2, <2>3, <2>4, ScanStarts DEF CTStart, CTTypeOK
<1>3. RowsListed /\ TypeDescribes
  BY DEF CTStart, RowsListed, TypeDescribes
<1>4. Walked
  BY <1>1, ScanStarts DEF Walked, WalkedAs
<1>5. AdminChecked
  BY ScanStarts DEF CTStart, AdminChecked
<1>6. Owned
  BY CatalogueAssumption DEF CTStart, Owned, Libs
<1>7. TypeRead
  BY <1>1, ScanStarts DEF CTStart, TypeRead, Cataloguing
<1>8. OneScan /\ FlagUp
  BY <1>1, ScanStarts DEF OneScan, FlagUp, Active, Cataloguing
<1>9. Undisturbed
  BY <1>1, ScanStarts DEF Undisturbed, UndisturbedAs, InCatalogue
<1> QED
  BY <1>2, <1>3, <1>4, <1>5, <1>6, <1>7, <1>8, <1>9 DEF CTInv

\* The steps of a scan that change neither rows nor titles nor what others look at.
LEMMA ScanMoves ==
    ASSUME CTInv, NEW r \in Scans, NEW s \in Scanning, scan' = [scan EXCEPT ![r] = s], Active(r),
           UNCHANGED <<disk, mounted, type, rows, titles, upload, admin, mixed, doubled>>,
           events' \in 0 .. MaxEvents, runs' \subseteq Libs, running' \subseteq Scans \X Libs,
           flag' = flag \/ (flag' = flag \ {scan[r].lib} /\ ~InCatalogue(s)),
           s.seen \subseteq s.found, s.found \subseteq Folder(s.lib), WalkedAs(s),
           s.pc \notin {"idle", "ended"} => s.lib = scan[r].lib,
           InCatalogue(s) => Cataloguing(r) /\ s.type = scan[r].type /\ s.found = scan[r].found,
           UndisturbedAs(r, s)
    PROVE  CTInv'
<1>0. CTTypeOK /\ WalkedAs(s) /\ UndisturbedAs(r, s)
  BY DEF CTInv
<1>1. scan' \in [Scans -> Scanning] /\ \A o \in Scans : scan'[o] = IF o = r THEN s ELSE scan[o]
  BY <1>0, CTTypes
<1>2. \A o \in Scans : Cataloguing(o)' => /\ Cataloguing(o) /\ scan'[o].type = scan[o].type
                                          /\ scan'[o].found = scan[o].found /\ scan'[o].lib = scan[o].lib
  BY <1>1 DEF Cataloguing, InCatalogue
<1>3. \A o \in Scans : Active(o)' => Active(o) /\ scan'[o].lib = scan[o].lib
  BY <1>1 DEF Active
<1>4. CTTypeOK'
  <2>1. flag' \subseteq Libs
    BY <1>0 DEF CTTypeOK
  <2>2. \A o \in Scans : scan'[o].seen \subseteq scan'[o].found /\ scan'[o].found \subseteq Folder(scan'[o].lib)
    BY <1>0, <1>1, CTTypes
  <2> QED
    BY <1>0, <1>1, <2>1, <2>2 DEF CTTypeOK, Folder
<1>5. RowsListed' /\ TypeDescribes'
  BY DEF CTInv, RowsListed, TypeDescribes, Folder
<1>6. Walked'
  BY <1>0, <1>1 DEF CTInv, Walked, WalkedAs
<1>7. AdminChecked'
  BY <1>2, <1>3 DEF CTInv, AdminChecked
<1>8. Owned'
  BY <1>2 DEF CTInv, Owned
<1>9. TypeRead'
  BY <1>2 DEF CTInv, TypeRead
<1>10. OneScan'
  BY <1>3 DEF CTInv, OneScan
<1>11. FlagUp'
  <2> SUFFICES ASSUME ~doubled, NEW o \in Scans, Cataloguing(o)' PROVE scan'[o].lib \in flag'
    BY DEF FlagUp
  <2>1. scan[o].lib \in flag /\ Active(o)
    BY <1>2 DEF CTInv, FlagUp, Cataloguing, Active
  <2>2. CASE flag' = flag
    BY <1>2, <2>1, <2>2
  <2>3. CASE flag' = flag \ {scan[r].lib} /\ ~InCatalogue(s)
    <3>1. o # r
      BY <1>1, <2>3 DEF Cataloguing, InCatalogue
    <3> QED
      BY <1>2, <2>1, <2>3, <3>1 DEF CTInv, OneScan
  <2> QED
    BY <2>2, <2>3
<1>12. Undisturbed'
  <2> SUFFICES ASSUME NEW o \in Scans PROVE UndisturbedAs(o, scan[o])'
    BY DEF Undisturbed
  <2>1. \A q \in Scans : ~Cataloguing(q) => ~Cataloguing(q)'
    BY <1>2
  <2>2. PICK t : t = scan'[o] /\ UndisturbedAs(o, t)
    BY <1>0, <1>1 DEF CTInv, Undisturbed
  <2> QED
    BY <2>1, <2>2 DEF UndisturbedAs, InCatalogue, Classify
<1> QED
  BY <1>4, <1>5, <1>6, <1>7, <1>8, <1>9, <1>10, <1>11, <1>12 DEF CTInv

\* What a scan record becomes when it goes on.
LEMMA ScanRecord ==
    ASSUME NEW s \in Scanning, NEW pc \in ScanPC
    PROVE  /\ [s EXCEPT !.pc = pc] \in Scanning /\ [s EXCEPT !.pc = pc].pc = pc
           /\ [s EXCEPT !.pc = pc].lib = s.lib /\ [s EXCEPT !.pc = pc].type = s.type
           /\ [s EXCEPT !.pc = pc].found = s.found /\ [s EXCEPT !.pc = pc].seen = s.seen
           /\ [s EXCEPT !.pc = pc].left = s.left /\ [s EXCEPT !.pc = pc].at = s.at
           /\ [s EXCEPT !.pc = pc].stat = s.stat /\ [s EXCEPT !.pc = pc].quiet = s.quiet
           /\ [s EXCEPT !.pc = pc].ok = s.ok
BY DEF Scanning

\* A scan ends or comes to where it says nothing of the rows, or reports what it said.
LEMMA ScanLeaves ==
    ASSUME CTInv, NEW r \in Scans, NEW pc \in {"started", "report", "release", "ended"},
           scan' = [scan EXCEPT ![r].pc = pc] \/ (pc = "ended" /\ scan' = [scan EXCEPT ![r] = Ended]),
           Active(r), scan[r].ok => pc \in {"release", "ended"}, pc = "ended" => scan' = [scan EXCEPT ![r] = Ended],
           pc = "started" => scan[r].pc = "asked",
           UNCHANGED <<disk, mounted, type, rows, titles, upload, admin, mixed, doubled>>,
           events' \in 0 .. MaxEvents, runs' \subseteq Libs, running' \subseteq Scans \X Libs,
           flag' = flag \/ flag' = flag \ {scan[r].lib}
    PROVE  CTInv'
<1>0. CTTypeOK /\ WalkedAs(scan[r]) /\ UndisturbedAs(r, scan[r])
  BY DEF CTInv, Walked, Undisturbed
<1>1. CASE pc = "ended"
  <2>1. PICK s \in Scanning : /\ s = Ended /\ s.pc = "ended" /\ s.seen = {} /\ s.found = {}
                              /\ s.ok = FALSE
    BY ScanStarts
  <2>2. WalkedAs(s) /\ UndisturbedAs(r, s) /\ ~InCatalogue(s)
    BY <2>1 DEF WalkedAs, UndisturbedAs, InCatalogue
  <2>3. scan' = [scan EXCEPT ![r] = s]
    BY <1>1, <2>1
  <2> QED
    BY <2>1, <2>2, <2>3, ScanMoves
<1>2. CASE pc # "ended"
  <2>1. PICK old \in Scanning : old = scan[r]
    BY <1>0, CTTypes
  <2>2. pc \in ScanPC
    BY DEF ScanPC
  <2>3. PICK s : s = [old EXCEPT !.pc = pc]
    OBVIOUS
  <2>4. /\ s \in Scanning /\ s.pc = pc /\ s.lib = old.lib /\ s.found = old.found /\ s.seen = old.seen
        /\ s.ok = old.ok /\ s.type = old.type /\ s.left = old.left /\ s.quiet = old.quiet
    BY <2>2, <2>3, ScanRecord
  <2>5. scan' = [scan EXCEPT ![r] = s]
    BY <1>2, <2>1, <2>3
  <2>6. WalkedAs(s)
    BY <1>0, <1>2, <2>1, <2>4 DEF WalkedAs
  <2>7. ~InCatalogue(s)
    BY <2>4 DEF InCatalogue
  <2>8. UndisturbedAs(r, s)
    BY <1>0, <1>2, <2>1, <2>4 DEF UndisturbedAs, InCatalogue, WalkedAs
  <2>9. s.seen \subseteq s.found /\ s.found \subseteq Folder(s.lib)
    BY <1>0, <2>1, <2>4, CTTypes
  <2> QED
    BY <2>1, <2>4, <2>5, <2>6, <2>7, <2>8, <2>9, ScanMoves
<1> QED
  BY <1>1, <1>2

\* What the guards say of how far the scan has come.
LEMMA NotOk == ASSUME CTInv, NEW r \in Scans, scan[r].pc \notin {"report", "release"} PROVE scan[r].ok = FALSE
BY CTTypes DEF CTInv, Walked, WalkedAs

LEMMA InsertRunInv == ASSUME CTInv, NEW r \in Scans, InsertRun(r) PROVE CTInv'
<1>0. CTTypeOK
  BY DEF CTInv
<1>1. /\ UNCHANGED <<disk, mounted, type, rows, titles, runs, flag, upload, admin, mixed, doubled, events>>
      /\ scan[r].pc = "asked" /\ running' = running \cup {<<r, scan[r].lib>>}
  BY DEF InsertRun
<1>2. scan' = [scan EXCEPT ![r].pc = "started"]
  BY DEF InsertRun
<1>3. running' \subseteq Scans \X Libs /\ runs' \subseteq Libs /\ events' \in 0 .. MaxEvents
  BY <1>0, <1>1, CTTypes DEF CTTypeOK
<1>4. Active(r) /\ scan[r].ok = FALSE
  BY <1>1, NotOk DEF Active
<1> QED
  BY <1>1, <1>2, <1>3, <1>4, ScanLeaves

LEMMA InsertRunFailsInv == ASSUME CTInv, NEW r \in Scans, InsertRunFails(r) PROVE CTInv'
<1>0. CTTypeOK
  BY DEF CTInv
<1>1. /\ UNCHANGED <<disk, mounted, type, rows, titles, running, flag, upload, admin, mixed, doubled>>
      /\ scan[r].pc = "asked" /\ runs' = runs \ {scan[r].lib}
  BY DEF InsertRunFails
<1>2. scan' = [scan EXCEPT ![r] = Ended]
  BY DEF InsertRunFails
<1>3. events' \in 0 .. MaxEvents
  BY <1>0, CatalogueAssumption DEF InsertRunFails, Event, CTTypeOK
<1>4. running' \subseteq Scans \X Libs /\ runs' \subseteq Libs
  BY <1>0, <1>1 DEF CTTypeOK
<1>5. Active(r) /\ scan[r].ok = FALSE
  BY <1>1, NotOk DEF Active
<1> QED
  BY <1>1, <1>2, <1>3, <1>4, <1>5, ScanLeaves

LEMMA LibraryGoneInv == ASSUME CTInv, NEW r \in Scans, LibraryGone(r) PROVE CTInv'
<1>0. CTTypeOK
  BY DEF CTInv
<1>1. /\ UNCHANGED <<disk, mounted, type, rows, titles, runs, running, flag, upload, admin, mixed, doubled,
                     events>>
      /\ scan[r].pc = "started"
  BY DEF LibraryGone
<1>2. scan' = [scan EXCEPT ![r].pc = "report"]
  BY DEF LibraryGone
<1>3. running' \subseteq Scans \X Libs /\ runs' \subseteq Libs /\ events' \in 0 .. MaxEvents
  BY <1>0, <1>1 DEF CTTypeOK
<1>4. Active(r) /\ scan[r].ok = FALSE
  BY <1>1, NotOk DEF Active
<1> QED
  BY <1>1, <1>2, <1>3, <1>4, ScanLeaves

LEMMA BatchFailsInv == ASSUME CTInv, NEW r \in Scans, BatchFails(r) PROVE CTInv'
<1>0. CTTypeOK
  BY DEF CTInv
<1>1. /\ UNCHANGED <<disk, mounted, type, rows, titles, runs, running, upload, admin, mixed, doubled>>
      /\ scan[r].pc = "batch" /\ flag' = flag \ {scan[r].lib}
  BY DEF BatchFails
<1>2. scan' = [scan EXCEPT ![r].pc = "report"]
  BY DEF BatchFails
<1>3. events' \in 0 .. MaxEvents
  BY <1>0, CatalogueAssumption DEF BatchFails, Event, CTTypeOK
<1>4. running' \subseteq Scans \X Libs /\ runs' \subseteq Libs
  BY <1>0, <1>1 DEF CTTypeOK
<1>5. Active(r) /\ scan[r].ok = FALSE
  BY <1>1, NotOk DEF Active
<1> QED
  BY <1>1, <1>2, <1>3, <1>4, <1>5, ScanLeaves

LEMMA ReportScanInv == ASSUME CTInv, NEW r \in Scans, ReportScan(r) PROVE CTInv'
<1>0. CTTypeOK
  BY DEF CTInv
<1>1. /\ UNCHANGED <<disk, mounted, type, rows, titles, runs, flag, upload, admin, mixed, doubled>>
      /\ scan[r].pc = "report" /\ running' \subseteq running
  BY DEF ReportScan
<1>2. scan' = [scan EXCEPT ![r].pc = "release"]
  BY DEF ReportScan
<1>3. events' \in 0 .. MaxEvents
  BY <1>0, CatalogueAssumption DEF ReportScan, Event, CTTypeOK
<1>4. running' \subseteq Scans \X Libs /\ runs' \subseteq Libs
  BY <1>0, <1>1 DEF CTTypeOK
<1>5. Active(r)
  BY <1>1 DEF Active
<1> QED
  BY <1>1, <1>2, <1>3, <1>4, <1>5, ScanLeaves

LEMMA ReleaseScanInv == ASSUME CTInv, NEW r \in Scans, ReleaseScan(r) PROVE CTInv'
<1>0. CTTypeOK
  BY DEF CTInv
<1>1. /\ UNCHANGED <<disk, mounted, type, rows, titles, running, flag, upload, admin, mixed, doubled, events>>
      /\ scan[r].pc = "release" /\ runs' = runs \ {scan[r].lib}
  BY DEF ReleaseScan
<1>2. scan' = [scan EXCEPT ![r] = Ended]
  BY DEF ReleaseScan
<1>3. running' \subseteq Scans \X Libs /\ runs' \subseteq Libs /\ events' \in 0 .. MaxEvents
  BY <1>0, <1>1 DEF CTTypeOK
<1>4. Active(r)
  BY <1>1 DEF Active
<1> QED
  BY <1>1, <1>2, <1>3, <1>4, ScanLeaves

LEMMA ListRowsInv == ASSUME CTInv, NEW r \in Scans, ListRows(r) PROVE CTInv'
<1>0. CTTypeOK /\ UndisturbedAs(r, scan[r])
  BY DEF CTInv, Undisturbed
<1>1. /\ UNCHANGED <<disk, mounted, type, rows, titles, runs, running, flag, upload, admin, mixed, doubled,
                     events>>
      /\ scan[r].pc = "batch" /\ scan[r].seen = scan[r].found /\ scan[r].ok = FALSE
  BY NotOk DEF ListRows
<1>2. PICK old \in Scanning : old = scan[r]
  BY <1>0, CTTypes
<1>3. PICK left \in SUBSET Files : left = {f \in Files \ old.seen : rows[old.lib][f] # "none"}
  OBVIOUS
<1>4. PICK s : s = [old EXCEPT !.pc = "mark", !.left = left]
  OBVIOUS
<1>5. /\ s \in Scanning /\ s.pc = "mark" /\ s.lib = old.lib /\ s.found = old.found /\ s.seen = old.seen
      /\ s.ok = old.ok /\ s.type = old.type /\ s.left = left /\ s.quiet = old.quiet
  <2>1. "mark" \in ScanPC
    BY DEF ScanPC
  <2> QED
    BY <1>4, <2>1 DEF Scanning
<1>6. scan' = [scan EXCEPT ![r] = s]
  BY <1>0, <1>2, <1>3, <1>4, CTTypes DEF ListRows
<1>7. WalkedAs(s)
  BY <1>1, <1>2, <1>3, <1>5 DEF WalkedAs
<1>8. InCatalogue(s) /\ InCatalogue(scan[r]) /\ Active(r) /\ Cataloguing(r)
  BY <1>1, <1>5 DEF InCatalogue, Active, Cataloguing
<1>9. UndisturbedAs(r, s)
  <2>1. \A f \in Files \ (left \cup old.seen) : rows[old.lib][f] = "none"
    BY <1>3
  <2> QED
    BY <1>0, <1>1, <1>2, <1>5, <1>8, <2>1 DEF UndisturbedAs
<1>10. s.seen \subseteq s.found /\ s.found \subseteq Folder(s.lib)
  BY <1>0, <1>2, <1>5, CTTypes
<1>11. running' \subseteq Scans \X Libs /\ runs' \subseteq Libs /\ events' \in 0 .. MaxEvents
  BY <1>0, <1>1 DEF CTTypeOK
<1> QED
  BY <1>1, <1>2, <1>5, <1>6, <1>7, <1>8, <1>9, <1>10, <1>11, ScanMoves

LEMMA StatRowInv == ASSUME CTInv, NEW r \in Scans, NEW f \in Files, StatRow(r, f) PROVE CTInv'
<1>0. CTTypeOK /\ UndisturbedAs(r, scan[r]) /\ WalkedAs(scan[r])
  BY DEF CTInv, Undisturbed, Walked
<1>1. /\ UNCHANGED <<disk, mounted, type, rows, titles, runs, running, flag, upload, admin, mixed, doubled,
                     events>>
      /\ scan[r].pc = "mark" /\ f \in scan[r].left /\ scan[r].ok = FALSE
  BY NotOk DEF StatRow
<1>2. PICK old \in Scanning : old = scan[r]
  BY <1>0, CTTypes
<1>3. PICK s : s = [old EXCEPT !.pc = "write", !.at = {f}, !.stat = Classify(f)]
  OBVIOUS
<1>4. /\ s \in Scanning /\ s.pc = "write" /\ s.lib = old.lib /\ s.found = old.found /\ s.seen = old.seen
      /\ s.ok = old.ok /\ s.type = old.type /\ s.left = old.left /\ s.quiet = old.quiet /\ s.at = {f}
      /\ s.stat = Classify(f)
  <2>1. "write" \in ScanPC /\ Classify(f) \in Availability \cup {"none"} /\ {f} \in SUBSET Files
    BY DEF ScanPC, Classify, Availability
  <2> QED
    BY <1>3, <2>1 DEF Scanning
<1>5. scan' = [scan EXCEPT ![r] = s]
  BY <1>0, <1>2, <1>3, CTTypes DEF StatRow
<1>6. WalkedAs(s)
  BY <1>0, <1>1, <1>2, <1>4 DEF WalkedAs
<1>7. InCatalogue(s) /\ InCatalogue(scan[r]) /\ Active(r) /\ Cataloguing(r)
  BY <1>1, <1>4 DEF InCatalogue, Active, Cataloguing
<1>8. UndisturbedAs(r, s)
  BY <1>0, <1>1, <1>2, <1>4, <1>7 DEF UndisturbedAs
<1>9. s.seen \subseteq s.found /\ s.found \subseteq Folder(s.lib)
  BY <1>0, <1>2, <1>4, CTTypes
<1>10. running' \subseteq Scans \X Libs /\ runs' \subseteq Libs /\ events' \in 0 .. MaxEvents
  BY <1>0, <1>1 DEF CTTypeOK
<1> QED
  BY <1>1, <1>2, <1>4, <1>5, <1>6, <1>7, <1>8, <1>9, <1>10, ScanMoves

LEMMA EndCatalogueInv == ASSUME CTInv, NEW r \in Scans, EndCatalogue(r) PROVE CTInv'
<1>0. CTTypeOK /\ UndisturbedAs(r, scan[r]) /\ WalkedAs(scan[r])
  BY DEF CTInv, Undisturbed, Walked
<1>1. /\ UNCHANGED <<disk, mounted, type, rows, titles, runs, running, upload, admin, mixed, doubled, events>>
      /\ flag' = flag \ {scan[r].lib} /\ scan[r].pc = "mark" /\ scan[r].left = {}
  BY DEF EndCatalogue
<1>2. PICK old \in Scanning : old = scan[r]
  BY <1>0, CTTypes
<1>3. PICK s : s = [old EXCEPT !.pc = "report", !.ok = TRUE]
  OBVIOUS
<1>4. /\ s \in Scanning /\ s.pc = "report" /\ s.lib = old.lib /\ s.found = old.found /\ s.seen = old.seen
      /\ s.ok = TRUE /\ s.type = old.type /\ s.left = old.left /\ s.quiet = old.quiet
  <2>1. "report" \in ScanPC
    BY DEF ScanPC
  <2> QED
    BY <1>3, <2>1 DEF Scanning
<1>5. scan' = [scan EXCEPT ![r] = s]
  BY <1>0, <1>2, <1>3, CTTypes DEF EndCatalogue
<1>6. WalkedAs(s)
  BY <1>0, <1>1, <1>2, <1>4 DEF WalkedAs
<1>7. ~InCatalogue(s) /\ InCatalogue(scan[r]) /\ Active(r) /\ Cataloguing(r)
  BY <1>1, <1>4 DEF InCatalogue, Active, Cataloguing
<1>8. UndisturbedAs(r, s)
  BY <1>0, <1>1, <1>2, <1>4, <1>7 DEF UndisturbedAs
<1>9. s.seen \subseteq s.found /\ s.found \subseteq Folder(s.lib)
  BY <1>0, <1>2, <1>4, CTTypes
<1>10. running' \subseteq Scans \X Libs /\ runs' \subseteq Libs /\ events' \in 0 .. MaxEvents
  BY <1>0, <1>1 DEF CTTypeOK
<1> QED
  BY <1>1, <1>2, <1>4, <1>5, <1>6, <1>7, <1>8, <1>9, <1>10, ScanMoves

LEMMA AskInv == ASSUME CTInv, NEW r \in Scans, NEW lib \in Libs, Ask(r, lib) PROVE CTInv'
<1>0. CTTypeOK
  BY DEF CTInv
<1>1. /\ UNCHANGED <<disk, mounted, type, rows, titles, running, flag, upload, admin, mixed, events>>
      /\ scan[r].pc = "idle" /\ type[lib] # "none" /\ runs' = runs \cup {lib}
      /\ doubled' = (doubled \/ \E o \in Scans : Active(o) /\ scan[o].lib = lib)
  BY DEF Ask
<1>2. PICK s : s = [NoScan EXCEPT !.pc = "asked", !.lib = lib]
  OBVIOUS
<1>3. /\ s \in Scanning /\ s.pc = "asked" /\ s.lib = lib /\ s.seen = {} /\ s.found = {} /\ s.ok = FALSE
  <2>1. "asked" \in ScanPC
    BY DEF ScanPC
  <2> QED
    BY <1>2, <2>1, ScanStarts DEF Scanning
<1>4. scan' = [scan EXCEPT ![r] = s]
  BY <1>2 DEF Ask
<1>5. scan' \in [Scans -> Scanning] /\ \A o \in Scans : scan'[o] = IF o = r THEN s ELSE scan[o]
  BY <1>0, <1>3, <1>4, CTTypes
<1>6. CTTypeOK'
  BY <1>0, <1>1, <1>3, <1>5 DEF CTTypeOK, Folder
<1>7. \A o \in Scans : Cataloguing(o)' => o # r /\ Cataloguing(o) /\ scan'[o] = scan[o]
  BY <1>3, <1>5 DEF Cataloguing
<1>8. RowsListed' /\ TypeDescribes'
  BY <1>1 DEF CTInv, RowsListed, TypeDescribes, Folder
<1>9. Walked'
  BY <1>3, <1>5 DEF CTInv, Walked, WalkedAs
<1>10. AdminChecked'
  <2>1. \A o \in Scans : Active(o)' => scan'[o].lib = lib \/ (Active(o) /\ scan'[o].lib = scan[o].lib)
    BY <1>3, <1>5 DEF Active
  <2> QED
    BY <1>1, <1>7, <2>1 DEF CTInv, AdminChecked
<1>11. Owned' /\ TypeRead' /\ FlagUp'
  BY <1>1, <1>7 DEF CTInv, Owned, TypeRead, FlagUp
<1>12. OneScan'
  <2>1. \A o \in Scans : Active(o)' => o = r \/ (Active(o) /\ scan'[o] = scan[o])
    BY <1>5 DEF Active
  <2>2. scan'[r].lib = lib
    BY <1>3, <1>5
  <2> QED
    BY <1>1, <2>1, <2>2 DEF CTInv, OneScan
<1>13. Undisturbed'
  <2> SUFFICES ASSUME NEW o \in Scans PROVE UndisturbedAs(o, scan[o])'
    BY DEF Undisturbed
  <2>1. CASE o = r
    BY <1>3, <1>5, <2>1 DEF UndisturbedAs, InCatalogue
  <2>2. CASE o # r
    <3>1. PICK t : t = scan'[o] /\ UndisturbedAs(o, t)
      BY <1>5, <2>2 DEF CTInv, Undisturbed
    <3> QED
      BY <1>1, <1>7, <3>1 DEF UndisturbedAs, InCatalogue, Classify
  <2> QED
    BY <2>1, <2>2
<1> QED
  BY <1>6, <1>8, <1>9, <1>10, <1>11, <1>12, <1>13 DEF CTInv

\* What is still so of a scan when something else has changed.
LEMMA DisturbedScans ==
    ASSUME CTTypeOK, NEW d, d = Disturbed(scan)
    PROVE  /\ d \in [Scans -> Scanning]
           /\ \A o \in Scans :
                 /\ d[o].pc = scan[o].pc /\ d[o].lib = scan[o].lib /\ d[o].type = scan[o].type
                 /\ d[o].found = scan[o].found /\ d[o].seen = scan[o].seen /\ d[o].left = scan[o].left
                 /\ d[o].at = scan[o].at /\ d[o].ok = scan[o].ok
                 /\ d[o].quiet => scan[o].pc \in {"idle", "asked", "started"}
<1>1. d = [o \in Scans |-> [scan[o] EXCEPT !.quiet = scan[o].quiet /\ scan[o].pc \in {"idle", "asked", "started"}]]
  BY DEF Disturbed
<1>2. ASSUME NEW o \in Scans
      PROVE  /\ d[o] \in Scanning
             /\ d[o].pc = scan[o].pc /\ d[o].lib = scan[o].lib /\ d[o].type = scan[o].type
             /\ d[o].found = scan[o].found /\ d[o].seen = scan[o].seen /\ d[o].left = scan[o].left
             /\ d[o].at = scan[o].at /\ d[o].ok = scan[o].ok
             /\ d[o].quiet => scan[o].pc \in {"idle", "asked", "started"}
  <2>1. PICK old \in Scanning : old = scan[o]
    BY CTTypes
  <2>2. PICK q \in BOOLEAN : q = (old.quiet /\ old.pc \in {"idle", "asked", "started"})
    OBVIOUS
  <2>3. d[o] = [old EXCEPT !.quiet = q]
    BY <1>1, <2>1, <2>2
  <2>4. [old EXCEPT !.quiet = q] \in Scanning /\ [old EXCEPT !.quiet = q].quiet = q
    BY DEF Scanning
  <2>5. /\ d[o].pc = old.pc /\ d[o].lib = old.lib /\ d[o].type = old.type
        /\ d[o].found = old.found /\ d[o].seen = old.seen /\ d[o].left = old.left
        /\ d[o].at = old.at /\ d[o].ok = old.ok
    BY <2>3 DEF Scanning
  <2> QED
    BY <2>1, <2>2, <2>3, <2>4, <2>5
<1> QED
  BY <1>1, <1>2

\* What has been checked is not alone any more.
LEMMA OverlappedAdmin ==
    ASSUME CTTypeOK, admin' = Overlapped
    PROVE  /\ admin' \in [do: {"none", "create", "change"}, lib: Libs, type: Types \cup {"none"},
                          alone: BOOLEAN]
           /\ admin'.do = admin.do /\ admin'.lib = admin.lib /\ admin'.type = admin.type
           /\ admin' # NoAdmin => admin # NoAdmin /\ admin'.alone = FALSE
<1>1. PICK old \in [do: {"none", "create", "change"}, lib: Libs, type: Types \cup {"none"}, alone: BOOLEAN] :
        old = admin
  BY DEF CTTypeOK
<1>2. /\ [old EXCEPT !.alone = FALSE]
           \in [do: {"none", "create", "change"}, lib: Libs, type: Types \cup {"none"}, alone: BOOLEAN]
      /\ [old EXCEPT !.alone = FALSE].do = old.do /\ [old EXCEPT !.alone = FALSE].lib = old.lib
      /\ [old EXCEPT !.alone = FALSE].type = old.type /\ [old EXCEPT !.alone = FALSE].alone = FALSE
  OBVIOUS
<1>3. admin' = IF old = NoAdmin THEN old ELSE [old EXCEPT !.alone = FALSE]
  BY <1>1 DEF Overlapped
<1> QED
  BY <1>1, <1>2, <1>3

LEMMA ReadAndWalkInv == ASSUME CTInv, NEW r \in Scans, ReadAndWalk(r) PROVE CTInv'
<1>0. CTTypeOK
  BY DEF CTInv
<1>1. PICK lib \in Libs : lib = scan[r].lib
  BY <1>0, CTTypes
<1>2. /\ UNCHANGED <<disk, mounted, type, rows, titles, runs, running, upload, mixed, doubled, events>>
      /\ scan[r].pc = "started" /\ type[lib] # "none" /\ mounted
      /\ flag' = flag \cup {lib} /\ admin' = Overlapped
  BY <1>1 DEF ReadAndWalk
<1>3. PICK found \in SUBSET Files :
        found = (Folder(lib) \ (IF lib = Outer /\ type[Inner] # "none" THEN Nested ELSE {})) \cap disk
  BY <1>0 DEF CTTypeOK
<1>4. PICK quiet \in BOOLEAN : quiet = \A o \in Scans \ {r} : ~Cataloguing(o)
  OBVIOUS
<1>5. PICK d \in [Scans -> Scanning] : d = Disturbed(scan)
  BY <1>0, DisturbedScans
<1>6. \A o \in Scans :
        /\ d[o].pc = scan[o].pc /\ d[o].lib = scan[o].lib /\ d[o].type = scan[o].type
        /\ d[o].found = scan[o].found /\ d[o].seen = scan[o].seen /\ d[o].left = scan[o].left
        /\ d[o].at = scan[o].at /\ d[o].ok = scan[o].ok
        /\ d[o].quiet => scan[o].pc \in {"idle", "asked", "started"}
  BY <1>0, <1>5, DisturbedScans
<1>7. PICK s : s = [d[r] EXCEPT !.pc = "batch", !.type = type[lib], !.found = found, !.quiet = quiet]
  OBVIOUS
<1>8. /\ s \in Scanning /\ s.pc = "batch" /\ s.lib = lib /\ s.type = type[lib] /\ s.found = found
      /\ s.quiet = quiet /\ s.seen = scan[r].seen /\ s.ok = scan[r].ok
  <2>1. PICK old \in Scanning : old = d[r]
    OBVIOUS
  <2>2. "batch" \in ScanPC /\ type[lib] \in Types \cup {"none"}
    BY <1>0, CTTypes DEF ScanPC
  <2>3. s = [old EXCEPT !.pc = "batch", !.type = type[lib], !.found = found, !.quiet = quiet]
    BY <1>7, <2>1
  <2>4. /\ s \in Scanning /\ s.pc = "batch" /\ s.lib = old.lib /\ s.type = type[lib] /\ s.found = found
        /\ s.quiet = quiet /\ s.seen = old.seen /\ s.ok = old.ok
    BY <2>2, <2>3 DEF Scanning
  <2> QED
    BY <1>1, <1>6, <2>1, <2>4
<1>9. scan' = [d EXCEPT ![r] = s]
  BY <1>1, <1>3, <1>4, <1>5, <1>7 DEF ReadAndWalk
<1>10. scan' \in [Scans -> Scanning] /\ \A o \in Scans : scan'[o] = IF o = r THEN s ELSE d[o]
  BY <1>8, <1>9
<1>11. scan[r].ok = FALSE /\ scan[r].seen \subseteq scan[r].found
  BY <1>0, <1>2, NotOk, CTTypes
<1>12. scan[r].seen = {} /\ s.seen = {}
  BY <1>2, <1>8 DEF CTInv, Walked, WalkedAs
<1>13. s.found \subseteq Folder(lib) /\ s.found \subseteq disk
  BY <1>3, <1>8
<1>14. \A o \in Scans : o # r => (Cataloguing(o)' <=> Cataloguing(o)) /\ (Active(o)' <=> Active(o))
  BY <1>6, <1>10 DEF Cataloguing, Active
<1>15. Active(r) /\ ~Cataloguing(r)
  BY <1>2 DEF Active, Cataloguing
<1>16. CTTypeOK'
  <2>1. \A o \in Scans : scan'[o].seen \subseteq scan'[o].found /\ scan'[o].found \subseteq Folder(scan'[o].lib)
    BY <1>0, <1>6, <1>8, <1>10, <1>12, <1>13, CTTypes
  <2>2. flag' \subseteq Libs
    BY <1>0, <1>2 DEF CTTypeOK
  <2> QED
    BY <1>0, <1>2, <1>10, <2>1, <2>2, OverlappedAdmin DEF CTTypeOK, Folder
<1>17. RowsListed' /\ TypeDescribes'
  BY <1>2 DEF CTInv, RowsListed, TypeDescribes, Folder
<1>18. Walked'
  <2> SUFFICES ASSUME NEW o \in Scans PROVE WalkedAs(scan[o])'
    BY DEF Walked
  <2>1. CASE o = r
    BY <1>8, <1>10, <1>11, <2>1 DEF WalkedAs
  <2>2. CASE o # r
    BY <1>6, <1>10, <2>2 DEF CTInv, Walked, WalkedAs
  <2> QED
    BY <2>1, <2>2
<1>19. AdminChecked'
  <2>1. \A o \in Scans : Active(o)' => Active(o) /\ scan'[o].lib = scan[o].lib
    BY <1>1, <1>6, <1>8, <1>10, <1>14, <1>15
  <2>2. AdminChecked
    BY DEF CTInv
  <2>3. admin.do = "create" => /\ admin.lib = Inner /\ type[Inner] = "none" /\ upload.lib # Inner
                              /\ \A q \in Scans : Active(q) => scan[q].lib # Inner
    BY <2>2 DEF AdminChecked
  <2>4. admin' # NoAdmin => admin'.do \in {"create", "change"} /\ admin'.type \in Types /\ admin'.alone = FALSE
    BY <1>0, <1>2, <2>2, OverlappedAdmin DEF AdminChecked
  <2>5. admin'.do = "create" => /\ admin'.lib = Inner /\ type'[Inner] = "none" /\ upload'.lib # Inner
                              /\ \A q \in Scans : Active(q)' => scan'[q].lib # Inner
    BY <1>0, <1>2, <2>1, <2>3, OverlappedAdmin
  <2> QED
    BY <2>4, <2>5 DEF AdminChecked
<1>20. Owned'
  <2> SUFFICES ASSUME ~mixed, type[Inner] # "none", NEW o \in Scans, Cataloguing(o)', scan'[o].lib = Outer
               PROVE  scan'[o].found \cap Nested = {}
    BY <1>2 DEF CTInv, Owned
  <2>1. CASE o = r
    BY <1>3, <1>8, <1>10, <2>1
  <2>2. CASE o # r
    BY <1>6, <1>10, <1>14, <2>2 DEF CTInv, Owned
  <2> QED
    BY <2>1, <2>2
<1>21. TypeRead'
  <2> SUFFICES ASSUME ~mixed, NEW o \in Scans, Cataloguing(o)', type[scan'[o].lib] # "none"
               PROVE  scan'[o].type = type[scan'[o].lib]
    BY <1>2 DEF CTInv, TypeRead
  <2>1. CASE o = r
    BY <1>8, <1>10, <2>1
  <2>2. CASE o # r
    BY <1>6, <1>10, <1>14, <2>2 DEF CTInv, TypeRead
  <2> QED
    BY <2>1, <2>2
<1>22. \A o \in Scans : scan'[o].lib = scan[o].lib
  BY <1>1, <1>6, <1>8, <1>10
<1>23. OneScan'
  BY <1>2, <1>14, <1>15, <1>22 DEF CTInv, OneScan
<1>24. FlagUp'
  BY <1>1, <1>2, <1>14, <1>22 DEF CTInv, FlagUp
<1>25. Undisturbed'
  <2> SUFFICES ASSUME NEW o \in Scans PROVE UndisturbedAs(o, scan[o])'
    BY DEF Undisturbed
  <2>1. CASE o = r
    <3>1. PICK t : t = scan'[o] /\ t = s
      BY <1>10, <2>1
    <3>2. quiet => \A q \in Scans \ {o} : ~Cataloguing(q)'
      BY <1>4, <1>14, <2>1
    <3>3. UndisturbedAs(o, t)'
      BY <1>2, <1>8, <1>11, <1>12, <1>13, <3>1, <3>2 DEF UndisturbedAs
    <3> QED
      BY <3>1, <3>3
  <2>2. CASE o # r
    <3>1. PICK t : t = scan'[o] /\ t = d[o]
      BY <1>10, <2>2
    <3>2. t.quiet => ~InCatalogue(t) /\ ~t.ok
      BY <1>6, <3>1, NotOk DEF InCatalogue
    <3>3. ~((InCatalogue(t) \/ t.ok) /\ t.quiet)
      BY <3>2
    <3>4. UndisturbedAs(o, t)'
      BY <3>3 DEF UndisturbedAs, InCatalogue
    <3> QED
      BY <3>1, <3>4 DEF UndisturbedAs
  <2> QED
    BY <2>1, <2>2
<1> QED
  BY <1>16, <1>17, <1>18, <1>19, <1>20, <1>21, <1>23, <1>24, <1>25 DEF CTInv

\* When something else has changed nothing is said of the scans under way.
LEMMA DisturbedInv ==
    ASSUME CTInv, scan' = Disturbed(scan), UNCHANGED doubled
    PROVE  /\ scan' \in [Scans -> Scanning] /\ Walked' /\ OneScan' /\ Undisturbed'
           /\ \A o \in Scans :
                 /\ (Cataloguing(o)' <=> Cataloguing(o)) /\ (Active(o)' <=> Active(o))
                 /\ scan'[o].lib = scan[o].lib /\ scan'[o].type = scan[o].type
                 /\ scan'[o].found = scan[o].found /\ scan'[o].seen = scan[o].seen
<1>0. CTTypeOK
  BY DEF CTInv
<1>1. scan' \in [Scans -> Scanning]
  BY <1>0, DisturbedScans
<1>2. \A o \in Scans :
        /\ scan'[o].pc = scan[o].pc /\ scan'[o].lib = scan[o].lib /\ scan'[o].type = scan[o].type
        /\ scan'[o].found = scan[o].found /\ scan'[o].seen = scan[o].seen /\ scan'[o].left = scan[o].left
        /\ scan'[o].at = scan[o].at /\ scan'[o].ok = scan[o].ok
        /\ scan'[o].quiet => scan[o].pc \in {"idle", "asked", "started"}
  BY <1>0, DisturbedScans
<1>3. \A o \in Scans : (Cataloguing(o)' <=> Cataloguing(o)) /\ (Active(o)' <=> Active(o))
  BY <1>2 DEF Cataloguing, Active
<1>4. Walked'
  BY <1>2 DEF CTInv, Walked, WalkedAs
<1>5. OneScan'
  BY <1>2, <1>3 DEF CTInv, OneScan
<1>6. Undisturbed'
  <2> SUFFICES ASSUME NEW o \in Scans PROVE UndisturbedAs(o, scan[o])'
    BY DEF Undisturbed
  <2>1. ~((InCatalogue(scan'[o]) \/ scan'[o].ok) /\ scan'[o].quiet)
    BY <1>2, NotOk DEF InCatalogue
  <2> QED
    BY <2>1 DEF UndisturbedAs, InCatalogue
<1> QED
  BY <1>1, <1>2, <1>3, <1>4, <1>5, <1>6

LEMMA DiskInv == ASSUME CTInv, Disk PROVE CTInv'
<1>0. CTTypeOK
  BY DEF CTInv
<1>1. /\ UNCHANGED <<type, rows, titles, runs, running, flag, upload, admin, mixed, doubled>>
      /\ scan' = Disturbed(scan)
  BY DEF Disk
<1>2. disk' \subseteq Files /\ mounted' \in BOOLEAN /\ events' \in 0 .. MaxEvents
  <2>1. events' \in 0 .. MaxEvents
    BY <1>0, CatalogueAssumption DEF Disk, Event, CTTypeOK
  <2>2. disk' \subseteq Files
    BY <1>0 DEF Disk, CTTypeOK
  <2>3. mounted' \in BOOLEAN
    BY <1>0 DEF Disk, CTTypeOK
  <2> QED
    BY <2>1, <2>2, <2>3
<1>3. CTTypeOK'
  BY <1>0, <1>1, <1>2, DisturbedInv DEF CTTypeOK, Folder
<1>4. RowsListed' /\ TypeDescribes'
  BY <1>1 DEF CTInv, RowsListed, TypeDescribes, Folder
<1>5. AdminChecked' /\ Owned' /\ TypeRead' /\ FlagUp'
  BY <1>1, DisturbedInv DEF CTInv, AdminChecked, Owned, TypeRead, FlagUp
<1> QED
  BY <1>1, <1>3, <1>4, <1>5, DisturbedInv DEF CTInv

LEMMA AttachInv ==
    ASSUME CTInv, NEW lib \in Libs, NEW f \in Files, NEW kind \in Kinds, Attach(lib, f, kind) PROVE CTInv'
<1>0. CTTypeOK
  BY DEF CTInv
<1>1. /\ UNCHANGED <<disk, mounted, type, rows, runs, running, flag, scan, upload, mixed, doubled>>
      /\ rows[lib][f] # "none" /\ Fits(type[lib], kind)
      /\ titles' = titles \cup {<<lib, kind>>} /\ admin' = Overlapped
  BY DEF Attach
<1>2. type[lib] # "none"
  BY <1>1 DEF CTInv, RowsListed
<1>3. events' \in 0 .. MaxEvents
  BY <1>0, CatalogueAssumption DEF Attach, Event, CTTypeOK
<1>4. CTTypeOK'
  <2>1. titles' \subseteq Libs \X Kinds
    BY <1>0, <1>1 DEF CTTypeOK
  <2> QED
    BY <1>0, <1>1, <1>3, <2>1, OverlappedAdmin DEF CTTypeOK, Folder
<1>5. RowsListed'
  BY <1>1, <1>2 DEF CTInv, RowsListed, Folder
<1>6. TypeDescribes'
  BY <1>1 DEF CTInv, TypeDescribes, Fits
<1>7. Walked' /\ Owned' /\ TypeRead' /\ FlagUp' /\ OneScan'
  BY <1>1 DEF CTInv, Walked, WalkedAs, Owned, TypeRead, FlagUp, OneScan, Active, Cataloguing
<1>8. Undisturbed'
  BY <1>1 DEF CTInv, Undisturbed, UndisturbedAs, InCatalogue, Classify, Cataloguing
<1>9. AdminChecked'
  BY <1>0, <1>1, OverlappedAdmin DEF CTInv, AdminChecked, Active, Cataloguing
<1> QED
  BY <1>4, <1>5, <1>6, <1>7, <1>8, <1>9 DEF CTInv

LEMMA IngestReadInv == ASSUME CTInv, NEW lib \in Libs, IngestRead(lib) PROVE CTInv'
<1>0. CTTypeOK
  BY DEF CTInv
<1>1. /\ UNCHANGED <<disk, mounted, type, rows, titles, runs, running, flag, scan, mixed, doubled>>
      /\ type[lib] # "none" /\ admin' = Overlapped
      /\ upload' = [lib |-> lib, type |-> type[lib]]
  BY DEF IngestRead
<1>2. events' \in 0 .. MaxEvents
  BY <1>0, CatalogueAssumption DEF IngestRead, Event, CTTypeOK
<1>3. upload' \in [lib: Libs, type: Types \cup {"none"}] /\ upload'.lib = lib /\ upload'.type = type[lib]
  BY <1>0, <1>1, CTTypes
<1>4. CTTypeOK'
  BY <1>0, <1>1, <1>2, <1>3, OverlappedAdmin DEF CTTypeOK, Folder
<1>5. RowsListed' /\ TypeDescribes'
  BY <1>1 DEF CTInv, RowsListed, TypeDescribes, Folder
<1>6. Walked' /\ Owned' /\ FlagUp' /\ OneScan'
  BY <1>1 DEF CTInv, Walked, WalkedAs, Owned, FlagUp, OneScan, Active, Cataloguing
<1>7. TypeRead'
  BY <1>1, <1>3 DEF CTInv, TypeRead, Cataloguing
<1>8. Undisturbed'
  BY <1>1 DEF CTInv, Undisturbed, UndisturbedAs, InCatalogue, Classify, Cataloguing
<1>9. AdminChecked'
  BY <1>0, <1>1, <1>3, OverlappedAdmin DEF CTInv, AdminChecked, Active, Cataloguing
<1> QED
  BY <1>4, <1>5, <1>6, <1>7, <1>8, <1>9 DEF CTInv

\* What the administrator is told to be so is so when it is told.
LEMMA CheckedInv ==
    ASSUME CTInv, NEW a, a \in [do: {"create", "change"}, lib: Libs, type: Types, alone: BOOLEAN], admin' = a,
           UNCHANGED <<disk, mounted, type, rows, titles, runs, running, flag, scan, upload, mixed, doubled>>,
           Event, a.alone => Alone,
           a.do = "create" => /\ a.lib = Inner /\ type[Inner] = "none" /\ upload.lib # Inner
                              /\ \A f \in Nested : rows[Outer][f] = "none"
                              /\ \A r \in Scans : Active(r) => scan[r].lib # Inner,
           a.do = "change" => /\ a.type = "movies" => <<a.lib, "episode">> \notin titles
                              /\ a.type = "tv" => <<a.lib, "movie">> \notin titles
    PROVE  CTInv'
<1>0. CTTypeOK
  BY DEF CTInv
<1>1. events' \in 0 .. MaxEvents
  BY <1>0, CatalogueAssumption DEF Event, CTTypeOK
<1>2. a \in [do: {"none", "create", "change"}, lib: Libs, type: Types \cup {"none"}, alone: BOOLEAN]
  OBVIOUS
<1>3. CTTypeOK'
  BY <1>0, <1>1, <1>2 DEF CTTypeOK, Folder
<1>4. RowsListed' /\ TypeDescribes'
  BY DEF CTInv, RowsListed, TypeDescribes, Folder
<1>5. Walked' /\ Owned' /\ FlagUp' /\ OneScan' /\ TypeRead'
  BY DEF CTInv, Walked, WalkedAs, Owned, FlagUp, OneScan, TypeRead, Active, Cataloguing
<1>6. Undisturbed'
  BY DEF CTInv, Undisturbed, UndisturbedAs, InCatalogue, Classify, Cataloguing
<1>7. AdminChecked'
  BY DEF AdminChecked, Alone, Active, Cataloguing
<1> QED
  BY <1>3, <1>4, <1>5, <1>6, <1>7 DEF CTInv

LEMMA CheckCreateInv == ASSUME CTInv, NEW ct \in Types, CheckCreate(ct) PROVE CTInv'
<1>1. PICK b \in BOOLEAN : b = Alone
  BY DEF Alone
<1>2. PICK a : a = [do |-> "create", lib |-> Inner, type |-> ct, alone |-> b]
  OBVIOUS
<1>3. /\ a \in [do: {"create", "change"}, lib: Libs, type: Types, alone: BOOLEAN]
      /\ a.do = "create" /\ a.lib = Inner /\ a.type = ct /\ a.alone = b
  BY <1>2 DEF Libs
<1>4. admin' = a
  BY <1>1, <1>2 DEF CheckCreate
<1>5. /\ UNCHANGED <<disk, mounted, type, rows, titles, runs, running, flag, scan, upload, mixed, doubled>>
      /\ Event /\ type[Inner] = "none" /\ upload.lib # Inner /\ \A f \in Nested : rows[Outer][f] = "none"
      /\ \A r \in Scans : Active(r) => scan[r].lib # Inner
  BY DEF CheckCreate, MayCreate
<1>6. (a.alone => Alone) /\ a.do # "change"
  BY <1>1, <1>3
<1>7. a.do = "create" => /\ a.lib = Inner /\ type[Inner] = "none" /\ upload.lib # Inner
                         /\ \A f \in Nested : rows[Outer][f] = "none"
                         /\ \A r \in Scans : Active(r) => scan[r].lib # Inner
  BY <1>3, <1>5
<1> QED
  BY <1>3, <1>4, <1>5, <1>6, <1>7, CheckedInv

LEMMA CheckTypeInv == ASSUME CTInv, NEW lib \in Libs, NEW ct \in Types, CheckType(lib, ct) PROVE CTInv'
<1>1. PICK b \in BOOLEAN : b = Alone
  BY DEF Alone
<1>2. PICK a : a = [do |-> "change", lib |-> lib, type |-> ct, alone |-> b]
  OBVIOUS
<1>3. /\ a \in [do: {"create", "change"}, lib: Libs, type: Types, alone: BOOLEAN]
      /\ a.do = "change" /\ a.lib = lib /\ a.type = ct /\ a.alone = b
  BY <1>2
<1>4. admin' = a
  BY <1>1, <1>2 DEF CheckType
<1> QED
  BY <1>1, <1>3, <1>4, CheckedInv DEF CheckType, MayChange

LEMMA WriteLibraryInv == ASSUME CTInv, WriteLibrary PROVE CTInv'
<1>0. CTTypeOK
  BY DEF CTInv
<1>1. /\ UNCHANGED <<disk, mounted, rows, titles, runs, running, flag, scan, upload, doubled, events>>
      /\ admin' = NoAdmin /\ mixed' = (mixed \/ ~admin.alone) /\ admin # NoAdmin
  BY DEF WriteLibrary
<1>2. /\ admin.do \in {"create", "change"} /\ admin.type \in Types /\ admin.lib \in Libs /\ admin.type # "none"
      /\ admin.alone \in BOOLEAN
  BY <1>0, <1>1, CTTypes DEF CTInv, AdminChecked, Types
<1>3. PICK t \in Types \cup {"none"} :
        t = IF admin.do = "change" /\ type[admin.lib] = "none" THEN "none" ELSE admin.type
  BY <1>2
<1>4. type' = [type EXCEPT ![admin.lib] = t]
  BY <1>3 DEF WriteLibrary
<1>5. /\ type' \in [Libs -> Types \cup {"none"}]
      /\ \A lib \in Libs : type'[lib] = IF lib = admin.lib THEN t ELSE type[lib]
  BY <1>0, <1>2, <1>4 DEF CTTypeOK
<1>6. \A lib \in Libs : type[lib] # "none" => type'[lib] # "none"
  BY <1>2, <1>3, <1>5
<1>7. CTTypeOK'
  BY <1>0, <1>1, <1>2, <1>5, ScanStarts DEF CTTypeOK, Folder
<1>8. RowsListed'
  BY <1>1, <1>6 DEF CTInv, RowsListed, Folder
<1>9. AdminChecked'
  BY <1>1, ScanStarts DEF AdminChecked
<1>10. ~mixed' => /\ ~mixed /\ admin.alone /\ upload = NoUpload /\ \A r \in Scans : ~Cataloguing(r)
                  /\ admin.do = "create" => \A f \in Nested : rows[Outer][f] = "none"
                  /\ admin.do = "change" => /\ admin.type = "movies" => <<admin.lib, "episode">> \notin titles
                                            /\ admin.type = "tv" => <<admin.lib, "movie">> \notin titles
  BY <1>1, <1>2 DEF CTInv, AdminChecked
<1>11. admin.do = "create" => admin.lib = Inner /\ type[Inner] = "none"
  BY DEF CTInv, AdminChecked
<1>12. Owned'
  <2> SUFFICES ASSUME ~mixed', type'[Inner] # "none" PROVE \A f \in Nested : rows[Outer][f] = "none"
    BY <1>1, <1>10 DEF Owned, Cataloguing
  <2>1. CASE admin.do = "create"
    BY <1>10, <2>1
  <2>2. CASE admin.do = "change"
    <3>1. type[Inner] # "none"
      BY <1>3, <1>5, <2>2 DEF Libs
    <3> QED
      BY <1>10, <3>1 DEF CTInv, Owned
  <2> QED
    BY <1>2, <2>1, <2>2
<1>13. TypeRead'
  BY <1>1, <1>10 DEF TypeRead, Cataloguing
<1>14. TypeDescribes'
  <2> SUFFICES ASSUME ~mixed', NEW lib \in Libs
               PROVE  /\ type'[lib] = "movies" => <<lib, "episode">> \notin titles
                      /\ type'[lib] = "tv" => <<lib, "movie">> \notin titles
    BY <1>1 DEF TypeDescribes
  <2>1. CASE lib # admin.lib
    BY <1>5, <1>10, <2>1 DEF CTInv, TypeDescribes
  <2>2. CASE lib = admin.lib /\ admin.do = "create"
    BY <1>11, <2>2 DEF CTInv, RowsListed, Kinds
  <2>3. CASE lib = admin.lib /\ admin.do = "change"
    BY <1>3, <1>5, <1>10, <2>3
  <2> QED
    BY <1>2, <2>1, <2>2, <2>3
<1>15. Walked' /\ FlagUp' /\ OneScan'
  BY <1>1 DEF CTInv, Walked, WalkedAs, FlagUp, OneScan, Active, Cataloguing
<1>16. Undisturbed'
  <2> SUFFICES ASSUME NEW o \in Scans PROVE UndisturbedAs(o, scan[o])'
    BY DEF Undisturbed
  <2>1. PICK s : s = scan[o] /\ UndisturbedAs(o, s) /\ WalkedAs(s) /\ s.lib \in Libs
    BY <1>0, CTTypes DEF CTInv, Undisturbed, Walked
  <2>2. InCatalogue(s) \/ s.ok => Active(o)
    BY <2>1 DEF InCatalogue, WalkedAs, Active
  <2>3. InCatalogue(s) \/ s.ok => (type'[s.lib] # "none" <=> type[s.lib] # "none")
    <3>1. CASE admin.do = "create"
      <4>1. Active(o) => s.lib # Inner
        BY <2>1, <3>1 DEF CTInv, AdminChecked
      <4> QED
        BY <1>5, <1>11, <2>1, <2>2, <3>1, <4>1
    <3>2. CASE admin.do = "change"
      BY <1>2, <1>3, <1>5, <2>1, <3>2
    <3> QED
      BY <1>2, <3>1, <3>2
  <2>4. \A f \in Files : Classify(f)' = Classify(f)
    BY <1>1 DEF Classify
  <2>5. \A q \in Scans : Cataloguing(q)' <=> Cataloguing(q)
    BY <1>1 DEF Cataloguing
  <2>6. UndisturbedAs(o, s)'
    BY <1>0, <1>1, <2>1, <2>3, <2>4, <2>5, CTTypes DEF UndisturbedAs
  <2> QED
    BY <1>1, <2>1, <2>6
<1> QED
  BY <1>7, <1>8, <1>9, <1>12, <1>13, <1>14, <1>15, <1>16 DEF CTInv

LEMMA DeleteInv == ASSUME CTInv, NEW lib \in Libs, Delete(lib) PROVE CTInv'
<1>0. CTTypeOK
  BY DEF CTInv
<1>1. /\ UNCHANGED <<disk, mounted, runs, running, flag, scan, upload, admin, mixed, doubled>>
      /\ admin = NoAdmin /\ titles' = {t \in titles : t[1] # lib}
  BY DEF Delete
<1>2. events' \in 0 .. MaxEvents
  BY <1>0, CatalogueAssumption DEF Delete, Event, CTTypeOK
<1>3. /\ type' \in [Libs -> Types \cup {"none"}]
      /\ \A l \in Libs : type'[l] = IF l = lib THEN "none" ELSE type[l]
  BY <1>0 DEF Delete, CTTypeOK
<1>4. PICK none : none = [f \in Files |-> "none"]
  OBVIOUS
<1>5. none \in [Files -> Availability \cup {"none"}] /\ \A f \in Files : none[f] = "none"
  BY <1>4
<1>6. rows' = [rows EXCEPT ![lib] = none]
  BY <1>4 DEF Delete
<1>7. /\ rows' \in [Libs -> [Files -> Availability \cup {"none"}]]
      /\ \A l \in Libs : rows'[l] = IF l = lib THEN none ELSE rows[l]
  BY <1>0, <1>5, <1>6 DEF CTTypeOK
<1>8. \A l \in Libs, f \in Files : rows'[l][f] = IF l = lib THEN "none" ELSE rows[l][f]
  BY <1>5, <1>7
<1>9. titles' \subseteq titles /\ \A l \in Libs, k \in Kinds : <<l, k>> \in titles' <=> <<l, k>> \in titles /\ l # lib
  BY <1>1
<1>10. CTTypeOK'
  BY <1>0, <1>1, <1>2, <1>3, <1>7, <1>9 DEF CTTypeOK, Folder
<1>11. RowsListed'
  <2>1. \A l \in Libs, f \in Files : rows'[l][f] # "none" =>
          f \in Folder(l) /\ type'[l] # "none" /\ <<l, KindOf[f]>> \in titles'
    <3> SUFFICES ASSUME NEW l \in Libs, NEW f \in Files, rows'[l][f] # "none"
                 PROVE  f \in Folder(l) /\ type'[l] # "none" /\ <<l, KindOf[f]>> \in titles'
      OBVIOUS
    <3>1. l # lib /\ rows[l][f] # "none"
      BY <1>8
    <3>2. KindOf[f] \in Kinds
      BY CatalogueAssumption DEF Kinds
    <3> QED
      BY <1>3, <1>9, <3>1, <3>2 DEF CTInv, RowsListed
  <2>2. \A l \in Libs, kind \in Kinds : <<l, kind>> \in titles' => type'[l] # "none"
    BY <1>3, <1>9 DEF CTInv, RowsListed
  <2> QED
    BY <2>1, <2>2 DEF RowsListed, Folder
<1>12. TypeDescribes'
  BY <1>1, <1>3, <1>9 DEF CTInv, TypeDescribes
<1>13. AdminChecked'
  BY <1>1, ScanStarts DEF AdminChecked
<1>14. Owned'
  BY <1>1, <1>3, <1>8, CatalogueAssumption DEF CTInv, Owned, Libs, Cataloguing
<1>15. TypeRead'
  BY <1>0, <1>1, <1>3, CTTypes DEF CTInv, TypeRead, Cataloguing
<1>16. Walked' /\ FlagUp' /\ OneScan'
  BY <1>1 DEF CTInv, Walked, WalkedAs, FlagUp, OneScan, Active, Cataloguing
<1>17. Undisturbed'
  <2> SUFFICES ASSUME NEW o \in Scans PROVE UndisturbedAs(o, scan[o])'
    BY DEF Undisturbed
  <2>1. PICK s : s = scan[o] /\ UndisturbedAs(o, s) /\ s.lib \in Libs /\ s.seen \subseteq Files /\ s.at \subseteq Files
    BY <1>0, CTTypes DEF CTInv, Undisturbed
  <2>2. \A f \in Files : Classify(f)' = Classify(f)
    BY <1>1 DEF Classify
  <2>3. \A q \in Scans : Cataloguing(q)' <=> Cataloguing(q)
    BY <1>1 DEF Cataloguing
  <2>4. CASE s.lib = lib
    <3>1. type'[s.lib] = "none" /\ \A f \in Files : rows'[s.lib][f] = "none"
      BY <1>3, <1>8, <2>4
    <3>2. UndisturbedAs(o, s)'
      BY <1>1, <2>1, <2>2, <2>3, <3>1 DEF UndisturbedAs
    <3> QED
      BY <1>1, <2>1, <3>2
  <2>5. CASE s.lib # lib
    <3>1. type'[s.lib] = type[s.lib] /\ \A f \in Files : rows'[s.lib][f] = rows[s.lib][f]
      BY <1>3, <1>8, <2>1, <2>5
    <3>2. UndisturbedAs(o, s)'
      BY <1>1, <2>1, <2>2, <2>3, <3>1 DEF UndisturbedAs
    <3> QED
      BY <1>1, <2>1, <3>2
  <2> QED
    BY <2>4, <2>5
<1> QED
  BY <1>10, <1>11, <1>12, <1>13, <1>14, <1>15, <1>16, <1>17 DEF CTInv

\* What cataloguing a file does to the rows and titles of its library.
LEMMA UpsertFacts ==
    ASSUME CTInv, NEW lib \in Libs, NEW f \in Folder(lib), NEW ct, Upsert(lib, f, ct), f \in Files,
           type[lib] # "none", ~mixed => ct = type[lib],
           ~mixed /\ lib = Outer /\ type[Inner] # "none" => f \notin Nested, UNCHANGED <<type, mixed>>
    PROVE  /\ rows' \in [Libs -> [Files -> Availability \cup {"none"}]] /\ titles' \subseteq Libs \X Kinds
           /\ RowsListed' /\ TypeDescribes'
           /\ \A l \in Libs, g \in Files : l # lib \/ g # f => rows'[l][g] = rows[l][g]
           /\ \/ rows'[lib][f] = "online"
              \/ rows'[lib][f] = "none" /\ ~Fits(ct, KindOf[f])
           /\ ~mixed /\ type[Inner] # "none" => \A g \in Nested : rows'[Outer][g] = "none"
<1>0. CTTypeOK
  BY DEF CTInv
<1>1. CASE rows[lib][f] = "none" /\ ~Fits(ct, KindOf[f])
  <2>1. UNCHANGED <<rows, titles>>
    BY <1>1 DEF Upsert
  <2>2. RowsListed' /\ TypeDescribes'
    BY <2>1 DEF CTInv, RowsListed, TypeDescribes, Folder
  <2> QED
    BY <1>0, <1>1, <2>1, <2>2 DEF CTTypeOK, CTInv, Owned
<1>2. CASE ~(rows[lib][f] = "none" /\ ~Fits(ct, KindOf[f]))
  <2>1. rows' = [rows EXCEPT ![lib][f] = "online"] /\ titles' = titles \cup {<<lib, KindOf[f]>>}
    BY <1>2 DEF Upsert
  <2>2. KindOf[f] \in Kinds
    BY CatalogueAssumption DEF Kinds
  <2>3. PICK old \in [Files -> Availability \cup {"none"}] : old = rows[lib]
    BY <1>0, CTTypes
  <2>4. PICK new : new = [old EXCEPT ![f] = "online"]
    OBVIOUS
  <2>5. /\ new \in [Files -> Availability \cup {"none"}]
        /\ \A g \in Files : new[g] = IF g = f THEN "online" ELSE old[g]
    BY <2>4 DEF Availability
  <2>6. rows' = [rows EXCEPT ![lib] = new]
    BY <1>0, <2>1, <2>3, <2>4, CTTypes
  <2>7. /\ rows' \in [Libs -> [Files -> Availability \cup {"none"}]]
        /\ \A l \in Libs : rows'[l] = IF l = lib THEN new ELSE rows[l]
    BY <1>0, <2>5, <2>6 DEF CTTypeOK
  <2>8. \A l \in Libs, g \in Files : rows'[l][g] = IF l = lib /\ g = f THEN "online" ELSE rows[l][g]
    BY <2>3, <2>5, <2>7
  <2>9. titles' \subseteq Libs \X Kinds
    BY <1>0, <2>1, <2>2 DEF CTTypeOK
  <2>10. RowsListed'
    <3>1. \A l \in Libs, g \in Files : rows'[l][g] # "none" =>
            g \in Folder(l) /\ type[l] # "none" /\ <<l, KindOf[g]>> \in titles'
      BY <2>1, <2>8 DEF CTInv, RowsListed
    <3>2. \A l \in Libs, kind \in Kinds : <<l, kind>> \in titles' => type[l] # "none"
      BY <2>1 DEF CTInv, RowsListed
    <3> QED
      BY <3>1, <3>2 DEF RowsListed, Folder
  <2>11. TypeDescribes'
    <3> SUFFICES ASSUME ~mixed, NEW l \in Libs
                 PROVE  /\ type[l] = "movies" => <<l, "episode">> \notin titles'
                        /\ type[l] = "tv" => <<l, "movie">> \notin titles'
      BY DEF TypeDescribes
    <3>1. CASE rows[lib][f] # "none"
      <4>1. <<lib, KindOf[f]>> \in titles
        BY <3>1 DEF CTInv, RowsListed
      <4> QED
        BY <2>1, <4>1 DEF CTInv, TypeDescribes
    <3>2. CASE Fits(type[lib], KindOf[f])
      BY <2>1, <3>2 DEF CTInv, TypeDescribes, Fits
    <3> QED
      BY <1>2, <3>1, <3>2
  <2>12. ~mixed /\ type[Inner] # "none" => \A g \in Nested : rows'[Outer][g] = "none"
    BY <2>8, CatalogueAssumption DEF CTInv, Owned, Libs
  <2> QED
    BY <2>7, <2>8, <2>9, <2>10, <2>11, <2>12
<1> QED
  BY <1>1, <1>2

LEMMA IngestInv == ASSUME CTInv, NEW f \in Files, Ingest(f) PROVE CTInv'
<1>0. CTTypeOK
  BY DEF CTInv
<1>1. /\ UNCHANGED <<disk, mounted, type, runs, running, flag, admin, mixed, doubled, events>>
      /\ upload # NoUpload /\ upload' = NoUpload /\ scan' = Disturbed(scan)
      /\ f \in IF upload.lib = Inner THEN Nested ELSE Files \ Nested
  BY DEF Ingest
<1>2. PICK lib \in Libs : lib = upload.lib
  BY <1>0, CTTypes
<1>3. /\ rows' \in [Libs -> [Files -> Availability \cup {"none"}]] /\ titles' \subseteq Libs \X Kinds
      /\ RowsListed' /\ TypeDescribes'
      /\ ~mixed /\ type[Inner] # "none" => \A g \in Nested : rows'[Outer][g] = "none"
  <2>1. CASE type[lib] = "none"
    <3>1. UNCHANGED <<rows, titles>>
      BY <1>2, <2>1 DEF Ingest
    <3>2. RowsListed' /\ TypeDescribes'
      BY <1>1, <3>1 DEF CTInv, RowsListed, TypeDescribes, Folder
    <3> QED
      BY <1>0, <3>1, <3>2 DEF CTTypeOK, CTInv, Owned
  <2>2. CASE type[lib] # "none"
    <3>1. Upsert(lib, f, upload.type)
      BY <1>2, <2>2 DEF Ingest
    <3>2. f \in Folder(lib)
      BY <1>1, <1>2 DEF Folder
    <3>3. ~mixed => upload.type = type[lib]
      BY <1>1, <1>2, <2>2 DEF CTInv, TypeRead
    <3>4. lib = Outer => f \notin Nested
      BY <1>1, <1>2, CatalogueAssumption
    <3> QED
      BY <1>1, <2>2, <3>1, <3>2, <3>3, <3>4, UpsertFacts
  <2> QED
    BY <2>1, <2>2
<1>4. CTTypeOK'
  BY <1>0, <1>1, <1>3, ScanStarts, DisturbedInv, ZenonT(60) DEF CTTypeOK, Folder
<1>5. AdminChecked'
  <2>1. /\ \A o \in Scans : Active(o)' <=> Active(o)
        /\ \A o \in Scans : scan'[o].lib = scan[o].lib
    BY <1>1, DisturbedInv
  <2> QED
    BY <1>1, <2>1, ScanStarts, CatalogueAssumption DEF CTInv, AdminChecked
<1>6. Owned'
  BY <1>1, <1>3, DisturbedInv DEF CTInv, Owned
<1>7. TypeRead' /\ FlagUp'
  BY <1>1, DisturbedInv DEF CTInv, TypeRead, FlagUp
<1> QED
  BY <1>1, <1>3, <1>4, <1>5, <1>6, <1>7, DisturbedInv DEF CTInv

\* The steps of a scan that write rows: nothing is said of the other scans.
LEMMA ScanWrites ==
    ASSUME CTInv, NEW r \in Scans, NEW s \in Scanning, scan' = [scan EXCEPT ![r] = s], Active(r),
           UNCHANGED <<disk, mounted, type, runs, running, flag, upload, admin, mixed, doubled, events>>,
           s.seen \subseteq s.found, s.found = scan[r].found, s.lib = scan[r].lib, s.type = scan[r].type,
           WalkedAs(s), InCatalogue(s) => Cataloguing(r), s.pc \notin {"idle", "ended"},
           ~mounted \/ Cataloguing(r),
           rows' \in [Libs -> [Files -> Availability \cup {"none"}]], titles' \subseteq Libs \X Kinds,
           RowsListed', TypeDescribes',
           ~mixed /\ type[Inner] # "none" => \A g \in Nested : rows'[Outer][g] = "none",
           titles' = titles \/ Cataloguing(r),
           \A g \in Nested : rows[Outer][g] = "none" => rows'[Outer][g] = "none" \/ Cataloguing(r),
           UndisturbedAs(r, s)'
    PROVE  CTInv'
<1>0. CTTypeOK
  BY DEF CTInv
<1>1. scan' \in [Scans -> Scanning] /\ \A o \in Scans : scan'[o] = IF o = r THEN s ELSE scan[o]
  BY <1>0, CTTypes
<1>2. \A o \in Scans : Cataloguing(o)' => /\ Cataloguing(o) /\ scan'[o].type = scan[o].type
                                          /\ scan'[o].found = scan[o].found /\ scan'[o].lib = scan[o].lib
  BY <1>1 DEF Cataloguing, InCatalogue
<1>3. \A o \in Scans : (Active(o)' <=> Active(o)) /\ scan'[o].lib = scan[o].lib
  BY <1>1 DEF Active
<1>4. CTTypeOK'
  <2>1. \A o \in Scans : scan'[o].seen \subseteq scan'[o].found /\ scan'[o].found \subseteq Folder(scan'[o].lib)
    BY <1>0, <1>1, CTTypes
  <2> QED
    BY <1>0, <1>1, <2>1 DEF CTTypeOK, Folder
<1>5. Walked'
  BY <1>1 DEF CTInv, Walked, WalkedAs
<1>6. AdminChecked'
  <2>1. AdminChecked
    BY DEF CTInv
  <2>2. admin # NoAdmin /\ admin.alone => ~Cataloguing(r) /\ titles' = titles
    BY <2>1 DEF AdminChecked
  <2>3. admin # NoAdmin /\ admin.alone /\ admin.do = "create" => \A f \in Nested : rows'[Outer][f] = "none"
    BY <2>1, <2>2 DEF AdminChecked
  <2>4. admin # NoAdmin /\ admin.alone => \A o \in Scans : ~Cataloguing(o)'
    BY <1>2, <2>1 DEF AdminChecked
  <2>5. admin.do = "create" => \A o \in Scans : Active(o)' => scan'[o].lib # Inner
    BY <1>3, <2>1 DEF AdminChecked
  <2> QED
    BY <2>1, <2>2, <2>3, <2>4, <2>5 DEF AdminChecked
<1>7. Owned'
  BY <1>2 DEF CTInv, Owned
<1>8. TypeRead'
  BY <1>2 DEF CTInv, TypeRead
<1>9. OneScan'
  BY <1>3 DEF CTInv, OneScan
<1>10. FlagUp'
  BY <1>2 DEF CTInv, FlagUp
<1>11. Undisturbed'
  <2> SUFFICES ASSUME NEW o \in Scans PROVE UndisturbedAs(o, scan[o])'
    BY DEF Undisturbed
  <2>1. CASE o = r
    <3>1. PICK t : t = scan'[o] /\ t = s
      BY <1>1, <2>1
    <3>2. UndisturbedAs(o, t)'
      BY <2>1, <3>1
    <3> QED
      BY <3>1, <3>2 DEF UndisturbedAs
  <2>2. CASE o # r
    <3>1. PICK t : t = scan'[o] /\ UndisturbedAs(o, t)
      BY <1>1, <2>2 DEF CTInv, Undisturbed
    <3>2. ~((InCatalogue(t) \/ t.ok) /\ t.quiet)
      BY <2>2, <3>1 DEF UndisturbedAs
    <3>3. UndisturbedAs(o, t)'
      BY <3>2 DEF UndisturbedAs, InCatalogue
    <3> QED
      BY <3>1, <3>3 DEF UndisturbedAs
  <2> QED
    BY <2>1, <2>2
<1> QED
  BY <1>4, <1>5, <1>6, <1>7, <1>8, <1>9, <1>10, <1>11 DEF CTInv

LEMMA BatchInv == ASSUME CTInv, NEW r \in Scans, NEW f \in Files, Batch(r, f) PROVE CTInv'
<1>0. CTTypeOK /\ WalkedAs(scan[r]) /\ UndisturbedAs(r, scan[r])
  BY DEF CTInv, Walked, Undisturbed
<1>1. PICK old \in Scanning : old = scan[r]
  BY <1>0, CTTypes
<1>2. /\ UNCHANGED <<disk, mounted, type, runs, running, flag, upload, admin, mixed, doubled, events>>
      /\ old.pc = "batch" /\ f \in old.found \ old.seen /\ type[old.lib] # "none" /\ old.ok = FALSE
      /\ Upsert(old.lib, f, old.type)
  BY <1>1, NotOk DEF Batch
<1>3. PICK seen \in SUBSET Files : seen = old.seen \cup {f}
  BY DEF Scanning
<1>4. PICK s : s = [old EXCEPT !.seen = seen]
  OBVIOUS
<1>5. /\ s \in Scanning /\ s.pc = "batch" /\ s.lib = old.lib /\ s.found = old.found /\ s.seen = seen
      /\ s.ok = FALSE /\ s.type = old.type /\ s.quiet = old.quiet
  BY <1>2, <1>4 DEF Scanning
<1>6. scan' = [scan EXCEPT ![r] = s]
  <2>1. scan' = [scan EXCEPT ![r].seen = seen]
    BY <1>1, <1>3 DEF Batch
  <2> QED
    BY <1>1, <1>4, <2>1
<1>7. old.lib \in Libs /\ f \in Folder(old.lib) /\ old.seen \subseteq old.found /\ old.seen \subseteq Files
  BY <1>0, <1>1, <1>2, CTTypes
<1>8. Active(r) /\ Cataloguing(r) /\ InCatalogue(old)
  BY <1>1, <1>2 DEF Active, Cataloguing, InCatalogue
<1>9. ~mixed => old.type = type[old.lib]
  BY <1>1, <1>2, <1>8 DEF CTInv, TypeRead
<1>10. ~mixed /\ old.lib = Outer /\ type[Inner] # "none" => f \notin Nested
  BY <1>1, <1>2, <1>8 DEF CTInv, Owned
<1>11. /\ rows' \in [Libs -> [Files -> Availability \cup {"none"}]] /\ titles' \subseteq Libs \X Kinds
       /\ RowsListed' /\ TypeDescribes'
       /\ \A l \in Libs, g \in Files : l # old.lib \/ g # f => rows'[l][g] = rows[l][g]
       /\ \/ rows'[old.lib][f] = "online"
          \/ rows'[old.lib][f] = "none" /\ ~Fits(old.type, KindOf[f])
       /\ ~mixed /\ type[Inner] # "none" => \A g \in Nested : rows'[Outer][g] = "none"
  BY <1>2, <1>7, <1>9, <1>10, UpsertFacts
<1>12. WalkedAs(s)
  BY <1>5 DEF WalkedAs
<1>13. UndisturbedAs(r, s)'
  <2> SUFFICES ASSUME s.quiet
               PROVE  /\ mounted /\ s.found \subseteq disk /\ \A o \in Scans \ {r} : ~Cataloguing(o)'
                      /\ \A g \in s.seen :
                            \/ rows'[s.lib][g] = "online"
                            \/ rows'[s.lib][g] = "none" /\ ~(Fits(s.type, KindOf[g]) /\ type[s.lib] # "none")
    BY <1>2, <1>5 DEF UndisturbedAs, InCatalogue
  <2>1. /\ mounted /\ old.found \subseteq disk /\ \A o \in Scans \ {r} : ~Cataloguing(o)
        /\ \A g \in old.seen :
              \/ rows[old.lib][g] = "online"
              \/ rows[old.lib][g] = "none" /\ ~(Fits(old.type, KindOf[g]) /\ type[old.lib] # "none")
    BY <1>0, <1>1, <1>5, <1>8 DEF UndisturbedAs
  <2>2. \A o \in Scans \ {r} : ~Cataloguing(o)'
    BY <1>6, <2>1 DEF Cataloguing
  <2>3. ASSUME NEW g \in s.seen
        PROVE  \/ rows'[s.lib][g] = "online"
               \/ rows'[s.lib][g] = "none" /\ ~(Fits(s.type, KindOf[g]) /\ type[s.lib] # "none")
    <3>1. CASE g = f
      BY <1>5, <1>11, <3>1
    <3>2. CASE g # f
      <4>1. g \in old.seen /\ g \in Files
        BY <1>3, <1>5, <1>7, <3>2
      <4>2. rows'[old.lib][g] = rows[old.lib][g]
        BY <1>7, <1>11, <3>2, <4>1
      <4> QED
        BY <1>5, <2>1, <4>1, <4>2
    <3> QED
      BY <3>1, <3>2
  <2> QED
    BY <1>5, <2>1, <2>2, <2>3
<1>14. s.seen \subseteq s.found /\ s.found = scan[r].found
  BY <1>1, <1>2, <1>3, <1>5, <1>7
<1> QED
  BY <1>1, <1>2, <1>5, <1>6, <1>8, <1>11, <1>12, <1>13, <1>14, ScanWrites

\* Other values for rows that are there, in a library.
LEMMA RowsRewritten ==
    ASSUME CTInv, NEW lib \in Libs, NEW new \in [Files -> Availability \cup {"none"}],
           rows' = [rows EXCEPT ![lib] = new], \A f \in Files : rows[lib][f] = "none" => new[f] = "none",
           UNCHANGED <<type, titles, mixed>>
    PROVE  /\ rows' \in [Libs -> [Files -> Availability \cup {"none"}]] /\ titles' \subseteq Libs \X Kinds
           /\ RowsListed' /\ TypeDescribes'
           /\ \A l \in Libs, f \in Files : rows'[l][f] = IF l = lib THEN new[f] ELSE rows[l][f]
           /\ \A f \in Files : rows[Outer][f] = "none" => rows'[Outer][f] = "none"
           /\ ~mixed /\ type[Inner] # "none" => \A f \in Nested : rows'[Outer][f] = "none"
<1>0. CTTypeOK
  BY DEF CTInv
<1>1. /\ rows' \in [Libs -> [Files -> Availability \cup {"none"}]]
      /\ \A l \in Libs, f \in Files : rows'[l][f] = IF l = lib THEN new[f] ELSE rows[l][f]
  BY <1>0 DEF CTTypeOK
<1>2. \A l \in Libs, f \in Files : rows'[l][f] # "none" => rows[l][f] # "none"
  BY <1>1
<1>3. RowsListed'
  BY <1>2 DEF CTInv, RowsListed, Folder
<1>4. TypeDescribes'
  BY DEF CTInv, TypeDescribes
<1>5. \A f \in Files : rows[Outer][f] = "none" => rows'[Outer][f] = "none"
  BY <1>2 DEF Libs
<1>6. ~mixed /\ type[Inner] # "none" => \A f \in Nested : rows'[Outer][f] = "none"
  BY <1>5, CatalogueAssumption DEF CTInv, Owned
<1> QED
  BY <1>0, <1>1, <1>3, <1>4, <1>5, <1>6 DEF CTTypeOK

LEMMA RootGoneInv == ASSUME CTInv, NEW r \in Scans, RootGone(r) PROVE CTInv'
<1>0. CTTypeOK
  BY DEF CTInv
<1>1. PICK old \in Scanning : old = scan[r]
  BY <1>0, CTTypes
<1>2. /\ UNCHANGED <<disk, mounted, type, titles, runs, running, flag, upload, admin, mixed, doubled, events>>
      /\ old.pc = "started" /\ ~mounted /\ old.ok = FALSE /\ old.lib \in Libs
  BY <1>0, <1>1, NotOk, CTTypes DEF RootGone
<1>3. PICK row \in [Files -> Availability \cup {"none"}] : row = rows[old.lib]
  BY <1>0, <1>2, CTTypes
<1>4. PICK new : new = [f \in Files |-> IF row[f] = "none" THEN "none" ELSE "offline"]
  OBVIOUS
<1>5. new \in [Files -> Availability \cup {"none"}] /\ \A f \in Files : row[f] = "none" => new[f] = "none"
  BY <1>4 DEF Availability
<1>6. rows' = [rows EXCEPT ![old.lib] = new]
  BY <1>0, <1>1, <1>2, <1>3, <1>4 DEF RootGone, CTTypeOK
<1>7. PICK s : s = [old EXCEPT !.pc = "report"]
  OBVIOUS
<1>8. /\ s \in Scanning /\ s.pc = "report" /\ s.lib = old.lib /\ s.found = old.found /\ s.seen = old.seen
      /\ s.ok = FALSE /\ s.type = old.type
  <2>1. "report" \in ScanPC
    BY DEF ScanPC
  <2> QED
    BY <1>2, <1>7, <2>1, ScanRecord
<1>9. scan' = [scan EXCEPT ![r] = s]
  BY <1>1, <1>7 DEF RootGone
<1>10. WalkedAs(s) /\ ~InCatalogue(s) /\ UndisturbedAs(r, s)'
  BY <1>8 DEF WalkedAs, InCatalogue, UndisturbedAs
<1>11. /\ rows' \in [Libs -> [Files -> Availability \cup {"none"}]] /\ titles' \subseteq Libs \X Kinds
       /\ RowsListed' /\ TypeDescribes'
       /\ \A f \in Files : rows[Outer][f] = "none" => rows'[Outer][f] = "none"
       /\ ~mixed /\ type[Inner] # "none" => \A f \in Nested : rows'[Outer][f] = "none"
  BY <1>2, <1>3, <1>5, <1>6, RowsRewritten
<1>12. Active(r) /\ s.seen \subseteq s.found
  BY <1>0, <1>1, <1>2, <1>8, CTTypes DEF Active
<1>13. \A g \in Nested : rows[Outer][g] = "none" => rows'[Outer][g] = "none"
  BY <1>11, CatalogueAssumption
<1> QED
  BY <1>1, <1>2, <1>8, <1>9, <1>10, <1>11, <1>12, <1>13, ScanWrites

LEMMA WriteFileInv == ASSUME CTInv, NEW r \in Scans, NEW f \in Files, WriteFile(r, f) PROVE CTInv'
<1>0. CTTypeOK /\ WalkedAs(scan[r]) /\ UndisturbedAs(r, scan[r])
  BY DEF CTInv, Walked, Undisturbed
<1>1. PICK old \in Scanning : old = scan[r]
  BY <1>0, CTTypes
<1>2. /\ UNCHANGED <<disk, mounted, type, titles, runs, running, flag, upload, admin, mixed, doubled, events>>
      /\ old.pc = "write" /\ f \in old.at /\ old.ok = FALSE /\ old.lib \in Libs
  BY <1>0, <1>1, NotOk, CTTypes DEF WriteFile
<1>3. PICK row \in [Files -> Availability \cup {"none"}] : row = rows[old.lib]
  BY <1>0, <1>2, CTTypes
<1>4. PICK v \in Availability \cup {"none"} : v = IF row[f] = "none" THEN "none" ELSE old.stat
  BY DEF Scanning
<1>5. PICK new : new = [row EXCEPT ![f] = v]
  OBVIOUS
<1>6. /\ new \in [Files -> Availability \cup {"none"}]
      /\ \A g \in Files : new[g] = IF g = f THEN v ELSE row[g]
  BY <1>5
<1>7. rows' = [rows EXCEPT ![old.lib] = new]
  <2>1. rows' = [rows EXCEPT ![old.lib][f] = v]
    BY <1>0, <1>1, <1>2, <1>3, <1>4 DEF WriteFile, CTTypeOK
  <2> QED
    BY <1>0, <1>2, <1>3, <1>5, <2>1 DEF CTTypeOK
<1>8. PICK left \in SUBSET Files : left = old.left \ {f}
  BY DEF Scanning
<1>9. PICK s : s = [old EXCEPT !.pc = "mark", !.left = left, !.at = {}]
  OBVIOUS
<1>10. /\ s \in Scanning /\ s.pc = "mark" /\ s.lib = old.lib /\ s.found = old.found /\ s.seen = old.seen
       /\ s.ok = FALSE /\ s.type = old.type /\ s.left = left /\ s.quiet = old.quiet
  <2>1. "mark" \in ScanPC
    BY DEF ScanPC
  <2> QED
    BY <1>2, <1>9, <2>1 DEF Scanning
<1>11. scan' = [scan EXCEPT ![r] = s]
  <2>1. scan' = [scan EXCEPT ![r].pc = "mark", ![r].left = left, ![r].at = {}]
    BY <1>1, <1>8 DEF WriteFile
  <2> QED
    BY <1>1, <1>9, <2>1
<1>12. /\ rows' \in [Libs -> [Files -> Availability \cup {"none"}]] /\ titles' \subseteq Libs \X Kinds
       /\ RowsListed' /\ TypeDescribes'
       /\ \A l \in Libs, g \in Files : rows'[l][g] = IF l = old.lib THEN new[g] ELSE rows[l][g]
       /\ ~mixed /\ type[Inner] # "none" => \A g \in Nested : rows'[Outer][g] = "none"
  <2>1. \A g \in Files : rows[old.lib][g] = "none" => new[g] = "none"
    BY <1>3, <1>4, <1>6
  <2> QED
    BY <1>2, <1>6, <1>7, <2>1, RowsRewritten
<1>13. Active(r) /\ Cataloguing(r) /\ InCatalogue(old)
  BY <1>1, <1>2 DEF Active, Cataloguing, InCatalogue
<1>14. f \in old.left /\ old.seen = old.found /\ old.left \cap old.seen = {} /\ old.seen \subseteq Files
  BY <1>0, <1>1, <1>2 DEF WalkedAs, Scanning
<1>15. WalkedAs(s)
  BY <1>8, <1>10, <1>14 DEF WalkedAs
<1>16. UndisturbedAs(r, s)'
  <2> SUFFICES ASSUME s.quiet
               PROVE  /\ mounted /\ s.found \subseteq disk /\ \A o \in Scans \ {r} : ~Cataloguing(o)'
                      /\ \A g \in s.seen :
                            \/ rows'[s.lib][g] = "online"
                            \/ rows'[s.lib][g] = "none" /\ ~(Fits(s.type, KindOf[g]) /\ type[s.lib] # "none")
                      /\ \A g \in Files \ (s.left \cup s.seen) : rows'[s.lib][g] \in {"none", Classify(g)}
    BY <1>2, <1>10 DEF UndisturbedAs, InCatalogue, Classify
  <2>1. /\ mounted /\ old.found \subseteq disk /\ \A o \in Scans \ {r} : ~Cataloguing(o)
        /\ \A g \in old.seen :
              \/ rows[old.lib][g] = "online"
              \/ rows[old.lib][g] = "none" /\ ~(Fits(old.type, KindOf[g]) /\ type[old.lib] # "none")
        /\ \A g \in Files \ (old.left \cup old.seen) : rows[old.lib][g] \in {"none", Classify(g)}
        /\ old.stat = Classify(f)
    BY <1>0, <1>1, <1>2, <1>10, <1>13 DEF UndisturbedAs
  <2>2. \A o \in Scans \ {r} : ~Cataloguing(o)'
    BY <1>11, <2>1 DEF Cataloguing
  <2>3. \A g \in Files : g # f => rows'[old.lib][g] = rows[old.lib][g]
    BY <1>2, <1>3, <1>6, <1>12
  <2>4. rows'[old.lib][f] \in {"none", Classify(f)}
    BY <1>2, <1>4, <1>6, <1>12, <2>1
  <2>5. \A g \in s.seen : g # f /\ g \in old.seen /\ g \in Files
    BY <1>10, <1>14
  <2>6. \A g \in Files \ (s.left \cup s.seen) : g = f \/ g \in Files \ (old.left \cup old.seen)
    BY <1>8, <1>10
  <2> QED
    BY <1>10, <2>1, <2>2, <2>3, <2>4, <2>5, <2>6
<1>17. s.seen \subseteq s.found /\ s.found = scan[r].found /\ s.lib = scan[r].lib /\ s.type = scan[r].type
  BY <1>1, <1>10, <1>14
<1> QED
  BY <1>2, <1>10, <1>11, <1>12, <1>13, <1>15, <1>16, <1>17, ScanWrites

LEMMA CTStutterInv == ASSUME CTInv, UNCHANGED ctVars PROVE CTInv'
<1>0. UNCHANGED <<disk, mounted, type, rows, titles, runs, running, flag, scan, upload, admin, mixed, doubled, events>>
  BY DEF ctVars
<1>1. CTTypeOK' /\ RowsListed' /\ TypeDescribes'
  BY <1>0 DEF CTInv, CTTypeOK, RowsListed, TypeDescribes, Folder
<1>2. Walked' /\ AdminChecked' /\ Owned' /\ TypeRead' /\ OneScan' /\ FlagUp'
  BY <1>0 DEF CTInv, Walked, WalkedAs, AdminChecked, Owned, TypeRead, OneScan, FlagUp, Active, Cataloguing
<1>3. Undisturbed'
  BY <1>0 DEF CTInv, Undisturbed, UndisturbedAs, InCatalogue, Classify, Cataloguing
<1> QED
  BY <1>1, <1>2, <1>3 DEF CTInv

LEMMA CTNextInv == CTInv /\ [CTNext]_ctVars => CTInv'
<1> SUFFICES ASSUME CTInv, [CTNext]_ctVars PROVE CTInv'
  OBVIOUS
<1>1. ASSUME NEW r \in Scans, ScanStep(r) PROVE CTInv'
  BY <1>1, InsertRunInv, InsertRunFailsInv, RootGoneInv, ReadAndWalkInv, LibraryGoneInv, BatchInv, StatRowInv,
     WriteFileInv, BatchFailsInv, ListRowsInv, EndCatalogueInv, ReportScanInv, ReleaseScanInv DEF ScanStep
<1>2. ASSUME NEW lib \in Libs, IngestRead(lib) \/ Delete(lib) PROVE CTInv'
  BY <1>2, IngestReadInv, DeleteInv
<1>3. ASSUME NEW f \in Files, Ingest(f) \/ \E lib \in Libs, kind \in Kinds : Attach(lib, f, kind) PROVE CTInv'
  BY <1>3, IngestInv, AttachInv
<1>4. ASSUME NEW ct \in Types, CheckCreate(ct) \/ \E lib \in Libs : CheckType(lib, ct) PROVE CTInv'
  BY <1>4, CheckCreateInv, CheckTypeInv
<1> QED
  BY <1>1, <1>2, <1>3, <1>4, AskInv, WriteLibraryInv, DiskInv, CTStutterInv DEF CTNext

\* What the invariant says of every state.
LEMMA CTSafe == CTInv => CatalogueSafe
<1> SUFFICES ASSUME CTInv PROVE CatalogueSafe
  OBVIOUS
<1>0. CTTypeOK /\ TypeDescribes /\ FlagUp
  BY DEF CTInv
<1>1. OneOwner
  <2> SUFFICES ASSUME ~mixed, NEW f \in Files, rows[Inner][f] # "none" PROVE rows[Outer][f] = "none"
    BY DEF OneOwner
  <2>1. f \in Nested /\ type[Inner] # "none"
    BY CatalogueAssumption DEF CTInv, RowsListed, Libs, Folder
  <2> QED
    BY <2>1 DEF CTInv, Owned
<1>2. QuietScanTrue
  <2> SUFFICES ASSUME NEW r \in Scans, scan[r].ok, scan[r].quiet, NEW f \in scan[r].found \cup Files
               PROVE  /\ f \in scan[r].found /\ Fits(scan[r].type, KindOf[f]) /\ type[scan[r].lib] # "none"
                           => rows[scan[r].lib][f] = "online"
                      /\ rows[scan[r].lib][f] # "none" => rows[scan[r].lib][f] = Classify(f)
    BY DEF QuietScanTrue
  <2>1. PICK s : s = scan[r] /\ UndisturbedAs(r, s) /\ WalkedAs(s) /\ s.found \subseteq Files
    BY <1>0, CTTypes DEF CTInv, Undisturbed, Walked
  <2>2. s.pc \in {"report", "release"} /\ s.seen = s.found /\ f \in Files
    BY <2>1 DEF WalkedAs
  <2>3. /\ mounted /\ s.found \subseteq disk /\ s.left = {}
        /\ \A g \in s.seen : \/ rows[s.lib][g] = "online"
                             \/ rows[s.lib][g] = "none" /\ ~(Fits(s.type, KindOf[g]) /\ type[s.lib] # "none")
        /\ \A g \in Files \ (s.left \cup s.seen) : rows[s.lib][g] \in {"none", Classify(g)}
    BY <2>1, <2>2 DEF UndisturbedAs
  <2>4. f \in s.found => Classify(f) = "online"
    BY <2>3 DEF Classify
  <2> QED
    BY <2>1, <2>2, <2>3, <2>4
<1> QED
  BY <1>0, <1>1, <1>2 DEF CatalogueSafe

\* Unless something was catalogued between a check and its write, no file is
\* listed by two libraries and a library's type describes what is in it; a
\* move is told of every cataloguing; and a scan that nothing disturbed leaves
\* the truth (scan/scanner.go, library/service.go).
THEOREM CatalogueIsSafe == CTSpec => []CatalogueSafe
<1>1. CTStart => CTInv
  BY CTInitInv
<1>2. CTInv /\ [CTNext]_ctVars => CTInv'
  BY CTNextInv
<1>3. CTInv => CatalogueSafe
  BY CTSafe
<1> QED
  BY <1>1, <1>2, <1>3, PTL DEF CTSpec

-----------------------------------------------------------------------------
(* The update.                                                             *)

Infos == [status : {"idle", "checking", "updating", "ok", "error"}, auto : BOOLEAN,
          since : {"now", "while", "long"}]
Work == {"queued", "pulling", "restarting", "done"}

UpTyped ==
    /\ host \in [helper : BOOLEAN, socket : BOOLEAN]
    /\ info \in Infos
    /\ request \in {"none", "fresh", "late"}
    /\ report \in [stage : Work \cup {"none", "error"}, fresh : BOOLEAN]
    /\ main \in [image : {1, 2}, state : {"up", "stopped", "gone"}]
    /\ next \in [image : {1, 2}, state : {"none", "created", "up"}]
    /\ pulled \in {1, 2}
    /\ job \in [pc : {"off", "request", "noting", "run", "waiting", "clearing", "pulling"}, auto : BOOLEAN]
    /\ helper \in {"off", "taken", "pulling", "down", "up", "recorded"}
    /\ swapper \in {"off", "stop", "start", "remove", "rename"}
    /\ overlap \in BOOLEAN

\* Who has the update in hand. The server takes it back from the helper only
\* when the helper has not taken the request, or has reported that it failed.
Handed ==
    /\ helper # "off" => host.helper
    /\ request # "none" /\ helper # "off" => overlap
    /\ (job.pc = "pulling" \/ swapper # "off") /\ (request # "none" \/ helper # "off") => overlap
    /\ job.pc = "clearing" /\ helper # "off" => overlap
    /\ job.pc \in {"run", "waiting"} /\ host.helper /\ (request # "none" \/ helper # "off") =>
          overlap \/ report.stage \in Work

\* The old container is removed when the new one runs.
Replaced == ServiceKept /\ (swapper = "remove" /\ main.state = "stopped" => next.state = "up")

UpInv == UpTyped /\ Handed /\ Replaced

\* Nothing is asked for at first.
LEMMA UpdatesStart == UpdatesInit => UpInv
<1> SUFFICES ASSUME UpdatesInit PROVE UpInv
  OBVIOUS
<1>1. UpTyped
  BY DEF UpdatesInit, UpTyped, Work, Infos
<1>2. Handed /\ Replaced
  BY DEF UpdatesInit, Handed, Replaced, ServiceKept, Running
<1> QED
  BY <1>1, <1>2 DEF UpInv

\* The steps of the server.
LEMMA ServerUpdates ==
    ASSUME UpInv, Server PROVE UpInv'
<1> USE DEF UpInv, HostFiles, Boxes
<1>a. ASSUME UNCHANGED <<host, request, report, main, next, pulled, helper, swapper, overlap>>,
             job' = job,
             UpTyped' PROVE UpInv'
  BY <1>a DEF UpTyped, Handed, Replaced, ServiceKept, Running
<1>1. CASE Toggle
  <2>1. UpTyped'
    <3>1. info' \in Infos
      <4>1. PICK a \in BOOLEAN : info' = [info EXCEPT !.auto = a]
        BY <1>1 DEF Toggle
      <4> QED
        BY <4>1 DEF UpTyped, Infos
    <3> QED
      BY <1>1, <3>1 DEF Toggle, UpTyped
  <2> QED
    BY <1>1, <1>a, <2>1 DEF Toggle
<1>2. CASE CheckStart
  <2>1. UpTyped'
    BY <1>2 DEF CheckStart, UpTyped, Infos
  <2> QED
    BY <1>2, <1>a, <2>1 DEF CheckStart
<1>3. ASSUME NEW ok \in BOOLEAN, CheckEnd(ok) PROVE UpInv'
  <2>1. UpTyped'
    BY <1>3 DEF CheckEnd, UpTyped, Infos
  <2> QED
    BY <1>3, <1>a, <2>1 DEF CheckEnd, Infos
<1>4. CASE ApplyStart
  <2>1. UpTyped'
    <3>1. info' \in Infos
      BY <1>4 DEF ApplyStart, UpTyped, Infos
    <3>2. job' \in [pc : {"off", "request", "noting", "run", "waiting", "clearing", "pulling"}, auto : BOOLEAN]
      <4>1. info.auto \in BOOLEAN
        BY DEF UpTyped, Infos
      <4>2. PICK s \in {"request", "run"} : job' = [pc |-> s, auto |-> info.auto]
        BY <1>4 DEF ApplyStart
      <4> QED
        BY <4>1, <4>2
    <3>3. report' = report \/ report' = [stage |-> "queued", fresh |-> TRUE]
      BY <1>4 DEF ApplyStart, Report
    <3>4. report' \in [stage : Work \cup {"none", "error"}, fresh : BOOLEAN]
      <4>1. CASE report' = report
        BY <4>1 DEF UpTyped
      <4>2. CASE report' = [stage |-> "queued", fresh |-> TRUE]
        BY <4>2 DEF Work
      <4> QED
        BY <3>3, <4>1, <4>2
    <3> QED
      BY <1>4, <3>1, <3>2, <3>4 DEF ApplyStart, UpTyped
  <2>2. Handed'
    BY <1>4 DEF ApplyStart, UpTyped, Handed, Report
  <2>3. Replaced'
    BY <1>4 DEF ApplyStart, Replaced, ServiceKept, Running
  <2> QED
    BY <2>1, <2>2, <2>3
<1>5. CASE ApplyRequest
  <2>1. UpTyped'
    BY <1>5 DEF ApplyRequest, UpTyped
  <2>2. Handed'
    BY <1>5 DEF ApplyRequest, UpTyped, Handed
  <2>3. Replaced'
    BY <1>5 DEF ApplyRequest, Replaced, ServiceKept, Running
  <2> QED
    BY <2>1, <2>2, <2>3
<1>6. CASE ApplyNote
  <2>1. UpTyped'
    BY <1>6 DEF ApplyNote, UpTyped, Report, Work
  <2>2. Handed'
    BY <1>6 DEF ApplyNote, UpTyped, Handed, Report, Work
  <2>3. Replaced'
    BY <1>6 DEF ApplyNote, Replaced, ServiceKept, Running
  <2> QED
    BY <2>1, <2>2, <2>3
<1>7. CASE ApplyRun
  <2>1. UpTyped'
    BY <1>7 DEF ApplyRun, UpTyped, Infos
  <2>2. Handed'
    BY <1>7 DEF ApplyRun, UpTyped, Handed
  <2>3. Replaced'
    BY <1>7 DEF ApplyRun, Replaced, ServiceKept, Running
  <2> QED
    BY <2>1, <2>2, <2>3
<1>8. CASE HelperTook
  <2>1. UpTyped'
    BY <1>8 DEF HelperTook, UpTyped
  <2>2. Handed'
    BY <1>8 DEF HelperTook, UpTyped, Handed
  <2>3. Replaced'
    BY <1>8 DEF HelperTook, Replaced, ServiceKept, Running
  <2> QED
    BY <2>1, <2>2, <2>3
<1>9. CASE WaitEnds
  <2>1. UpTyped'
    BY <1>9 DEF WaitEnds, UpTyped
  <2>2. Handed'
    BY <1>9 DEF WaitEnds, UpTyped, Handed, Work
  <2>3. Replaced'
    BY <1>9 DEF WaitEnds, Replaced, ServiceKept, Running
  <2> QED
    BY <2>1, <2>2, <2>3
<1>10. CASE ApplyClear
  <2>1. UpTyped'
    BY <1>10 DEF ApplyClear, UpTyped, Report, Work
  <2>2. Handed'
    BY <1>10 DEF ApplyClear, UpTyped, Handed, Report
  <2>3. Replaced'
    BY <1>10 DEF ApplyClear, Replaced, ServiceKept, Running
  <2> QED
    BY <2>1, <2>2, <2>3
<1>11. CASE ApplySwap
  <2>1. UpTyped'
    BY <1>11 DEF ApplySwap, UpTyped, Report, Work
  <2>2. Handed'
    BY <1>11 DEF ApplySwap, UpTyped, Handed, Report
  <2>3. Replaced'
    BY <1>11 DEF ApplySwap, Replaced, ServiceKept, Running
  <2> QED
    BY <2>1, <2>2, <2>3
<1>12. CASE ApplyFail
  <2>1. UpTyped'
    <3>1. info' \in Infos
      <4>1. job.auto \in BOOLEAN
        BY DEF UpTyped
      <4>2. PICK a \in BOOLEAN : info' = info \/ info' = [info EXCEPT !.status = "error", !.auto = a]
        BY <1>12, <4>1 DEF ApplyFail
      <4> QED
        BY <4>2 DEF UpTyped, Infos
    <3>2. report' = report \/ report' = [stage |-> "error", fresh |-> TRUE]
      BY <1>12 DEF ApplyFail, Report
    <3>3. report' \in [stage : Work \cup {"none", "error"}, fresh : BOOLEAN]
      <4>1. CASE report' = report
        BY <4>1 DEF UpTyped
      <4>2. CASE report' = [stage |-> "error", fresh |-> TRUE]
        BY <4>2 DEF Work
      <4> QED
        BY <3>2, <4>1, <4>2
    <3> QED
      BY <1>12, <3>1, <3>3 DEF ApplyFail, UpTyped
  <2>2. Handed'
    BY <1>12 DEF ApplyFail, UpTyped, Handed, Report
  <2>3. Replaced'
    BY <1>12 DEF ApplyFail, Replaced, ServiceKept, Running
  <2> QED
    BY <2>1, <2>2, <2>3
<1>13. CASE Reconcile
  <2>1. UpTyped'
    <3>1. Verdict \in {"ok", "error", "updating"}
      BY DEF Verdict
    <3> QED
      BY <1>13, <3>1 DEF Reconcile, UpTyped, Infos
  <2>2. Handed'
    BY <1>13 DEF Reconcile, UpTyped, Handed
  <2>3. Replaced'
    BY <1>13 DEF Reconcile, Replaced, ServiceKept, Running
  <2> QED
    BY <2>1, <2>2, <2>3
<1> QED
  BY <1>1, <1>2, <1>3, <1>4, <1>5, <1>6, <1>7, <1>8, <1>9, <1>10, <1>11, <1>12, <1>13 DEF Server

\* The steps of the helper, the swapper, a restart and time.
LEMMA HostUpdates ==
    ASSUME UpInv, Helper \/ Swapper \/ Restart \/ Wait PROVE UpInv'
<1> USE DEF UpInv, HostFiles, Boxes
<1>1. CASE HelperTake
  <2>1. UpTyped'
    BY <1>1 DEF HelperTake, UpTyped
  <2>2. Handed'
    BY <1>1 DEF HelperTake, UpTyped, Handed
  <2>3. Replaced'
    BY <1>1 DEF HelperTake, Replaced, ServiceKept, Running
  <2> QED
    BY <2>1, <2>2, <2>3
<1>2. CASE HelperPull
  <2>1. UpTyped'
    BY <1>2 DEF HelperPull, UpTyped, Report, Work
  <2>2. Handed'
    BY <1>2 DEF HelperPull, UpTyped, Handed, Report, Work
  <2>3. Replaced'
    BY <1>2 DEF HelperPull, Replaced, ServiceKept, Running
  <2> QED
    BY <2>1, <2>2, <2>3
<1>3. CASE HelperFail
  <2>1. UpTyped'
    BY <1>3 DEF HelperFail, UpTyped, Report, Work
  <2>2. Handed'
    BY <1>3 DEF HelperFail, UpTyped, Handed, Report
  <2>3. Replaced'
    BY <1>3 DEF HelperFail, Replaced, ServiceKept, Running
  <2> QED
    BY <2>1, <2>2, <2>3
<1>4. CASE HelperDown
  <2>1. UpTyped'
    BY <1>4 DEF HelperDown, UpTyped, Report, Work
  <2>2. Handed'
    BY <1>4 DEF HelperDown, UpTyped, Handed, Report
  <2>3. Replaced'
    BY <1>4 DEF HelperDown, UpTyped, Replaced, ServiceKept, Running
  <2> QED
    BY <2>1, <2>2, <2>3
<1>5. CASE HelperUp
  <2>1. UpTyped'
    BY <1>5 DEF HelperUp, UpTyped
  <2>2. Handed'
    BY <1>5 DEF HelperUp, UpTyped, Handed
  <2>3. Replaced'
    BY <1>5 DEF HelperUp, Replaced, ServiceKept, Running
  <2> QED
    BY <2>1, <2>2, <2>3
<1>6. CASE HelperRecord
  <2>1. UpTyped'
    BY <1>6 DEF HelperRecord, UpTyped
  <2>2. Handed'
    BY <1>6 DEF HelperRecord, UpTyped, Handed
  <2>3. Replaced'
    BY <1>6 DEF HelperRecord, Replaced, ServiceKept, Running
  <2> QED
    BY <2>1, <2>2, <2>3
<1>7. CASE HelperDone
  <2>1. UpTyped'
    BY <1>7 DEF HelperDone, UpTyped, Report, Work
  <2>2. Handed'
    BY <1>7 DEF HelperDone, UpTyped, Handed, Report, Work
  <2>3. Replaced'
    BY <1>7 DEF HelperDone, Replaced, ServiceKept, Running
  <2> QED
    BY <2>1, <2>2, <2>3
<1>8. CASE Swapper
  <2>1. UpTyped'
    BY <1>8 DEF Swapper, SwapStop, SwapStart, SwapBack, SwapRemove, SwapRename, UpTyped
  <2>2. Handed'
    BY <1>8 DEF Swapper, SwapStop, SwapStart, SwapBack, SwapRemove, SwapRename, UpTyped, Handed
  <2>3. Replaced'
    BY <1>8 DEF Swapper, SwapStop, SwapStart, SwapBack, SwapRemove, SwapRename, UpTyped, Replaced, ServiceKept, Running
  <2> QED
    BY <2>1, <2>2, <2>3
<1>9. CASE Restart
  <2>1. UpTyped'
    BY <1>9 DEF Restart, UpTyped
  <2>2. Handed'
    BY <1>9 DEF Restart, UpTyped, Handed
  <2>3. Replaced'
    BY <1>9 DEF Restart, Replaced, ServiceKept, Running
  <2> QED
    BY <2>1, <2>2, <2>3
<1>10. CASE Wait
  <2>1. UpTyped'
    <3>1. info' \in Infos /\ report' \in [stage : Work \cup {"none", "error"}, fresh : BOOLEAN]
      BY <1>10 DEF Wait, UpTyped, Infos
    <3> QED
      BY <1>10, <3>1 DEF Wait, UpTyped
  <2>2. Handed'
    BY <1>10 DEF Wait, UpTyped, Handed
  <2>3. Replaced'
    BY <1>10 DEF Wait, Replaced, ServiceKept, Running
  <2> QED
    BY <2>1, <2>2, <2>3
<1> QED
  BY <1>1, <1>2, <1>3, <1>4, <1>5, <1>6, <1>7, <1>8, <1>9, <1>10 DEF Helper

\* What a check may not undo, and what the host reported.
LEMMA UpdateSteps ==
    ASSUME UpInv, UpdatesNext
    PROVE  /\ checkup = "asking" /\ checkup' = "off" =>
                 info'.auto = info.auto /\ (info.status = "updating" => info'.status = "updating")
           /\ info.status = "updating" /\ info'.status = "ok" => report.stage # "error" \/ Digest # 0
<1> USE DEF HostFiles, Boxes
<1>0. info \in Infos
  BY DEF UpInv, UpTyped
<1>1. CASE info' = info
  BY <1>1
<1>2. CASE Toggle \/ CheckStart \/ ApplyStart \/ ApplyFail
  BY <1>0, <1>2 DEF Toggle, CheckStart, ApplyStart, ApplyFail, Infos
<1>3. ASSUME NEW ok \in BOOLEAN, CheckEnd(ok)
      PROVE  info'.auto = info.auto /\ (info.status = "updating" => info'.status = "updating")
  BY <1>0, <1>3 DEF CheckEnd, Infos
<1>4. CASE Reconcile
  BY <1>0, <1>4 DEF Reconcile, Verdict, Infos
<1>5. CASE Wait
  BY <1>0, <1>5 DEF Wait, Infos
<1> QED
  BY <1>1, <1>2, <1>3, <1>4, <1>5
  DEF UpdatesNext, Server, Helper, Swapper, Restart, ApplyRequest, ApplyNote, ApplyRun, HelperTook, WaitEnds,
      ApplyClear, ApplySwap, HelperTake, HelperPull, HelperFail, HelperDown, HelperUp, HelperRecord, HelperDone,
      SwapStop, SwapStart, SwapBack, SwapRemove, SwapRename

\* For any number of requests, checks and restarts the helper and the socket
\* replace the containers together only where one was called over the other, a
\* container is left to run, a check undoes nothing, and a failure the host
\* reports is called one.
THEOREM UpdatesKeepContract == UpdatesSpec => UpdatesContract
<1>1. UpInv /\ [UpdatesNext]_upVars => UpInv'
  <2> SUFFICES ASSUME UpInv, [UpdatesNext]_upVars PROVE UpInv'
    OBVIOUS
  <2>1. CASE UNCHANGED upVars
    BY <2>1 DEF upVars, UpInv, UpTyped, Handed, Replaced, ServiceKept, Running
  <2> QED
    BY <2>1, ServerUpdates, HostUpdates DEF UpdatesNext
<1>2. UpInv => UpdatesSafe
  BY DEF UpInv, UpTyped, Handed, Replaced, UpdatesSafe, UpTypeOK, OneReplaces, Infos
<1>3. UpInv' => UpdatesSafe'
  BY DEF UpInv, UpTyped, Handed, Replaced, UpdatesSafe, UpTypeOK, OneReplaces, Infos
<1> DEFINE A == UNCHANGED upVars \/ UpdatesSafe'
           B == checkup = "asking" /\ checkup' = "off" =>
                   /\ info'.auto = info.auto
                   /\ info.status = "updating" => info'.status = "updating"
           C == info.status = "updating" /\ info'.status = "ok" => report.stage # "error" \/ Digest # 0
<1>4. UpInv /\ [UpdatesNext]_upVars => [A]_upVars /\ [B]_upVars /\ [C]_upVars
  BY <1>1, <1>3, UpdateSteps
<1> QED
  BY <1>1, <1>4, UpdatesStart, PTL DEF UpdatesSpec, UpdatesContract, CheckKeeps, HostErrorReported

-----------------------------------------------------------------------------
(* The streams of a linked server.                                         *)

Policied == [stream : BOOLEAN, max : Nat]
SourceRow == [live : BOOLEAN, on : BOOLEAN, policy : Policied, gen : Nat]
StreamRecs == [pc : {"idle", "found", "read", "ready", "open", "refused", "ended"}, policy : Policied,
           base : Nat, created : Nat, raced : BOOLEAN]
Asked == [pc : {"idle", "read", "stored", "written", "deleting", "done"}, saw : Policied,
          stale : BOOLEAN, moved : BOOLEAN]

StTyped ==
    /\ server \in SourceRow /\ opening \in [Openings -> StreamRecs] /\ change \in [Editors -> Asked]
    /\ STTypeOK

\* Streams are numbered in the order in which they were negotiated.
Numbered ==
    \A p, q \in Openings :
        p # q /\ opening[p].pc \in {"ready", "open"} /\ opening[q].pc \in {"ready", "open"} =>
            opening[p].created # opening[q].created

\* A request that no other write overtook has read the policy of the row.
ReadLast ==
    \A a \in Editors : change[a].pc \in {"read", "stored"} /\ ~change[a].stale =>
        change[a].saw = server.policy

\* So has an opening during which the row was not written.
Followed ==
    \A o \in UnderWay : ~opening[o].raced =>
        /\ server.live /\ server.on
        /\ opening[o].pc \in {"read", "ready"} =>
              server.policy = opening[o].policy /\ server.gen = opening[o].base

\* Between a delete's revoke and its DELETE the streams that stay are those
\* admitted in between.
DeletingEnds == Deleting => \A o \in grants \ doomed : opening[o].raced

StreamsInv ==
    StTyped /\ Numbered /\ SlotsKept /\ ReadLast /\ Followed /\ OnlyRacedStay /\ DeletingEnds

\* A finite set of numbers has a greatest one.
LEMMA GreatestOfFinite ==
    ASSUME NEW S \in SUBSET Nat, IsFiniteSet(S), S # {}
    PROVE  \E x \in S : \A y \in S : x >= y
<1> DEFINE Tops(A) == \E x \in A : \A y \in A : x >= y
           T == {n \in Nat : \E A \in SUBSET S : A # {} /\ Cardinality(A) = n /\ ~Tops(A)}
<1> SUFFICES ASSUME ~Tops(S) PROVE FALSE
  OBVIOUS
<1>1. T # {}
  <2>1. Cardinality(S) \in Nat
    BY FS_CardinalityType
  <2> QED
    BY <2>1
<1>2. PICK n \in T : \A m \in T : ~(<<m, n>> \in OpToRel(<, Nat))
  <2>1. T \subseteq Nat
    OBVIOUS
  <2> HIDE DEF T
  <2> QED
    BY <1>1, <2>1, NatLessThanWellFounded, WFMin
<1>3. n \in Nat /\ \A m \in T : ~(m < n)
  <2>1. T \subseteq Nat
    OBVIOUS
  <2> HIDE DEF T
  <2> QED
    BY <1>2, <2>1 DEF OpToRel
<1>4. PICK A \in SUBSET S : A # {} /\ Cardinality(A) = n /\ ~Tops(A)
  OBVIOUS
<1>5. IsFiniteSet(A)
  BY FS_Subset
<1>6. PICK a \in A : TRUE
  BY <1>4
<1>7. IsFiniteSet(A \ {a}) /\ Cardinality(A \ {a}) = n - 1
  BY <1>4, <1>5, <1>6, FS_RemoveElement
<1>8. n - 1 \in Nat
  BY <1>7, FS_CardinalityType
<1>9. CASE A \ {a} = {}
  <2>1. a \in Nat /\ \A y \in A : y = a
    BY <1>6, <1>9
  <2> QED
    BY <2>1, <1>4, <1>6
<1>10. CASE A \ {a} # {}
  <2>1. Tops(A \ {a})
    <3>1. ~(n - 1 \in T)
      BY <1>3, <1>8
    <3> QED
      BY <3>1, <1>7, <1>8, <1>10
  <2>2. PICK x \in A \ {a} : \A y \in A \ {a} : x >= y
    BY <2>1
  <2>3. x \in Nat /\ a \in Nat
    BY <1>6
  <2>4. CASE x >= a
    BY <2>2, <2>4, <1>4
  <2>5. CASE a >= x
    <3>1. \A y \in A : a >= y
      BY <2>2, <2>3, <2>5
    <3> QED
      BY <3>1, <1>4, <1>6
  <2> QED
    BY <2>3, <2>4, <2>5
<1> QED
  BY <1>9, <1>10

LEMMA NewestIsLast ==
    ASSUME StTyped, NEW o \in Openings
    PROVE  Newest \in Nat /\ \A p \in Openings : Newest >= opening[p].created
<1> DEFINE S == {opening[p].created : p \in Openings}
           f == [p \in Openings |-> opening[p].created]
<1>1. \A p \in Openings : opening[p].created \in Nat
  BY DEF StTyped, StreamRecs
<1>2. S \in SUBSET Nat /\ S # {}
  BY <1>1
<1>3. IsFiniteSet(S)
  <2>1. f \in Surjection(Openings, S)
    BY DEF Surjection
  <2>2. IsFiniteSet(Openings)
    BY StreamsAssumption
  <2> HIDE DEF f, S
  <2> QED
    BY <2>1, <2>2, FS_Surjection
<1>4. \E x \in S : \A y \in S : x >= y
  <2> HIDE DEF S
  <2> QED
    BY <1>2, <1>3, GreatestOfFinite
<1>5. Max(S) \in S /\ \A y \in S : Max(S) >= y
  <2> HIDE DEF S
  <2> QED
    BY <1>4 DEF Max
<1> QED
  BY <1>2, <1>5 DEF Newest

\* Of streams that are numbered at most n are among the n oldest.
LEMMA OldestAreFew ==
    ASSUME StTyped, Numbered, NEW S \in SUBSET grants, NEW n \in Nat
    PROVE  IsFiniteSet(Oldest(S, n)) /\ Cardinality(Oldest(S, n)) <= n
<1> DEFINE Before(o) == {p \in S : opening[p].created < opening[o].created}
           D == Oldest(S, n)
           f == [o \in D |-> Cardinality(Before(o))]
<1>1. S \in SUBSET Openings /\ IsFiniteSet(S)
  BY StreamsAssumption, FS_Subset DEF StTyped, STTypeOK
<1>2. \A o \in S : opening[o].created \in Nat /\ opening[o].pc = "open"
  BY DEF StTyped, STTypeOK, StreamRecs
<1>3. \A o \in S : IsFiniteSet(Before(o)) /\ Cardinality(Before(o)) \in Nat
  BY <1>1, FS_Subset, FS_CardinalityType
<1>4. ASSUME NEW o \in S, NEW q \in S, opening[o].created < opening[q].created
      PROVE  Cardinality(Before(o)) # Cardinality(Before(q))
  <2>1. Before(o) \in SUBSET Before(q)
    BY <1>2, <1>4
  <2>2. o \in Before(q) /\ o \notin Before(o)
    BY <1>2, <1>4
  <2>3. IsFiniteSet(Before(q))
    BY <1>3
  <2> HIDE DEF Before
  <2> QED
    BY <2>1, <2>2, <2>3, FS_Subset
<1>5. \A o, q \in S : o # q => Cardinality(Before(o)) # Cardinality(Before(q))
  <2> SUFFICES ASSUME NEW o \in S, NEW q \in S, o # q
               PROVE  Cardinality(Before(o)) # Cardinality(Before(q))
    OBVIOUS
  <2>1. o \in Openings /\ q \in Openings
    BY <1>1
  <2>2. opening[o].created # opening[q].created
    BY <1>2, <2>1 DEF Numbered
  <2>3. opening[o].created < opening[q].created \/ opening[q].created < opening[o].created
    BY <1>2, <2>2
  <2> HIDE DEF Before
  <2> QED
    BY <1>4, <2>3
<1>6. D \subseteq S /\ \A o \in D : Cardinality(Before(o)) < n
  BY DEF Oldest
<1>7. f \in Injection(D, 0 .. (n - 1))
  <2> HIDE DEF Before, D
  <2>1. \A o \in D : Cardinality(Before(o)) \in 0 .. (n - 1)
    BY <1>3, <1>6
  <2>2. f \in [D -> 0 .. (n - 1)]
    BY <2>1
  <2>3. \A o, q \in D : f[o] = f[q] => o = q
    BY <1>5, <1>6
  <2> QED
    BY <2>2, <2>3 DEF Injection, IsInjective
<1>8. IsFiniteSet(0 .. (n - 1)) /\ Cardinality(0 .. (n - 1)) = n
  <2>1. 0 \in Int /\ n - 1 \in Int
    OBVIOUS
  <2>2. IsFiniteSet(0 .. (n - 1)) /\ Cardinality(0 .. (n - 1)) = IF 0 > n - 1 THEN 0 ELSE n - 1 - 0 + 1
    BY <2>1, FS_Interval
  <2> QED
    BY <2>2
<1> HIDE DEF f, D
<1>9. IsFiniteSet(D) /\ Cardinality(D) <= n
  BY <1>7, <1>8, FS_Injection
<1> QED
  BY <1>9 DEF D

LEMMA FewerStreams ==
    ASSUME StTyped, SlotsKept, grants' \subseteq grants,
           \A o \in grants' : opening'[o].pc = opening[o].pc /\ opening'[o].policy = opening[o].policy
    PROVE  SlotsKept'
<1> SUFFICES ASSUME NEW o \in grants', opening'[o].policy.max > 0
             PROVE  Cardinality({p \in grants' : opening'[p].pc = "open" /\ p # o
                        /\ opening'[p].policy = opening'[o].policy}) < opening'[o].policy.max
  BY DEF SlotsKept
<1> DEFINE S == {p \in grants : opening[p].pc = "open" /\ p # o /\ opening[p].policy = opening[o].policy}
           T == {p \in grants' : opening'[p].pc = "open" /\ p # o /\ opening'[p].policy = opening'[o].policy}
<1>1. T \in SUBSET S
  OBVIOUS
<1>2. S \in SUBSET Openings /\ IsFiniteSet(Openings)
  BY StreamsAssumption DEF StTyped, STTypeOK
<1>3. IsFiniteSet(S) /\ Cardinality(S) \in Nat
  BY <1>2, FS_Subset, FS_CardinalityType
<1>4. IsFiniteSet(T) /\ Cardinality(T) \in Nat /\ Cardinality(T) <= Cardinality(S)
  <2> HIDE DEF S, T
  <2> QED
    BY <1>1, <1>3, FS_Subset, FS_CardinalityType
<1>5. Cardinality(S) < opening[o].policy.max /\ opening[o].policy = opening'[o].policy
  BY DEF SlotsKept
<1>6. opening[o].policy.max \in Nat
  BY DEF StTyped, STTypeOK, StreamRecs, Policied
<1> HIDE DEF S, T
<1> QED
  BY <1>3, <1>4, <1>5, <1>6 DEF T

LEMMA SameNumbers ==
    ASSUME Numbered, \A o \in Openings : opening'[o].pc \in {"ready", "open"} =>
               opening[o].pc \in {"ready", "open"} /\ opening'[o].created = opening[o].created
    PROVE  Numbered'
BY DEF Numbered

\* What a write of the row does to the openings.
LEMMA RacedMarks ==
    ASSUME StTyped, NEW late \in BOOLEAN, Raced(late)
    PROVE  /\ opening' \in [Openings -> StreamRecs]
           /\ \A o \in Openings :
                /\ opening'[o].pc = opening[o].pc /\ opening'[o].policy = opening[o].policy
                /\ opening'[o].base = opening[o].base /\ opening'[o].created = opening[o].created
                /\ opening[o].raced \/ o \in UnderWay \/ (late /\ o \in grants) => opening'[o].raced
<1> SUFFICES ASSUME NEW o \in Openings
             PROVE  /\ opening'[o] \in StreamRecs
                    /\ opening'[o].pc = opening[o].pc /\ opening'[o].policy = opening[o].policy
                    /\ opening'[o].base = opening[o].base /\ opening'[o].created = opening[o].created
                    /\ opening[o].raced \/ o \in UnderWay \/ (late /\ o \in grants) => opening'[o].raced
  BY DEF Raced
<1>1. PICK r \in BOOLEAN : r = (opening[o].raced \/ o \in UnderWay \/ (late /\ o \in grants))
  BY DEF StTyped, StreamRecs
<1>2. PICK s \in StreamRecs : s = opening[o]
  BY DEF StTyped
<1>3. opening'[o] = [s EXCEPT !.raced = r]
  BY <1>1, <1>2 DEF Raced
<1>4. [s EXCEPT !.raced = r] \in StreamRecs
  BY DEF StreamRecs
<1>5. opening'[o].raced = r
  BY <1>3 DEF StreamRecs
<1>6. opening'[o].pc = opening[o].pc /\ opening'[o].policy = opening[o].policy
  BY <1>2, <1>3 DEF StreamRecs
<1>7. opening'[o].base = opening[o].base /\ opening'[o].created = opening[o].created
  BY <1>2, <1>3 DEF StreamRecs
<1> QED
  BY <1>1, <1>3, <1>4, <1>5, <1>6, <1>7

LEMMA StreamsStart == StreamsInit => StreamsInv
<1> SUFFICES ASSUME StreamsInit PROVE StreamsInv
  OBVIOUS
<1>1. PICK p \in Policies :
        /\ server = [live |-> TRUE, on |-> TRUE, policy |-> p, gen |-> 1]
        /\ grants \in SUBSET Early
        /\ p.max > 0 => Cardinality(grants) <= p.max
        /\ opening = [o \in Openings |->
               IF o \in grants THEN [NewOpening EXCEPT !.pc = "open", !.policy = p, !.created = o]
               ELSE IF o \in Early THEN Over ELSE NewOpening]
        /\ doomed = {}
        /\ change = [a \in Editors |-> NewChange]
  BY DEF StreamsInit
<1>2. p \in Policied /\ grants \in SUBSET Openings /\ IsFiniteSet(Openings) /\ Openings \subseteq Nat
  BY <1>1, StreamsAssumption DEF Policied
<1>3. NewOpening \in StreamRecs /\ NewChange \in Asked
  BY DEF NewOpening, NewChange, NoPolicy, StreamRecs, Asked, Policied
<1>4. ASSUME NEW o \in Openings
      PROVE  /\ opening[o] \in StreamRecs
             /\ o \in grants => /\ opening[o].pc = "open" /\ opening[o].policy = p
                                /\ opening[o].created = o /\ opening[o].base = 1
             /\ o \notin grants => opening[o].pc \in {"idle", "ended"}
  <2>1. CASE o \in grants
    <3>1. opening[o] = [NewOpening EXCEPT !.pc = "open", !.policy = p, !.created = o]
      BY <1>1, <2>1
    <3>2. opening[o] = [pc |-> "open", policy |-> p, base |-> 1, created |-> o, raced |-> FALSE]
      BY <3>1 DEF NewOpening
    <3> QED
      BY <3>2, <2>1, <1>2 DEF StreamRecs
  <2>2. CASE o \notin grants
    <3>1. opening[o] = Over \/ opening[o] = NewOpening
      BY <1>1, <2>2
    <3> QED
      BY <3>1, <2>2, <1>3 DEF Over, NewOpening, StreamRecs
  <2> QED
    BY <2>1, <2>2
<1>5. STTypeOK
  <2>1. server.policy = p /\ server.gen = 1
    BY <1>1
  <2>2. MaxGen \in Nat \ {0}
    BY StreamsAssumption
  <2>3. 1 \in 1..MaxGen
    BY <2>2
  <2> QED
    BY <2>1, <2>3, <1>1, <1>2, <1>4 DEF STTypeOK
<1>6. StTyped
  <2>1. server \in SourceRow
    BY <1>1, <1>2 DEF SourceRow
  <2>2. opening \in [Openings -> StreamRecs]
    BY <1>1, <1>4
  <2>3. change \in [Editors -> Asked]
    BY <1>1, <1>3
  <2> QED
    BY <2>1, <2>2, <2>3, <1>5 DEF StTyped
<1>7. Numbered
  BY <1>4 DEF Numbered
<1>8. SlotsKept
  <2> SUFFICES ASSUME NEW o \in grants, opening[o].policy.max > 0
               PROVE  Cardinality({q \in grants : opening[q].pc = "open" /\ q # o
                          /\ opening[q].policy = opening[o].policy}) < opening[o].policy.max
    BY DEF SlotsKept
  <2> DEFINE T == {q \in grants : opening[q].pc = "open" /\ q # o /\ opening[q].policy = opening[o].policy}
  <2>1. T = grants \ {o}
    <3>1. grants \subseteq Openings
      BY <1>2
    <3>2. \A q \in grants : opening[q].pc = "open" /\ opening[q].policy = opening[o].policy
      BY <1>2, <1>4, <3>1
    <3> QED
      BY <3>2
  <2>2. IsFiniteSet(grants) /\ Cardinality(grants) \in Nat
    BY <1>2, FS_Subset, FS_CardinalityType
  <2>3. Cardinality(T) = Cardinality(grants) - 1
    BY <2>1, <2>2, FS_RemoveElement
  <2>4. opening[o].policy = p /\ p.max \in Nat
    BY <1>2, <1>4 DEF Policied
  <2>5. Cardinality(grants) <= p.max
    BY <1>1, <2>4
  <2> HIDE DEF T
  <2> QED
    BY <2>2, <2>3, <2>4, <2>5 DEF T
<1>9. ReadLast /\ DeletingEnds
  BY <1>1 DEF ReadLast, DeletingEnds, Deleting, NewChange
<1>10. Followed
  BY <1>4 DEF Followed, UnderWay
<1>11. OnlyRacedStay
  BY <1>1, <1>2, <1>4 DEF OnlyRacedStay
<1> QED
  BY <1>6, <1>7, <1>8, <1>9, <1>10, <1>11 DEF StreamsInv

\* A step of an opening that holds no stream and gets none.
LEMMA OpeningStep ==
    ASSUME StreamsInv, NEW o \in Openings, NEW r \in StreamRecs, opening[o].pc # "open", r.pc # "open",
           opening' = [opening EXCEPT ![o] = r], UNCHANGED <<server, grants, doomed, change>>,
           r.pc = "ready" => \A p \in Openings : opening[p].created # r.created,
           r.pc \in {"found", "read", "ready"} /\ ~r.raced =>
               /\ server.live /\ server.on
               /\ r.pc \in {"read", "ready"} => server.policy = r.policy /\ server.gen = r.base
    PROVE  StreamsInv'
<1> USE DEF StreamsInv
<1>1. opening' \in [Openings -> StreamRecs]
  BY DEF StTyped
<1>2. \A p \in Openings : p # o => opening'[p] = opening[p]
  BY DEF StTyped
<1>3. opening'[o] = r
  BY DEF StTyped
<1>4. o \notin grants /\ grants \subseteq Openings
  BY DEF StTyped, STTypeOK
<1>5. StTyped'
  <2>1. STTypeOK'
    BY <1>2, <1>3, <1>4 DEF StTyped, STTypeOK
  <2> QED
    BY <1>1, <2>1 DEF StTyped
<1>6. Numbered'
  BY <1>2, <1>3 DEF Numbered
<1>7. SlotsKept'
  BY <1>2, <1>4, FewerStreams
<1>8. ReadLast'
  BY DEF ReadLast
<1>9. Followed'
  BY <1>2, <1>3 DEF Followed, UnderWay
<1>10. OnlyRacedStay'
  BY <1>2, <1>4 DEF OnlyRacedStay, Pending
<1>11. DeletingEnds'
  BY <1>2, <1>4 DEF DeletingEnds, Deleting
<1> QED
  BY <1>5, <1>6, <1>7, <1>8, <1>9, <1>10, <1>11

LEMMA OpeningSteps ==
    ASSUME StreamsInv, NEW o \in Openings, Find(o) \/ ReadSource(o) \/ Negotiate(o) \/ Fail(o)
    PROVE  StreamsInv'
<1>1. StTyped
  BY DEF StreamsInv
<1>2. PICK old \in StreamRecs : old = opening[o]
  BY <1>1 DEF StTyped
<1>3. server \in SourceRow
  BY <1>1 DEF StTyped
<1>4. NewOpening \in StreamRecs
  BY DEF NewOpening, NoPolicy, StreamRecs, Policied
<1>5. old.pc \in {"found", "read", "ready"} /\ ~old.raced =>
        /\ server.live /\ server.on
        /\ old.pc \in {"read", "ready"} => server.policy = old.policy /\ server.gen = old.base
  BY <1>2 DEF StreamsInv, Followed, UnderWay
<1>6. CASE Find(o)
  <2>1. PICK r : r = [old EXCEPT !.pc = "found"]
    OBVIOUS
  <2>2. r \in StreamRecs /\ r.pc = "found"
    BY <2>1 DEF StreamRecs
  <2>3. opening' = [opening EXCEPT ![o] = r]
    BY <1>2, <1>6, <2>1 DEF Find
  <2>4. old.pc = "idle" /\ server.live /\ server.on
    BY <1>2, <1>6 DEF Find
  <2> QED
    BY <1>2, <1>6, <2>2, <2>3, <2>4, OpeningStep DEF Find
<1>7. CASE ReadSource(o)
  <2>1. CASE server.live /\ server.policy.stream
    <3>1. PICK r : r = [old EXCEPT !.pc = "read", !.policy = server.policy, !.base = server.gen]
      OBVIOUS
    <3>2. r \in StreamRecs
      BY <1>3, <3>1 DEF StreamRecs, SourceRow
    <3>3. r.pc = "read" /\ r.policy = server.policy /\ r.base = server.gen /\ r.raced = old.raced
      BY <3>1 DEF StreamRecs
    <3>4. opening' = [opening EXCEPT ![o] = r]
      BY <1>2, <1>7, <2>1, <3>1 DEF ReadSource
    <3>5. old.pc = "found"
      BY <1>2, <1>7 DEF ReadSource
    <3> QED
      BY <1>2, <1>5, <1>7, <3>2, <3>3, <3>4, <3>5, OpeningStep DEF ReadSource
  <2>2. CASE ~(server.live /\ server.policy.stream)
    <3>1. PICK r : r = [NewOpening EXCEPT !.pc = "refused"]
      OBVIOUS
    <3>2. r \in StreamRecs /\ r.pc = "refused"
      BY <1>4, <3>1 DEF StreamRecs
    <3>3. opening' = [opening EXCEPT ![o] = r]
      BY <1>7, <2>2, <3>1 DEF ReadSource
    <3> QED
      BY <1>7, <3>2, <3>3, OpeningStep DEF ReadSource
  <2> QED
    BY <2>1, <2>2
<1>8. CASE Negotiate(o)
  <2>1. Newest \in Nat /\ \A p \in Openings : Newest >= opening[p].created
    BY <1>1, NewestIsLast
  <2>2. PICK n \in Nat : n = Newest + 1
    BY <2>1
  <2>3. PICK r : r = [old EXCEPT !.pc = "ready", !.created = n]
    OBVIOUS
  <2>4. r \in StreamRecs
    BY <2>2, <2>3 DEF StreamRecs
  <2>5. r.pc = "ready" /\ r.policy = old.policy /\ r.base = old.base /\ r.raced = old.raced /\ r.created = n
    BY <2>3 DEF StreamRecs
  <2>6. opening' = [opening EXCEPT ![o] = r]
    BY <1>2, <1>8, <2>2, <2>3 DEF Negotiate
  <2>7. \A p \in Openings : opening[p].created # n
    <3>1. \A p \in Openings : opening[p].created \in Nat
      BY <1>1 DEF StTyped, StreamRecs
    <3> QED
      BY <2>1, <2>2, <3>1
  <2>8. old.pc = "read" /\ opening[o].pc = "read" /\ UNCHANGED <<server, grants, doomed, change>>
    BY <1>2, <1>8 DEF Negotiate
  <2>9. ~r.raced => server.live /\ server.on /\ server.policy = r.policy /\ server.gen = r.base
    BY <1>5, <2>5, <2>8
  <2>10. \A p \in Openings : opening[p].created # r.created
    BY <2>5, <2>7
  <2>11. r.pc = "ready"
    BY <2>5
  <2> QED
    BY <2>4, <2>6, <2>8, <2>9, <2>10, <2>11, OpeningStep
<1>9. CASE Fail(o)
  <2>1. PICK r : r = [NewOpening EXCEPT !.pc = "refused"]
    OBVIOUS
  <2>2. r \in StreamRecs /\ r.pc = "refused"
    BY <1>4, <2>1 DEF StreamRecs
  <2>3. opening' = [opening EXCEPT ![o] = r]
    BY <1>9, <2>1 DEF Fail
  <2> QED
    BY <1>9, <2>2, <2>3, OpeningStep DEF Fail
<1> QED
  BY <1>6, <1>7, <1>8, <1>9

LEMMA EndStreamStep ==
    ASSUME StreamsInv, NEW o \in Openings, EndStream(o)
    PROVE  StreamsInv'
<1> USE DEF StreamsInv
<1>1. Over \in StreamRecs /\ Over.pc = "ended"
  BY DEF Over, NewOpening, NoPolicy, StreamRecs, Policied
<1>2. \A p \in Openings : p # o => opening'[p] = opening[p]
  BY DEF EndStream, StTyped
<1>3. opening'[o] = Over
  BY DEF EndStream, StTyped
<1>4. grants' = grants \ {o} /\ doomed' = doomed \ {o} /\ UNCHANGED <<server, change>>
  BY DEF EndStream
<1>5. StTyped'
  <2>1. STTypeOK'
    BY <1>1, <1>2, <1>3, <1>4 DEF StTyped, STTypeOK
  <2>2. opening' \in [Openings -> StreamRecs]
    BY <1>1 DEF EndStream, StTyped
  <2> QED
    BY <1>4, <2>1, <2>2 DEF StTyped
<1>6. grants' \subseteq Openings
  BY <1>4 DEF StTyped, STTypeOK
<1>7. Numbered'
  BY <1>1, <1>2, <1>3 DEF Numbered
<1>8. SlotsKept'
  BY <1>2, <1>4, <1>6, FewerStreams
<1>9. ReadLast'
  BY <1>4 DEF ReadLast
<1>10. Followed'
  BY <1>1, <1>2, <1>3, <1>4 DEF Followed, UnderWay
<1>11. OnlyRacedStay'
  BY <1>2, <1>4, <1>6 DEF OnlyRacedStay, Pending
<1>12. DeletingEnds'
  BY <1>2, <1>4, <1>6 DEF DeletingEnds, Deleting
<1> QED
  BY <1>5, <1>7, <1>8, <1>9, <1>10, <1>11, <1>12

\* What a claim does to each opening.
LEMMA ClaimMarks ==
    ASSUME StTyped, NEW o \in Openings, NEW idle \in SUBSET grants, ClaimSlot(o, idle)
    PROVE  LET full == opening[o].policy.max > 0 /\ Cardinality(KeptBy(o, idle)) >= opening[o].policy.max
           IN
           /\ o \notin grants /\ KeptBy(o, idle) \subseteq grants
           /\ grants' = KeptBy(o, idle) \cup (IF full THEN {} ELSE {o})
           /\ opening' \in [Openings -> StreamRecs]
           /\ \A p \in Openings : p # o => opening'[p] = IF p \in grants \ KeptBy(o, idle) THEN Over ELSE opening[p]
           /\ full => opening'[o].pc = "refused"
           /\ ~full => /\ opening'[o].pc = "open" /\ opening'[o].policy = opening[o].policy
                       /\ opening'[o].base = opening[o].base /\ opening'[o].created = opening[o].created
                       /\ opening[o].raced \/ Deleting <=> opening'[o].raced
<1> DEFINE K == KeptBy(o, idle)
           full == opening[o].policy.max > 0 /\ Cardinality(K) >= opening[o].policy.max
<1>1. o \notin grants /\ opening[o].pc = "ready"
  BY DEF ClaimSlot, StTyped, STTypeOK
<1>2. K \subseteq grants
  BY DEF KeptBy
<1>3. grants' = K \cup (IF full THEN {} ELSE {o})
  BY DEF ClaimSlot
<1>4. opening' = [p \in Openings |->
              IF p = o /\ full THEN [NewOpening EXCEPT !.pc = "refused"]
              ELSE IF p = o THEN [opening[p] EXCEPT !.pc = "open", !.raced = @ \/ Deleting]
              ELSE IF p \in grants \ grants' THEN Over
              ELSE opening[p]]
  BY DEF ClaimSlot
<1> HIDE DEF K, full
<1>5. \A p \in Openings : p # o => opening'[p] = IF p \in grants \ K THEN Over ELSE opening[p]
  BY <1>1, <1>2, <1>3, <1>4
<1>6. Over \in StreamRecs
  BY DEF Over, NewOpening, NoPolicy, StreamRecs, Policied
<1>7. \A p \in Openings : p # o => opening'[p] \in StreamRecs
  BY <1>5, <1>6 DEF StTyped
<1>8. full => opening'[o] \in StreamRecs /\ opening'[o].pc = "refused"
  <2>1. NewOpening \in StreamRecs
    BY DEF NewOpening, NoPolicy, StreamRecs, Policied
  <2>2. PICK r : r = [NewOpening EXCEPT !.pc = "refused"]
    OBVIOUS
  <2>3. r \in StreamRecs /\ r.pc = "refused"
    BY <2>1, <2>2 DEF StreamRecs
  <2>4. full => opening'[o] = r
    BY <1>4, <2>2
  <2> QED
    BY <2>3, <2>4
<1>9. ASSUME ~full
      PROVE  /\ opening'[o] \in StreamRecs
             /\ opening'[o].pc = "open" /\ opening'[o].policy = opening[o].policy
             /\ opening'[o].base = opening[o].base /\ opening'[o].created = opening[o].created
             /\ opening[o].raced \/ Deleting <=> opening'[o].raced
  <2>1. PICK s \in StreamRecs : s = opening[o]
    BY DEF StTyped
  <2>2. PICK r \in BOOLEAN : r = (opening[o].raced \/ Deleting)
    BY <2>1 DEF StreamRecs
  <2>3. opening'[o] = [s EXCEPT !.pc = "open", !.raced = r]
    BY <1>4, <1>9, <2>1, <2>2
  <2>4. opening'[o] \in StreamRecs
    BY <2>3 DEF StreamRecs
  <2>5. opening'[o].pc = "open" /\ opening'[o].raced = r
    BY <2>3 DEF StreamRecs
  <2>6. opening'[o].policy = s.policy /\ opening'[o].base = s.base /\ opening'[o].created = s.created
    BY <2>3 DEF StreamRecs
  <2>7. opening[o].raced \/ Deleting <=> opening'[o].raced
    BY <2>2, <2>5
  <2> QED
    BY <2>1, <2>4, <2>5, <2>6, <2>7
<1>10. opening' \in [Openings -> StreamRecs]
  <2>1. \A p \in Openings : opening'[p] \in StreamRecs
    BY <1>7, <1>8, <1>9
  <2> QED
    BY <2>1, <1>4
<1>11. full => opening'[o].pc = "refused"
  BY <1>8
<1> QED
  BY <1>1, <1>2, <1>3, <1>5, <1>9, <1>10, <1>11 DEF K, full

LEMMA ClaimSlotStep ==
    ASSUME StreamsInv, NEW o \in Openings, NEW idle \in SUBSET grants, ClaimSlot(o, idle)
    PROVE  StreamsInv'
<1> DEFINE K == KeptBy(o, idle)
           full == opening[o].policy.max > 0 /\ Cardinality(K) >= opening[o].policy.max
<1>1. StTyped
  BY DEF StreamsInv
<1>2. o \notin grants /\ K \subseteq grants /\ grants' = K \cup (IF full THEN {} ELSE {o})
  BY <1>1, ClaimMarks
<1>3. opening' \in [Openings -> StreamRecs]
  BY <1>1, ClaimMarks
<1>4. \A p \in Openings : p # o => opening'[p] = IF p \in grants \ K THEN Over ELSE opening[p]
  BY <1>1, ClaimMarks
<1>5. full => opening'[o].pc = "refused"
  BY <1>1, ClaimMarks
<1>6. ~full => /\ opening'[o].pc = "open" /\ opening'[o].policy = opening[o].policy
               /\ opening'[o].base = opening[o].base /\ opening'[o].created = opening[o].created
               /\ opening[o].raced \/ Deleting <=> opening'[o].raced
  BY <1>1, ClaimMarks
<1>7. opening[o].pc = "ready" /\ doomed' = doomed \cap grants' /\ UNCHANGED <<server, change>>
  BY DEF ClaimSlot
<1>8. full <=> opening[o].policy.max > 0 /\ Cardinality(K) >= opening[o].policy.max
  OBVIOUS
<1> HIDE DEF K, full
<1>9. Over.pc = "ended"
  BY DEF Over, NewOpening
<1>10. doomed \subseteq grants /\ grants \subseteq Openings /\ \A p \in Openings : p \in grants <=> opening[p].pc = "open"
  BY <1>1 DEF StTyped, STTypeOK
<1>11. StTyped'
  <2>1. \A p \in Openings : p \in grants' <=> opening'[p].pc = "open"
    <3> SUFFICES ASSUME NEW p \in Openings PROVE p \in grants' <=> opening'[p].pc = "open"
      OBVIOUS
    <3>1. CASE p = o
      BY <3>1, <1>2, <1>5, <1>6
    <3>2. CASE p # o
      BY <3>2, <1>2, <1>4, <1>9, <1>10
    <3> QED
      BY <3>1, <3>2
  <2>2. doomed' \subseteq grants' /\ grants' \subseteq Openings
    BY <1>2, <1>7, <1>10
  <2>3. STTypeOK'
    BY <2>1, <2>2, <1>1, <1>7 DEF StTyped, STTypeOK
  <2> QED
    BY <2>3, <1>1, <1>3, <1>7 DEF StTyped
<1>12. Numbered'
  <2>1. \A p \in Openings : opening'[p].pc \in {"ready", "open"} =>
           opening[p].pc \in {"ready", "open"} /\ opening'[p].created = opening[p].created
    <3> SUFFICES ASSUME NEW p \in Openings, opening'[p].pc \in {"ready", "open"}
                 PROVE  opening[p].pc \in {"ready", "open"} /\ opening'[p].created = opening[p].created
      OBVIOUS
    <3>1. CASE p = o
      BY <3>1, <1>5, <1>6, <1>7
    <3>2. CASE p # o
      BY <3>2, <1>4, <1>9
    <3> QED
      BY <3>1, <3>2
  <2> QED
    BY <2>1, SameNumbers DEF StreamsInv
<1>13. SlotsKept'
  <2> SUFFICES ASSUME NEW q \in grants', opening'[q].policy.max > 0
               PROVE  Cardinality({p \in grants' : opening'[p].pc = "open" /\ p # q
                          /\ opening'[p].policy = opening'[q].policy}) < opening'[q].policy.max
    BY DEF SlotsKept
  <2> DEFINE S == {p \in grants : opening[p].pc = "open" /\ p # q /\ opening[p].policy = opening[q].policy}
             T == {p \in grants' : opening'[p].pc = "open" /\ p # q /\ opening'[p].policy = opening'[q].policy}
  <2>1. IsFiniteSet(K) /\ Cardinality(K) \in Nat /\ IsFiniteSet(grants)
    <3>1. IsFiniteSet(Openings)
      BY StreamsAssumption
    <3> QED
      BY <3>1, <1>2, <1>10, FS_Subset, FS_CardinalityType
  <2>2. q \in Openings /\ opening[q].policy.max \in Nat /\ opening[o].policy.max \in Nat
    <3>1. q \in Openings
      BY <1>2, <1>10
    <3> QED
      BY <3>1, <1>1 DEF StTyped, StreamRecs, Policied
  <2>3. CASE q = o
    <3>1. ~full /\ opening'[q].policy = opening[o].policy
      BY <2>3, <1>2, <1>6
    <3>2. Cardinality(K) < opening[o].policy.max
      BY <3>1, <1>8, <2>1, <2>2
    <3>3. T \in SUBSET K
      BY <2>3, <1>2
    <3>4. Cardinality(T) <= Cardinality(K) /\ Cardinality(T) \in Nat
      <4> HIDE DEF T
      <4> QED
        BY <3>3, <2>1, FS_Subset, FS_CardinalityType
    <3> HIDE DEF T
    <3> QED
      BY <3>1, <3>2, <3>4, <2>1, <2>2 DEF T
  <2>4. CASE q # o
    <3>1. q \in K /\ opening'[q] = opening[q]
      BY <2>2, <2>4, <1>2, <1>4
    <3>2. Cardinality(S) < opening[q].policy.max
      <4>1. SlotsKept
        BY DEF StreamsInv
      <4> QED
        BY <3>1, <4>1, <1>2 DEF SlotsKept
    <3>3. IsFiniteSet(S) /\ Cardinality(S) \in Nat
      <4>1. S \in SUBSET grants
        OBVIOUS
      <4> HIDE DEF S
      <4> QED
        BY <4>1, <2>1, FS_Subset, FS_CardinalityType
    <3>4. CASE ~full /\ opening[o].policy = opening[q].policy
      <4>1. Cardinality(K) < opening[q].policy.max
        BY <3>4, <3>1, <1>8, <2>1, <2>2
      <4>2. T \in SUBSET ((K \ {q}) \cup {o})
        BY <1>2
      <4>3. IsFiniteSet(K \ {q}) /\ Cardinality(K \ {q}) = Cardinality(K) - 1
        BY <3>1, <2>1, FS_RemoveElement
      <4>4. o \notin K \ {q}
        BY <1>2
      <4>5. IsFiniteSet((K \ {q}) \cup {o}) /\ Cardinality((K \ {q}) \cup {o}) = Cardinality(K)
        <5>1. Cardinality((K \ {q}) \cup {o}) = Cardinality(K \ {q}) + 1
          BY <4>3, <4>4, FS_AddElement
        <5> QED
          BY SMTT(30), <5>1, <4>3, <2>1, FS_AddElement
      <4>6. Cardinality(T) <= Cardinality(K) /\ Cardinality(T) \in Nat
        <5> HIDE DEF T
        <5> QED
          BY <4>2, <4>5, FS_Subset, FS_CardinalityType
      <4> HIDE DEF T
      <4> QED
        BY <4>1, <4>6, <3>1, <2>1, <2>2 DEF T
    <3>5. CASE ~(~full /\ opening[o].policy = opening[q].policy)
      <4>1. o \notin T
        BY <3>5, <3>1, <1>2, <1>6
      <4>2. \A p \in grants' : p # o => p \in grants /\ opening'[p] = opening[p]
        BY <1>2, <1>4, <1>10
      <4>3. T \in SUBSET S
        BY <4>1, <4>2, <3>1
      <4>4. Cardinality(T) <= Cardinality(S) /\ Cardinality(T) \in Nat
        <5> HIDE DEF T, S
        <5> QED
          BY <4>3, <3>3, FS_Subset, FS_CardinalityType
      <4> HIDE DEF T, S
      <4> QED
        BY <4>4, <3>1, <3>2, <3>3, <2>2 DEF T
    <3> QED
      BY <3>4, <3>5
  <2> QED
    BY <2>3, <2>4
<1>14. ReadLast'
  BY <1>7 DEF StreamsInv, ReadLast
<1>15. Followed'
  <2>1. \A p \in UnderWay' : p # o /\ p \in UnderWay /\ opening'[p] = opening[p]
    <3> SUFFICES ASSUME NEW p \in UnderWay' PROVE p # o /\ p \in UnderWay /\ opening'[p] = opening[p]
      OBVIOUS
    <3>1. p \in Openings /\ opening'[p].pc \in {"found", "read", "ready"}
      BY DEF UnderWay
    <3>2. p # o
      BY <3>1, <1>5, <1>6
    <3>3. opening'[p] = opening[p]
      BY <3>1, <3>2, <1>4, <1>9
    <3> QED
      BY <3>1, <3>2, <3>3 DEF UnderWay
  <2> QED
    BY <2>1, <1>7 DEF StreamsInv, Followed
<1>16. \A p \in grants' : p # o => p \in grants /\ opening'[p] = opening[p] /\ (p \notin doomed' => p \notin doomed)
  BY <1>2, <1>4, <1>7, <1>10
<1>17. o \in UnderWay
  BY <1>7 DEF UnderWay
<1>18. OnlyRacedStay'
  <2> SUFFICES ASSUME NEW p \in grants', p \notin doomed'
               PROVE  \/ opening'[p].raced \/ Pending'
                      \/ /\ server'.live /\ server'.on
                         /\ server'.policy = opening'[p].policy /\ server'.gen = opening'[p].base
    BY DEF OnlyRacedStay
  <2>1. CASE p = o
    <3>1. ~full
      BY <2>1, <1>2
    <3> QED
      BY <2>1, <3>1, <1>6, <1>7, <1>17 DEF StreamsInv, Followed
  <2>2. CASE p # o
    BY <2>2, <1>7, <1>16 DEF StreamsInv, OnlyRacedStay, Pending
  <2> QED
    BY <2>1, <2>2
<1>19. DeletingEnds'
  <2> SUFFICES ASSUME Deleting', NEW p \in grants', p \notin doomed' PROVE opening'[p].raced
    BY DEF DeletingEnds
  <2>1. Deleting
    BY <1>7 DEF Deleting
  <2>2. CASE p = o
    BY <2>1, <2>2, <1>2, <1>6
  <2>3. CASE p # o
    BY <2>1, <2>3, <1>16 DEF StreamsInv, DeletingEnds
  <2> QED
    BY <2>2, <2>3
<1> QED
  BY <1>11, <1>12, <1>13, <1>14, <1>15, <1>18, <1>19 DEF StreamsInv

\* What a write of the row does to the requests.
LEMMA WriteMarks ==
    ASSUME StTyped, NEW a \in Editors, NEW policy \in Policies, NEW on \in BOOLEAN, WriteServer(a, policy, on)
    PROVE  /\ change' \in [Editors -> Asked]
           /\ \A b \in Editors : b # a =>
                /\ change'[b].pc = change[b].pc /\ change'[b].saw = change[b].saw
                /\ change[b].stale \/ change[b].pc # "idle" => change'[b].stale
           /\ IF policy # change[a].saw \/ ~on THEN change'[a].pc = "written" ELSE change'[a].pc = "done"
<1>1. change' = [b \in Editors |->
              IF b # a THEN [change[b] EXCEPT !.stale = @ \/ change[b].pc # "idle"]
              ELSE [change[a] EXCEPT !.pc = IF policy # change[a].saw \/ ~on THEN "written" ELSE "done",
                             !.saw = NoPolicy, !.stale = FALSE]]
  BY DEF WriteServer
<1>2. ASSUME NEW b \in Editors, b # a
      PROVE  /\ change'[b] \in Asked
             /\ change'[b].pc = change[b].pc /\ change'[b].saw = change[b].saw
             /\ change[b].stale \/ change[b].pc # "idle" => change'[b].stale
  <2>1. PICK s \in Asked : s = change[b]
    BY DEF StTyped
  <2>2. PICK r \in BOOLEAN : r = (change[b].stale \/ change[b].pc # "idle")
    BY <2>1 DEF Asked
  <2>3. change'[b] = [s EXCEPT !.stale = r]
    BY <1>1, <1>2, <2>1, <2>2
  <2>4. change'[b] \in Asked /\ change'[b].stale = r
    BY <2>3 DEF Asked
  <2>5. change'[b].pc = s.pc /\ change'[b].saw = s.saw
    BY <2>3 DEF Asked
  <2> QED
    BY <2>1, <2>2, <2>4, <2>5
<1>3. /\ change'[a] \in Asked
      /\ IF policy # change[a].saw \/ ~on THEN change'[a].pc = "written" ELSE change'[a].pc = "done"
  <2>1. PICK s \in Asked : s = change[a]
    BY DEF StTyped
  <2>2. PICK n \in {"written", "done"} : n = IF policy # change[a].saw \/ ~on THEN "written" ELSE "done"
    OBVIOUS
  <2>3. change'[a] = [s EXCEPT !.pc = n, !.saw = NoPolicy, !.stale = FALSE]
    BY <1>1, <2>1, <2>2
  <2>4. NoPolicy \in Policied
    BY DEF NoPolicy, Policied
  <2>5. change'[a] \in Asked /\ change'[a].pc = n
    BY <2>3, <2>4 DEF Asked
  <2> QED
    BY <2>2, <2>5
<1>4. \A b \in Editors : change'[b] \in Asked
  BY <1>2, <1>3
<1>5. change' \in [Editors -> Asked]
  BY <1>1, <1>4
<1> QED
  BY <1>2, <1>3, <1>5

LEMMA WriteServerStep ==
    ASSUME StreamsInv, NEW a \in Editors, NEW policy \in Policies, NEW on \in BOOLEAN, WriteServer(a, policy, on)
    PROVE  StreamsInv'
<1>1. StTyped
  BY DEF StreamsInv
<1>2. policy \in Policied
  BY StreamsAssumption DEF Policied
<1>3. /\ change' \in [Editors -> Asked]
      /\ \A b \in Editors : b # a =>
            /\ change'[b].pc = change[b].pc /\ change'[b].saw = change[b].saw
            /\ change[b].stale \/ change[b].pc # "idle" => change'[b].stale
      /\ IF policy # change[a].saw \/ ~on THEN change'[a].pc = "written" ELSE change'[a].pc = "done"
  BY <1>1, WriteMarks
<1>4. PICK late \in BOOLEAN : late = change[a].stale
  BY <1>1 DEF StTyped, Asked
<1>5. Raced(late)
  BY <1>4 DEF WriteServer
<1>6. /\ opening' \in [Openings -> StreamRecs]
      /\ \A o \in Openings :
           /\ opening'[o].pc = opening[o].pc /\ opening'[o].policy = opening[o].policy
           /\ opening'[o].base = opening[o].base /\ opening'[o].created = opening[o].created
           /\ opening[o].raced \/ o \in UnderWay \/ (late /\ o \in grants) => opening'[o].raced
  BY <1>1, <1>5, RacedMarks
<1>7. UNCHANGED <<grants, doomed>> /\ change[a].pc = "read"
  BY DEF WriteServer
<1>8. PICK s \in SourceRow : s = server
  BY <1>1 DEF StTyped
<1>9. server' = IF s.live THEN [s EXCEPT !.policy = policy, !.on = on] ELSE s
  BY <1>8 DEF WriteServer
<1>10. /\ server' \in SourceRow /\ server'.gen = server.gen /\ server'.live = server.live
       /\ server.live => server'.policy = policy /\ server'.on = on
       /\ ~server.live => server' = server
  <2>1. CASE s.live
    BY <2>1, <1>2, <1>8, <1>9 DEF SourceRow
  <2>2. CASE ~s.live
    BY <2>2, <1>8, <1>9
  <2> QED
    BY <2>1, <2>2
<1>11. grants \subseteq Openings
  BY <1>1 DEF StTyped, STTypeOK
<1>12. StTyped'
  <2>1. server'.policy \in Policies /\ server'.gen \in 1..MaxGen
    BY <1>1, <1>10 DEF StTyped, STTypeOK
  <2>2. STTypeOK'
    BY <2>1, <1>1, <1>6, <1>7 DEF StTyped, STTypeOK
  <2> QED
    BY <2>2, <1>3, <1>6, <1>10 DEF StTyped
<1>13. Numbered'
  BY <1>6, SameNumbers DEF StreamsInv
<1>14. SlotsKept'
  BY <1>1, <1>6, <1>7, <1>11, FewerStreams DEF StreamsInv
<1>15. ReadLast'
  BY <1>3 DEF ReadLast
<1>16. Followed'
  BY <1>6 DEF Followed, UnderWay
<1>17. OnlyRacedStay'
  <2> SUFFICES ASSUME NEW o \in grants, o \notin doomed, ~Pending', ~opening'[o].raced
               PROVE  /\ server'.live /\ server'.on
                      /\ server'.policy = opening'[o].policy /\ server'.gen = opening'[o].base
    BY <1>7 DEF OnlyRacedStay
  <2>1. ~opening[o].raced /\ ~late
    BY <1>6, <1>11
  <2>2. ~Pending
    <3> SUFFICES ASSUME NEW b \in Editors, change[b].pc \in {"stored", "written"} PROVE FALSE
      BY DEF Pending
    <3>1. b # a /\ change'[b].pc = change[b].pc
      BY <1>3, <1>7
    <3> QED
      BY <3>1 DEF Pending
  <2>3. server.live /\ server.on /\ server.policy = opening[o].policy /\ server.gen = opening[o].base
    BY <2>1, <2>2 DEF StreamsInv, OnlyRacedStay
  <2>4. policy = change[a].saw /\ on
    BY <1>3 DEF Pending
  <2>5. change[a].saw = server.policy
    BY <2>1, <1>4, <1>7 DEF StreamsInv, ReadLast
  <2> QED
    BY <2>3, <2>4, <2>5, <1>6, <1>10, <1>11
<1>18. DeletingEnds'
  <2> SUFFICES ASSUME Deleting', NEW o \in grants, o \notin doomed PROVE opening'[o].raced
    BY <1>7 DEF DeletingEnds
  <2>1. Deleting
    BY <1>3 DEF Deleting
  <2> QED
    BY <2>1, <1>6, <1>11 DEF StreamsInv, DeletingEnds
<1> QED
  BY <1>12, <1>13, <1>14, <1>15, <1>16, <1>17, <1>18 DEF StreamsInv

\* A step of a request that moves on and leaves the row and the openings.
LEMMA RequestStep ==
    ASSUME StreamsInv, NEW a \in Editors, NEW r \in Asked, change' = [change EXCEPT ![a] = r],
           UNCHANGED <<server, opening, grants>>, doomed \subseteq doomed', doomed' \subseteq grants,
           r.pc \in {"read", "stored"} /\ ~r.stale => r.saw = server.policy,
           \/ doomed' = grants
           \/ /\ change[a].pc \notin {"stored", "written"}
              /\ r.pc # "deleting" \/ change[a].pc = "deleting"
    PROVE  StreamsInv'
<1>1. StTyped
  BY DEF StreamsInv
<1>2. change' \in [Editors -> Asked] /\ change'[a] = r /\ \A b \in Editors : b # a => change'[b] = change[b]
  BY <1>1 DEF StTyped
<1>3. StTyped'
  <2>1. STTypeOK'
    BY <1>1 DEF StTyped, STTypeOK
  <2> QED
    BY <2>1, <1>1, <1>2 DEF StTyped
<1>4. Numbered' /\ SlotsKept'
  BY DEF StreamsInv, Numbered, SlotsKept
<1>5. ReadLast'
  BY <1>2 DEF StreamsInv, ReadLast
<1>6. Followed'
  BY DEF StreamsInv, Followed, UnderWay
<1>7. CASE doomed' = grants
  <2>1. OnlyRacedStay' /\ DeletingEnds'
    BY <1>7 DEF OnlyRacedStay, DeletingEnds
  <2> QED
    BY <2>1, <1>3, <1>4, <1>5, <1>6 DEF StreamsInv
<1>8. CASE /\ change[a].pc \notin {"stored", "written"}
           /\ r.pc # "deleting" \/ change[a].pc = "deleting"
  <2>1. Pending => Pending'
    BY <1>2, <1>8 DEF Pending
  <2>2. Deleting' => Deleting
    BY <1>2, <1>8 DEF Deleting
  <2>3. OnlyRacedStay'
    BY <2>1 DEF StreamsInv, OnlyRacedStay
  <2>4. DeletingEnds'
    BY <2>2 DEF StreamsInv, DeletingEnds
  <2> QED
    BY <2>3, <2>4, <1>3, <1>4, <1>5, <1>6 DEF StreamsInv
<1> QED
  BY <1>7, <1>8

LEMMA CollectStep ==
    ASSUME StreamsInv, NEW a \in Editors, NEW from, NEW to \in {"read", "done", "deleting"}, Collect(a, from, to),
           to = "read" => from = "stored"
    PROVE  StreamsInv'
<1>1. PICK s \in Asked : s = change[a]
  BY DEF StreamsInv, StTyped
<1>2. PICK r : r = [s EXCEPT !.pc = to]
  OBVIOUS
<1>3. r \in Asked /\ r.pc = to
  BY <1>2 DEF Asked
<1>4. r.saw = s.saw /\ r.stale = s.stale
  BY <1>2 DEF Asked
<1>5. change' = [change EXCEPT ![a] = r]
  BY <1>1, <1>2 DEF Collect
<1>6. doomed' = grants
  BY DEF Collect, StreamsInv, StTyped, STTypeOK
<1>7. r.pc \in {"read", "stored"} /\ ~r.stale => r.saw = server.policy
  BY <1>1, <1>3, <1>4 DEF StreamsInv, ReadLast, Collect
<1>8. UNCHANGED <<server, opening, grants>> /\ doomed \subseteq doomed'
  BY DEF Collect
<1> QED
  BY <1>3, <1>5, <1>6, <1>7, <1>8, RequestStep

LEMMA RequestSteps ==
    ASSUME StreamsInv, NEW a \in Editors, Request(a)
    PROVE  StreamsInv'
<1>1. StTyped
  BY DEF StreamsInv
<1>2. PICK s \in Asked : s = change[a]
  BY <1>1 DEF StTyped
<1>3. CASE Begin(a)
  <2>1. PICK r : r = [s EXCEPT !.pc = "read", !.saw = server.policy]
    OBVIOUS
  <2>2. r \in Asked
    BY <1>1, <2>1 DEF StTyped, SourceRow, Asked
  <2>3. r.pc = "read" /\ r.saw = server.policy
    BY <2>1 DEF Asked
  <2>4. change' = [change EXCEPT ![a] = r]
    BY <1>2, <1>3, <2>1 DEF Begin
  <2>5. UNCHANGED <<server, opening, grants, doomed>> /\ change[a].pc = "idle" /\ doomed \subseteq grants
    BY <1>1, <1>3 DEF Begin, StTyped, STTypeOK
  <2> QED
    BY <2>2, <2>3, <2>4, <2>5, RequestStep
<1>4. CASE StoreCredential(a)
  <2>1. Raced(FALSE) /\ UNCHANGED <<grants, doomed>> /\ change[a].pc = "read" /\ server.gen < MaxGen
    BY <1>4 DEF StoreCredential
  <2>2. /\ opening' \in [Openings -> StreamRecs]
        /\ \A o \in Openings :
             /\ opening'[o].pc = opening[o].pc /\ opening'[o].policy = opening[o].policy
             /\ opening'[o].base = opening[o].base /\ opening'[o].created = opening[o].created
             /\ opening[o].raced \/ o \in UnderWay => opening'[o].raced
    BY <1>1, <2>1, RacedMarks
  <2>3. PICK v \in SourceRow : v = server
    BY <1>1 DEF StTyped
  <2>4. server' = [v EXCEPT !.gen = v.gen + 1]
    BY <1>4, <2>3 DEF StoreCredential
  <2>5. server' \in SourceRow /\ server'.policy = server.policy /\ server'.gen = server.gen + 1
    BY <2>3, <2>4 DEF SourceRow
  <2>6. PICK r : r = [s EXCEPT !.pc = "stored", !.moved = TRUE]
    OBVIOUS
  <2>7. r \in Asked /\ r.pc = "stored"
    BY <2>6 DEF Asked
  <2>8. r.saw = s.saw /\ r.stale = s.stale
    BY <2>6 DEF Asked
  <2>9. change' = [change EXCEPT ![a] = r]
    BY <1>2, <1>4, <2>6 DEF StoreCredential
  <2>10. change' \in [Editors -> Asked] /\ change'[a] = r /\ \A b \in Editors : b # a => change'[b] = change[b]
    BY <1>1, <2>7, <2>9 DEF StTyped
  <2>11. StTyped'
    <3>1. server'.gen \in 1..MaxGen
      <4>1. server.gen \in 1..MaxGen /\ MaxGen \in Nat
        BY <1>1, StreamsAssumption DEF StTyped, STTypeOK
      <4> QED
        BY <4>1, <2>1, <2>5
    <3>2. STTypeOK'
      BY <1>1, <2>1, <2>2, <2>5, <3>1 DEF StTyped, STTypeOK
    <3> QED
      BY <3>2, <2>2, <2>5, <2>10 DEF StTyped
  <2>12. grants \subseteq Openings
    BY <1>1 DEF StTyped, STTypeOK
  <2>13. Numbered'
    BY <2>2, SameNumbers DEF StreamsInv
  <2>14. SlotsKept'
    BY <1>1, <2>1, <2>2, <2>12, FewerStreams DEF StreamsInv
  <2>15. ReadLast'
    BY <1>2, <2>1, <2>5, <2>7, <2>8, <2>10 DEF StreamsInv, ReadLast
  <2>16. Followed'
    BY <2>2 DEF Followed, UnderWay
  <2>17. Pending'
    BY <2>7, <2>10 DEF Pending
  <2>18. OnlyRacedStay'
    BY <2>17 DEF OnlyRacedStay
  <2>19. DeletingEnds'
    <3> SUFFICES ASSUME Deleting', NEW o \in grants, o \notin doomed PROVE opening'[o].raced
      BY <2>1 DEF DeletingEnds
    <3>1. Deleting
      BY <2>7, <2>10 DEF Deleting
    <3> QED
      BY <3>1, <2>2, <2>12 DEF StreamsInv, DeletingEnds
  <2> QED
    BY <2>11, <2>13, <2>14, <2>15, <2>16, <2>18, <2>19 DEF StreamsInv
<1>5. CASE \E p \in Policies, on \in BOOLEAN : WriteServer(a, p, on)
  BY <1>5, WriteServerStep
<1>6. CASE Collect(a, "stored", "read")
  BY <1>6, CollectStep
<1>7. CASE Collect(a, "written", "done")
  BY <1>7, CollectStep
<1>8. CASE Collect(a, "read", "deleting")
  BY <1>8, CollectStep
<1>9. CASE DeleteRow(a)
  <2>1. Raced(FALSE) /\ UNCHANGED <<grants, doomed>> /\ change[a].pc = "deleting"
    BY <1>9 DEF DeleteRow
  <2>2. /\ opening' \in [Openings -> StreamRecs]
        /\ \A o \in Openings :
             /\ opening'[o].pc = opening[o].pc /\ opening'[o].policy = opening[o].policy
             /\ opening'[o].base = opening[o].base /\ opening'[o].created = opening[o].created
             /\ opening[o].raced \/ o \in UnderWay => opening'[o].raced
    BY <1>1, <2>1, RacedMarks
  <2>3. PICK v \in SourceRow : v = server
    BY <1>1 DEF StTyped
  <2>4. server' = [v EXCEPT !.live = FALSE]
    BY <1>9, <2>3 DEF DeleteRow
  <2>5. server' \in SourceRow /\ server'.policy = server.policy /\ server'.gen = server.gen
    BY <2>3, <2>4 DEF SourceRow
  <2>6. NewChange \in Asked
    BY DEF NewChange, NoPolicy, Policied, Asked
  <2>7. PICK r : r = [NewChange EXCEPT !.pc = "done"]
    OBVIOUS
  <2>8. r \in Asked /\ r.pc = "done"
    BY <2>6, <2>7 DEF Asked
  <2>9. change' = [change EXCEPT ![a] = r]
    BY <1>9, <2>7 DEF DeleteRow
  <2>10. change' \in [Editors -> Asked] /\ change'[a] = r /\ \A b \in Editors : b # a => change'[b] = change[b]
    BY <1>1, <2>8, <2>9 DEF StTyped
  <2>11. StTyped'
    <3>1. STTypeOK'
      BY <1>1, <2>1, <2>2, <2>5 DEF StTyped, STTypeOK
    <3> QED
      BY <3>1, <2>2, <2>5, <2>10 DEF StTyped
  <2>12. grants \subseteq Openings
    BY <1>1 DEF StTyped, STTypeOK
  <2>13. Numbered'
    BY <2>2, SameNumbers DEF StreamsInv
  <2>14. SlotsKept'
    BY <1>1, <2>1, <2>2, <2>12, FewerStreams DEF StreamsInv
  <2>15. ReadLast'
    BY <2>5, <2>8, <2>10 DEF StreamsInv, ReadLast
  <2>16. Followed'
    BY <2>2 DEF Followed, UnderWay
  <2>17. \A o \in grants \ doomed : opening'[o].raced
    <3>1. Deleting
      BY <2>1 DEF Deleting
    <3> QED
      BY <3>1, <2>2, <2>12 DEF StreamsInv, DeletingEnds
  <2>18. OnlyRacedStay' /\ DeletingEnds'
    BY <2>1, <2>17 DEF OnlyRacedStay, DeletingEnds
  <2> QED
    BY <2>11, <2>13, <2>14, <2>15, <2>16, <2>18 DEF StreamsInv
<1> QED
  BY <1>3, <1>4, <1>5, <1>6, <1>7, <1>8, <1>9 DEF Request

\* A claim that ends streams of its viewer's leaves as many as the limit asks.
LEMMA ClaimLeavesEnough ==
    ASSUME StreamsInv, NEW o \in Openings, NEW idle \in SUBSET grants, ClaimSlot(o, idle)
    PROVE  LET gone == (grants \ grants') \ idle IN
           /\ \A p \in gone : ViewerOf[p] = ViewerOf[o] /\ ViewerOf[o] # NoViewer
           /\ gone # {} => Cardinality(grants') >= opening[o].policy.max
<1> DEFINE K == KeptBy(o, idle)
           max == opening[o].policy.max
           busy == grants \ idle
           surplus == IF Cardinality(busy) >= max THEN Cardinality(busy) + 1 - max ELSE 0
           old == Oldest(Own(o) \ idle, surplus)
           full == max > 0 /\ Cardinality(K) >= max
           gone == (grants \ grants') \ idle
<1>1. StTyped /\ Numbered
  BY DEF StreamsInv
<1>2. o \notin grants /\ K \subseteq grants /\ grants' = K \cup (IF full THEN {} ELSE {o})
  BY <1>1, ClaimMarks
<1>3. K = IF max = 0 THEN grants ELSE busy \ old
  BY DEF KeptBy
<1>4. old \subseteq Own(o) \ idle
  BY DEF Oldest
<1>5. Own(o) \subseteq grants /\ \A p \in Own(o) : ViewerOf[p] = ViewerOf[o] /\ ViewerOf[o] # NoViewer
  BY DEF Own
<1>6. IsFiniteSet(busy) /\ Cardinality(busy) \in Nat /\ max \in Nat
  <2>1. grants \subseteq Openings /\ IsFiniteSet(Openings)
    BY <1>1, StreamsAssumption DEF StTyped, STTypeOK
  <2>2. busy \in SUBSET Openings
    BY <2>1
  <2>3. max \in Nat
    BY <1>1 DEF StTyped, StreamRecs, Policied
  <2> HIDE DEF busy, max
  <2> QED
    BY <2>1, <2>2, <2>3, FS_Subset, FS_CardinalityType
<1>7. full <=> max > 0 /\ Cardinality(K) >= max
  OBVIOUS
<1>8. surplus = IF Cardinality(busy) >= max THEN Cardinality(busy) + 1 - max ELSE 0
  OBVIOUS
<1> HIDE DEF K, max, surplus, old, full
<1>9. max = 0 => gone = {}
  BY <1>2, <1>3
<1>10. \A p \in gone : max # 0 /\ p \in old
  BY <1>2, <1>3
<1>11. \A p \in gone : ViewerOf[p] = ViewerOf[o] /\ ViewerOf[o] # NoViewer
  BY <1>4, <1>5, <1>10
<1>12. ASSUME gone # {} PROVE Cardinality(grants') >= max
  <2>1. surplus \in Nat
    BY <1>6, <1>8
  <2>2. IsFiniteSet(old) /\ Cardinality(old) <= surplus /\ Cardinality(old) \in Nat
    <3>1. (Own(o) \ idle) \in SUBSET grants
      BY <1>5
    <3>2. IsFiniteSet(old) /\ Cardinality(old) <= surplus
      BY <1>1, <2>1, <3>1, OldestAreFew DEF old
    <3> QED
      BY <3>2, FS_CardinalityType
  <2>3. old # {} /\ max # 0
    BY <1>10, <1>12
  <2>4. surplus > 0
    <3>1. Cardinality(old) # 0
      BY <2>2, <2>3, FS_EmptySet
    <3> QED
      BY <3>1, <2>1, <2>2
  <2>5. surplus = Cardinality(busy) + 1 - max
    BY <1>8, <2>4
  <2>6. K = busy \ old
    BY <1>3, <2>3
  <2>7. IsFiniteSet(K) /\ Cardinality(K) \in Nat /\ Cardinality(K) >= max - 1
    <3>1. IsFiniteSet(K) /\ Cardinality(K) = Cardinality(busy) - Cardinality(busy \cap old)
      BY <1>6, <2>6, FS_Difference
    <3>2. Cardinality(busy \cap old) <= Cardinality(old) /\ Cardinality(busy \cap old) \in Nat
      BY <2>2, FS_Intersection, FS_CardinalityType
    <3>3. Cardinality(K) \in Nat
      BY <3>1, FS_CardinalityType
    <3> QED
      BY <1>6, <2>2, <2>5, <3>1, <3>2, <3>3
  <2>8. CASE full
    BY <1>2, <1>7, <2>8
  <2>9. CASE ~full
    <3>1. grants' = K \cup {o} /\ o \notin K
      BY <1>2, <2>9
    <3>2. Cardinality(grants') = Cardinality(K) + 1
      BY <2>7, <3>1, FS_AddElement
    <3> QED
      BY <1>6, <2>7, <3>2
  <2> QED
    BY <2>8, <2>9
<1> QED
  BY <1>11, <1>12 DEF max

LEMMA StreamsSteps == StreamsInv /\ [StreamsNext]_stVars => StreamsInv'
<1> SUFFICES ASSUME StreamsInv, [StreamsNext]_stVars PROVE StreamsInv'
  OBVIOUS
<1>1. CASE UNCHANGED stVars
  BY <1>1 DEF stVars, StreamsInv, StTyped, STTypeOK, Numbered, SlotsKept, ReadLast, Followed, UnderWay,
              OnlyRacedStay, Pending, DeletingEnds, Deleting
<1>2. CASE \E o \in Openings : Player(o)
  BY <1>2, OpeningSteps, ClaimSlotStep, EndStreamStep DEF Player
<1>3. CASE \E a \in Editors : Request(a)
  BY <1>3, RequestSteps
<1> QED
  BY <1>1, <1>2, <1>3 DEF StreamsNext

\* For any openings, viewers, policies and requests of administrators: a
\* limit holds for the streams that were admitted under it, a stream the row
\* no longer allows is being ended but for the races named, and a claim ends
\* only idle streams and as many of its viewer's own as the limit asks.
THEOREM StreamsKeepContract == StreamsSpec => StreamsContract
<1>1. StreamsInv /\ [StreamsNext]_stVars => StreamsInv'
  BY StreamsSteps
<1>2. StreamsInv => StreamsSafe
  BY DEF StreamsInv, StTyped, StreamsSafe
<1>3. StreamsInv' => StreamsSafe'
  BY DEF StreamsInv, StTyped, StreamsSafe
<1> DEFINE A == UNCHANGED stVars \/ StreamsSafe'
           B == \A o \in Openings : \A idle \in SUBSET grants : ClaimSlot(o, idle) =>
                    LET gone == (grants \ grants') \ idle IN
                    /\ \A p \in gone : ViewerOf[p] = ViewerOf[o] /\ ViewerOf[o] # NoViewer
                    /\ gone # {} => Cardinality(grants') >= opening[o].policy.max
<1>4. StreamsInv => B
  BY ClaimLeavesEnough
<1>5. StreamsInv /\ [StreamsNext]_stVars => [A]_stVars /\ [B]_stVars
  BY <1>1, <1>3, <1>4
<1> QED
  BY <1>1, <1>5, StreamsStart, PTL DEF StreamsSpec, StreamsContract, ClaimIsFair

-----------------------------------------------------------------------------
(* Households.                                                             *)

Deeds == {"none", "create", "adminCreate", "accept", "ownerUpdate", "ownerAdd", "ownerRemove",
          "transfer", "delete", "patch", "move", "remove"}
Asking == [pc : PostPC, do : Deeds, home : Homes, into : Homes, who : Folk, from : Folk,
           role : MemberRoles \cup {"none"}, age : Ages, fresh : BOOLEAN]

\* What a request carries between its steps.
Carried(q) ==
    /\ q.pc = "write" =>
          /\ q.do \in {"ownerUpdate", "ownerAdd"} => q.role = "adult"
          /\ q.do = "patch" => q.role \in MemberRoles /\ q.age = 12
          /\ q.do = "move" => q.role \in {"adult", "child"}
          /\ q.do = "accept" => q.home = First
    /\ q.pc = "join" => \/ q.do = "create" /\ q.role = "owner"
                        \/ q.do = "accept" /\ q.role = "child" /\ q.age = 12 /\ q.home = First
    /\ q.pc = "release" => q.do = "accept"

HhTyped ==
    /\ owner \in [Homes -> Folk \cup {NoOwner}]
    /\ member \in [Homes -> [Folk -> MemberRoles \cup {"none"}]]
    /\ limit \in [Homes -> [Folk -> Ages]]
    /\ post \in [Posts -> Asking] /\ \A r \in Posts : Carried(post[r])
    /\ invite \in {"open", "used", "gone"} /\ stale \in BOOLEAN /\ homeFaults \in Nat

\* Age limits are of members, members are of households that are there.
RowsBelong ==
    \A h \in Homes, u \in Folk :
        /\ limit[h][u] # 0 => member[h][u] # "none"
        /\ member[h][u] # "none" => Exists(h)

\* One person has claimed the invite, and has joined or is about to.
Accepting(q) == q.do = "accept" /\ q.pc \in {"join", "release"}
InviteOnce ==
    /\ \A r, o \in Posts : Accepting(post[r]) /\ Accepting(post[o]) => r = o
    /\ \A r \in Posts : Accepting(post[r]) => invite # "open" /\ guests = {}
    /\ guests # {} => invite # "open"
    /\ guests = {} \/ \E u \in Folk : guests = {u}

\* What a request has checked.
Checked(q) ==
    /\ q.do \in {"create", "adminCreate"} => ~Exists(q.home) /\ Free(q.who)
    /\ q.do \in {"accept", "ownerAdd"} => Free(q.who)
    /\ q.do = "ownerRemove" => owner[q.home] \notin {q.who, NoOwner}
    /\ q.do = "transfer" => /\ Exists(q.home) /\ q.from = owner[q.home] /\ q.who # q.from
                            /\ member[q.home][q.who] # "none"
    /\ q.do = "patch" => \/ q.role = member[q.home][q.who]
                         \/ q.role = "adult" /\ member[q.home][q.who] \notin {"none", "owner"}
    /\ q.do = "move" => /\ q.role = member[q.home][q.who] /\ q.age = limit[q.home][q.who]
                        /\ q.home # q.into

\* Where a join stands.
Joining(q) ==
    /\ Free(q.who)
    /\ q.do = "create" => owner[q.home] = q.who /\ \A u \in Folk : member[q.home][u] = "none"

Single == \A u \in Folk, h, k \in Homes : member[h][u] # "none" /\ member[k][u] # "none" => h = k

OwnerOf(h) == \A u \in Folk : member[h][u] = "owner" <=> owner[h] = u
Creating(q, h) == q.pc = "join" /\ q.do = "create" /\ q.home = h
Named == homeFaults > 0 \/ \A h \in Homes : OwnerOf(h) \/ \E r \in Posts : Creating(post[r], h)

Between(q) == q.pc \in {"join", "release"}

\* One request at most is between its two statements, and no other that is
\* yet to write has checked before the first of them.
OneBetween ==
    \A r \in Posts : Between(post[r]) =>
        post[r].fresh /\ \A o \in Posts \ {r} : ~Between(post[o]) /\ (post[o].pc = "write" => ~post[o].fresh)

StillChecked == \A r \in Posts : post[r].pc = "write" /\ post[r].fresh => Checked(post[r])
StillJoining == \A r \in Posts : post[r].pc = "join" => Joining(post[r])

Orderly == Single /\ Named /\ OneBetween /\ StillChecked /\ StillJoining

HhSound == HhTyped /\ RowsBelong /\ InviteOnce
HhInv == HhSound /\ (stale \/ Orderly)

-----------------------------------------------------------------------------

LEMMA HouseholdsStart == HHStart => HhInv
<1> SUFFICES ASSUME HHStart PROVE HhInv
  OBVIOUS
<1> USE HouseholdsAssumption
<1>1. PICK o \in {NoOwner, Cat} :
         /\ owner = [h \in Homes |-> CASE h = First -> Ann [] h = Second -> o [] OTHER -> NoOwner]
         /\ member = [h \in Homes |-> [u \in Folk |->
              CASE h = First /\ u = Ann -> "owner" [] h = First /\ u = Bob -> "child"
                [] h = Second /\ u = o -> "owner" [] OTHER -> "none"]]
  BY DEF HHStart
<1>2. /\ limit = [h \in Homes |-> [u \in Folk |-> IF h = First /\ u = Bob THEN 12 ELSE 0]]
      /\ invite = "open" /\ post = [r \in Posts |-> Blank] /\ homeFaults = 0 /\ stale = FALSE /\ guests = {}
  BY DEF HHStart
<1>3. Blank \in Asking /\ Blank.pc = "idle"
  BY DEF Blank, Asking, PostPC, Deeds, Ages, Folk
<1>4. \A h \in Homes : owner[h] = IF h = First THEN Ann ELSE IF h = Second THEN o ELSE NoOwner
  BY <1>1
<1>5. \A h \in Homes, u \in Folk : member[h][u] =
         IF h = First /\ u = Ann THEN "owner" ELSE IF h = First /\ u = Bob THEN "child"
         ELSE IF h = Second /\ u = o THEN "owner" ELSE "none"
  BY <1>1 DEF Folk
<1>6. \A h \in Homes, u \in Folk : limit[h][u] = IF h = First /\ u = Bob THEN 12 ELSE 0
  BY <1>2
<1>7. HhTyped
  <2>1. owner \in [Homes -> Folk \cup {NoOwner}]
    BY <1>1 DEF Folk
  <2>2. member \in [Homes -> [Folk -> MemberRoles \cup {"none"}]]
    <3>1. \A h \in Homes : member[h] \in [Folk -> MemberRoles \cup {"none"}]
      <4> SUFFICES ASSUME NEW h \in Homes PROVE member[h] \in [Folk -> MemberRoles \cup {"none"}]
        OBVIOUS
      <4>1. member[h] = [u \in Folk |-> member[h][u]]
        BY <1>1
      <4>2. \A u \in Folk : member[h][u] \in MemberRoles \cup {"none"}
        BY <1>5 DEF MemberRoles
      <4> QED
        BY <4>1, <4>2
    <3> QED
      BY <1>1, <3>1
  <2>3. limit \in [Homes -> [Folk -> Ages]]
    BY <1>2 DEF Ages
  <2>4. post \in [Posts -> Asking] /\ \A r \in Posts : Carried(post[r])
    BY <1>2, <1>3 DEF Carried
  <2> QED
    BY <1>2, <2>1, <2>2, <2>3, <2>4 DEF HhTyped
<1>8. RowsBelong
  BY <1>4, <1>5, <1>6 DEF RowsBelong, Exists, Folk
<1>9. InviteOnce
  BY <1>2, <1>3 DEF InviteOnce, Accepting
<1>10. Single
  BY <1>5 DEF Single, Folk
<1>11. Named
  <2>1. \A h \in Homes : OwnerOf(h)
    BY <1>4, <1>5 DEF OwnerOf, Folk
  <2> QED
    BY <2>1 DEF Named
<1>12. OneBetween /\ StillChecked /\ StillJoining
  BY <1>2, <1>3 DEF OneBetween, StillChecked, StillJoining, Between
<1> QED
  BY <1>7, <1>8, <1>9, <1>10, <1>11, <1>12 DEF HhInv, HhSound, Orderly

\* What a write does to the requests.
LEMMA ChangeMarks ==
    ASSUME HhTyped, NEW r \in Posts, NEW q \in Asking, Carried(q), Changed(r, q)
    PROVE  /\ post' \in [Posts -> Asking] /\ post'[r] = q
           /\ \A o \in Posts \ {r} :
                /\ Carried(post'[o])
                /\ post'[o].pc = post[o].pc /\ post'[o].do = post[o].do /\ post'[o].home = post[o].home
                /\ post'[o].fresh => post[o].pc = "ended"
           /\ stale' = (stale \/ ~post[r].fresh)
<1>1. post' = [Aged(r) EXCEPT ![r] = q] /\ stale' = (stale \/ ~post[r].fresh)
  BY DEF Changed
<1>2. DOMAIN Aged(r) = Posts
  BY DEF Aged
<1>3. ASSUME NEW o \in Posts \ {r}
      PROVE  /\ post'[o] \in Asking /\ Carried(post'[o])
             /\ post'[o].pc = post[o].pc /\ post'[o].do = post[o].do /\ post'[o].home = post[o].home
             /\ post'[o].fresh => post[o].pc = "ended"
  <2>1. PICK s \in Asking : s = post[o]
    BY DEF HhTyped
  <2>2. PICK f \in BOOLEAN : f = (s.fresh /\ (o = r \/ s.pc = "ended"))
    BY <2>1 DEF Asking
  <2>3. post'[o] = [s EXCEPT !.fresh = f]
    BY <1>1, <1>2, <2>1, <2>2 DEF Aged
  <2>4. post'[o] \in Asking /\ post'[o].fresh = f
    BY <2>3 DEF Asking
  <2>5. post'[o].pc = s.pc /\ post'[o].do = s.do /\ post'[o].home = s.home /\ post'[o].role = s.role /\ post'[o].age = s.age
    BY <2>3 DEF Asking
  <2>6. Carried(s)
    BY <2>1 DEF HhTyped
  <2>7. Carried(post'[o])
    BY <2>5, <2>6 DEF Carried
  <2>8. post'[o].fresh => post[o].pc = "ended"
    BY <2>1, <2>2, <2>4
  <2> QED
    BY <2>1, <2>4, <2>5, <2>7, <2>8
<1>4. post'[r] = q
  BY <1>1, <1>2
<1>5. \A o \in Posts : post'[o] \in Asking
  BY <1>3, <1>4
<1>6. post' \in [Posts -> Asking]
  BY <1>1, <1>2, <1>5
<1> QED
  BY <1>1, <1>3, <1>4, <1>6

NoneBetween(r) == \A o \in Posts \ {r} : ~Between(post[o])

LEMMA FreshIsAlone ==
    ASSUME Orderly, NEW r \in Posts, post[r].fresh, post[r].pc \in {"write", "join", "release"}
    PROVE  NoneBetween(r)
<1> SUFFICES ASSUME NEW o \in Posts \ {r}, Between(post[o]) PROVE FALSE
  BY DEF NoneBetween
<1>1. post[r].pc = "write" => ~post[r].fresh
  BY DEF Orderly, OneBetween
<1>2. ~Between(post[r])
  BY DEF Orderly, OneBetween
<1> QED
  BY <1>1, <1>2 DEF Between

\* A step that leaves the households alone.
LEMMA HomesAsTheyWere ==
    ASSUME HhInv, NEW r \in Posts, NEW q \in Asking, Carried(q), post' = [post EXCEPT ![r] = q],
           UNCHANGED <<owner, member, limit, invite, stale, guests>>,
           homeFaults' \in Nat, homeFaults > 0 => homeFaults' > 0,
           q.pc # "join", Between(q) => Between(post[r]) /\ q.fresh = post[r].fresh,
           Accepting(q) => Accepting(post[r]),
           q.pc = "write" /\ q.fresh => Checked(q) /\ NoneBetween(r),
           stale \/ homeFaults' > 0 \/ ~(post[r].pc = "join" /\ post[r].do = "create")
    PROVE  HhInv'
<1>1. HhTyped /\ RowsBelong /\ InviteOnce
  BY DEF HhInv, HhSound
<1>2. post' \in [Posts -> Asking] /\ post'[r] = q /\ \A o \in Posts \ {r} : post'[o] = post[o]
  BY <1>1 DEF HhTyped
<1>3. HhTyped'
  <2>1. \A o \in Posts : Carried(post'[o])
    BY <1>1, <1>2 DEF HhTyped
  <2> QED
    BY <1>1, <1>2, <2>1 DEF HhTyped, Carried
<1>4. RowsBelong'
  BY <1>1 DEF RowsBelong, Exists
<1>5. InviteOnce'
  <2>1. \A o \in Posts : Accepting(post'[o]) => Accepting(post[o])
    BY <1>2
  <2> QED
    BY <1>1, <2>1 DEF InviteOnce, Accepting
<1>6. ASSUME ~stale PROVE Orderly'
  <2>1. Orderly
    BY <1>6 DEF HhInv
  <2>2. Single'
    BY <2>1 DEF Orderly, Single
  <2>3. Named'
    <3> SUFFICES ASSUME ~(homeFaults' > 0), NEW h \in Homes
                 PROVE  OwnerOf(h)' \/ \E o \in Posts : Creating(post'[o], h)
      BY DEF Named, Creating
    <3>1. OwnerOf(h) \/ \E o \in Posts : Creating(post[o], h)
      BY <2>1 DEF Orderly, Named
    <3>2. CASE OwnerOf(h)
      BY <3>2 DEF OwnerOf
    <3>3. CASE \E o \in Posts : Creating(post[o], h)
      BY <3>3, <1>2, <1>6 DEF Creating
    <3> QED
      BY <3>1, <3>2, <3>3
  <2>4. OneBetween'
    <3> SUFFICES ASSUME NEW o \in Posts, Between(post'[o])
                 PROVE  /\ post'[o].fresh
                        /\ \A p \in Posts \ {o} : ~Between(post'[p]) /\ (post'[p].pc = "write" => ~post'[p].fresh)
      BY DEF OneBetween, Between
    <3>1. Between(post[o]) /\ post'[o].fresh = post[o].fresh
      BY <1>2
    <3>2. post[o].fresh /\ \A p \in Posts \ {o} : ~Between(post[p]) /\ (post[p].pc = "write" => ~post[p].fresh)
      BY <2>1, <3>1 DEF Orderly, OneBetween
    <3>3. ASSUME NEW p \in Posts \ {o} PROVE ~Between(post'[p]) /\ (post'[p].pc = "write" => ~post'[p].fresh)
      <4>1. CASE p = r
        BY <4>1, <1>2, <3>1, <3>2 DEF NoneBetween
      <4>2. CASE p # r
        BY <4>2, <1>2, <3>2
      <4> QED
        BY <4>1, <4>2
    <3> QED
      BY <3>1, <3>2, <3>3
  <2>5. StillChecked'
    <3> SUFFICES ASSUME NEW o \in Posts, post'[o].pc = "write", post'[o].fresh PROVE Checked(post[o])'
      BY DEF StillChecked
    <3>1. PICK t : t = post'[o]
      OBVIOUS
    <3>2. Checked(t)
      <4>1. CASE o = r
        BY <4>1, <3>1, <1>2
      <4>2. CASE o # r
        BY <4>2, <3>1, <1>2, <2>1 DEF Orderly, StillChecked
      <4> QED
        BY <4>1, <4>2
    <3>3. Checked(t)'
      BY <3>2 DEF Checked, Exists, Free, InAny
    <3> QED
      BY <3>1, <3>3 DEF Checked, Exists, Free, InAny
  <2>6. StillJoining'
    <3> SUFFICES ASSUME NEW o \in Posts, post'[o].pc = "join" PROVE Joining(post[o])'
      BY DEF StillJoining
    <3>1. o # r
      BY <1>2
    <3>2. Joining(post[o]) /\ post'[o] = post[o]
      BY <1>2, <2>1, <3>1 DEF Orderly, StillJoining
    <3> QED
      BY <3>2 DEF Joining, Free, InAny
  <2> QED
    BY <2>2, <2>3, <2>4, <2>5, <2>6 DEF Orderly
<1> QED
  BY <1>3, <1>4, <1>5, <1>6 DEF HhInv, HhSound

\* A step that writes.
LEMMA HomesChange ==
    ASSUME HhInv, NEW r \in Posts, NEW q \in Asking, Carried(q), Changed(r, q), q.pc \in {"join", "ended"},
           post[r].pc \in {"write", "join", "release"}, q.pc = "join" => q.fresh = post[r].fresh,
           owner' \in [Homes -> Folk \cup {NoOwner}],
           member' \in [Homes -> [Folk -> MemberRoles \cup {"none"}]],
           limit' \in [Homes -> [Folk -> Ages]],
           invite' \in {"open", "used", "gone"}, homeFaults' \in Nat,
           RowsBelong', InviteOnce',
           ~stale /\ post[r].fresh /\ Orderly /\ NoneBetween(r) =>
               /\ Single'
               /\ homeFaults' > 0 \/ \A h \in Homes : OwnerOf(h)' \/ Creating(q, h)
               /\ q.pc = "join" => Joining(q)'
    PROVE  HhInv'
<1>1. HhTyped
  BY DEF HhInv, HhSound
<1>2. /\ post' \in [Posts -> Asking] /\ post'[r] = q
      /\ \A o \in Posts \ {r} :
            /\ Carried(post'[o])
            /\ post'[o].pc = post[o].pc /\ post'[o].do = post[o].do /\ post'[o].home = post[o].home
            /\ post'[o].fresh => post[o].pc = "ended"
      /\ stale' = (stale \/ ~post[r].fresh)
  BY <1>1, ChangeMarks
<1>3. HhTyped'
  <2>1. \A o \in Posts : Carried(post'[o])
    BY <1>2
  <2>2. post[r].fresh \in BOOLEAN /\ stale \in BOOLEAN
    BY <1>1 DEF HhTyped, Asking
  <2>3. stale' \in BOOLEAN
    BY <1>2, <2>2
  <2> QED
    BY <1>2, <2>1, <2>3 DEF HhTyped, Carried
<1>4. ASSUME ~stale' PROVE Orderly'
  <2>1. ~stale /\ post[r].fresh /\ Orderly
    BY <1>2, <1>4 DEF HhInv
  <2>2. NoneBetween(r)
    BY <2>1, FreshIsAlone
  <2>3. /\ Single'
        /\ homeFaults' > 0 \/ \A h \in Homes : OwnerOf(h)' \/ Creating(q, h)
        /\ q.pc = "join" => Joining(q)'
    BY <2>1, <2>2
  <2>4. Named'
    BY <1>2, <2>3 DEF Named, Creating
  <2>5. \A o \in Posts \ {r} : ~Between(post'[o])
    BY <1>2, <2>2 DEF NoneBetween, Between
  <2>6. OneBetween'
    BY <1>2, <2>1, <2>5 DEF OneBetween, Between
  <2>7. StillChecked'
    <3>1. \A o \in Posts : ~(post'[o].pc = "write" /\ post'[o].fresh)
      BY <1>2
    <3> QED
      BY <3>1 DEF StillChecked
  <2>8. StillJoining'
    <3> SUFFICES ASSUME NEW o \in Posts, post'[o].pc = "join" PROVE Joining(post[o])'
      BY DEF StillJoining
    <3>1. o = r
      BY <2>5 DEF Between
    <3>2. Joining(q)' /\ post'[o] = q
      BY <1>2, <2>3, <3>1
    <3> QED
      BY <3>2 DEF Joining, Free, InAny
  <2> QED
    BY <2>3, <2>4, <2>6, <2>7, <2>8 DEF Orderly
<1> QED
  BY <1>3, <1>4 DEF HhInv, HhSound

\* One row is written.
LEMMA RowWritten ==
    ASSUME HhTyped, NEW h \in Homes, NEW u \in Folk, NEW role \in MemberRoles \cup {"none"}, NEW age \in Ages,
           Row(h, u, role, age)
    PROVE  /\ member' \in [Homes -> [Folk -> MemberRoles \cup {"none"}]]
           /\ limit' \in [Homes -> [Folk -> Ages]]
           /\ member'[h][u] = role /\ limit'[h][u] = age
           /\ \A k \in Homes, v \in Folk : k # h \/ v # u =>
                 member'[k][v] = member[k][v] /\ limit'[k][v] = limit[k][v]
<1> USE DEF Row, SetRole, SetAge
<1>1. member' = [member EXCEPT ![h] = [member[h] EXCEPT ![u] = role]]
  BY DEF HhTyped
<1>2. limit' = [limit EXCEPT ![h] = [limit[h] EXCEPT ![u] = age]]
  BY DEF HhTyped
<1>3. [member[h] EXCEPT ![u] = role] \in [Folk -> MemberRoles \cup {"none"}]
  BY DEF HhTyped
<1>4. [limit[h] EXCEPT ![u] = age] \in [Folk -> Ages]
  BY DEF HhTyped
<1>5. member' \in [Homes -> [Folk -> MemberRoles \cup {"none"}]]
  BY <1>1, <1>3 DEF HhTyped
<1>6. limit' \in [Homes -> [Folk -> Ages]]
  BY <1>2, <1>4 DEF HhTyped
<1>7. member'[h] = [member[h] EXCEPT ![u] = role] /\ \A k \in Homes : k # h => member'[k] = member[k]
  BY <1>1 DEF HhTyped
<1>8. limit'[h] = [limit[h] EXCEPT ![u] = age] /\ \A k \in Homes : k # h => limit'[k] = limit[k]
  BY <1>2 DEF HhTyped
<1>9. member[h] \in [Folk -> MemberRoles \cup {"none"}] /\ limit[h] \in [Folk -> Ages]
  BY DEF HhTyped
<1>10. member'[h][u] = role /\ \A v \in Folk : v # u => member'[h][v] = member[h][v]
  BY <1>7, <1>9
<1>11. limit'[h][u] = age /\ \A v \in Folk : v # u => limit'[h][v] = limit[h][v]
  BY <1>8, <1>9
<1> QED
  BY <1>5, <1>6, <1>7, <1>8, <1>10, <1>11

LEMMA BlankAsking ==
    /\ Blank \in Asking /\ Blank.pc = "idle" /\ Blank.do = "none" /\ Blank.role = "none" /\ Blank.age = 0
    /\ Done \in Asking /\ Done.pc = "ended" /\ Carried(Done)
<1> USE HouseholdsAssumption
<1>1. Blank \in Asking
  BY DEF Blank, Asking, PostPC, Deeds, Ages, Folk
<1>2. Blank.pc = "idle" /\ Blank.do = "none" /\ Blank.role = "none" /\ Blank.age = 0
  BY DEF Blank
<1>3. Done \in Asking /\ Done.pc = "ended"
  BY <1>1 DEF Done, Asking, PostPC
<1> QED
  BY <1>1, <1>2, <1>3 DEF Carried

LEMMA TakeStep ==
    ASSUME HhInv, NEW r \in Posts, NEW s \in Asking, Take(r, s), Checked(s),
           s.do \in {"ownerUpdate", "ownerAdd"} => s.role = "adult",
           s.do = "patch" => s.role \in MemberRoles /\ s.age = 12,
           s.do = "move" => s.role \in {"adult", "child"},
           s.do = "accept" => s.home = First
    PROVE  HhInv'
<1>1. PICK f \in BOOLEAN : f = ~Midway(r)
  OBVIOUS
<1>2. PICK q : q = [s EXCEPT !.pc = "write", !.fresh = f]
  OBVIOUS
<1>3. q \in Asking /\ q.pc = "write" /\ q.fresh = f
  BY <1>2 DEF Asking, PostPC
<1>4. q.do = s.do /\ q.home = s.home /\ q.into = s.into /\ q.who = s.who
  BY <1>2 DEF Asking
<1>5. q.from = s.from /\ q.role = s.role /\ q.age = s.age
  BY <1>2 DEF Asking
<1>6. Carried(q)
  BY <1>3, <1>4, <1>5 DEF Carried
<1>7. Checked(q)
  BY <1>4, <1>5 DEF Checked
<1>8. q.fresh => NoneBetween(r)
  BY <1>1, <1>3 DEF Midway, NoneBetween, Between
<1>9. post' = [post EXCEPT ![r] = q]
  BY <1>1, <1>2 DEF Take
<1>10. UNCHANGED <<owner, member, limit, invite, homeFaults, stale, guests>> /\ post[r].pc = "idle"
  BY DEF Take
<1>11. homeFaults' \in Nat /\ (homeFaults > 0 => homeFaults' > 0)
  BY <1>10 DEF HhInv, HhSound, HhTyped
<1>12. ~Between(q) /\ ~Accepting(q) /\ q.pc # "join"
  BY <1>3 DEF Between, Accepting
<1> QED
  BY <1>3, <1>6, <1>7, <1>8, <1>9, <1>10, <1>11, <1>12, HomesAsTheyWere

LEMMA RefusedStep ==
    ASSUME HhInv, NEW r \in Posts, Refused(r), post[r].pc = "write", UNCHANGED <<homeFaults, guests>>
    PROVE  HhInv'
<1>1. Done \in Asking /\ Done.pc = "ended" /\ Carried(Done)
  BY BlankAsking
<1>2. ~Between(Done) /\ ~Accepting(Done)
  BY <1>1 DEF Between, Accepting
<1>3. post' = [post EXCEPT ![r] = Done] /\ UNCHANGED <<owner, member, limit, invite, stale, guests>>
  BY DEF Refused
<1>4. homeFaults' \in Nat /\ (homeFaults > 0 => homeFaults' > 0)
  BY DEF HhInv, HhSound, HhTyped
<1> QED
  BY <1>1, <1>2, <1>3, <1>4, HomesAsTheyWere

LEMMA RequestsTaken ==
    ASSUME HhInv, NEW r \in Posts, NEW h \in Homes, NEW u \in Folk
    PROVE  /\ \A do \in {"create", "adminCreate"} : Create(r, h, u, do) => HhInv'
           /\ Accept(r, u) => HhInv'
           /\ \A by \in Folk : OwnerUpdate(r, h, by, u, "adult", 0) => HhInv'
           /\ \A by \in Folk : OwnerAdd(r, h, by, u) => HhInv'
           /\ \A by \in Folk : OwnerRemove(r, h, by, u) => HhInv'
           /\ Transfer(r, h, u) => HhInv'
           /\ Dissolve(r, h) => HhInv'
           /\ \A role \in {"adult", "kept"} : Patch(r, h, u, role, 12) => HhInv'
           /\ \A into \in Homes : Move(r, h, u, into) => HhInv'
           /\ AdminRemove(r, h, u) => HhInv'
<1> USE BlankAsking, HouseholdsAssumption
<1>1. ASSUME NEW do \in {"create", "adminCreate"}, Create(r, h, u, do) PROVE HhInv'
  <2>1. PICK s : s = [Blank EXCEPT !.do = do, !.home = h, !.who = u]
    OBVIOUS
  <2>2. s \in Asking
    BY <2>1 DEF Asking, Deeds
  <2>3. s.do = do /\ s.home = h /\ s.who = u
    BY <2>1 DEF Asking
  <2>4. Checked(s)
    BY <1>1, <2>3 DEF Create, Checked
  <2>5. Take(r, s)
    BY <1>1, <2>1 DEF Create
  <2> QED
    BY <2>2, <2>3, <2>4, <2>5, TakeStep
<1>2. ASSUME Accept(r, u) PROVE HhInv'
  <2>1. PICK s : s = [Blank EXCEPT !.do = "accept", !.who = u]
    OBVIOUS
  <2>2. s \in Asking
    BY <2>1 DEF Asking, Deeds
  <2>3. s.do = "accept" /\ s.home = First /\ s.who = u
    BY <2>1 DEF Asking, Blank
  <2>4. Checked(s)
    BY <1>2, <2>3 DEF Accept, Checked
  <2>5. Take(r, s)
    BY <1>2, <2>1 DEF Accept
  <2> QED
    BY <2>2, <2>3, <2>4, <2>5, TakeStep
<1>3. ASSUME NEW by \in Folk, OwnerUpdate(r, h, by, u, "adult", 0) PROVE HhInv'
  <2>1. PICK s : s = [Blank EXCEPT !.do = "ownerUpdate", !.home = h, !.who = u, !.role = "adult", !.age = 0]
    OBVIOUS
  <2>2. s \in Asking
    BY <2>1 DEF Asking, Deeds, MemberRoles, Ages
  <2>3. s.do = "ownerUpdate" /\ s.role = "adult"
    BY <2>1 DEF Asking
  <2>4. Checked(s)
    BY <2>3 DEF Checked
  <2>5. Take(r, s)
    BY <1>3, <2>1 DEF OwnerUpdate
  <2> QED
    BY <2>2, <2>3, <2>4, <2>5, TakeStep
<1>4. ASSUME NEW by \in Folk, OwnerAdd(r, h, by, u) PROVE HhInv'
  <2>1. PICK s : s = [Blank EXCEPT !.do = "ownerAdd", !.home = h, !.who = u, !.role = "adult"]
    OBVIOUS
  <2>2. s \in Asking
    BY <2>1 DEF Asking, Deeds, MemberRoles
  <2>3. s.do = "ownerAdd" /\ s.role = "adult" /\ s.who = u
    BY <2>1 DEF Asking
  <2>4. Checked(s)
    BY <1>4, <2>3 DEF OwnerAdd, Checked
  <2>5. Take(r, s)
    BY <1>4, <2>1 DEF OwnerAdd
  <2> QED
    BY <2>2, <2>3, <2>4, <2>5, TakeStep
<1>5. ASSUME NEW by \in Folk, OwnerRemove(r, h, by, u) PROVE HhInv'
  <2>1. PICK s : s = [Blank EXCEPT !.do = "ownerRemove", !.home = h, !.who = u]
    OBVIOUS
  <2>2. s \in Asking
    BY <2>1 DEF Asking, Deeds
  <2>3. s.do = "ownerRemove" /\ s.home = h /\ s.who = u
    BY <2>1 DEF Asking
  <2>4. Checked(s)
    BY <1>5, <2>3 DEF OwnerRemove, Owns, Checked
  <2>5. Take(r, s)
    BY <1>5, <2>1 DEF OwnerRemove
  <2> QED
    BY <2>2, <2>3, <2>4, <2>5, TakeStep
<1>6. ASSUME Transfer(r, h, u) PROVE HhInv'
  <2>1. PICK s : s = [Blank EXCEPT !.do = "transfer", !.home = h, !.who = u, !.from = owner[h]]
    OBVIOUS
  <2>2. owner[h] \in Folk
    BY <1>6 DEF Transfer, Exists, HhInv, HhSound, HhTyped
  <2>3. s \in Asking
    BY <2>1, <2>2 DEF Asking, Deeds
  <2>4. s.do = "transfer" /\ s.home = h /\ s.who = u /\ s.from = owner[h]
    BY <2>1 DEF Asking
  <2>5. Checked(s)
    BY <1>6, <2>4 DEF Transfer, Checked
  <2>6. Take(r, s)
    BY <1>6, <2>1 DEF Transfer
  <2> QED
    BY <2>3, <2>4, <2>5, <2>6, TakeStep
<1>7. ASSUME Dissolve(r, h) PROVE HhInv'
  <2>1. PICK s : s = [Blank EXCEPT !.do = "delete", !.home = h]
    OBVIOUS
  <2>2. s \in Asking
    BY <2>1 DEF Asking, Deeds
  <2>3. s.do = "delete"
    BY <2>1 DEF Asking
  <2>4. Checked(s)
    BY <2>3 DEF Checked
  <2>5. Take(r, s)
    BY <1>7, <2>1 DEF Dissolve
  <2> QED
    BY <2>2, <2>3, <2>4, <2>5, TakeStep
<1>8. ASSUME NEW role \in {"adult", "kept"}, Patch(r, h, u, role, 12) PROVE HhInv'
  <2>1. PICK n : n = IF role = "kept" THEN member[h][u] ELSE role
    OBVIOUS
  <2>2. n \in MemberRoles /\ (n = member[h][u] \/ (n = "adult" /\ member[h][u] \notin {"none", "owner"}))
    <3>1. member[h][u] \in MemberRoles
      BY <1>8 DEF Patch, HhInv, HhSound, HhTyped
    <3>2. CASE role = "kept"
      BY <2>1, <3>1, <3>2
    <3>3. CASE role = "adult"
      BY <1>8, <2>1, <3>1, <3>3 DEF Patch, MemberRoles
    <3> QED
      BY <3>2, <3>3
  <2>3. PICK s : s = [Blank EXCEPT !.do = "patch", !.home = h, !.who = u, !.age = 12, !.role = n]
    OBVIOUS
  <2>4. s \in Asking
    BY <2>2, <2>3 DEF Asking, Deeds, Ages
  <2>5. s.do = "patch" /\ s.home = h /\ s.who = u /\ s.role = n /\ s.age = 12
    BY <2>3 DEF Asking
  <2>6. Checked(s)
    BY <2>2, <2>5 DEF Checked
  <2>7. Take(r, s)
    BY <1>8, <2>1, <2>3 DEF Patch
  <2> QED
    BY <2>2, <2>4, <2>5, <2>6, <2>7, TakeStep
<1>9. ASSUME NEW into \in Homes, Move(r, h, u, into) PROVE HhInv'
  <2>1. PICK s : s = [Blank EXCEPT !.do = "move", !.home = h, !.into = into, !.who = u,
                                   !.role = member[h][u], !.age = limit[h][u]]
    OBVIOUS
  <2>2. member[h][u] \in {"adult", "child"} /\ limit[h][u] \in Ages /\ h # into
    BY <1>9 DEF Move, HhInv, HhSound, HhTyped, MemberRoles
  <2>3. s \in Asking
    BY <2>1, <2>2 DEF Asking, Deeds, MemberRoles
  <2>4. s.do = "move" /\ s.home = h /\ s.into = into
    BY <2>1 DEF Asking
  <2>5. s.who = u /\ s.role = member[h][u] /\ s.age = limit[h][u]
    BY <2>1 DEF Asking
  <2>6. Checked(s)
    BY <2>2, <2>4, <2>5 DEF Checked
  <2>7. Take(r, s)
    BY <1>9, <2>1 DEF Move
  <2> QED
    BY <2>2, <2>3, <2>4, <2>5, <2>6, <2>7, TakeStep
<1>10. ASSUME AdminRemove(r, h, u) PROVE HhInv'
  <2>1. PICK s : s = [Blank EXCEPT !.do = "remove", !.home = h, !.who = u]
    OBVIOUS
  <2>2. s \in Asking
    BY <2>1 DEF Asking, Deeds
  <2>3. s.do = "remove"
    BY <2>1 DEF Asking
  <2>4. Checked(s)
    BY <2>3 DEF Checked
  <2>5. Take(r, s)
    BY <1>10, <2>1 DEF AdminRemove
  <2> QED
    BY <2>2, <2>3, <2>4, <2>5, TakeStep
<1> QED
  BY <1>1, <1>2, <1>3, <1>4, <1>5, <1>6, <1>7, <1>8, <1>9, <1>10

LEMMA InviteAsItWas ==
    ASSUME HhInv, NEW r \in Posts, NEW q \in Asking, Carried(q), Changed(r, q), ~Accepting(q),
           UNCHANGED guests, invite' = invite \/ invite' = "gone"
    PROVE  InviteOnce'
<1>1. HhTyped /\ InviteOnce
  BY DEF HhInv, HhSound
<1>2. post'[r] = q /\ \A o \in Posts \ {r} : post'[o].pc = post[o].pc /\ post'[o].do = post[o].do
  BY <1>1, ChangeMarks
<1>3. \A o \in Posts : Accepting(post'[o]) => Accepting(post[o])
  BY <1>2 DEF Accepting
<1> QED
  BY <1>1, <1>3 DEF InviteOnce, Accepting

LEMMA NamedAlone ==
    ASSUME Orderly, NEW r \in Posts, NoneBetween(r)
    PROVE  homeFaults > 0 \/ \A h \in Homes : OwnerOf(h) \/ Creating(post[r], h)
BY DEF Orderly, Named, NoneBetween, Creating, Between

\* A request that changes one row and nothing else.
LEMMA RowStep ==
    ASSUME HhInv, NEW r \in Posts, post[r].pc = "write", Changed(r, Done),
           NEW h \in Homes, NEW u \in Folk, NEW role \in MemberRoles \cup {"none"}, NEW age \in Ages,
           Row(h, u, role, age), UNCHANGED <<owner, invite, homeFaults, guests>>,
           role = "none" => age = 0, role # "none" => Exists(h),
           ~stale /\ post[r].fresh /\ Orderly /\ NoneBetween(r) =>
               /\ member[h][u] # "none" \/ role = "none" \/ Free(u)
               /\ homeFaults > 0 \/ (role = "owner" <=> member[h][u] = "owner")
    PROVE  HhInv'
<1>1. HhTyped /\ RowsBelong
  BY DEF HhInv, HhSound
<1>2. /\ member' \in [Homes -> [Folk -> MemberRoles \cup {"none"}]]
      /\ limit' \in [Homes -> [Folk -> Ages]]
      /\ member'[h][u] = role /\ limit'[h][u] = age
      /\ \A k \in Homes, v \in Folk : k # h \/ v # u =>
             member'[k][v] = member[k][v] /\ limit'[k][v] = limit[k][v]
  BY <1>1, RowWritten
<1>3. Done \in Asking /\ Done.pc = "ended" /\ Carried(Done) /\ ~Accepting(Done)
  BY BlankAsking DEF Accepting
<1>4. RowsBelong'
  <2> SUFFICES ASSUME NEW k \in Homes, NEW v \in Folk
               PROVE  /\ limit'[k][v] # 0 => member'[k][v] # "none"
                      /\ member'[k][v] # "none" => Exists(k)'
    BY DEF RowsBelong
  <2>1. CASE k = h /\ v = u
    BY <2>1, <1>2 DEF Exists
  <2>2. CASE k # h \/ v # u
    BY <2>2, <1>1, <1>2 DEF RowsBelong, Exists
  <2> QED
    BY <2>1, <2>2
<1>5. InviteOnce'
  BY <1>3, InviteAsItWas
<1>6. ASSUME ~stale, post[r].fresh, Orderly, NoneBetween(r)
      PROVE  Single' /\ (homeFaults' > 0 \/ \A k \in Homes : OwnerOf(k)')
  <2>1. /\ member[h][u] # "none" \/ role = "none" \/ Free(u)
        /\ homeFaults > 0 \/ (role = "owner" <=> member[h][u] = "owner")
    BY <1>6
  <2>2. Single'
    <3> SUFFICES ASSUME NEW v \in Folk, NEW k \in Homes, NEW j \in Homes,
                        member'[k][v] # "none", member'[j][v] # "none"
                 PROVE  k = j
      BY DEF Single
    <3>1. CASE v # u
      BY <3>1, <1>2, <1>6 DEF Orderly, Single
    <3>2. CASE v = u /\ k # h /\ j # h
      BY SMTT(30), <3>2, <1>2, <1>6 DEF Orderly, Single
    <3>3. CASE v = u /\ (k = h \/ j = h) /\ ~(k = h /\ j = h)
      <4>1. role # "none" /\ \E i \in Homes : i # h /\ member[i][u] # "none"
        BY <3>3, <1>2
      <4>2. member[h][u] # "none"
        BY <4>1, <2>1 DEF Free, InAny
      <4> QED
        BY <4>1, <4>2, <1>6 DEF Orderly, Single
    <3> QED
      BY <3>1, <3>2, <3>3
  <2>3. ASSUME ~(homeFaults' > 0), NEW k \in Homes PROVE OwnerOf(k)'
    <3>1. OwnerOf(k)
      BY <2>3, <1>6, NamedAlone DEF Creating
    <3> SUFFICES ASSUME NEW v \in Folk PROVE member'[k][v] = "owner" <=> owner'[k] = v
      BY DEF OwnerOf
    <3>2. CASE k = h /\ v = u
      BY <3>1, <3>2, <2>1, <2>3, <1>2 DEF OwnerOf
    <3>3. CASE k # h \/ v # u
      BY <3>1, <3>3, <1>2 DEF OwnerOf
    <3> QED
      BY <3>2, <3>3
  <2> QED
    BY <2>2, <2>3
<1>7. owner' \in [Homes -> Folk \cup {NoOwner}] /\ invite' \in {"open", "used", "gone"} /\ homeFaults' \in Nat
  BY <1>1 DEF HhTyped
<1> QED
  BY <1>2, <1>3, <1>4, <1>5, <1>6, <1>7, HomesChange

LEMMA WriteMemberStep ==
    ASSUME HhInv, NEW r \in Posts, post[r].pc = "write", WriteMember(r)
    PROVE  HhInv'
<1>1. HhTyped /\ RowsBelong /\ Carried(post[r])
  BY DEF HhInv, HhSound, HhTyped
<1>2. PICK q \in Asking : q = post[r]
  BY <1>1 DEF HhTyped
<1>3. q.home \in Homes /\ q.who \in Folk /\ q.age \in Ages /\ q.role \in MemberRoles \cup {"none"}
  BY DEF Asking
<1>4. Changed(r, Done) /\ UNCHANGED <<owner, invite, homeFaults, guests>>
  BY DEF WriteMember
<1>5. post[r].fresh /\ Orderly => Checked(q)
  BY <1>2 DEF Orderly, StillChecked
<1>6. CASE /\ q.do = "ownerUpdate" /\ member[q.home][q.who] \notin {"none", "owner"}
           /\ Row(q.home, q.who, q.role, q.age)
  <2>1. q.role = "adult" /\ Exists(q.home)
    BY <1>1, <1>2, <1>3, <1>6 DEF Carried, RowsBelong
  <2> QED
    BY <1>2, <1>3, <1>4, <1>6, <2>1, RowStep
<1>7. CASE /\ q.do = "ownerAdd" /\ Insertable(q.home, q.who)
           /\ Row(q.home, q.who, q.role, q.age)
  <2>1. q.role = "adult" /\ Exists(q.home) /\ member[q.home][q.who] = "none"
    BY <1>1, <1>2, <1>3, <1>7 DEF Carried, Insertable
  <2>2. post[r].fresh /\ Orderly => Free(q.who)
    BY <1>5, <1>7 DEF Checked
  <2> QED
    BY <1>2, <1>3, <1>4, <1>7, <2>1, <2>2, RowStep
<1>8. CASE /\ q.do = "patch" /\ member[q.home][q.who] # "none"
           /\ Row(q.home, q.who, q.role, q.age)
  <2>1. q.role \in MemberRoles /\ Exists(q.home)
    BY <1>1, <1>2, <1>3, <1>8 DEF Carried, RowsBelong
  <2>2. q.role # "none"
    BY <2>1 DEF MemberRoles
  <2>3. post[r].fresh /\ Orderly => (q.role = "owner" <=> member[q.home][q.who] = "owner")
    BY <1>5, <1>8 DEF Checked
  <2> QED
    BY <1>2, <1>3, <1>4, <1>8, <2>1, <2>2, <2>3, RowStep
<1>9. CASE /\ q.do = "ownerRemove" /\ member[q.home][q.who] # "none"
           /\ Row(q.home, q.who, "none", 0)
  <2>1. post[r].fresh /\ Orderly /\ NoneBetween(r) => homeFaults > 0 \/ member[q.home][q.who] # "owner"
    <3> SUFFICES ASSUME post[r].fresh, Orderly, NoneBetween(r), ~(homeFaults > 0)
                 PROVE  member[q.home][q.who] # "owner"
      OBVIOUS
    <3>1. OwnerOf(q.home)
      BY <1>3, NamedAlone DEF Creating
    <3>2. owner[q.home] # q.who
      BY <1>5, <1>9 DEF Checked
    <3> QED
      BY <1>3, <3>1, <3>2 DEF OwnerOf
  <2>2. 0 \in Ages /\ "none" \in MemberRoles \cup {"none"}
    BY DEF Ages
  <2> QED
    BY <1>2, <1>3, <1>4, <1>9, <2>1, <2>2, RowStep
<1>10. CASE /\ q.do = "remove" /\ member[q.home][q.who] \notin {"none", "owner"}
            /\ Row(q.home, q.who, "none", 0)
  <2>1. 0 \in Ages /\ "none" \in MemberRoles \cup {"none"}
    BY DEF Ages
  <2> QED
    BY <1>2, <1>3, <1>4, <1>10, <2>1, RowStep
<1> QED
  BY <1>2, <1>6, <1>7, <1>8, <1>9, <1>10 DEF WriteMember

LEMMA WriteCreateStep ==
    ASSUME HhInv, NEW r \in Posts, post[r].pc = "write", WriteCreate(r)
    PROVE  HhInv'
<1>1. HhTyped /\ RowsBelong
  BY DEF HhInv, HhSound
<1>2. PICK s \in Asking : s = post[r]
  BY <1>1 DEF HhTyped
<1>3. s.home \in Homes /\ s.who \in Folk /\ s.who # NoOwner
  BY HouseholdsAssumption DEF Asking
<1>4. s.do \in {"create", "adminCreate"} /\ UNCHANGED <<homeFaults, guests>>
  BY <1>2 DEF WriteCreate
<1>5. CASE Refused(r)
  BY <1>4, <1>5, RefusedStep
<1>6. ASSUME ~(OwnsOne(s.who) \/ Exists(s.home)), owner' = [owner EXCEPT ![s.home] = s.who], UNCHANGED invite,
             NEW q \in Asking, Carried(q), Changed(r, q), ~Accepting(q), q.pc \in {"join", "ended"},
             q.pc = "join" => q.fresh = s.fresh /\ UNCHANGED <<member, limit>> /\ q.do = "create"
                              /\ q.home = s.home /\ q.who = s.who,
             q.pc = "ended" => Row(s.home, s.who, "owner", 0)
      PROVE  HhInv'
  <2>1. owner' \in [Homes -> Folk \cup {NoOwner}] /\ owner'[s.home] = s.who
    BY <1>1, <1>3, <1>6 DEF HhTyped
  <2>2. \A k \in Homes : k # s.home => owner'[k] = owner[k]
    BY <1>1, <1>6 DEF HhTyped
  <2>3. 0 \in Ages /\ "owner" \in MemberRoles \cup {"none"}
    BY DEF Ages, MemberRoles
  <2>4. /\ member' \in [Homes -> [Folk -> MemberRoles \cup {"none"}]]
        /\ limit' \in [Homes -> [Folk -> Ages]]
        /\ \A k \in Homes, v \in Folk : k # s.home \/ v # s.who =>
               member'[k][v] = member[k][v] /\ limit'[k][v] = limit[k][v]
        /\ IF q.pc = "join" THEN UNCHANGED <<member, limit>>
           ELSE member'[s.home][s.who] = "owner" /\ limit'[s.home][s.who] = 0
    <3>1. CASE q.pc = "join"
      BY <3>1, <1>1, <1>6 DEF HhTyped
    <3>2. CASE q.pc = "ended"
      BY <3>2, <1>1, <1>3, <1>6, <2>3, RowWritten
    <3> QED
      BY <3>1, <3>2, <1>6
  <2>5. RowsBelong'
    <3> SUFFICES ASSUME NEW k \in Homes, NEW v \in Folk
                 PROVE  /\ limit'[k][v] # 0 => member'[k][v] # "none"
                        /\ member'[k][v] # "none" => Exists(k)'
      BY DEF RowsBelong
    <3>1. CASE k = s.home
      <4>1. Exists(k)'
        BY <3>1, <1>3, <2>1 DEF Exists
      <4>2. limit[k][v] # 0 => member[k][v] # "none"
        BY <1>1 DEF RowsBelong
      <4>3. CASE v = s.who /\ q.pc = "ended"
        BY <3>1, <4>1, <4>3, <2>4
      <4>4. CASE ~(v = s.who /\ q.pc = "ended")
        <5>1. member'[k][v] = member[k][v] /\ limit'[k][v] = limit[k][v]
          BY <3>1, <4>4, <1>6, <2>4
        <5> QED
          BY <4>1, <4>2, <5>1
      <4> QED
        BY <4>3, <4>4
    <3>2. CASE k # s.home
      BY <3>2, <1>1, <2>2, <2>4 DEF RowsBelong, Exists
    <3> QED
      BY <3>1, <3>2
  <2>6. InviteOnce'
    BY <1>4, <1>6, InviteAsItWas
  <2>7. \A u \in Folk : member[s.home][u] = "none"
    BY <1>1, <1>3, <1>6 DEF RowsBelong, Exists
  <2>8. ASSUME ~stale, post[r].fresh, Orderly, NoneBetween(r)
        PROVE  /\ Single'
               /\ homeFaults' > 0 \/ \A k \in Homes : OwnerOf(k)' \/ Creating(q, k)
               /\ q.pc = "join" => Joining(q)'
    <3>1. Checked(s)
      BY <1>2, <2>8 DEF Orderly, StillChecked
    <3>2. Free(s.who)
      BY <3>1, <1>4 DEF Checked
    <3>3. \A k \in Homes : member[k][s.who] = "none"
      BY <3>2 DEF Free, InAny
    <3>4. Single'
      <4> SUFFICES ASSUME NEW v \in Folk, NEW k \in Homes, NEW j \in Homes,
                          member'[k][v] # "none", member'[j][v] # "none"
                   PROVE  k = j
        BY DEF Single
      <4>1. CASE v = s.who
        <5>1. \A i \in Homes : i # s.home => member'[i][v] = "none"
          BY <4>1, <2>4, <3>3
        <5> QED
          BY <5>1
      <4>2. CASE v # s.who
        BY <4>2, <2>4, <2>8 DEF Orderly, Single
      <4> QED
        BY <4>1, <4>2
    <3>5. ASSUME ~(homeFaults' > 0), NEW k \in Homes, ~Creating(q, k) PROVE OwnerOf(k)'
      <4>1. OwnerOf(k)
        BY <3>5, <1>4, <2>8, NamedAlone DEF Creating
      <4>2. CASE k = s.home
        <5>1. q.pc = "ended"
          BY <4>2, <3>5, <1>6 DEF Creating
        <5>2. \A v \in Folk : member'[k][v] = "owner" <=> v = s.who
          BY <4>2, <5>1, <2>4, <2>7
        <5> QED
          BY <4>2, <5>2, <2>1 DEF OwnerOf
      <4>3. CASE k # s.home
        BY <4>1, <4>3, <2>2, <2>4 DEF OwnerOf
      <4> QED
        BY <4>2, <4>3
    <3>6. ASSUME q.pc = "join" PROVE Joining(q)'
      <4>1. Free(q.who)'
        BY <3>3, <3>6, <1>6 DEF Free, InAny
      <4>2. owner'[q.home] = q.who /\ \A u \in Folk : member'[q.home][u] = "none"
        BY <3>6, <1>6, <2>1, <2>7
      <4> QED
        BY <4>1, <4>2 DEF Joining
    <3> QED
      BY <3>4, <3>5, <3>6
  <2>9. invite' \in {"open", "used", "gone"} /\ homeFaults' \in Nat
    BY <1>1, <1>4, <1>6 DEF HhTyped
  <2> QED
    BY <1>2, <1>6, <2>1, <2>4, <2>5, <2>6, <2>8, <2>9, HomesChange
<1>7. CASE ~(OwnsOne(s.who) \/ Exists(s.home)) /\ s.do = "create"
  <2>1. PICK q : q = [s EXCEPT !.pc = "join", !.role = "owner"]
    OBVIOUS
  <2>2. q \in Asking /\ q.pc = "join" /\ q.role = "owner"
    BY <2>1 DEF Asking, PostPC, MemberRoles
  <2>3. q.do = s.do /\ q.home = s.home /\ q.who = s.who /\ q.fresh = s.fresh
    BY <2>1 DEF Asking
  <2>4. Carried(q) /\ ~Accepting(q)
    BY <1>7, <2>2, <2>3 DEF Carried, Accepting
  <2>5. owner' = [owner EXCEPT ![s.home] = s.who] /\ Changed(r, q) /\ UNCHANGED <<member, limit, invite>>
    BY <1>2, <1>7, <2>1 DEF WriteCreate
  <2> QED
    BY <1>6, <1>7, <2>2, <2>3, <2>4, <2>5
<1>8. CASE ~(OwnsOne(s.who) \/ Exists(s.home)) /\ s.do # "create"
  <2>1. owner' = [owner EXCEPT ![s.home] = s.who] /\ Changed(r, Done) /\ Row(s.home, s.who, "owner", 0) /\ UNCHANGED invite
    BY <1>2, <1>8 DEF WriteCreate
  <2>2. Done \in Asking /\ Done.pc = "ended" /\ Carried(Done) /\ ~Accepting(Done)
    BY BlankAsking DEF Accepting
  <2> QED
    BY <1>6, <1>8, <2>1, <2>2
<1> QED
  BY <1>2, <1>5, <1>7, <1>8 DEF WriteCreate

LEMMA ClaimInviteStep ==
    ASSUME HhInv, NEW r \in Posts, post[r].pc = "write", ClaimInvite(r)
    PROVE  HhInv'
<1>1. HhTyped /\ RowsBelong /\ InviteOnce /\ Carried(post[r])
  BY DEF HhInv, HhSound, HhTyped
<1>2. PICK s \in Asking : s = post[r]
  BY <1>1 DEF HhTyped
<1>3. s.do = "accept" /\ s.home = First /\ UNCHANGED <<homeFaults, guests>>
  BY <1>1, <1>2 DEF ClaimInvite, Carried
<1>4. CASE Refused(r)
  BY <1>3, <1>4, RefusedStep
<1>5. CASE ~Refused(r)
  <2>1. PICK q : q = [s EXCEPT !.pc = "join", !.role = "child", !.age = 12]
    OBVIOUS
  <2>2. q \in Asking /\ q.pc = "join" /\ q.role = "child" /\ q.age = 12
    BY <2>1 DEF Asking, PostPC, MemberRoles, Ages
  <2>3. q.do = s.do /\ q.home = s.home /\ q.who = s.who /\ q.fresh = s.fresh
    BY <2>1 DEF Asking
  <2>4. Carried(q)
    BY <1>3, <2>2, <2>3 DEF Carried
  <2>5. invite = "open" /\ invite' = "used" /\ Changed(r, q) /\ UNCHANGED <<owner, member, limit>>
    BY <1>2, <1>5, <2>1 DEF ClaimInvite
  <2>6. post'[r] = q /\ \A o \in Posts \ {r} : post'[o].pc = post[o].pc /\ post'[o].do = post[o].do
    BY <1>1, <2>2, <2>4, <2>5, ChangeMarks
  <2>7. InviteOnce'
    <3>1. \A o \in Posts : ~Accepting(post[o])
      BY <1>1, <2>5 DEF InviteOnce
    <3>2. guests = {}
      BY <1>1, <2>5 DEF InviteOnce
    <3>3. \A o \in Posts : Accepting(post'[o]) => o = r
      BY <2>6, <3>1 DEF Accepting
    <3> QED
      BY <1>3, <2>5, <3>2, <3>3 DEF InviteOnce, Accepting
  <2>8. RowsBelong'
    BY <1>1, <2>5 DEF RowsBelong, Exists
  <2>9. ASSUME ~stale, post[r].fresh, Orderly, NoneBetween(r)
        PROVE  /\ Single'
               /\ homeFaults' > 0 \/ \A k \in Homes : OwnerOf(k)' \/ Creating(q, k)
               /\ q.pc = "join" => Joining(q)'
    <3>1. Checked(s)
      BY <1>2, <2>9 DEF Orderly, StillChecked
    <3>2. Free(q.who)
      BY <1>3, <2>3, <3>1 DEF Checked
    <3>3. Joining(q)'
      BY <1>3, <2>3, <2>5, <3>2 DEF Joining, Free, InAny
    <3>4. Single'
      BY <2>5, <2>9 DEF Orderly, Single
    <3>5. homeFaults' > 0 \/ \A k \in Homes : OwnerOf(k)'
      <4>1. homeFaults > 0 \/ \A k \in Homes : OwnerOf(k)
        BY <2>9, NamedAlone DEF Creating
      <4> QED
        BY <1>3, <2>5, <4>1 DEF OwnerOf
    <3> QED
      BY <3>3, <3>4, <3>5
  <2>10. /\ owner' \in [Homes -> Folk \cup {NoOwner}]
         /\ member' \in [Homes -> [Folk -> MemberRoles \cup {"none"}]]
         /\ limit' \in [Homes -> [Folk -> Ages]]
         /\ invite' \in {"open", "used", "gone"} /\ homeFaults' \in Nat
    BY <1>1, <1>3, <2>5 DEF HhTyped
  <2> QED
    BY <1>2, <2>2, <2>3, <2>4, <2>5, <2>7, <2>8, <2>9, <2>10, HomesChange
<1> QED
  BY <1>4, <1>5

LEMMA ReleaseInviteStep ==
    ASSUME HhInv, NEW r \in Posts, ReleaseInvite(r)
    PROVE  HhInv'
<1>1. HhTyped /\ RowsBelong /\ InviteOnce /\ Carried(post[r])
  BY DEF HhInv, HhSound, HhTyped
<1>2. post[r].pc = "release" /\ Changed(r, Done) /\ UNCHANGED <<owner, member, limit, guests>>
  BY DEF ReleaseInvite
<1>3. invite' \in {"open", "used", "gone"} /\ homeFaults' \in Nat /\ (homeFaults > 0 => homeFaults' > 0)
  BY <1>1 DEF ReleaseInvite, HomeFault, HhTyped
<1>4. Done \in Asking /\ Done.pc = "ended" /\ Carried(Done) /\ ~Accepting(Done)
  BY BlankAsking DEF Accepting
<1>5. post'[r] = Done /\ \A o \in Posts \ {r} : post'[o].pc = post[o].pc /\ post'[o].do = post[o].do
  BY <1>1, <1>2, <1>4, ChangeMarks
<1>6. InviteOnce'
  <2>1. Accepting(post[r])
    BY <1>1, <1>2 DEF Accepting, Carried
  <2>2. guests = {} /\ \A o \in Posts : Accepting(post[o]) => o = r
    BY <1>1, <2>1 DEF InviteOnce
  <2>3. \A o \in Posts : ~Accepting(post'[o])
    BY <1>4, <1>5, <2>2 DEF Accepting
  <2> QED
    BY <1>2, <2>2, <2>3 DEF InviteOnce, Accepting
<1>7. RowsBelong'
  BY <1>1, <1>2 DEF RowsBelong, Exists
<1>8. ASSUME Orderly, NoneBetween(r)
      PROVE  Single' /\ (homeFaults' > 0 \/ \A k \in Homes : OwnerOf(k)')
  <2>1. homeFaults > 0 \/ \A k \in Homes : OwnerOf(k)
    BY <1>2, <1>8, NamedAlone DEF Creating
  <2>2. Single'
    BY <1>2, <1>8 DEF Orderly, Single
  <2> QED
    BY <1>2, <1>3, <2>1, <2>2 DEF OwnerOf
<1>9. /\ owner' \in [Homes -> Folk \cup {NoOwner}]
      /\ member' \in [Homes -> [Folk -> MemberRoles \cup {"none"}]]
      /\ limit' \in [Homes -> [Folk -> Ages]]
  BY <1>1, <1>2 DEF HhTyped
<1> QED
  BY <1>2, <1>3, <1>4, <1>6, <1>7, <1>8, <1>9, HomesChange

LEMMA JoinStep ==
    ASSUME HhInv, NEW r \in Posts, Join(r)
    PROVE  HhInv'
<1>1. HhTyped /\ RowsBelong /\ InviteOnce /\ Carried(post[r])
  BY DEF HhInv, HhSound, HhTyped
<1>2. PICK s \in Asking : s = post[r]
  BY <1>1 DEF HhTyped
<1>3. s.pc = "join" /\ UNCHANGED <<owner, invite>>
  BY <1>2 DEF Join
<1>4. s.home \in Homes /\ s.who \in Folk /\ s.role \in MemberRoles \cup {"none"} /\ s.age \in Ages /\ s.who # NoOwner
  BY HouseholdsAssumption DEF Asking
<1>5. \/ s.do = "create" /\ s.role = "owner"
      \/ s.do = "accept" /\ s.role = "child" /\ s.age = 12 /\ s.home = First
  BY <1>1, <1>2, <1>3 DEF Carried
<1>6. Orderly => Joining(s)
  BY <1>2, <1>3 DEF Orderly, StillJoining
<1>7. CASE /\ Insertable(s.home, s.who) /\ Row(s.home, s.who, s.role, s.age) /\ Changed(r, Done)
           /\ guests' = IF s.do = "accept" THEN guests \cup {s.who} ELSE guests
           /\ UNCHANGED homeFaults
  <2>1. /\ member' \in [Homes -> [Folk -> MemberRoles \cup {"none"}]]
        /\ limit' \in [Homes -> [Folk -> Ages]]
        /\ member'[s.home][s.who] = s.role /\ limit'[s.home][s.who] = s.age
        /\ \A k \in Homes, v \in Folk : k # s.home \/ v # s.who =>
               member'[k][v] = member[k][v] /\ limit'[k][v] = limit[k][v]
    <3>1. Row(s.home, s.who, s.role, s.age)
      BY <1>7
    <3>2. PICK h \in Homes, u \in Folk, role \in MemberRoles \cup {"none"}, age \in Ages :
             h = s.home /\ u = s.who /\ role = s.role /\ age = s.age
      BY <1>4
    <3>3. Row(h, u, role, age)
      BY <3>1, <3>2
    <3>4. /\ member' \in [Homes -> [Folk -> MemberRoles \cup {"none"}]]
          /\ limit' \in [Homes -> [Folk -> Ages]]
          /\ member'[h][u] = role /\ limit'[h][u] = age
          /\ \A k \in Homes, v \in Folk : k # h \/ v # u =>
                 member'[k][v] = member[k][v] /\ limit'[k][v] = limit[k][v]
      BY <1>1, <3>3, RowWritten
    <3> QED
      BY <3>2, <3>4
  <2>2. Done \in Asking /\ Done.pc = "ended" /\ Carried(Done) /\ ~Accepting(Done)
    BY BlankAsking DEF Accepting
  <2>3. post'[r] = Done /\ \A o \in Posts \ {r} : post'[o].pc = post[o].pc /\ post'[o].do = post[o].do
    BY <1>1, <1>7, <2>2, ChangeMarks
  <2>4. RowsBelong'
    <3> SUFFICES ASSUME NEW k \in Homes, NEW v \in Folk
                 PROVE  /\ limit'[k][v] # 0 => member'[k][v] # "none"
                        /\ member'[k][v] # "none" => Exists(k)'
      BY DEF RowsBelong
    <3>1. s.role # "none" /\ Exists(s.home)
      BY <1>5, <1>7 DEF Insertable
    <3>2. CASE k = s.home /\ v = s.who
      BY <3>1, <3>2, <1>3, <2>1 DEF Exists
    <3>3. CASE k # s.home \/ v # s.who
      BY <3>3, <1>1, <1>3, <2>1 DEF RowsBelong, Exists
    <3> QED
      BY <3>2, <3>3
  <2>5. InviteOnce'
    <3>1. CASE s.do = "accept"
      <4>1. Accepting(post[r])
        BY <1>2, <1>3, <3>1 DEF Accepting
      <4>2. guests = {} /\ invite # "open" /\ \A o \in Posts : Accepting(post[o]) => o = r
        BY <1>1, <4>1 DEF InviteOnce
      <4>3. \A o \in Posts : ~Accepting(post'[o])
        BY <2>2, <2>3, <4>2 DEF Accepting
      <4>4. guests' = {s.who}
        BY <1>7, <3>1, <4>2
      <4> QED
        BY <1>3, <1>4, <4>2, <4>3, <4>4 DEF InviteOnce, Accepting
    <3>2. CASE s.do # "accept"
      <4>1. UNCHANGED guests
        BY <1>7, <3>2
      <4> QED
        BY <4>1, <1>3, <1>7, <2>2, InviteAsItWas
    <3> QED
      BY <3>1, <3>2
  <2>6. ASSUME ~stale, post[r].fresh, Orderly, NoneBetween(r)
        PROVE  Single' /\ (homeFaults' > 0 \/ \A k \in Homes : OwnerOf(k)')
    <3>1. \A k \in Homes : member[k][s.who] = "none"
      BY <1>6, <2>6 DEF Joining, Free, InAny
    <3>2. Single'
      <4> SUFFICES ASSUME NEW v \in Folk, NEW k \in Homes, NEW j \in Homes,
                          member'[k][v] # "none", member'[j][v] # "none"
                   PROVE  k = j
        BY DEF Single
      <4>1. CASE v = s.who
        <5>1. \A i \in Homes : i # s.home => member'[i][v] = "none"
          BY <4>1, <2>1, <3>1
        <5> QED
          BY <5>1
      <4>2. CASE v # s.who
        BY <4>2, <2>1, <2>6 DEF Orderly, Single
      <4> QED
        BY <4>1, <4>2
    <3>3. ASSUME ~(homeFaults' > 0), NEW k \in Homes PROVE OwnerOf(k)'
      <4>1. OwnerOf(k) \/ Creating(s, k)
        BY <1>2, <1>7, <2>6, <3>3, NamedAlone
      <4>2. CASE k # s.home
        <5>1. OwnerOf(k)
          BY <4>1, <4>2 DEF Creating
        <5> QED
          BY <5>1, <4>2, <1>3, <2>1 DEF OwnerOf
      <4>3. CASE k = s.home /\ s.do = "create"
        <5>1. owner[k] = s.who /\ \A u \in Folk : member[k][u] = "none"
          BY <4>3, <1>6, <2>6 DEF Joining
        <5>2. \A v \in Folk : member'[k][v] = "owner" <=> v = s.who
          BY <4>3, <5>1, <1>5, <2>1
        <5> QED
          BY <5>1, <5>2, <1>3 DEF OwnerOf
      <4>4. CASE k = s.home /\ s.do = "accept"
        <5>1. OwnerOf(k)
          BY <4>1, <4>4 DEF Creating
        <5>2. owner[k] # s.who
          BY <5>1, <3>1, <1>4 DEF OwnerOf
        <5>3. ASSUME NEW v \in Folk PROVE member'[k][v] = "owner" <=> owner'[k] = v
          <6>1. CASE v = s.who
            BY <6>1, <4>4, <5>2, <1>3, <1>5, <2>1
          <6>2. CASE v # s.who
            BY <6>2, <5>1, <1>3, <2>1 DEF OwnerOf
          <6> QED
            BY <6>1, <6>2
        <5> QED
          BY <5>3 DEF OwnerOf
      <4> QED
        BY <4>2, <4>3, <4>4, <1>5
    <3> QED
      BY <3>2, <3>3
  <2>7. /\ owner' \in [Homes -> Folk \cup {NoOwner}]
        /\ invite' \in {"open", "used", "gone"} /\ homeFaults' \in Nat
    BY <1>1, <1>3, <1>7 DEF HhTyped
  <2> QED
    BY <1>2, <1>3, <1>7, <2>1, <2>2, <2>4, <2>5, <2>6, <2>7, HomesChange
<1>8. CASE /\ (~Insertable(s.home, s.who) /\ UNCHANGED homeFaults) \/ HomeFault
           /\ post' = [post EXCEPT ![r] = IF s.do = "accept" THEN [s EXCEPT !.pc = "release"] ELSE Done]
           /\ UNCHANGED <<member, limit, stale, guests>>
  <2>1. homeFaults' \in Nat /\ (homeFaults > 0 => homeFaults' > 0)
    BY <1>1, <1>8 DEF HomeFault, HhTyped
  <2>2. CASE s.do = "accept"
    <3>1. PICK q : q = [s EXCEPT !.pc = "release"]
      OBVIOUS
    <3>2. q \in Asking /\ q.pc = "release"
      BY <3>1 DEF Asking, PostPC
    <3>3. q.do = s.do /\ q.fresh = s.fresh
      BY <3>1 DEF Asking
    <3>4. Carried(q)
      BY <2>2, <3>2, <3>3 DEF Carried
    <3>5. post' = [post EXCEPT ![r] = q]
      BY <1>8, <2>2, <3>1
    <3>6. Between(post[r]) /\ Accepting(post[r]) /\ q.fresh = post[r].fresh
      BY <1>2, <1>3, <2>2, <3>3 DEF Between, Accepting
    <3>7. post[r].do # "create"
      BY <1>2, <2>2
    <3>8. UNCHANGED <<owner, member, limit, invite, stale, guests>>
      BY <1>3, <1>8
    <3> QED
      BY <2>1, <3>2, <3>4, <3>5, <3>6, <3>7, <3>8, HomesAsTheyWere
  <2>3. CASE s.do # "accept"
    <3>1. Done \in Asking /\ Done.pc = "ended" /\ Carried(Done)
      BY BlankAsking
    <3>2. ~Between(Done) /\ ~Accepting(Done)
      BY <3>1 DEF Between, Accepting
    <3>3. post' = [post EXCEPT ![r] = Done]
      BY <1>8, <2>3
    <3>4. UNCHANGED <<owner, member, limit, invite, stale, guests>>
      BY <1>3, <1>8
    <3>5. stale \/ homeFaults' > 0
      <4>1. CASE HomeFault
        BY <4>1, <1>1 DEF HomeFault, HhTyped
      <4>2. CASE ~Insertable(s.home, s.who) /\ ~stale
        <5>1. Joining(s)
          BY <4>2, <1>6 DEF HhInv
        <5>2. owner[s.home] = s.who /\ member[s.home][s.who] = "none"
          BY <5>1, <1>4, <1>5, <2>3 DEF Joining
        <5> QED
          BY <5>2, <4>2, <1>4 DEF Insertable, Exists
      <4> QED
        BY <4>1, <4>2, <1>8
    <3> QED
      BY <2>1, <3>1, <3>2, <3>3, <3>4, <3>5, HomesAsTheyWere
  <2> QED
    BY <2>2, <2>3
<1> QED
  BY <1>2, <1>7, <1>8 DEF Join

LEMMA WriteTransferStep ==
    ASSUME HhInv, NEW r \in Posts, post[r].pc = "write", WriteTransfer(r)
    PROVE  HhInv'
<1>1. HhTyped /\ RowsBelong
  BY DEF HhInv, HhSound
<1>2. PICK q \in Asking : q = post[r]
  BY <1>1 DEF HhTyped
<1>3. q.home \in Homes /\ q.who \in Folk /\ q.from \in Folk /\ q.who # NoOwner
  BY HouseholdsAssumption DEF Asking
<1>4. q.do = "transfer" /\ UNCHANGED <<homeFaults, guests>>
  BY <1>2 DEF WriteTransfer
<1>5. CASE Refused(r)
  BY <1>4, <1>5, RefusedStep
<1>6. CASE ~Refused(r)
  <2> DEFINE roles == [u \in Folk |->
                 IF member[q.home][u] = "none" THEN "none"
                 ELSE IF u = q.who THEN "owner" ELSE IF u = q.from THEN "adult" ELSE member[q.home][u]]
  <2>1. /\ Exists(q.home) /\ owner' = [owner EXCEPT ![q.home] = q.who]
        /\ member' = [member EXCEPT ![q.home] = roles]
        /\ Changed(r, Done) /\ UNCHANGED <<limit, invite>>
    BY <1>2, <1>6 DEF WriteTransfer
  <2>2. roles \in [Folk -> MemberRoles \cup {"none"}]
    <3>1. \A u \in Folk : member[q.home][u] \in MemberRoles \cup {"none"}
      BY <1>1, <1>3 DEF HhTyped
    <3> QED
      BY <3>1 DEF MemberRoles
  <2>3. \A u \in Folk : roles[u] =
                 IF member[q.home][u] = "none" THEN "none"
                 ELSE IF u = q.who THEN "owner" ELSE IF u = q.from THEN "adult" ELSE member[q.home][u]
    OBVIOUS
  <2> HIDE DEF roles
  <2>4. member' \in [Homes -> [Folk -> MemberRoles \cup {"none"}]] /\ member'[q.home] = roles
    BY <1>1, <1>3, <2>1, <2>2 DEF HhTyped
  <2>5. \A k \in Homes : k # q.home => member'[k] = member[k] /\ owner'[k] = owner[k]
    BY <1>1, <1>3, <2>1 DEF HhTyped
  <2>6. owner' \in [Homes -> Folk \cup {NoOwner}] /\ owner'[q.home] = q.who
    BY <1>1, <1>3, <2>1 DEF HhTyped
  <2>7. \A k \in Homes, u \in Folk : member'[k][u] = "none" <=> member[k][u] = "none"
    <3> SUFFICES ASSUME NEW k \in Homes, NEW u \in Folk PROVE member'[k][u] = "none" <=> member[k][u] = "none"
      OBVIOUS
    <3>1. CASE k = q.home
      BY <3>1, <2>3, <2>4
    <3>2. CASE k # q.home
      BY <3>2, <2>5
    <3> QED
      BY <3>1, <3>2
  <2>8. \A k \in Homes : Exists(k) => Exists(k)'
    BY <1>3, <2>5, <2>6 DEF Exists
  <2>9. RowsBelong'
    BY <1>1, <2>1, <2>7, <2>8 DEF RowsBelong
  <2>10. Done \in Asking /\ Done.pc = "ended" /\ Carried(Done) /\ ~Accepting(Done)
    BY BlankAsking DEF Accepting
  <2>11. InviteOnce'
    BY <1>4, <2>1, <2>10, InviteAsItWas
  <2>12. ASSUME ~stale, post[r].fresh, Orderly, NoneBetween(r)
         PROVE  Single' /\ (homeFaults' > 0 \/ \A k \in Homes : OwnerOf(k)')
    <3>1. Single'
      BY <2>7, <2>12 DEF Orderly, Single
    <3>2. q.from = owner[q.home] /\ q.who # q.from /\ member[q.home][q.who] # "none"
      BY <1>2, <1>4, <2>12 DEF Orderly, StillChecked, Checked
    <3>3. ASSUME ~(homeFaults' > 0), NEW k \in Homes PROVE OwnerOf(k)'
      <4>1. OwnerOf(k)
        BY <1>4, <2>12, <3>3, NamedAlone DEF Creating
      <4>2. CASE k = q.home
        <5>1. ASSUME NEW v \in Folk PROVE member'[k][v] = "owner" <=> owner'[k] = v
          <6>1. member[k][v] = "owner" <=> v = q.from
            BY <4>1, <4>2, <3>2 DEF OwnerOf
          <6>2. CASE v = q.who
            BY <6>2, <4>2, <3>2, <2>3, <2>4, <2>6
          <6>3. CASE v # q.who
            BY <6>1, <6>3, <4>2, <2>3, <2>4, <2>6
          <6> QED
            BY <6>2, <6>3
        <5> QED
          BY <5>1 DEF OwnerOf
      <4>3. CASE k # q.home
        BY <4>1, <4>3, <2>5 DEF OwnerOf
      <4> QED
        BY <4>2, <4>3
    <3> QED
      BY <3>1, <3>3
  <2>13. limit' \in [Homes -> [Folk -> Ages]] /\ invite' \in {"open", "used", "gone"} /\ homeFaults' \in Nat
    BY <1>1, <1>4, <2>1 DEF HhTyped
  <2> QED
    BY <2>1, <2>4, <2>6, <2>9, <2>10, <2>11, <2>12, <2>13, HomesChange
<1> QED
  BY <1>5, <1>6

LEMMA WriteDissolveStep ==
    ASSUME HhInv, NEW r \in Posts, post[r].pc = "write", WriteDissolve(r)
    PROVE  HhInv'
<1>1. HhTyped /\ RowsBelong
  BY DEF HhInv, HhSound
<1>2. PICK h \in Homes : h = post[r].home
  BY <1>1 DEF HhTyped, Asking
<1>3. /\ owner' = [owner EXCEPT ![h] = NoOwner] /\ member' = [member EXCEPT ![h] = NoFolk]
      /\ limit' = [limit EXCEPT ![h] = [u \in Folk |-> 0]]
      /\ invite' = IF h = First THEN "gone" ELSE invite
      /\ Changed(r, Done) /\ UNCHANGED <<homeFaults, guests>> /\ post[r].do = "delete"
  BY <1>2 DEF WriteDissolve
<1>4. NoFolk \in [Folk -> MemberRoles \cup {"none"}] /\ [u \in Folk |-> 0] \in [Folk -> Ages]
  BY DEF NoFolk, Ages
<1>5. /\ owner' \in [Homes -> Folk \cup {NoOwner}] /\ owner'[h] = NoOwner
      /\ member' \in [Homes -> [Folk -> MemberRoles \cup {"none"}]] /\ member'[h] = NoFolk
      /\ limit' \in [Homes -> [Folk -> Ages]] /\ limit'[h] = [u \in Folk |-> 0]
  BY <1>1, <1>3, <1>4 DEF HhTyped
<1>6. \A k \in Homes : k # h => owner'[k] = owner[k] /\ member'[k] = member[k] /\ limit'[k] = limit[k]
  BY <1>1, <1>3 DEF HhTyped
<1>7. \A u \in Folk : member'[h][u] = "none" /\ limit'[h][u] = 0
  BY <1>5 DEF NoFolk
<1>8. RowsBelong'
  BY <1>1, <1>6, <1>7 DEF RowsBelong, Exists
<1>9. Done \in Asking /\ Done.pc = "ended" /\ Carried(Done) /\ ~Accepting(Done)
  BY BlankAsking DEF Accepting
<1>10. InviteOnce'
  BY <1>3, <1>9, InviteAsItWas
<1>11. ASSUME ~stale, post[r].fresh, Orderly, NoneBetween(r)
       PROVE  Single' /\ (homeFaults' > 0 \/ \A k \in Homes : OwnerOf(k)')
  <2>1. Single'
    BY <1>6, <1>7, <1>11 DEF Orderly, Single
  <2>2. ASSUME ~(homeFaults' > 0), NEW k \in Homes PROVE OwnerOf(k)'
    <3>1. OwnerOf(k)
      BY <1>3, <1>11, <2>2, NamedAlone DEF Creating
    <3>2. CASE k = h
      BY <3>2, <1>5, <1>7, HouseholdsAssumption DEF OwnerOf
    <3>3. CASE k # h
      BY <3>1, <3>3, <1>6 DEF OwnerOf
    <3> QED
      BY <3>2, <3>3
  <2> QED
    BY <2>1, <2>2
<1>12. invite' \in {"open", "used", "gone"} /\ homeFaults' \in Nat
  BY <1>1, <1>3 DEF HhTyped
<1> QED
  BY <1>3, <1>5, <1>8, <1>9, <1>10, <1>11, <1>12, HomesChange

LEMMA MoveWritten ==
    ASSUME HhTyped, NEW q \in Asking, q.home # q.into, q.role # "none",
           member' = [member EXCEPT ![q.home][q.who] = "none", ![q.into][q.who] = q.role],
           limit' = [limit EXCEPT ![q.home][q.who] = 0, ![q.into][q.who] = q.age]
    PROVE  /\ member' \in [Homes -> [Folk -> MemberRoles \cup {"none"}]]
           /\ limit' \in [Homes -> [Folk -> Ages]]
           /\ member'[q.home][q.who] = "none" /\ limit'[q.home][q.who] = 0
           /\ member'[q.into][q.who] = q.role /\ limit'[q.into][q.who] = q.age
           /\ \A k \in Homes, v \in Folk : v # q.who \/ (k # q.home /\ k # q.into) =>
                 member'[k][v] = member[k][v] /\ limit'[k][v] = limit[k][v]
<1>1. PICK h \in Homes, i \in Homes, u \in Folk, role \in MemberRoles \cup {"none"}, age \in Ages :
         h = q.home /\ i = q.into /\ u = q.who /\ role = q.role /\ age = q.age
  BY DEF Asking
<1>2. /\ member[h] \in [Folk -> MemberRoles \cup {"none"}] /\ member[i] \in [Folk -> MemberRoles \cup {"none"}]
      /\ limit[h] \in [Folk -> Ages] /\ limit[i] \in [Folk -> Ages] /\ h # i /\ 0 \in Ages
  BY <1>1 DEF HhTyped, Ages
<1>3. /\ member' = [member EXCEPT ![h] = [member[h] EXCEPT ![u] = "none"], ![i] = [member[i] EXCEPT ![u] = role]]
      /\ limit' = [limit EXCEPT ![h] = [limit[h] EXCEPT ![u] = 0], ![i] = [limit[i] EXCEPT ![u] = age]]
  BY <1>1, <1>2 DEF HhTyped
<1>4. PICK a \in [Folk -> MemberRoles \cup {"none"}], b \in [Folk -> MemberRoles \cup {"none"}],
           c \in [Folk -> Ages], d \in [Folk -> Ages] :
         /\ a = [member[h] EXCEPT ![u] = "none"] /\ b = [member[i] EXCEPT ![u] = role]
         /\ c = [limit[h] EXCEPT ![u] = 0] /\ d = [limit[i] EXCEPT ![u] = age]
  BY <1>2
<1>5. /\ a[u] = "none" /\ b[u] = role /\ c[u] = 0 /\ d[u] = age
      /\ \A v \in Folk : v # u => a[v] = member[h][v] /\ b[v] = member[i][v] /\ c[v] = limit[h][v] /\ d[v] = limit[i][v]
  BY <1>2, <1>4
<1>6. member' = [member EXCEPT ![h] = a, ![i] = b] /\ limit' = [limit EXCEPT ![h] = c, ![i] = d]
  BY <1>3, <1>4
<1>7. /\ member' \in [Homes -> [Folk -> MemberRoles \cup {"none"}]] /\ member'[h] = a /\ member'[i] = b
      /\ \A k \in Homes : k # h /\ k # i => member'[k] = member[k]
  <2>1. PICK e \in [Homes -> [Folk -> MemberRoles \cup {"none"}]] : e = [member EXCEPT ![h] = a]
    BY DEF HhTyped
  <2>2. member' = [e EXCEPT ![i] = b]
    BY <1>6, <2>1
  <2>3. e[h] = a /\ \A k \in Homes : k # h => e[k] = member[k]
    BY <2>1 DEF HhTyped
  <2> QED
    BY <1>2, <2>2, <2>3
<1>8. /\ limit' \in [Homes -> [Folk -> Ages]] /\ limit'[h] = c /\ limit'[i] = d
      /\ \A k \in Homes : k # h /\ k # i => limit'[k] = limit[k]
  <2>1. PICK e \in [Homes -> [Folk -> Ages]] : e = [limit EXCEPT ![h] = c]
    BY DEF HhTyped
  <2>2. limit' = [e EXCEPT ![i] = d]
    BY <1>6, <2>1
  <2>3. e[h] = c /\ \A k \in Homes : k # h => e[k] = limit[k]
    BY <2>1 DEF HhTyped
  <2> QED
    BY <1>2, <2>2, <2>3
<1>9. \A k \in Homes, v \in Folk : v # u \/ (k # h /\ k # i) =>
                 member'[k][v] = member[k][v] /\ limit'[k][v] = limit[k][v]
  BY <1>5, <1>7, <1>8
<1>10. member'[h][u] = "none" /\ limit'[h][u] = 0 /\ member'[i][u] = role /\ limit'[i][u] = age
  BY <1>5, <1>7, <1>8
<1>11. /\ member'[q.home][q.who] = "none" /\ limit'[q.home][q.who] = 0
       /\ member'[q.into][q.who] = q.role /\ limit'[q.into][q.who] = q.age
  BY <1>1, <1>10, Zenon
<1>12. \A k \in Homes, v \in Folk : v # q.who \/ (k # q.home /\ k # q.into) =>
                 member'[k][v] = member[k][v] /\ limit'[k][v] = limit[k][v]
  BY <1>1, <1>9, Zenon
<1> QED
  BY <1>7, <1>8, <1>11, <1>12, Zenon

LEMMA WriteMoveStep ==
    ASSUME HhInv, NEW r \in Posts, post[r].pc = "write", WriteMove(r)
    PROVE  HhInv'
<1>1. HhTyped /\ RowsBelong /\ Carried(post[r])
  BY DEF HhInv, HhSound, HhTyped
<1>2. PICK q \in Asking : q = post[r]
  BY <1>1 DEF HhTyped
<1>3. q.do = "move" /\ q.role \in {"adult", "child"} /\ UNCHANGED <<homeFaults, guests>>
  BY <1>1, <1>2 DEF WriteMove, Carried
<1>4. q.home \in Homes /\ q.into \in Homes /\ q.who \in Folk
  BY DEF Asking
<1>5. CASE Refused(r)
  BY <1>3, <1>5, RefusedStep
<1>6. CASE ~Refused(r)
  <2>1. /\ member[q.home][q.who] \notin {"none", "owner"} /\ Insertable(q.into, q.who)
        /\ member' = [member EXCEPT ![q.home][q.who] = "none", ![q.into][q.who] = q.role]
        /\ limit' = [limit EXCEPT ![q.home][q.who] = 0, ![q.into][q.who] = q.age]
        /\ Changed(r, Done) /\ UNCHANGED <<owner, invite>>
    BY <1>2, <1>6 DEF WriteMove
  <2>2. q.home # q.into /\ Exists(q.into) /\ member[q.into][q.who] = "none"
    BY <2>1 DEF Insertable
  <2>3. /\ member' \in [Homes -> [Folk -> MemberRoles \cup {"none"}]]
        /\ limit' \in [Homes -> [Folk -> Ages]]
        /\ member'[q.home][q.who] = "none" /\ limit'[q.home][q.who] = 0
        /\ member'[q.into][q.who] = q.role /\ limit'[q.into][q.who] = q.age
        /\ \A k \in Homes, v \in Folk : v # q.who \/ (k # q.home /\ k # q.into) =>
               member'[k][v] = member[k][v] /\ limit'[k][v] = limit[k][v]
    BY <1>1, <1>3, <2>1, <2>2, MoveWritten
  <2>4. RowsBelong'
    <3> SUFFICES ASSUME NEW k \in Homes, NEW v \in Folk
                 PROVE  /\ limit'[k][v] # 0 => member'[k][v] # "none"
                        /\ member'[k][v] # "none" => Exists(k)'
      BY DEF RowsBelong
    <3>1. CASE v = q.who /\ k = q.home
      BY <3>1, <2>3
    <3>2. CASE v = q.who /\ k = q.into
      BY <3>2, <1>3, <2>1, <2>2, <2>3 DEF Exists
    <3>3. CASE v # q.who \/ (k # q.home /\ k # q.into)
      BY <3>3, <1>1, <2>1, <2>3 DEF RowsBelong, Exists
    <3> QED
      BY <3>1, <3>2, <3>3
  <2>5. Done \in Asking /\ Done.pc = "ended" /\ Carried(Done) /\ ~Accepting(Done)
    BY BlankAsking DEF Accepting
  <2>6. InviteOnce'
    BY <1>3, <2>1, <2>5, InviteAsItWas
  <2>7. ASSUME ~stale, post[r].fresh, Orderly, NoneBetween(r)
        PROVE  Single' /\ (homeFaults' > 0 \/ \A k \in Homes : OwnerOf(k)')
    <3>1. \A k \in Homes : k # q.home => member[k][q.who] = "none"
      BY <1>4, <2>1, <2>7 DEF Orderly, Single
    <3>2. \A k \in Homes : k # q.into => member'[k][q.who] = "none"
      BY <1>4, <2>3, <3>1
    <3>3. Single'
      <4> SUFFICES ASSUME NEW v \in Folk, NEW k \in Homes, NEW j \in Homes,
                          member'[k][v] # "none", member'[j][v] # "none"
                   PROVE  k = j
        BY DEF Single
      <4>1. CASE v = q.who
        BY <4>1, <3>2
      <4>2. CASE v # q.who
        BY SMTT(30), <4>2, <2>3, <2>7 DEF Orderly, Single
      <4> QED
        BY <4>1, <4>2
    <3>4. ASSUME ~(homeFaults' > 0), NEW k \in Homes PROVE OwnerOf(k)'
      <4>1. OwnerOf(k)
        BY <1>2, <1>3, <2>7, <3>4, NamedAlone DEF Creating
      <4>2. ASSUME NEW v \in Folk PROVE member'[k][v] = "owner" <=> member[k][v] = "owner"
        <5>1. CASE v = q.who /\ k = q.home
          BY <5>1, <2>1, <2>3
        <5>2. CASE v = q.who /\ k = q.into
          BY <5>2, <1>3, <2>2, <2>3
        <5>3. CASE v # q.who \/ (k # q.home /\ k # q.into)
          BY <5>3, <2>3
        <5> QED
          BY <5>1, <5>2, <5>3
      <4> QED
        BY <4>1, <4>2, <2>1 DEF OwnerOf
    <3> QED
      BY <3>3, <3>4
  <2>8. owner' \in [Homes -> Folk \cup {NoOwner}] /\ invite' \in {"open", "used", "gone"} /\ homeFaults' \in Nat
    BY <1>1, <1>3, <2>1 DEF HhTyped
  <2> QED
    BY <2>1, <2>3, <2>4, <2>5, <2>6, <2>7, <2>8, HomesChange
<1> QED
  BY <1>5, <1>6

LEMMA MissesStep ==
    ASSUME HhInv, NEW r \in Posts, post[r].pc = "write", Misses(r)
    PROVE  HhInv'
BY RefusedStep DEF Misses

LEMMA HouseholdsSteps == HhInv /\ [HHNext]_hhVars => HhInv'
<1> SUFFICES ASSUME HhInv, [HHNext]_hhVars PROVE HhInv'
  OBVIOUS
<1>1. ASSUME NEW r \in Posts, WritePost(r) PROVE HhInv'
  <2>1. post[r].pc = "write"
    BY <1>1 DEF WritePost
  <2> QED
    BY <1>1, <2>1, WriteCreateStep, ClaimInviteStep, WriteMemberStep, MissesStep,
       WriteTransferStep, WriteDissolveStep, WriteMoveStep DEF WritePost
<1>2. ASSUME NEW r \in Posts, NEW h \in Homes, Dissolve(r, h) PROVE HhInv'
  <2>1. Ann \in Folk
    BY DEF Folk
  <2> QED
    BY <1>2, <2>1, RequestsTaken
<1>3. ASSUME NEW r \in Posts, NEW u \in Folk, Accept(r, u) PROVE HhInv'
  BY <1>3, RequestsTaken, HouseholdsAssumption
<1>4. CASE UNCHANGED hhVars
  <2>1. UNCHANGED <<owner, member, limit, invite, post, homeFaults, stale, guests>>
    BY <1>4 DEF hhVars
  <2>2. HhTyped' <=> HhTyped
    BY <2>1 DEF HhTyped, Carried
  <2>3. (RowsBelong' <=> RowsBelong) /\ (InviteOnce' <=> InviteOnce)
    BY <2>1 DEF RowsBelong, Exists, InviteOnce, Accepting
  <2>4. (Single' <=> Single) /\ (Named' <=> Named) /\ (OneBetween' <=> OneBetween)
    BY <2>1 DEF Single, Named, OwnerOf, Creating, OneBetween, Between
  <2>5. ASSUME NEW r \in Posts PROVE (Checked(post[r])' <=> Checked(post[r])) /\ (Joining(post[r])' <=> Joining(post[r]))
    BY <2>1 DEF Checked, Exists, Free, InAny, Joining
  <2>6. (StillChecked' <=> StillChecked) /\ (StillJoining' <=> StillJoining)
    BY <2>1, <2>5 DEF StillChecked, StillJoining
  <2> QED
    BY <2>1, <2>2, <2>3, <2>4, <2>6 DEF HhInv, HhSound, Orderly
<1>5. CASE HHNext
  <2>1. PICK r \in Posts :
          \/ WritePost(r) \/ Join(r) \/ ReleaseInvite(r)
          \/ \E h \in Homes :
               \/ Dissolve(r, h)
               \/ \E u \in Folk :
                    \/ \E do \in {"create", "adminCreate"} : Create(r, h, u, do)
                    \/ Transfer(r, h, u) \/ AdminRemove(r, h, u)
                    \/ \E by \in Folk : OwnerRemove(r, h, by, u) \/ OwnerAdd(r, h, by, u) \/ OwnerUpdate(r, h, by, u, "adult", 0)
                    \/ \E role \in {"adult", "kept"} : Patch(r, h, u, role, 12)
                    \/ \E into \in Homes : Move(r, h, u, into)
          \/ \E u \in Folk : Accept(r, u)
    BY <1>5 DEF HHNext
  <2>2. CASE WritePost(r) \/ Join(r) \/ ReleaseInvite(r)
    BY <2>2, <1>1, JoinStep, ReleaseInviteStep
  <2>3. CASE \E h \in Homes : Dissolve(r, h)
    BY <2>3, <1>2
  <2>4. CASE \E u \in Folk : Accept(r, u)
    BY <2>4, <1>3
  <2>5. ASSUME NEW h \in Homes, NEW u \in Folk,
               \/ \E do \in {"create", "adminCreate"} : Create(r, h, u, do)
               \/ Transfer(r, h, u) \/ AdminRemove(r, h, u)
               \/ \E by \in Folk : OwnerRemove(r, h, by, u) \/ OwnerAdd(r, h, by, u) \/ OwnerUpdate(r, h, by, u, "adult", 0)
               \/ \E role \in {"adult", "kept"} : Patch(r, h, u, role, 12)
               \/ \E into \in Homes : Move(r, h, u, into)
        PROVE  HhInv'
    BY <2>5, RequestsTaken
  <2> QED
    BY <2>1, <2>2, <2>3, <2>4, <2>5
<1> QED
  BY <1>4, <1>5

LEMMA HouseholdsAreSafe == HhInv => HouseholdsSafe
<1> SUFFICES ASSUME HhInv PROVE HouseholdsSafe
  OBVIOUS
<1>1. HhTyped /\ RowsBelong /\ InviteOnce /\ (stale \/ Orderly)
  BY DEF HhInv, HhSound
<1>2. HHTypeOK
  BY <1>1 DEF HHTypeOK, HhTyped, Asking
<1>3. OneHousehold
  <2> SUFFICES ASSUME Orderly, NEW u \in Folk PROVE Cardinality({h \in Homes : member[h][u] # "none"}) <= 1
    BY <1>1 DEF OneHousehold
  <2> DEFINE H == {h \in Homes : member[h][u] # "none"}
  <2>1. \A h, k \in H : h = k
    BY DEF Orderly, Single
  <2>2. H = {} \/ \E h \in H : H = {h}
    BY <2>1
  <2> HIDE DEF H
  <2>3. Cardinality(H) <= 1
    <3>1. CASE H = {}
      BY <3>1, FS_EmptySet
    <3>2. ASSUME NEW h \in H, H = {h} PROVE Cardinality(H) <= 1
      <4>1. Cardinality({h}) = 1
        BY FS_Singleton
      <4> QED
        BY <3>2, <4>1
    <3> QED
      BY <2>2, <3>1, <3>2
  <2> QED
    BY <2>3 DEF H
<1>4. OwnerBelongs
  <2> SUFFICES ASSUME Orderly, ~(homeFaults > 0), NEW h \in Homes,
                      ~\E r \in Posts : post[r].pc = "join" /\ post[r].do = "create" /\ post[r].home = h
               PROVE  {u \in Folk : member[h][u] = "owner"} = {owner[h]} \ {NoOwner}
    BY <1>1 DEF OwnerBelongs
  <2>1. OwnerOf(h)
    BY DEF Orderly, Named, Creating
  <2>2. owner[h] \in Folk \cup {NoOwner}
    BY <1>1 DEF HhTyped
  <2>3. NoOwner \notin Folk
    BY HouseholdsAssumption
  <2> QED
    BY <2>1, <2>2, <2>3 DEF OwnerOf
<1>5. InviteSingleUse
  <2>1. CASE guests = {}
    BY <2>1, FS_EmptySet DEF InviteSingleUse
  <2>2. ASSUME NEW u \in Folk, guests = {u} PROVE InviteSingleUse
    <3>1. Cardinality({u}) = 1
      BY FS_Singleton
    <3> QED
      BY <2>2, <3>1 DEF InviteSingleUse
  <2> QED
    BY <1>1, <2>1, <2>2 DEF InviteOnce
<1> QED
  BY <1>2, <1>3, <1>4, <1>5 DEF HouseholdsSafe

\* The two action properties, as actions.
PutOut(r) == post[r].pc = "write" /\ post'[r].pc = "ended" /\ post[r].do \in {"remove", "ownerRemove", "delete"}
KeepsFolk == \A u \in Folk : InAny(u) /\ ~InAny(u)' => \E r \in Posts : PutOut(r)

HasLimit(u) == \E h \in Homes : limit[h][u] = 12
LosesLimit(u) == HasLimit(u) /\ InAny(u)' /\ ~stale' /\ \A h \in Homes : limit'[h][u] = 0
Relimited(r, u) == post[r].pc = "write" /\ post'[r].pc = "ended" /\ post[r].do = "ownerUpdate" /\ post[r].who = u
KeepsLimits == \A u \in Folk : LosesLimit(u) => \E r \in Posts : Relimited(r, u)

LEMMA FreeHasNoLimit == ASSUME HhTyped, RowsBelong, NEW u \in Folk, Free(u) PROVE ~HasLimit(u)
BY DEF RowsBelong, Free, InAny, HasLimit

\* A step of a request that was in time finds its check still true.
LEMMA InTime ==
    ASSUME HhInv, NEW r \in Posts, NEW q \in Asking, Changed(r, q), ~stale'
    PROVE  ~stale /\ post[r].fresh /\ Orderly
BY DEF Changed, HhInv, HhSound, HhTyped, Asking

LEMMA ChangeEnds ==
    ASSUME HhTyped, NEW r \in Posts, Changed(r, Done)
    PROVE  post'[r].pc = "ended"
BY ChangeMarks, BlankAsking

\* Writing one row loses a limit when that is what was asked.
LEMMA RowKeeps ==
    ASSUME HhTyped, RowsBelong, NEW h \in Homes, NEW u \in Folk, NEW role \in MemberRoles \cup {"none"}, NEW age \in Ages,
           Row(h, u, role, age)
    PROVE  /\ role # "none" => KeepsFolk
           /\ \A v \in Folk : LosesLimit(v) =>
                /\ v = u /\ ~Free(u) /\ age # 12
                /\ Single /\ role = "none" => member[h][u] = "none"
<1>1. /\ member' \in [Homes -> [Folk -> MemberRoles \cup {"none"}]]
      /\ limit' \in [Homes -> [Folk -> Ages]]
      /\ member'[h][u] = role /\ limit'[h][u] = age
      /\ \A k \in Homes, v \in Folk : k # h \/ v # u =>
             member'[k][v] = member[k][v] /\ limit'[k][v] = limit[k][v]
  BY RowWritten
<1>2. role # "none" => KeepsFolk
  <2> SUFFICES ASSUME role # "none", NEW v \in Folk, NEW k \in Homes, member[k][v] # "none"
               PROVE  \E j \in Homes : member'[j][v] # "none"
    BY DEF KeepsFolk, InAny
  <2>1. CASE k = h /\ v = u
    BY <2>1, <1>1
  <2>2. CASE k # h \/ v # u
    BY <2>2, <1>1
  <2> QED
    BY <2>1, <2>2
<1>3. ASSUME NEW v \in Folk, LosesLimit(v)
      PROVE  /\ v = u /\ ~Free(u) /\ age # 12
             /\ Single /\ role = "none" => member[h][u] = "none"
  <2>1. PICK k \in Homes : limit[k][v] = 12
    BY <1>3 DEF LosesLimit, HasLimit
  <2>2. limit'[k][v] = 0 /\ limit'[h][u] = age
    BY <1>1, <1>3 DEF LosesLimit
  <2>3. k = h /\ v = u
    BY <1>1, <2>1, <2>2
  <2>4. age # 12
    BY <2>2, <2>3
  <2>5. member[h][u] # "none"
    BY <2>1, <2>3 DEF RowsBelong
  <2>6. ~Free(u)
    BY <2>5 DEF Free, InAny
  <2>7. ~(Single /\ role = "none")
    <3> SUFFICES ASSUME Single, role = "none" PROVE FALSE
      OBVIOUS
    <3>1. \A j \in Homes : j # h => member[j][u] = "none"
      BY <2>5 DEF Single
    <3>2. \A j \in Homes : member'[j][u] = "none"
      BY <1>1, <3>1
    <3> QED
      BY <1>3, <2>3, <3>2 DEF LosesLimit, InAny
  <2> QED
    BY <2>3, <2>4, <2>6, <2>7
<1> QED
  BY <1>2, <1>3

\* A step that leaves the members and their limits alone.
LEMMA NobodyConcerned == UNCHANGED <<member, limit>> => KeepsFolk /\ KeepsLimits
<1> SUFFICES ASSUME UNCHANGED <<member, limit>> PROVE KeepsFolk /\ KeepsLimits
  OBVIOUS
<1>1. \A u \in Folk : InAny(u)' <=> InAny(u)
  BY DEF InAny
<1>2. \A u \in Folk : ~LosesLimit(u)
  BY DEF LosesLimit, HasLimit
<1> QED
  BY <1>1, <1>2 DEF KeepsFolk, KeepsLimits

LEMMA CreateKeeps ==
    ASSUME HhInv, NEW r \in Posts, post[r].pc = "write", WriteCreate(r)
    PROVE  KeepsFolk /\ KeepsLimits
<1>1. HhTyped /\ RowsBelong
  BY DEF HhInv, HhSound
<1>2. PICK s \in Asking : s = post[r]
  BY <1>1 DEF HhTyped
<1>3. s.home \in Homes /\ s.who \in Folk
  BY DEF Asking
<1>4. CASE UNCHANGED <<member, limit>>
  BY <1>4, NobodyConcerned
<1>5. CASE Changed(r, Done) /\ Row(s.home, s.who, "owner", 0) /\ s.do = "adminCreate"
  <2>1. "owner" \in MemberRoles \cup {"none"} /\ 0 \in Ages
    BY DEF MemberRoles, Ages
  <2>2. KeepsFolk /\ \A v \in Folk : LosesLimit(v) => v = s.who /\ ~Free(s.who)
    BY <1>1, <1>3, <1>5, <2>1, RowKeeps
  <2>3. ASSUME NEW v \in Folk, LosesLimit(v) PROVE FALSE
    <3>1. post[r].fresh /\ Orderly
      BY <1>5, <2>3, BlankAsking, InTime DEF LosesLimit
    <3>2. Free(s.who)
      BY <1>2, <1>5, <3>1 DEF Orderly, StillChecked, Checked
    <3> QED
      BY <2>2, <2>3, <3>2
  <2> QED
    BY <2>2, <2>3 DEF KeepsLimits
<1> QED
  BY <1>2, <1>4, <1>5 DEF WriteCreate, Refused

LEMMA JoinKeeps ==
    ASSUME HhInv, NEW r \in Posts, Join(r)
    PROVE  KeepsFolk /\ KeepsLimits
<1>1. HhTyped /\ RowsBelong /\ Carried(post[r])
  BY DEF HhInv, HhSound, HhTyped
<1>2. PICK s \in Asking : s = post[r] /\ s.pc = "join"
  BY <1>1 DEF HhTyped, Join
<1>3. s.home \in Homes /\ s.who \in Folk /\ s.role \in MemberRoles \cup {"none"} /\ s.age \in Ages
  BY DEF Asking
<1>4. CASE UNCHANGED <<member, limit>>
  BY <1>4, NobodyConcerned
<1>5. CASE Changed(r, Done) /\ Row(s.home, s.who, s.role, s.age)
  <2>1. s.role # "none"
    BY <1>1, <1>2 DEF Carried
  <2>2. KeepsFolk /\ \A v \in Folk : LosesLimit(v) => v = s.who /\ ~Free(s.who)
    BY <1>1, <1>3, <1>5, <2>1, RowKeeps
  <2>3. ASSUME NEW v \in Folk, LosesLimit(v) PROVE FALSE
    <3>1. post[r].fresh /\ Orderly
      BY <1>5, <2>3, BlankAsking, InTime DEF LosesLimit
    <3>2. Free(s.who)
      BY <1>2, <3>1 DEF Orderly, StillJoining, Joining
    <3> QED
      BY <2>2, <2>3, <3>2
  <2> QED
    BY <2>2, <2>3 DEF KeepsLimits
<1> QED
  BY <1>2, <1>4, <1>5 DEF Join

LEMMA MemberKeeps ==
    ASSUME HhInv, NEW r \in Posts, post[r].pc = "write", WriteMember(r)
    PROVE  KeepsFolk /\ KeepsLimits
<1>1. HhTyped /\ RowsBelong /\ Carried(post[r])
  BY DEF HhInv, HhSound, HhTyped
<1>2. PICK q \in Asking : q = post[r] /\ q.pc = "write"
  BY <1>1 DEF HhTyped
<1>3. q.home \in Homes /\ q.who \in Folk /\ q.role \in MemberRoles \cup {"none"} /\ q.age \in Ages
  BY DEF Asking
<1>4. Changed(r, Done) /\ post'[r].pc = "ended"
  BY <1>1, ChangeEnds DEF WriteMember
<1>5. ASSUME NEW v \in Folk, LosesLimit(v) PROVE post[r].fresh /\ Orderly /\ Checked(q) /\ Single
  <2>1. post[r].fresh /\ Orderly
    BY <1>4, <1>5, BlankAsking, InTime DEF LosesLimit
  <2> QED
    BY <1>2, <2>1 DEF Orderly, StillChecked
<1>6. CASE q.do \in {"ownerUpdate", "ownerAdd", "patch"} /\ Row(q.home, q.who, q.role, q.age)
  <2>1. q.role # "none"
    BY <1>1, <1>2, <1>6 DEF Carried, MemberRoles
  <2>2. KeepsFolk /\ \A v \in Folk : LosesLimit(v) => v = q.who /\ ~Free(q.who) /\ q.age # 12
    BY <1>1, <1>3, <1>6, <2>1, RowKeeps
  <2>3. ASSUME NEW v \in Folk, LosesLimit(v) PROVE Relimited(r, v)
    <3>1. q.do # "patch"
      BY <1>1, <1>2, <2>2, <2>3 DEF Carried
    <3>2. q.do # "ownerAdd"
      BY <1>5, <2>2, <2>3 DEF Checked
    <3> QED
      BY <1>2, <1>4, <1>6, <2>2, <2>3, <3>1, <3>2 DEF Relimited
  <2> QED
    BY <2>2, <2>3 DEF KeepsLimits
<1>7. CASE q.do \in {"ownerRemove", "remove"} /\ Row(q.home, q.who, "none", 0) /\ member[q.home][q.who] # "none"
  <2>1. PutOut(r)
    BY <1>2, <1>4, <1>7 DEF PutOut
  <2>2. "none" \in MemberRoles \cup {"none"} /\ 0 \in Ages
    BY DEF Ages
  <2>3. \A v \in Folk : LosesLimit(v) => (Single => member[q.home][q.who] = "none")
    BY <1>1, <1>3, <1>7, <2>2, RowKeeps
  <2>4. \A v \in Folk : ~LosesLimit(v)
    BY <1>5, <1>7, <2>3
  <2> QED
    BY <2>1, <2>4 DEF KeepsFolk, KeepsLimits
<1> QED
  BY <1>2, <1>6, <1>7 DEF WriteMember

LEMMA TransferKeeps ==
    ASSUME HhInv, NEW r \in Posts, WriteTransfer(r)
    PROVE  KeepsFolk /\ KeepsLimits
<1>1. HhTyped
  BY DEF HhInv, HhSound
<1>2. PICK q \in Asking : q = post[r]
  BY <1>1 DEF HhTyped
<1>3. UNCHANGED limit
  BY DEF WriteTransfer, Refused
<1>4. \A v \in Folk : ~LosesLimit(v)
  BY <1>3 DEF LosesLimit, HasLimit
<1>5. CASE UNCHANGED member
  BY <1>3, <1>5, NobodyConcerned
<1>6. CASE ~UNCHANGED member
  <2> DEFINE roles == [u \in Folk |->
                 IF member[q.home][u] = "none" THEN "none"
                 ELSE IF u = q.who THEN "owner" ELSE IF u = q.from THEN "adult" ELSE member[q.home][u]]
  <2>1. member' = [member EXCEPT ![q.home] = roles]
    BY <1>2, <1>6 DEF WriteTransfer, Refused
  <2>2. \A u \in Folk : roles[u] = "none" <=> member[q.home][u] = "none"
    OBVIOUS
  <2> HIDE DEF roles
  <2>3. q.home \in Homes /\ member'[q.home] = roles /\ \A k \in Homes : k # q.home => member'[k] = member[k]
    BY <1>1, <2>1 DEF HhTyped, Asking
  <2>4. \A k \in Homes, u \in Folk : member'[k][u] = "none" <=> member[k][u] = "none"
    BY <2>2, <2>3
  <2>5. KeepsFolk
    BY <2>4 DEF KeepsFolk, InAny
  <2> QED
    BY <1>4, <2>5 DEF KeepsLimits
<1> QED
  BY <1>5, <1>6

LEMMA DissolveKeeps ==
    ASSUME HhInv, NEW r \in Posts, post[r].pc = "write", WriteDissolve(r)
    PROVE  KeepsFolk /\ KeepsLimits
<1>1. HhTyped /\ RowsBelong
  BY DEF HhInv, HhSound
<1>2. PICK h \in Homes : h = post[r].home
  BY <1>1 DEF HhTyped, Asking
<1>3. /\ member' = [member EXCEPT ![h] = NoFolk] /\ limit' = [limit EXCEPT ![h] = [u \in Folk |-> 0]]
      /\ Changed(r, Done) /\ post[r].do = "delete"
  BY <1>2 DEF WriteDissolve
<1>4. PutOut(r)
  BY <1>1, <1>3, ChangeEnds DEF PutOut
<1>5. member'[h] = NoFolk /\ \A k \in Homes : k # h => member'[k] = member[k] /\ limit'[k] = limit[k]
  BY <1>1, <1>3 DEF HhTyped
<1>6. \A u \in Folk : member'[h][u] = "none"
  BY <1>5 DEF NoFolk
<1>7. ASSUME NEW v \in Folk, LosesLimit(v) PROVE FALSE
  <2>1. Single
    BY <1>3, <1>7, BlankAsking, InTime DEF LosesLimit, Orderly
  <2>2. PICK k \in Homes : limit[k][v] = 12
    BY <1>7 DEF LosesLimit, HasLimit
  <2>3. k = h
    BY <1>5, <1>7, <2>2 DEF LosesLimit
  <2>4. member[h][v] # "none"
    BY <1>1, <2>2, <2>3 DEF RowsBelong
  <2>5. \A j \in Homes : j # h => member[j][v] = "none"
    BY <2>1, <2>4 DEF Single
  <2>6. \A j \in Homes : member'[j][v] = "none"
    BY <1>5, <1>6, <2>5
  <2> QED
    BY <1>7, <2>6 DEF LosesLimit, InAny
<1> QED
  BY <1>4, <1>7 DEF KeepsFolk, KeepsLimits

LEMMA MoveKeeps ==
    ASSUME HhInv, NEW r \in Posts, post[r].pc = "write", WriteMove(r)
    PROVE  KeepsFolk /\ KeepsLimits
<1>1. HhTyped /\ RowsBelong /\ Carried(post[r])
  BY DEF HhInv, HhSound, HhTyped
<1>2. PICK q \in Asking : q = post[r] /\ q.pc = "write"
  BY <1>1 DEF HhTyped
<1>3. q.do = "move" /\ q.role \in {"adult", "child"} /\ q.home \in Homes /\ q.into \in Homes /\ q.who \in Folk
  BY <1>1, <1>2 DEF WriteMove, Carried, Asking
<1>4. CASE Refused(r)
  BY <1>4, NobodyConcerned DEF Refused
<1>5. CASE ~Refused(r)
  <2>1. /\ member[q.home][q.who] # "none" /\ Insertable(q.into, q.who)
        /\ member' = [member EXCEPT ![q.home][q.who] = "none", ![q.into][q.who] = q.role]
        /\ limit' = [limit EXCEPT ![q.home][q.who] = 0, ![q.into][q.who] = q.age]
        /\ Changed(r, Done)
    BY <1>2, <1>5 DEF WriteMove
  <2>2. q.home # q.into
    BY <2>1 DEF Insertable
  <2>3. /\ member'[q.into][q.who] = q.role /\ limit'[q.into][q.who] = q.age
        /\ \A k \in Homes, v \in Folk : v # q.who \/ (k # q.home /\ k # q.into) =>
               member'[k][v] = member[k][v] /\ limit'[k][v] = limit[k][v]
    BY <1>1, <1>3, <2>1, <2>2, MoveWritten
  <2>4. ASSUME NEW v \in Folk, InAny(v) PROVE InAny(v)'
    <3>1. CASE v = q.who
      BY <3>1, <1>3, <2>3 DEF InAny
    <3>2. CASE v # q.who
      BY <3>2, <2>3, <2>4 DEF InAny
    <3> QED
      BY <3>1, <3>2
  <2>5. ASSUME NEW v \in Folk, LosesLimit(v) PROVE FALSE
    <3>1. post[r].fresh /\ Orderly
      BY <2>1, <2>5, BlankAsking, InTime DEF LosesLimit
    <3>2. q.age = limit[q.home][q.who]
      BY <1>2, <1>3, <3>1 DEF Orderly, StillChecked, Checked
    <3>3. PICK k \in Homes : limit[k][v] = 12
      BY <2>5 DEF LosesLimit, HasLimit
    <3>4. \A j \in Homes : limit'[j][v] = 0
      BY <2>5 DEF LosesLimit
    <3>5. v = q.who
      BY <2>3, <3>3, <3>4
    <3>6. k = q.home
      BY <1>1, <1>3, <2>1, <3>1, <3>3, <3>5 DEF RowsBelong, Orderly, Single
    <3> QED
      BY <1>3, <2>3, <3>2, <3>3, <3>4, <3>5, <3>6
  <2> QED
    BY <2>4, <2>5 DEF KeepsFolk, KeepsLimits
<1> QED
  BY <1>4, <1>5

LEMMA HouseholdsKeep == HhInv /\ [HHNext]_hhVars => KeepsFolk /\ KeepsLimits
<1> SUFFICES ASSUME HhInv, HHNext \/ UNCHANGED hhVars, ~UNCHANGED <<member, limit>> PROVE KeepsFolk /\ KeepsLimits
  BY NobodyConcerned
<1>1. HHNext
  BY DEF hhVars
<1>2. ASSUME NEW r \in Posts, NEW s PROVE ~Take(r, s) /\ ~ReleaseInvite(r)
  BY DEF Take, ReleaseInvite
<1>3. ASSUME NEW r \in Posts, NEW h \in Homes, NEW u \in Folk
      PROVE  /\ \A do \in {"create", "adminCreate"} : ~Create(r, h, u, do)
             /\ ~Transfer(r, h, u) /\ ~AdminRemove(r, h, u) /\ ~Dissolve(r, h) /\ ~Accept(r, u)
             /\ \A by \in Folk : ~OwnerRemove(r, h, by, u) /\ ~OwnerAdd(r, h, by, u) /\ ~OwnerUpdate(r, h, by, u, "adult", 0)
             /\ \A role \in {"adult", "kept"} : ~Patch(r, h, u, role, 12)
             /\ \A into \in Homes : ~Move(r, h, u, into)
  BY <1>2, Zenon DEF Dissolve, Create, Transfer, AdminRemove, OwnerRemove, OwnerAdd, OwnerUpdate, Patch, Move, Accept
<1>4. Ann \in Folk /\ First \in Homes
  BY HouseholdsAssumption DEF Folk
<1>5. PICK r \in Posts : WritePost(r) \/ Join(r)
  BY <1>1, <1>2, <1>3, <1>4, ZenonT(40) DEF HHNext
<1>6. CASE Join(r)
  BY <1>6, JoinKeeps
<1>7. CASE WritePost(r)
  <2>1. post[r].pc = "write"
    BY <1>7 DEF WritePost
  <2>2. ~ClaimInvite(r) /\ ~Misses(r)
    BY DEF ClaimInvite, Misses, Refused
  <2> QED
    BY <1>7, <2>1, <2>2, CreateKeeps, MemberKeeps, TransferKeeps, DissolveKeeps, MoveKeeps DEF WritePost
<1> QED
  BY <1>5, <1>6, <1>7

\* Households keep their contract: as long as no request has written on a
\* check that another write made stale, nobody is in two households and each
\* household's owner is its one member with that role; an invite brings one
\* person in; nobody is put out by being moved, and a child's age limit stays
\* through moves and new owners.
THEOREM HouseholdsKeepContract == HHSpec => HouseholdsContract
<1>1. HHStart => HhInv
  BY HouseholdsStart
<1>2. HhInv /\ [HHNext]_hhVars => HhInv'
  BY HouseholdsSteps
<1>3. HhInv => HouseholdsSafe
  BY HouseholdsAreSafe
<1>4. HhInv /\ [HHNext]_hhVars =>
        [\A u \in Folk : InAny(u) /\ ~InAny(u)' =>
           \E r \in Posts : post[r].pc = "write" /\ post'[r].pc = "ended" /\ post[r].do \in {"remove", "ownerRemove", "delete"}]_hhVars
  BY HouseholdsKeep DEF KeepsFolk, PutOut
<1>5. HhInv /\ [HHNext]_hhVars =>
        [\A u \in Folk : (\E h \in Homes : limit[h][u] = 12) /\ InAny(u)' /\ ~stale' /\ (\A h \in Homes : limit'[h][u] = 0) =>
           \E r \in Posts : post[r].pc = "write" /\ post'[r].pc = "ended" /\ post[r].do = "ownerUpdate" /\ post[r].who = u]_hhVars
  BY HouseholdsKeep DEF KeepsLimits, LosesLimit, HasLimit, Relimited
<1>6. HHSpec => [][UNCHANGED hhVars \/ HouseholdsSafe']_hhVars
  BY <1>1, <1>2, <1>3, PTL DEF HHSpec
<1>7. HHSpec => MoveKeepsMember
  BY <1>1, <1>2, <1>4, PTL DEF HHSpec, MoveKeepsMember
<1>8. HHSpec => LimitStays
  BY <1>1, <1>2, <1>5, PTL DEF HHSpec, LimitStays
<1> QED
  BY <1>6, <1>7, <1>8 DEF HouseholdsContract

-----------------------------------------------------------------------------
(* The flight recorder.                                                    *)

\* Every set of numbers that is not empty has a least one: induction over
\* data, where the prover can do it.
LEMMA LeastOf ==
    ASSUME NEW T, T \subseteq Nat, T # {}
    PROVE  \E j \in T : \A i \in T : j <= i
<1>1. PICK j \in T : \A i \in T : ~(<<i, j>> \in OpToRel(<, Nat))
  BY NatLessThanWellFounded, WFMin
<1>2. \A i \in T : ~(i < j)  BY <1>1 DEF OpToRel
<1> QED BY <1>2

\* What Min of the community modules gives for two numbers.
LEMMA TwoIsMin ==
    ASSUME NEW a \in Nat, NEW b \in Nat
    PROVE  Min({a, b}) = IF a <= b THEN a ELSE b
<1>1. \E x \in {a, b} : \A y \in {a, b} : x <= y  OBVIOUS
<1>2. Min({a, b}) \in {a, b} /\ \A y \in {a, b} : Min({a, b}) <= y  BY <1>1 DEF Min
<1> QED BY <1>2

\* The greatest budget an administrator may set.
LEMMA BurstsHaveMax == Max(Bursts) \in Nat /\ \A b \in Bursts : b <= Max(Bursts)
<1>1. \E x \in Bursts : \A y \in Bursts : x >= y  BY FlightAssumption, GreatestOfFinite
<1>2. Max(Bursts) \in Bursts /\ \A y \in Bursts : Max(Bursts) >= y  BY <1>1 DEF Max
<1>3. Bursts \subseteq Nat  BY FlightAssumption
<1> QED BY <1>2, <1>3

\* The last n of a sequence, or all of it.
LEMMA LastOfKeeps ==
    ASSUME NEW S, NEW seq \in Seq(S), NEW n \in Nat \ {0}
    PROVE  LET kept == IF Len(seq) > n THEN n ELSE Len(seq)
               last == LastOf(seq, n) IN
           last \in Seq(S) /\ Len(last) = kept /\ \A i \in 1 .. kept : last[i] = seq[Len(seq) - kept + i]
<1> DEFINE m == IF Len(seq) > n THEN Len(seq) - n + 1 ELSE 1
<1>1. Len(seq) \in Nat /\ \A i \in 1 .. Len(seq) : seq[i] \in S  BY LenProperties, ElementOfSeq
<1>2. m \in Int /\ m >= 1  BY <1>1
<1>3. LastOf(seq, n) = SubSeq(seq, m, Len(seq))  BY DEF LastOf
<1>4. \A i \in m .. Len(seq) : seq[i] \in S  BY <1>1, <1>2
<1>5. /\ SubSeq(seq, m, Len(seq)) \in Seq(S)
      /\ Len(SubSeq(seq, m, Len(seq))) = IF m <= Len(seq) THEN Len(seq) - m + 1 ELSE 0
      /\ \A i \in 1 .. Len(seq) - m + 1 : SubSeq(seq, m, Len(seq))[i] = seq[m + i - 1]
  <2> HIDE DEF m
  <2> QED BY <1>1, <1>2, <1>4, SubSeqProperties
<1>6. CASE Len(seq) > n
  <2>1. m = Len(seq) - n + 1 /\ Len(seq) - m + 1 = n /\ m <= Len(seq)  BY <1>1, <1>6
  <2>2. \A i \in 1 .. n : LastOf(seq, n)[i] = seq[m + i - 1] /\ m + i - 1 = Len(seq) - n + i
    BY <1>1, <1>3, <1>5, <2>1
  <2> QED BY <1>3, <1>5, <1>6, <2>1, <2>2
<1>7. CASE ~(Len(seq) > n)
  <2>1. m = 1 /\ Len(seq) - m + 1 = Len(seq)  BY <1>1, <1>7
  <2>2. Len(LastOf(seq, n)) = Len(seq)  BY <1>1, <1>3, <1>5, <2>1
  <2>3. \A i \in 1 .. Len(seq) : LastOf(seq, n)[i] = seq[m + i - 1] /\ m + i - 1 = Len(seq) - Len(seq) + i
    BY <1>1, <1>3, <1>5, <2>1
  <2> QED BY <1>3, <1>5, <1>7, <2>2, <2>3
<1> QED BY <1>6, <1>7

\* The loop of sweepLocked over the feed, by the least round it would not do.
LEMMA AgedFeedFits ==
    ASSUME NEW S, NEW seq \in Seq(S), NEW t
    PROVE  AgedFeed(seq, t) \in Seq(S) /\ Len(AgedFeed(seq, t)) <= Len(seq)
<1> DEFINE Round(f, i) == IF i = 0 THEN <<>>
                          ELSE IF seq[i].at + Retention >= t THEN Append(f[i - 1], seq[i]) ELSE f[i - 1]
           Rounds(n, f) == f = [i \in 0 .. n |-> Round(f, i)]
           kept == CHOOSE f : Rounds(Len(seq), f)
<1>1. Len(seq) \in Nat /\ \A i \in 1 .. Len(seq) : seq[i] \in S  BY LenProperties, ElementOfSeq
<1>2. \A n \in Nat : \E f : Rounds(n, f)
  <2> DEFINE T == {n \in Nat : ~ \E f : Rounds(n, f)}
  <2> SUFFICES ASSUME T # {} PROVE FALSE  OBVIOUS
  <2>1. T \subseteq Nat  OBVIOUS
  <2>2. PICK n \in T : \A i \in T : n <= i
    <3> HIDE DEF T
    <3> QED BY <2>1, LeastOf
  <2>3. CASE n = 0
    <3>1. Rounds(0, [i \in 0 .. 0 |-> <<>>])  OBVIOUS
    <3> QED BY <2>2, <2>3, <3>1
  <2>4. CASE n # 0
    <3>1. n - 1 \in Nat /\ ~(n <= n - 1)  BY <2>1, <2>2, <2>4
    <3>2. PICK f : Rounds(n - 1, f)  BY <2>2, <3>1
    <3> DEFINE g == [i \in 0 .. n |-> IF i = n THEN Round(f, n) ELSE f[i]]
    <3>3. \A i \in 0 .. n - 1 : f[i] = Round(f, i) /\ g[i] = f[i]
      <4> HIDE DEF Round
      <4>1. \A i \in 0 .. n - 1 : i \in 0 .. n /\ i # n  BY <2>2, <3>1
      <4> QED BY <3>2, <4>1
    <3>4. \A i \in 0 .. n : g[i] = Round(g, i)
      <4> SUFFICES ASSUME NEW i \in 0 .. n PROVE g[i] = Round(g, i)  OBVIOUS
      <4>1. CASE i = 0
        <5>1. 0 \in 0 .. n - 1  BY <3>1
        <5>2. g[0] = Round(f, 0)
          <6> HIDE DEF g, Round
          <6> QED BY <3>3, <5>1
        <5> QED BY <4>1, <5>2
      <4>2. CASE i # 0
        <5>1. i - 1 \in 0 .. n - 1 /\ g[i - 1] = f[i - 1]  BY <3>1, <3>3, <4>2
        <5>2. Round(g, i) = Round(f, i)  BY <5>1
        <5>3. g[i] = Round(f, i)
          <6> HIDE DEF Round
          <6>1. CASE i = n  BY <6>1
          <6>2. CASE i # n
            <7>1. i \in 0 .. n - 1  BY <2>2, <3>1, <6>2
            <7> QED BY <3>3, <7>1
          <6> QED BY <6>1, <6>2
        <5> QED BY <5>2, <5>3
      <4> QED BY <4>1, <4>2
    <3>5. Rounds(n, g)
      <4> HIDE DEF Round
      <4> QED BY <3>4
    <3> QED BY <2>2, <3>5
  <2> QED BY <2>3, <2>4
<1>3. Rounds(Len(seq), kept)
  <2> HIDE DEF Rounds
  <2> QED BY <1>1, <1>2
<1>4. \A i \in 0 .. Len(seq) : kept[i] = Round(kept, i)
  <2> HIDE DEF Round, kept
  <2> QED BY <1>3
<1>5. \A n \in 0 .. Len(seq) : kept[n] \in Seq(S) /\ Len(kept[n]) <= n
  <2> DEFINE Short(n) == kept[n] \in Seq(S) /\ Len(kept[n]) <= n
             T == {n \in 0 .. Len(seq) : ~Short(n)}
  <2> HIDE DEF kept
  <2> SUFFICES ASSUME T # {} PROVE FALSE  OBVIOUS
  <2>1. T \subseteq Nat  BY <1>1
  <2>2. PICK n \in T : \A i \in T : n <= i
    <3> HIDE DEF T
    <3> QED BY <2>1, LeastOf
  <2>3. CASE n = 0
    <3>1. kept[0] = <<>>  BY <1>1, <1>4
    <3>2. <<>> \in Seq(S) /\ Len(<<>>) = 0  BY EmptySeq
    <3> QED BY <2>2, <2>3, <3>1, <3>2
  <2>4. CASE n # 0
    <3>1. n - 1 \in 0 .. Len(seq) /\ ~(n <= n - 1) /\ n \in 1 .. Len(seq)  BY <1>1, <2>1, <2>2, <2>4
    <3>2. Short(n - 1)
      <4> HIDE DEF Short
      <4> QED BY <2>2, <3>1
    <3>3. kept[n] \in {kept[n - 1], Append(kept[n - 1], seq[n])}  BY <1>4, <2>4, <3>1
    <3>4. seq[n] \in S  BY <1>1, <3>1
    <3>5. Len(Append(kept[n - 1], seq[n])) = Len(kept[n - 1]) + 1 /\ Append(kept[n - 1], seq[n]) \in Seq(S)
      BY <3>2, <3>4, AppendProperties
    <3>6. Len(kept[n - 1]) \in Nat  BY <3>2, LenProperties
    <3>7. Len(kept[n]) <= n /\ kept[n] \in Seq(S)
      <4>1. CASE kept[n] = kept[n - 1]  BY <2>2, <3>2, <3>6, <4>1
      <4>2. CASE kept[n] = Append(kept[n - 1], seq[n])  BY <2>2, <3>2, <3>5, <3>6, <4>2
      <4> QED BY <3>3, <4>1, <4>2
    <3> QED BY <2>2, <3>7
  <2> QED BY <2>3, <2>4
<1>6. AgedFeed(seq, t) = IF SweepDue(t) THEN kept[Len(seq)] ELSE seq  BY DEF AgedFeed
<1> HIDE DEF kept
<1> QED BY <1>1, <1>5, <1>6

FlEvents == [type: {"buffer", "failover", "play"}, at: Nat \ {0}, n: Nat]
FlLogs == [on: BOOLEAN, events: Seq(FlEvents), count: Nat, lastAt: Nat, sampled: Nat, tokens: Nat, refillAt: Nat]

FlTyped ==
    /\ clock \in Nat \ {0} /\ swept \in Nat /\ swept <= clock /\ served \in Nat
    /\ logs \in [Plays -> FlLogs] /\ feed \in Seq(FlEvents)
    /\ batch \in [Batches -> [pc: {"idle", "sends", "ended"}, play: Plays, left: Int]]
    /\ spent \in [Plays -> [n: Nat, since: Nat]]

\* A timeline holds the last of its events, and of the sampled ones no two are
\* too close and none is later than the time it remembers.
Chained(log) ==
    /\ Len(log.events) = (IF log.count <= MaxKept THEN log.count ELSE MaxKept)
    /\ \A i \in 1 .. Len(log.events) : log.events[i].n = log.count - Len(log.events) + i - 1
Sampled(log) ==
    /\ \A i \in 1 .. Len(log.events) :
          log.events[i].type = "buffer" => log.events[i].at <= log.sampled
    /\ \A i, j \in 1 .. Len(log.events) :
          i < j /\ log.events[i].type = "buffer" /\ log.events[j].type = "buffer" =>
             log.events[i].at + Every <= log.events[j].at
LogGood(log) == log \in FlLogs /\ (log.on = FALSE => log = NoLog) /\ Chained(log) /\ Sampled(log)

\* A timeline that was idle for the retention does not outlive a sweep.
Lively(log, when) == log.on = TRUE => log.lastAt + Retention >= when

\* What was admitted and what is left is a burst and what has come back.
Paid(log, sp) ==
    /\ log.refillAt <= clock
    /\ log.refillAt = 0 => sp.n = 0 /\ log.tokens = 0
    /\ log.refillAt # 0 => sp.since <= log.refillAt
                           /\ log.tokens + sp.n <= Max(Bursts) + (log.refillAt - sp.since)

Small(ls) == IsFiniteSet(Timelines(ls)) /\ Cardinality(Timelines(ls)) <= MaxPlays

FlInv ==
    /\ FlTyped /\ Small(logs) /\ Len(feed) <= NotableKeep
    /\ \A s \in Plays : LogGood(logs[s]) /\ Lively(logs[s], swept) /\ Paid(logs[s], spent[s])

\* A timeline that is not there.
LEMMA NoLogGood == LogGood(NoLog) /\ \A t : Lively(NoLog, t)
<1>1. <<>> \in Seq(FlEvents) /\ Len(<<>>) = 0  BY EmptySeq
<1>2. NoLog \in FlLogs /\ NoLog.events = <<>> /\ NoLog.count = 0 /\ NoLog.on = FALSE
  BY <1>1 DEF NoLog, FlLogs
<1> QED BY <1>1, <1>2, FlightAssumption DEF LogGood, Chained, Sampled, Lively

\* A timeline that is just opened.
NewLog(t) == [NoLog EXCEPT !.on = TRUE, !.lastAt = t]

LEMMA NewLogGood ==
    ASSUME NEW t \in Nat
    PROVE  /\ LogGood(NewLog(t)) /\ NewLog(t).on = TRUE /\ NewLog(t).lastAt = t
           /\ NewLog(t).refillAt = 0 /\ NewLog(t).tokens = 0
<1>1. <<>> \in Seq(FlEvents) /\ Len(<<>>) = 0  BY EmptySeq
<1>2. /\ NewLog(t) \in FlLogs /\ NewLog(t).events = <<>> /\ NewLog(t).count = 0 /\ NewLog(t).on = TRUE
      /\ NewLog(t).lastAt = t /\ NewLog(t).refillAt = 0 /\ NewLog(t).tokens = 0
  BY <1>1 DEF NewLog, NoLog, FlLogs
<1> QED BY <1>1, <1>2, FlightAssumption DEF LogGood, Chained, Sampled

\* Who records may have read the clock a tick ago.
LEMMA TimesAre == ASSUME FlTyped, NEW t \in Times PROVE t \in Nat \ {0} /\ t <= clock /\ clock <= t + 1
BY DEF FlTyped, Times

\* Opening a timeline leaves every other one as it is or drops it.
LEMMA OpenedKeeps ==
    ASSUME NEW old \in [Plays -> FlLogs], Small(old), NEW s \in Plays, NEW t \in Nat,
           NEW ls \in Opened(old, s, t)
    PROVE  /\ ls \in [Plays -> FlLogs] /\ Small(ls)
           /\ ls[s] \in {old[s], NewLog(t)} /\ ls[s].on = TRUE
           /\ (old[s].on = TRUE => ls[s] = old[s])
           /\ \A o \in Plays \ {s} : ls[o] \in {old[o], NoLog}
<1> USE FlightAssumption
<1>1. NewLog(t) \in FlLogs /\ NewLog(t).on = TRUE /\ NoLog \in FlLogs /\ NoLog.on = FALSE
  BY NewLogGood, NoLogGood DEF LogGood, NoLog
<1>2. old[s].on \in BOOLEAN /\ \A o \in Plays : old[o] \in FlLogs  BY DEF FlLogs
<1>3. IsFiniteSet(Timelines(old)) /\ Cardinality(Timelines(old)) \in Nat
      /\ Cardinality(Timelines(old)) <= MaxPlays /\ MaxPlays \in Nat \ {0}
  BY FS_CardinalityType DEF Small
<1>4. CASE old[s].on = TRUE
  <2>1. ls = old  BY <1>4 DEF Opened
  <2> QED BY <1>4, <2>1
<1>5. CASE old[s].on = FALSE /\ Cardinality(Timelines(old)) < MaxPlays
  <2>1. ls = [old EXCEPT ![s] = NewLog(t)]  BY <1>5 DEF Opened, NewLog
  <2>2. ls \in [Plays -> FlLogs] /\ ls[s] = NewLog(t) /\ \A o \in Plays \ {s} : ls[o] = old[o]
    BY <1>1, <2>1
  <2>3. Timelines(ls) = Timelines(old) \cup {s} /\ s \notin Timelines(old)
    BY <1>1, <1>5, <2>2 DEF Timelines
  <2>4. IsFiniteSet(Timelines(ls)) /\ Cardinality(Timelines(ls)) = Cardinality(Timelines(old)) + 1
    BY <1>3, <2>3, FS_AddElement
  <2>5. Small(ls)  BY <1>3, <1>5, <2>4 DEF Small
  <2> QED BY <1>1, <1>5, <2>2, <2>5
<1>6. CASE old[s].on = FALSE /\ ~(Cardinality(Timelines(old)) < MaxPlays)
  <2>1. PICK v \in Idlest(old) : ls = [old EXCEPT ![s] = NewLog(t), ![v] = NoLog]
    BY <1>6 DEF Opened, NewLog
  <2>2. v \in Timelines(old) /\ v \in Plays /\ v # s  BY <1>6, <2>1 DEF Idlest, Timelines
  <2>3. /\ ls \in [Plays -> FlLogs] /\ ls[s] = NewLog(t) /\ ls[v] = NoLog
        /\ \A o \in Plays \ {s, v} : ls[o] = old[o]
    BY <1>1, <2>1, <2>2
  <2>4. Timelines(ls) = (Timelines(old) \ {v}) \cup {s} /\ s \notin Timelines(old) \ {v}
    BY <1>1, <1>6, <2>2, <2>3 DEF Timelines
  <2>5. IsFiniteSet(Timelines(old) \ {v}) /\ Cardinality(Timelines(old) \ {v}) = Cardinality(Timelines(old)) - 1
    BY <1>3, <2>2, FS_RemoveElement
  <2>6. IsFiniteSet(Timelines(ls)) /\ Cardinality(Timelines(ls)) = Cardinality(Timelines(old) \ {v}) + 1
    BY <2>4, <2>5, FS_AddElement
  <2>7. Small(ls)  BY <1>3, <2>5, <2>6 DEF Small
  <2>8. \A o \in Plays \ {s} : ls[o] \in {old[o], NoLog}  BY <2>3
  <2> QED BY <1>1, <1>6, <2>2, <2>3, <2>7, <2>8
<1> QED BY <1>2, <1>4, <1>5, <1>6

\* A timeline with one event more.
Written(log, typ, t) ==
    [log EXCEPT !.events = LastOf(Append(@, [type |-> typ, at |-> t, n |-> log.count]), MaxKept),
                !.count = @ + 1, !.lastAt = t, !.sampled = IF typ = "buffer" THEN t ELSE @]

LEMMA WrittenGood ==
    ASSUME NEW log, LogGood(log), log.on = TRUE,
           NEW typ \in {"buffer", "failover", "play"}, NEW t \in Nat \ {0},
           ~(typ = "buffer" /\ log.sampled > 0 /\ t < log.sampled + Every)
    PROVE  /\ LogGood(Written(log, typ, t)) /\ Written(log, typ, t).on = TRUE
           /\ Written(log, typ, t).lastAt = t
           /\ Written(log, typ, t).tokens = log.tokens /\ Written(log, typ, t).refillAt = log.refillAt
<1> DEFINE e == [type |-> typ, at |-> t, n |-> log.count]
           old == log.events
           all == Append(old, e)
           es == LastOf(all, MaxKept)
           new == Written(log, typ, t)
           size == IF log.count <= MaxKept THEN log.count ELSE MaxKept
           nextSize == IF log.count + 1 <= MaxKept THEN log.count + 1 ELSE MaxKept
<1>0. /\ log \in FlLogs /\ old \in Seq(FlEvents) /\ log.count \in Nat /\ log.sampled \in Nat
      /\ log.tokens \in Nat /\ log.refillAt \in Nat /\ MaxKept \in Nat \ {0} /\ Every \in Nat
  BY FlightAssumption DEF LogGood, FlLogs
<1>1. e \in FlEvents  BY <1>0 DEF FlEvents
<1>2. Len(old) = size /\ size \in Nat /\ size <= MaxKept /\ size <= log.count
  BY <1>0 DEF LogGood, Chained
<1>3. /\ all \in Seq(FlEvents) /\ Len(all) = size + 1 /\ all[size + 1] = e
      /\ \A i \in 1 .. size : all[i] = old[i]
  <2> HIDE DEF e, old, size
  <2> QED BY <1>0, <1>1, <1>2, AppendProperties
<1>4. nextSize = (IF size + 1 > MaxKept THEN MaxKept ELSE size + 1) /\ nextSize \in Nat \ {0}
      /\ nextSize <= size + 1
  BY <1>0
<1>5. /\ es \in Seq(FlEvents) /\ Len(es) = nextSize
      /\ \A i \in 1 .. nextSize : es[i] = all[size + 1 - nextSize + i]
  <2> HIDE DEF all, size, nextSize
  <2> DEFINE kept == IF Len(all) > MaxKept THEN MaxKept ELSE Len(all)
  <2>1. /\ es \in Seq(FlEvents) /\ Len(es) = kept
        /\ \A i \in 1 .. kept : es[i] = all[Len(all) - kept + i]
    BY <1>0, <1>3, LastOfKeeps
  <2>2. kept = nextSize  BY <1>3, <1>4
  <2> HIDE DEF kept, es
  <2>3. es \in Seq(FlEvents) /\ Len(es) = nextSize  BY <2>1, <2>2
  <2>4. \A i \in 1 .. nextSize : es[i] = all[Len(all) - nextSize + i]  BY <2>1, <2>2
  <2>5. Len(all) = size + 1  BY <1>3
  <2>6. ASSUME NEW i \in 1 .. nextSize PROVE es[i] = all[size + 1 - nextSize + i]
    <3>1. Len(all) - nextSize + i = size + 1 - nextSize + i  BY <1>2, <1>4, <2>5
    <3> QED BY <2>4, <3>1
  <2> QED BY <2>3, <2>6
<1>6. /\ new \in FlLogs /\ new.events = es /\ new.count = log.count + 1 /\ new.lastAt = t /\ new.on = TRUE
      /\ new.sampled = (IF typ = "buffer" THEN t ELSE log.sampled)
      /\ new.tokens = log.tokens /\ new.refillAt = log.refillAt
  <2> HIDE DEF all, es
  <2>1. new = [log EXCEPT !.events = es, !.count = @ + 1, !.lastAt = t,
                          !.sampled = IF typ = "buffer" THEN t ELSE @]
    BY DEF Written, es, all
  <2>2. PICK sam \in Nat : sam = IF typ = "buffer" THEN t ELSE log.sampled  BY <1>0
  <2>3. new = [log EXCEPT !.events = es, !.count = @ + 1, !.lastAt = t, !.sampled = sam]
    BY <2>1, <2>2
  <2>4. /\ log \in FlLogs /\ es \in Seq(FlEvents) /\ log.count + 1 \in Nat /\ t \in Nat
        /\ log.on = TRUE
    BY <1>0, <1>5
  <2> HIDE DEF old, size, nextSize, new
  <2>5. new \in FlLogs  BY <2>2, <2>3, <2>4 DEF FlLogs
  <2>6. /\ new.events = es /\ new.count = log.count + 1 /\ new.lastAt = t /\ new.on = log.on
        /\ new.sampled = sam /\ new.tokens = log.tokens /\ new.refillAt = log.refillAt
    BY <2>3, <2>4 DEF FlLogs
  <2> QED BY <2>2, <2>4, <2>5, <2>6
<1>7. \A i \in 1 .. nextSize : \/ i = nextSize /\ es[i] = e
                               \/ i < nextSize /\ size + 1 - nextSize + i \in 1 .. size
                                  /\ es[i] = old[size + 1 - nextSize + i]
  <2> SUFFICES ASSUME NEW i \in 1 .. nextSize
               PROVE  \/ i = nextSize /\ es[i] = e
                      \/ i < nextSize /\ size + 1 - nextSize + i \in 1 .. size
                         /\ es[i] = old[size + 1 - nextSize + i]
    OBVIOUS
  <2> HIDE DEF e, old, all, es, size, nextSize
  <2>1. CASE i = nextSize
    <3>1. size + 1 - nextSize + i = size + 1  BY <1>2, <1>4, <2>1
    <3> QED BY <1>3, <1>5, <2>1, <3>1
  <2>2. CASE i # nextSize
    <3>1. i < nextSize /\ size + 1 - nextSize + i \in 1 .. size  BY <1>2, <1>4, <2>2
    <3> QED BY <1>3, <1>5, <3>1
  <2> QED BY <2>1, <2>2
<1>8. \A i \in 1 .. size : old[i] \in FlEvents /\ old[i].n = log.count - size + i - 1
                           /\ (old[i].type = "buffer" => old[i].at <= log.sampled)
  <2>1. \A i \in 1 .. size : old[i] \in FlEvents
    <3> HIDE DEF old, size
    <3> QED BY <1>0, <1>2, ElementOfSeq
  <2> QED BY <1>2, <2>1 DEF LogGood, Chained, Sampled
<1>9. e.type = typ /\ e.at = t /\ e.n = log.count  OBVIOUS
<1>10. Chained(new)
  <2>1. Len(new.events) = (IF new.count <= MaxKept THEN new.count ELSE MaxKept)  BY <1>5, <1>6
  <2>2. ASSUME NEW i \in 1 .. nextSize PROVE es[i].n = (log.count + 1) - nextSize + i - 1
    <3> HIDE DEF e, old, all, es, new
    <3>1. CASE i = nextSize /\ es[i] = e  BY <1>0, <1>4, <1>9, <3>1
    <3>2. CASE i < nextSize /\ size + 1 - nextSize + i \in 1 .. size /\ es[i] = old[size + 1 - nextSize + i]
      <4>1. es[i].n = log.count - size + (size + 1 - nextSize + i) - 1  BY <1>8, <3>2
      <4> HIDE DEF size, nextSize
      <4> QED BY <1>0, <1>2, <1>4, <4>1
    <3> HIDE DEF size, nextSize
    <3> QED BY <1>7, <3>1, <3>2
  <2> HIDE DEF e, all, es, new
  <2> QED BY <1>5, <1>6, <2>1, <2>2 DEF Chained
<1>11. \A i \in 1 .. size : old[i].type = "buffer" /\ typ = "buffer" => old[i].at + Every <= t
  <2> SUFFICES ASSUME NEW i \in 1 .. size, old[i].type = "buffer", typ = "buffer"
               PROVE  old[i].at + Every <= t
    OBVIOUS
  <2>1. old[i].at \in Nat \ {0} /\ old[i].at <= log.sampled  BY <1>8 DEF FlEvents
  <2>2. log.sampled > 0 /\ ~(t < log.sampled + Every)  BY <1>0, <2>1
  <2> HIDE DEF old, size
  <2> QED BY <1>0, <2>1, <2>2
<1>12. Sampled(new)
  <2> HIDE DEF e, old, all, es, size, nextSize, new
  <2>1. ASSUME NEW i \in 1 .. nextSize, es[i].type = "buffer" PROVE es[i].at <= new.sampled
    <3>1. CASE i = nextSize /\ es[i] = e  BY <1>6, <1>9, <2>1, <3>1
    <3>2. CASE size + 1 - nextSize + i \in 1 .. size /\ es[i] = old[size + 1 - nextSize + i]
      <4>1. PICK k \in 1 .. size : es[i] = old[k]  BY <3>2
      <4>2. old[k].type = "buffer" /\ old[k].at <= log.sampled /\ old[k].at \in Nat
        BY <1>8, <2>1, <4>1 DEF FlEvents
      <4>3. CASE typ = "buffer"
        <5>1. old[k].at + Every <= t  BY <1>11, <4>2, <4>3
        <5> QED BY <1>0, <1>6, <4>1, <4>2, <4>3, <5>1
      <4>4. CASE typ # "buffer"  BY <1>6, <4>1, <4>2, <4>4
      <4> QED BY <4>3, <4>4
    <3> QED BY <1>7, <3>1, <3>2
  <2>2. ASSUME NEW i \in 1 .. nextSize, NEW j \in 1 .. nextSize, i < j, es[i].type = "buffer", es[j].type = "buffer"
        PROVE  es[i].at + Every <= es[j].at
    <3> DEFINE p == size + 1 - nextSize + i
               q == size + 1 - nextSize + j
    <3>1. i < nextSize /\ p \in 1 .. size /\ es[i] = old[p]
      <4>1. i # nextSize  BY <1>4, <2>2
      <4> QED BY <1>7, <4>1
    <3>2. CASE j = nextSize /\ es[j] = e
      <4>1. old[p].type = "buffer" /\ typ = "buffer"  BY <1>9, <2>2, <3>1, <3>2
      <4> HIDE DEF p
      <4> QED BY <1>9, <1>11, <3>1, <3>2, <4>1
    <3>3. CASE q \in 1 .. size /\ es[j] = old[q]
      <4>1. p < q  BY <1>2, <1>4, <2>2
      <4>2. old[p].type = "buffer" /\ old[q].type = "buffer"  BY <2>2, <3>1, <3>3
      <4> HIDE DEF p, q
      <4>3. old[p].at + Every <= old[q].at
        BY <1>2, <3>1, <3>3, <4>1, <4>2 DEF LogGood, Sampled, old
      <4> QED BY <3>1, <3>3, <4>3
    <3> QED BY <1>7, <3>2, <3>3
  <2> QED BY <1>5, <1>6, <2>1, <2>2 DEF Sampled
<1> QED BY <1>6, <1>10, <1>12 DEF LogGood

\* Whoever opens a timeline carries over what was spent of those that stay.
LEMMA OpenedPaid ==
    ASSUME FlInv, NEW old \in [Plays -> FlLogs], \A o \in Plays : old[o] \in {logs[o], NoLog},
           Small(old), NEW s \in Plays, NEW t \in Times, NEW ls \in Opened(old, s, t)
    PROVE  /\ ls \in [Plays -> FlLogs] /\ Small(ls)
           /\ \A o \in Plays : LogGood(ls[o]) /\ Paid(ls[o], StillSpent(old, ls)[o])
           /\ StillSpent(old, ls) \in [Plays -> [n: Nat, since: Nat]]
           /\ ls[s].on = TRUE
           /\ \A o \in Plays : ls[o] \in {old[o], NoLog} \/ ls[o].lastAt = t
<1> DEFINE sp == StillSpent(old, ls)
<1>0. /\ clock \in Nat \ {0} /\ spent \in [Plays -> [n: Nat, since: Nat]]
      /\ \A o \in Plays : LogGood(logs[o]) /\ Paid(logs[o], spent[o])
      /\ t \in Nat
  BY TimesAre DEF FlInv, FlTyped
<1>1. /\ ls \in [Plays -> FlLogs] /\ Small(ls)
      /\ ls[s] \in {old[s], NewLog(t)} /\ ls[s].on = TRUE
      /\ (old[s].on = TRUE => ls[s] = old[s])
      /\ \A o \in Plays \ {s} : ls[o] \in {old[o], NoLog}
  BY <1>0, OpenedKeeps
<1>2. /\ LogGood(NoLog) /\ LogGood(NewLog(t)) /\ NewLog(t).on = TRUE /\ NewLog(t).lastAt = t
      /\ NewLog(t).refillAt = 0 /\ NewLog(t).tokens = 0
      /\ NoLog.on = FALSE /\ NoLog.refillAt = 0 /\ NoLog.tokens = 0
  BY <1>0, NoLogGood, NewLogGood DEF NoLog
<1>3. \A o \in Plays : LogGood(old[o])  BY <1>0, <1>2
<1>4. \A o \in Plays : LogGood(ls[o])  BY <1>1, <1>2, <1>3
<1>5. ls[s].on = TRUE  BY <1>1
<1>6. Nothing \in [n: Nat, since: Nat] /\ Nothing.n = 0  BY DEF Nothing
<1>7. sp \in [Plays -> [n: Nat, since: Nat]]
  <2>1. \A o \in Plays : sp[o] \in {spent[o], Nothing}  BY DEF StillSpent
  <2> QED BY <1>0, <1>6, <2>1 DEF StillSpent
<1>8. ASSUME NEW o \in Plays PROVE Paid(ls[o], sp[o])
  <2>1. /\ ls[o].on \in BOOLEAN /\ old[o].on \in BOOLEAN
        /\ (ls[o].on = FALSE => ls[o] = NoLog) /\ (old[o].on = FALSE => old[o] = NoLog)
    BY <1>3, <1>4 DEF LogGood, FlLogs
  <2>2. CASE ls[o].on = TRUE /\ old[o].on = TRUE
    <3>1. sp[o] = spent[o]  BY <2>2 DEF StillSpent
    <3>2. ls[o] = old[o] /\ old[o] = logs[o]  BY <1>1, <1>2, <2>2
    <3> QED BY <1>0, <3>1, <3>2
  <2>3. CASE ~(ls[o].on = TRUE /\ old[o].on = TRUE)
    <3>1. sp[o] = Nothing  BY <2>1, <2>3 DEF StillSpent
    <3>2. ls[o] = NoLog \/ (o = s /\ ls[o] = NewLog(t))
      <4>1. CASE o = s  BY <1>1, <1>5, <2>1, <2>3, <4>1
      <4>2. CASE o # s  BY <1>1, <2>1, <2>3, <4>2
      <4> QED BY <4>1, <4>2
    <3>3. ls[o].refillAt = 0 /\ ls[o].tokens = 0  BY <1>2, <3>2
    <3> QED BY <1>0, <1>6, <3>1, <3>3 DEF Paid
  <2> QED BY <2>2, <2>3
<1>9. \A o \in Plays : ls[o] \in {old[o], NoLog} \/ ls[o].lastAt = t
  BY <1>1, <1>2
<1> QED BY <1>1, <1>4, <1>5, <1>7, <1>8, <1>9

\* What a sweep leaves.
LEMMA SweptKeeps ==
    ASSUME FlInv, NEW t \in Times
    PROVE  /\ Swept(logs, t) \in [Plays -> FlLogs] /\ Small(Swept(logs, t))
           /\ \A o \in Plays : Swept(logs, t)[o] \in {logs[o], NoLog}
           /\ \A o \in Plays : Lively(Swept(logs, t)[o], IF SweepDue(t) THEN t ELSE swept)
<1> DEFINE ls == Swept(logs, t)
<1>0. /\ logs \in [Plays -> FlLogs] /\ Small(logs) /\ t \in Nat /\ Retention \in Nat
      /\ \A o \in Plays : Lively(logs[o], swept)
  BY TimesAre, FlightAssumption DEF FlInv, FlTyped
<1>1. LogGood(NoLog) /\ NoLog \in FlLogs /\ NoLog.on = FALSE  BY NoLogGood DEF LogGood, NoLog
<1>2. CASE SweepDue(t)
  <2>1. ls = [o \in Plays |-> IF logs[o].lastAt + Retention < t THEN NoLog ELSE logs[o]]
    BY <1>2 DEF Swept
  <2>2. \A o \in Plays : \/ ls[o] = NoLog
                         \/ ls[o] = logs[o] /\ ~(logs[o].lastAt + Retention < t)
    BY <2>1
  <2>3. ls \in [Plays -> FlLogs]  BY <1>0, <1>1, <2>1, <2>2
  <2>4. \A o \in Plays : Lively(ls[o], t)
    <3>1. \A o \in Plays : logs[o].lastAt \in Nat  BY <1>0 DEF FlLogs
    <3> QED BY <1>0, <1>1, <2>2, <3>1 DEF Lively
  <2>5. Timelines(ls) \in SUBSET Timelines(logs)  BY <1>1, <2>2 DEF Timelines
  <2>6. Small(ls)
    <3>1. /\ IsFiniteSet(Timelines(logs)) /\ Cardinality(Timelines(logs)) \in Nat
          /\ Cardinality(Timelines(logs)) <= MaxPlays
      BY <1>0, FS_CardinalityType DEF Small
    <3>2. /\ IsFiniteSet(Timelines(ls)) /\ Cardinality(Timelines(ls)) <= Cardinality(Timelines(logs))
          /\ Cardinality(Timelines(ls)) \in Nat
      BY <2>5, <3>1, FS_Subset, FS_CardinalityType
    <3> QED BY <3>1, <3>2, FlightAssumption DEF Small
  <2> QED BY <1>2, <2>2, <2>3, <2>4, <2>6
<1>3. CASE ~SweepDue(t)
  <2>1. ls = logs  BY <1>3 DEF Swept
  <2> QED BY <1>0, <1>3, <2>1
<1> QED BY <1>2, <1>3

\* One event is recorded, or sampled out.
LEMMA RecordKeeps ==
    ASSUME FlInv, NEW s \in Plays, NEW typ \in {"buffer", "failover", "play"}, NEW t \in Times,
           Record(s, typ, t), clock' = clock
    PROVE  /\ logs' \in [Plays -> FlLogs] /\ Small(logs') /\ spent' \in [Plays -> [n: Nat, since: Nat]]
           /\ swept' \in Nat /\ swept' <= clock
           /\ feed' \in Seq(FlEvents) /\ Len(feed') <= NotableKeep
           /\ \A o \in Plays : LogGood(logs[o])' /\ Lively(logs[o], swept)' /\ Paid(logs[o], spent[o])'
           /\ \A o \in Timelines(logs') : logs'[o].lastAt + Retention + SweepEvery >= clock
<1> DEFINE kept == Swept(logs, t)
           when == IF SweepDue(t) THEN t ELSE swept
<1>0. /\ clock \in Nat \ {0} /\ swept \in Nat /\ swept <= clock /\ Retention \in Nat \ {0}
      /\ SweepEvery \in Nat \ {0} /\ t \in Nat \ {0} /\ t <= clock /\ clock <= t + 1
      /\ feed \in Seq(FlEvents) /\ Len(feed) <= NotableKeep /\ NotableKeep \in Nat \ {0}
  BY TimesAre, FlightAssumption DEF FlInv, FlTyped
<1>1. /\ kept \in [Plays -> FlLogs] /\ Small(kept) /\ \A o \in Plays : kept[o] \in {logs[o], NoLog}
      /\ \A o \in Plays : Lively(kept[o], when)
  BY SweptKeeps
<1>2. PICK ls \in Opened(kept, s, t) :
        /\ swept' = when /\ spent' = StillSpent(kept, ls)
        /\ IF typ = "buffer" /\ ls[s].sampled > 0 /\ t < ls[s].sampled + Every
           THEN logs' = ls /\ feed' = AgedFeed(feed, t)
           ELSE /\ logs' = [ls EXCEPT ![s] = Written(ls[s], typ, t)]
                /\ feed' = (IF typ = "failover"
                            THEN LastOf(Append(AgedFeed(feed, t), [type |-> typ, at |-> t, n |-> ls[s].count]),
                                        NotableKeep)
                            ELSE AgedFeed(feed, t))
  BY DEF Record, Written
<1>3. /\ ls \in [Plays -> FlLogs] /\ Small(ls)
      /\ \A o \in Plays : LogGood(ls[o]) /\ Paid(ls[o], StillSpent(kept, ls)[o])
      /\ StillSpent(kept, ls) \in [Plays -> [n: Nat, since: Nat]]
      /\ ls[s].on = TRUE
      /\ \A o \in Plays : ls[o] \in {kept[o], NoLog} \/ ls[o].lastAt = t
  <2>1. ls \in Opened(kept, s, t)  BY <1>2
  <2> HIDE DEF kept
  <2>2. FlInv /\ s \in Plays /\ t \in Times  OBVIOUS
  <2>3. ls \in [Plays -> FlLogs]  BY <1>1, <2>1, <2>2, OpenedPaid, Zenon
  <2>4. Small(ls)  BY <1>1, <2>1, <2>2, OpenedPaid, Zenon
  <2>5. \A o \in Plays : LogGood(ls[o]) /\ Paid(ls[o], StillSpent(kept, ls)[o])
    BY <1>1, <2>1, <2>2, OpenedPaid, Zenon
  <2>6. StillSpent(kept, ls) \in [Plays -> [n: Nat, since: Nat]]
    BY <1>1, <2>1, <2>2, OpenedPaid, Zenon
  <2>7. ls[s].on = TRUE  BY <1>1, <2>1, <2>2, OpenedPaid, Zenon
  <2>8. \A o \in Plays : ls[o] \in {kept[o], NoLog} \/ ls[o].lastAt = t
    <3>1. \A o \in Plays \ {s} : ls[o] \in {kept[o], NoLog}  BY <1>0, <1>1, <2>1, OpenedKeeps
    <3>2. ls[s] \in {kept[s], NewLog(t)}  BY <1>0, <1>1, <2>1, OpenedKeeps
    <3>3. NewLog(t).lastAt = t  BY <1>0, NewLogGood
    <3> QED BY <3>1, <3>2, <3>3
  <2> QED BY <2>3, <2>4, <2>5, <2>6, <2>7, <2>8
<1> HIDE DEF kept
<1>4. when \in Nat /\ when <= clock /\ t + Retention >= when /\ when + SweepEvery >= clock
  BY <1>0 DEF SweepDue
<1> HIDE DEF when
<1>5. PICK new : /\ logs' = [ls EXCEPT ![s] = new] /\ LogGood(new) /\ new.on = TRUE
                 /\ new.tokens = ls[s].tokens /\ new.refillAt = ls[s].refillAt
                 /\ new = ls[s] \/ new.lastAt = t
  <2>1. CASE typ = "buffer" /\ ls[s].sampled > 0 /\ t < ls[s].sampled + Every
    <3>1. logs' = [ls EXCEPT ![s] = ls[s]]  BY <1>2, <1>3, <2>1
    <3> QED BY <1>3, <3>1
  <2>2. CASE ~(typ = "buffer" /\ ls[s].sampled > 0 /\ t < ls[s].sampled + Every)
    <3> DEFINE new == Written(ls[s], typ, t)
    <3>1. logs' = [ls EXCEPT ![s] = new]  BY <1>2, <2>2
    <3>2. /\ LogGood(new) /\ new.on = TRUE /\ new.lastAt = t
          /\ new.tokens = ls[s].tokens /\ new.refillAt = ls[s].refillAt
      <4>1. LogGood(ls[s]) /\ ls[s].on = TRUE  BY <1>3
      <4>2. t \in Nat \ {0}  BY <1>0
      <4>3. LogGood(new)  BY <4>1, <4>2, <2>2, WrittenGood, Zenon
      <4>4. new.on = TRUE  BY <1>3 DEF Written, FlLogs
      <4>5. new.lastAt = t  BY <1>3 DEF Written, FlLogs
      <4>6. new.tokens = ls[s].tokens  BY <1>3 DEF Written, FlLogs
      <4>7. new.refillAt = ls[s].refillAt  BY <1>3 DEF Written, FlLogs
      <4> QED BY <4>3, <4>4, <4>5, <4>6, <4>7
    <3> HIDE DEF new
    <3> QED BY <3>1, <3>2
  <2> QED BY <2>1, <2>2
<1>6. new \in FlLogs  BY <1>5 DEF LogGood
<1>7. logs' \in [Plays -> FlLogs] /\ logs'[s] = new /\ \A o \in Plays \ {s} : logs'[o] = ls[o]
  BY <1>3, <1>5, <1>6
<1>8. Small(logs')
  <2>1. Timelines(logs') = Timelines(ls)  BY <1>3, <1>5, <1>7 DEF Timelines
  <2> QED BY <1>3, <2>1 DEF Small
<1>9. /\ feed' \in Seq(FlEvents) /\ Len(feed') <= NotableKeep
  <2> DEFINE aged == AgedFeed(feed, t)
             e == [type |-> typ, at |-> t, n |-> ls[s].count]
  <2>1. aged \in Seq(FlEvents) /\ Len(aged) <= NotableKeep
    <3>1. aged \in Seq(FlEvents) /\ Len(aged) <= Len(feed)  BY <1>0, AgedFeedFits
    <3>2. Len(aged) \in Nat /\ Len(feed) \in Nat  BY <1>0, <3>1, LenProperties
    <3> QED BY <1>0, <3>1, <3>2
  <2>2. e \in FlEvents  BY <1>0, <1>3 DEF FlEvents, FlLogs
  <2> HIDE DEF aged, e
  <2>3. Append(aged, e) \in Seq(FlEvents)  BY <2>1, <2>2, AppendProperties
  <2>4. LastOf(Append(aged, e), NotableKeep) \in Seq(FlEvents) /\ Len(LastOf(Append(aged, e), NotableKeep)) <= NotableKeep
    <3>1. Len(Append(aged, e)) \in Nat  BY <2>3, LenProperties
    <3>2. /\ LastOf(Append(aged, e), NotableKeep) \in Seq(FlEvents)
          /\ Len(LastOf(Append(aged, e), NotableKeep))
               = IF Len(Append(aged, e)) > NotableKeep THEN NotableKeep ELSE Len(Append(aged, e))
      BY <1>0, <2>3, LastOfKeeps
    <3> QED BY <1>0, <3>1, <3>2
  <2>5. feed' = aged \/ feed' = LastOf(Append(aged, e), NotableKeep)
    BY <1>2 DEF aged, e
  <2> QED BY <2>1, <2>4, <2>5
<1>10. \A o \in Plays : LogGood(logs'[o])
  BY <1>3, <1>5, <1>7
<1>11. \A o \in Plays : Lively(logs'[o], when)
  <2> SUFFICES ASSUME NEW o \in Plays PROVE Lively(logs'[o], when)  OBVIOUS
  <2>1. logs'[o] \in {kept[o], NoLog} \/ logs'[o].lastAt = t
    BY <1>3, <1>5, <1>7
  <2>2. Lively(NoLog, when)  BY NoLogGood
  <2> QED BY <1>1, <1>4, <2>1, <2>2 DEF Lively
<1>12. ASSUME NEW o \in Plays PROVE Paid(logs[o], spent[o])'
  <2>1. logs'[o].tokens = ls[o].tokens /\ logs'[o].refillAt = ls[o].refillAt
    BY <1>5, <1>7
  <2>2. Paid(ls[o], spent'[o])  BY <1>2, <1>3
  <2> QED BY <2>1, <2>2 DEF Paid
<1>13. ASSUME NEW o \in Timelines(logs') PROVE logs'[o].lastAt + Retention + SweepEvery >= clock
  <2>1. o \in Plays /\ logs'[o].on = TRUE /\ logs'[o].lastAt \in Nat
    BY <1>7 DEF Timelines, FlLogs
  <2>2. logs'[o].lastAt + Retention >= when  BY <1>11, <2>1 DEF Lively
  <2>3. /\ Retention \in Nat /\ SweepEvery \in Nat /\ clock \in Nat
        /\ when \in Nat /\ when + SweepEvery >= clock
    BY <1>0, <1>4
  <2>4. PICK last \in Nat : last = logs'[o].lastAt  BY <2>1
  <2>5. last + Retention >= when  BY <2>2, <2>4
  <2>6. last + Retention + SweepEvery >= clock  BY <2>3, <2>5
  <2> QED BY <2>4, <2>6
<1>14. \A o \in Plays : LogGood(logs[o])' /\ Lively(logs[o], swept)'
  BY <1>2, <1>10, <1>11 DEF LogGood, Lively, Chained, Sampled
<1> QED BY <1>2, <1>3, <1>4, <1>7, <1>8, <1>9, <1>12, <1>13, <1>14

\* What comes back to a budget is no more than the time that passed.
LEMMA RefillGood ==
    ASSUME NEW log \in FlLogs, NEW burst \in Bursts, NEW t \in Nat \ {0}
    PROVE  \E k \in Nat, r \in Nat :
             /\ Refill(log, burst, t) = [log EXCEPT !.tokens = k, !.refillAt = r]
             /\ log.refillAt = 0 => k <= Max(Bursts) /\ r = t
             /\ log.refillAt # 0 => /\ log.refillAt <= r /\ (r <= t \/ r = log.refillAt)
                                    /\ k <= log.tokens + (r - log.refillAt)
<1> DEFINE Fine(k, r) ==
             /\ Refill(log, burst, t) = [log EXCEPT !.tokens = k, !.refillAt = r]
             /\ log.refillAt = 0 => k <= Max(Bursts) /\ r = t
             /\ log.refillAt # 0 => /\ log.refillAt <= r /\ (r <= t \/ r = log.refillAt)
                                    /\ k <= log.tokens + (r - log.refillAt)
<1>0. /\ burst \in Nat /\ burst <= Max(Bursts) /\ log.refillAt \in Nat /\ log.tokens \in Nat
  BY BurstsHaveMax, FlightAssumption DEF FlLogs
<1> SUFFICES \E k \in Nat, r \in Nat : Fine(k, r)  OBVIOUS
<1>1. CASE log.refillAt = 0
  <2>1. Refill(log, burst, t) = [log EXCEPT !.tokens = burst, !.refillAt = t]  BY <1>1 DEF Refill
  <2>2. Fine(burst, t)  BY <1>0, <1>1, <2>1
  <2>3. burst \in Nat /\ t \in Nat  BY <1>0
  <2> HIDE DEF Fine
  <2> QED BY <2>2, <2>3, Zenon
<1>2. CASE log.refillAt # 0 /\ log.refillAt < t
  <2> DEFINE more == log.tokens + (t - log.refillAt)
             k == Min({burst, more})
  <2>1. more \in Nat  BY <1>0, <1>2
  <2> HIDE DEF more
  <2>2. k \in Nat /\ k <= more  BY <1>0, <2>1, TwoIsMin
  <2> HIDE DEF k
  <2>3. Refill(log, burst, t) = [log EXCEPT !.tokens = k, !.refillAt = t]
    BY <1>2 DEF Refill, k, more
  <2>4. k <= log.tokens + (t - log.refillAt)  BY <2>2 DEF more
  <2>5. Fine(k, t)  BY <1>0, <1>2, <2>3, <2>4
  <2> HIDE DEF Fine
  <2>6. \E v \in Nat : Fine(v, t)  BY <2>2, <2>5, Zenon
  <2>7. t \in Nat  OBVIOUS
  <2> QED BY <2>6, <2>7, Zenon
<1>3. CASE log.refillAt # 0 /\ ~(log.refillAt < t)
  <2>1. Refill(log, burst, t) = log  BY <1>3 DEF Refill
  <2>2. log = [log EXCEPT !.tokens = log.tokens, !.refillAt = log.refillAt]  BY DEF FlLogs
  <2>3. Refill(log, burst, t) = [log EXCEPT !.tokens = log.tokens, !.refillAt = log.refillAt]
    BY <2>1, <2>2, Zenon
  <2>4. log.tokens <= log.tokens + (log.refillAt - log.refillAt)  BY <1>0
  <2>5. log.tokens \in Nat /\ log.refillAt \in Nat  BY <1>0
  <2>6. Fine(log.tokens, log.refillAt)  BY <1>0, <1>3, <2>3, <2>4
  <2> HIDE DEF Fine
  <2> QED BY <2>5, <2>6, Zenon
<1> QED BY <1>1, <1>2, <1>3

\* Admit takes from the budget what it lets in.
LEMMA FlAdmitted ==
    ASSUME FlInv, NEW b \in Batches, NEW s \in Plays, NEW n \in 1 .. Largest, NEW burst \in Bursts,
           NEW t \in Times, Admit(b, s, n, burst, t)
    PROVE  FlInv'
<1>0. /\ clock \in Nat \ {0} /\ swept \in Nat /\ swept <= clock /\ served \in Nat
      /\ t \in Nat \ {0} /\ t <= clock /\ clock <= t + 1 /\ Retention \in Nat \ {0}
      /\ logs \in [Plays -> FlLogs] /\ Small(logs)
      /\ batch \in [Batches -> [pc: {"idle", "sends", "ended"}, play: Plays, left: Int]]
      /\ \A o \in Plays : LogGood(logs[o]) /\ Lively(logs[o], swept)
      /\ n \in Nat /\ Max(Bursts) \in Nat
  <2>1. n \in Nat /\ Retention \in Nat \ {0}  BY FlightAssumption
  <2>2. Max(Bursts) \in Nat  BY BurstsHaveMax
  <2>3. t \in Nat \ {0} /\ t <= clock /\ clock <= t + 1  BY TimesAre DEF FlInv
  <2> QED BY <2>1, <2>2, <2>3 DEF FlInv, FlTyped
<1>1. UNCHANGED <<clock, feed, swept, served>>  BY DEF Admit
<1>2. PICK ls \in Opened(logs, s, t) : LET log == Refill(ls[s], burst, t)
                                           granted == Min({log.tokens, n}) IN
        /\ logs' = [ls EXCEPT ![s] = [log EXCEPT !.tokens = @ - granted]]
        /\ spent' = [StillSpent(logs, ls) EXCEPT ![s] =
             [n |-> @.n + granted, since |-> IF ls[s].refillAt = 0 THEN t ELSE @.since]]
        /\ batch' = [batch EXCEPT ![b] =
             [pc |-> IF granted = 0 THEN "ended" ELSE "sends", play |-> s, left |-> granted]]
  BY DEF Admit
<1> DEFINE sp == StillSpent(logs, ls)
<1>3. /\ ls \in [Plays -> FlLogs] /\ Small(ls)
      /\ \A o \in Plays : LogGood(ls[o]) /\ Paid(ls[o], sp[o])
      /\ sp \in [Plays -> [n: Nat, since: Nat]] /\ ls[s].on = TRUE
      /\ \A o \in Plays : ls[o] \in {logs[o], NoLog} \/ ls[o].lastAt = t
  <2>1. /\ ls \in Opened(logs, s, t) /\ \A o \in Plays : logs[o] \in {logs[o], NoLog}
        /\ logs \in [Plays -> FlLogs] /\ Small(logs)
    BY <1>0, <1>2
  <2>2. ls \in [Plays -> FlLogs]  BY <2>1, OpenedPaid, Zenon
  <2>3. Small(ls)  BY <2>1, OpenedPaid, Zenon
  <2>4. \A o \in Plays : LogGood(ls[o]) /\ Paid(ls[o], sp[o])  BY <2>1, OpenedPaid, Zenon
  <2>5. sp \in [Plays -> [n: Nat, since: Nat]]  BY <2>1, OpenedPaid, Zenon
  <2>6. ls[s].on = TRUE  BY <2>1, OpenedPaid, Zenon
  <2>7. \A o \in Plays : ls[o] \in {logs[o], NoLog} \/ ls[o].lastAt = t
    <3>1. t \in Nat  BY <1>0
    <3>2. \A o \in Plays \ {s} : ls[o] \in {logs[o], NoLog}  BY <2>1, <3>1, OpenedKeeps
    <3>3. ls[s] \in {logs[s], NewLog(t)}  BY <2>1, <3>1, OpenedKeeps
    <3>4. NewLog(t).lastAt = t  BY <3>1, NewLogGood
    <3> QED BY <3>2, <3>3, <3>4
  <2> QED BY <2>2, <2>3, <2>4, <2>5, <2>6, <2>7
<1> HIDE DEF sp
<1>4. PICK k \in Nat, r \in Nat :
        /\ Refill(ls[s], burst, t) = [ls[s] EXCEPT !.tokens = k, !.refillAt = r]
        /\ ls[s].refillAt = 0 => k <= Max(Bursts) /\ r = t
        /\ ls[s].refillAt # 0 => /\ ls[s].refillAt <= r /\ (r <= t \/ r = ls[s].refillAt)
                                 /\ k <= ls[s].tokens + (r - ls[s].refillAt)
  <2>1. ls[s] \in FlLogs /\ t \in Nat \ {0}  BY <1>0, <1>3
  <2>2. \E k \in Nat, r \in Nat :
          /\ Refill(ls[s], burst, t) = [ls[s] EXCEPT !.tokens = k, !.refillAt = r]
          /\ ls[s].refillAt = 0 => k <= Max(Bursts) /\ r = t
          /\ ls[s].refillAt # 0 => /\ ls[s].refillAt <= r /\ (r <= t \/ r = ls[s].refillAt)
                                   /\ k <= ls[s].tokens + (r - ls[s].refillAt)
    BY <2>1, RefillGood, ZenonT(60)
  <2> QED BY <2>2, Zenon
<1> DEFINE granted == Min({k, n})
<1>5. granted \in Nat /\ granted <= k  BY <1>0, TwoIsMin
<1> HIDE DEF granted
<1>6. ls[s] \in FlLogs /\ Refill(ls[s], burst, t).tokens = k  BY <1>3, <1>4 DEF FlLogs
<1> DEFINE new == [ls[s] EXCEPT !.tokens = k - granted, !.refillAt = r]
<1>7. logs' = [ls EXCEPT ![s] = new]
  <2>1. [Refill(ls[s], burst, t) EXCEPT !.tokens = @ - granted] = new  BY <1>4, <1>6 DEF FlLogs
  <2> QED BY <1>2, <1>6, <2>1 DEF granted
<1>8. /\ new \in FlLogs /\ new.events = ls[s].events /\ new.count = ls[s].count /\ new.on = TRUE
      /\ new.sampled = ls[s].sampled /\ new.lastAt = ls[s].lastAt
      /\ new.tokens = k - granted /\ new.refillAt = r
  <2>1. k - granted \in Nat  BY <1>5
  <2> QED BY <1>3, <1>6, <2>1 DEF FlLogs
<1> HIDE DEF new
<1>9. LogGood(new)
  <2>1. LogGood(ls[s])  BY <1>3
  <2> QED BY <1>8, <2>1 DEF LogGood, Chained, Sampled
<1>10. logs' \in [Plays -> FlLogs] /\ logs'[s] = new /\ \A o \in Plays \ {s} : logs'[o] = ls[o]
  BY <1>3, <1>7, <1>8
<1>11. Small(logs')
  <2>1. Timelines(logs') = Timelines(ls)  BY <1>3, <1>8, <1>10 DEF Timelines
  <2> QED BY <1>3, <2>1 DEF Small
<1> DEFINE paid == [n |-> sp[s].n + granted, since |-> IF ls[s].refillAt = 0 THEN t ELSE sp[s].since]
<1>12. spent' = [sp EXCEPT ![s] = paid]  BY <1>2, <1>3, <1>6 DEF granted, sp
<1>13. paid \in [n: Nat, since: Nat] /\ paid.n = sp[s].n + granted
       /\ paid.since = (IF ls[s].refillAt = 0 THEN t ELSE sp[s].since)
  BY <1>0, <1>3, <1>5
<1> HIDE DEF paid
<1>14. spent' \in [Plays -> [n: Nat, since: Nat]] /\ spent'[s] = paid /\ \A o \in Plays \ {s} : spent'[o] = sp[o]
  BY <1>3, <1>12, <1>13
<1>15. Paid(logs[s], spent[s])'
  <2>1. /\ sp[s].n \in Nat /\ sp[s].since \in Nat /\ ls[s].refillAt \in Nat /\ ls[s].tokens \in Nat
        /\ Paid(ls[s], sp[s])
    BY <1>3 DEF FlLogs
  <2>2. CASE ls[s].refillAt = 0
    <3>1. sp[s].n = 0 /\ k <= Max(Bursts) /\ r = t /\ paid.since = t /\ paid.n = granted
      BY <1>4, <1>5, <1>13, <2>1, <2>2 DEF Paid
    <3> QED BY <1>0, <1>1, <1>5, <1>8, <1>10, <1>14, <3>1 DEF Paid
  <2>3. CASE ls[s].refillAt # 0
    <3>1. /\ sp[s].since <= ls[s].refillAt /\ ls[s].refillAt <= clock
          /\ ls[s].tokens + sp[s].n <= Max(Bursts) + (ls[s].refillAt - sp[s].since)
          /\ ls[s].refillAt <= r /\ (r <= t \/ r = ls[s].refillAt)
          /\ k <= ls[s].tokens + (r - ls[s].refillAt)
          /\ paid.since = sp[s].since /\ paid.n = sp[s].n + granted
      BY <1>4, <1>13, <2>1, <2>3 DEF Paid
    <3>2. /\ (k - granted) + (sp[s].n + granted) <= Max(Bursts) + (r - sp[s].since)
          /\ sp[s].since <= r /\ r <= clock /\ r # 0
      BY <1>0, <1>5, <2>1, <2>3, <3>1
    <3> QED BY <1>1, <1>8, <1>10, <1>14, <3>1, <3>2 DEF Paid
  <2> QED BY <2>2, <2>3
<1>16. \A o \in Plays \ {s} : Paid(logs[o], spent[o])'
  BY <1>1, <1>3, <1>10, <1>14 DEF Paid
<1>17. \A o \in Plays : LogGood(logs'[o])  BY <1>3, <1>9, <1>10
<1>18. \A o \in Plays : Lively(logs'[o], swept)
  <2> SUFFICES ASSUME NEW o \in Plays PROVE Lively(logs'[o], swept)  OBVIOUS
  <2>1. Lively(ls[o], swept)
    <3>1. t + Retention >= swept  BY <1>0
    <3>2. Lively(NoLog, swept)  BY NoLogGood
    <3> QED BY <1>0, <1>3, <3>1, <3>2 DEF Lively
  <2>2. CASE o = s  BY <1>3, <1>8, <1>10, <2>1, <2>2 DEF Lively
  <2>3. CASE o # s  BY <1>10, <2>1, <2>3
  <2> QED BY <2>2, <2>3
<1>19. batch' \in [Batches -> [pc: {"idle", "sends", "ended"}, play: Plays, left: Int]]
  <2> DEFINE held == [pc |-> IF granted = 0 THEN "ended" ELSE "sends", play |-> s, left |-> granted]
  <2>1. batch' = [batch EXCEPT ![b] = held]  BY <1>2, <1>6 DEF granted
  <2>2. held \in [pc: {"idle", "sends", "ended"}, play: Plays, left: Int]  BY <1>5
  <2> HIDE DEF held
  <2> QED BY <1>0, <2>1, <2>2
<1>20. FlTyped'  BY <1>0, <1>1, <1>10, <1>14, <1>19 DEF FlInv, FlTyped
<1>21. \A o \in Plays : LogGood(logs[o])' /\ Lively(logs[o], swept)' /\ Paid(logs[o], spent[o])'
  <2>1. \A o \in Plays : Paid(logs[o], spent[o])'  BY <1>15, <1>16
  <2> QED BY <1>1, <1>17, <1>18, <2>1 DEF LogGood, Lively, Chained, Sampled
<1>22. Small(logs)' /\ (Len(feed) <= NotableKeep)'  BY <1>1, <1>11 DEF FlInv, Small, Timelines
<1> QED BY <1>20, <1>21, <1>22 DEF FlInv

\* Nothing is recorded at first.
LEMMA FlStarts == FLInit => FlInv
<1> SUFFICES ASSUME FLInit PROVE FlInv  OBVIOUS
<1>1. /\ clock = 1 /\ swept = 1 /\ served = 0 /\ feed = <<>>
      /\ logs = [s \in Plays |-> NoLog] /\ spent = [s \in Plays |-> Nothing]
      /\ batch = [b \in Batches |-> Unsent]
  BY DEF FLInit
<1>2. LogGood(NoLog) /\ NoLog \in FlLogs /\ NoLog.on = FALSE /\ NoLog.refillAt = 0 /\ NoLog.tokens = 0
  BY NoLogGood DEF LogGood, NoLog
<1>3. Nothing \in [n: Nat, since: Nat] /\ Nothing.n = 0  BY DEF Nothing
<1>4. Unsent \in [pc: {"idle", "sends", "ended"}, play: Plays, left: Int]
  <2>1. (CHOOSE s \in Plays : TRUE) \in Plays  BY FlightAssumption
  <2> QED BY <2>1 DEF Unsent
<1>5. feed \in Seq(FlEvents) /\ Len(feed) = 0  BY <1>1, EmptySeq
<1>6. FlTyped  BY <1>1, <1>2, <1>3, <1>4, <1>5 DEF FlTyped
<1>7. Small(logs)
  <2>1. Timelines(logs) = {}  BY <1>1, <1>2 DEF Timelines
  <2> QED BY <2>1, FS_EmptySet, FlightAssumption DEF Small
<1>8. \A s \in Plays : LogGood(logs[s]) /\ Lively(logs[s], swept) /\ Paid(logs[s], spent[s])
  BY <1>1, <1>2, <1>3 DEF Lively, Paid
<1> QED BY <1>5, <1>6, <1>7, <1>8, FlightAssumption DEF FlInv

\* Whoever records leaves only timelines that were not idle for too long.
FreshKept == \A o \in Timelines(logs') : logs'[o].lastAt + Retention + SweepEvery >= clock

\* An event of a request.
LEMMA FlSent ==
    ASSUME FlInv, NEW b \in Batches, NEW typ \in {"buffer", "failover"}, NEW t \in Times, Send(b, typ, t)
    PROVE  FlInv' /\ FreshKept
<1>1. /\ Record(batch[b].play, typ, t) /\ clock' = clock /\ served' = served
      /\ batch' = [batch EXCEPT ![b].left = @ - 1, ![b].pc = IF batch[b].left = 1 THEN "ended" ELSE @]
  BY DEF Send
<1>2. /\ batch \in [Batches -> [pc: {"idle", "sends", "ended"}, play: Plays, left: Int]]
      /\ clock \in Nat \ {0} /\ served \in Nat
  BY DEF FlInv, FlTyped
<1>3. batch[b].play \in Plays /\ typ \in {"buffer", "failover", "play"}  BY <1>2
<1>4. /\ logs' \in [Plays -> FlLogs] /\ Small(logs') /\ spent' \in [Plays -> [n: Nat, since: Nat]]
      /\ swept' \in Nat /\ swept' <= clock
      /\ feed' \in Seq(FlEvents) /\ Len(feed') <= NotableKeep
      /\ \A o \in Plays : LogGood(logs[o])' /\ Lively(logs[o], swept)' /\ Paid(logs[o], spent[o])'
      /\ FreshKept
  BY <1>1, <1>3, RecordKeeps DEF FreshKept
<1>5. batch' \in [Batches -> [pc: {"idle", "sends", "ended"}, play: Plays, left: Int]]
  <2> DEFINE held == [batch[b] EXCEPT !.left = @ - 1, !.pc = IF batch[b].left = 1 THEN "ended" ELSE @]
  <2>1. batch' = [batch EXCEPT ![b] = held]  BY <1>1, <1>2
  <2>2. PICK pc \in {"idle", "sends", "ended"} : pc = IF batch[b].left = 1 THEN "ended" ELSE batch[b].pc
    BY <1>2
  <2>3. held = [batch[b] EXCEPT !.left = @ - 1, !.pc = pc]  BY <1>2, <2>2
  <2>4. /\ batch[b] \in [pc: {"idle", "sends", "ended"}, play: Plays, left: Int]
        /\ batch[b].left - 1 \in Int
    BY <1>2
  <2> HIDE DEF held
  <2>5. held \in [pc: {"idle", "sends", "ended"}, play: Plays, left: Int]  BY <2>3, <2>4
  <2> QED BY <1>2, <2>1, <2>5
<1>6. FlTyped'  BY <1>1, <1>2, <1>4, <1>5 DEF FlTyped
<1>7. Small(logs)'  BY <1>4 DEF Small, Timelines
<1> QED BY <1>4, <1>6, <1>7 DEF FlInv

\* An event of the server.
LEMMA FlServed ==
    ASSUME FlInv, NEW s \in Plays, NEW t \in Times, Serve(s, t)
    PROVE  FlInv' /\ FreshKept
<1>1. Record(s, "play", t) /\ clock' = clock /\ served' = served + 1 /\ batch' = batch
  BY DEF Serve
<1>2. /\ batch \in [Batches -> [pc: {"idle", "sends", "ended"}, play: Plays, left: Int]]
      /\ clock \in Nat \ {0} /\ served \in Nat
  BY DEF FlInv, FlTyped
<1>3. /\ logs' \in [Plays -> FlLogs] /\ Small(logs') /\ spent' \in [Plays -> [n: Nat, since: Nat]]
      /\ swept' \in Nat /\ swept' <= clock
      /\ feed' \in Seq(FlEvents) /\ Len(feed') <= NotableKeep
      /\ \A o \in Plays : LogGood(logs[o])' /\ Lively(logs[o], swept)' /\ Paid(logs[o], spent[o])'
      /\ FreshKept
  BY <1>1, RecordKeeps DEF FreshKept
<1>4. FlTyped'  BY <1>1, <1>2, <1>3 DEF FlTyped
<1>5. Small(logs)'  BY <1>3 DEF Small, Timelines
<1> QED BY <1>3, <1>4, <1>5 DEF FlInv

\* Time passes: what has come back is only counted when a budget is asked.
LEMMA FlTicks == ASSUME FlInv, Tick PROVE FlInv'
<1>1. clock' = clock + 1 /\ UNCHANGED <<logs, feed, swept, batch, served, spent>>  BY DEF Tick
<1>2. /\ clock \in Nat \ {0} /\ swept \in Nat /\ swept <= clock
      /\ logs \in [Plays -> FlLogs]
  BY DEF FlInv, FlTyped
<1>3. FlTyped'  BY <1>1, <1>2 DEF FlInv, FlTyped
<1>4. Small(logs)' /\ (Len(feed) <= NotableKeep)'  BY <1>1 DEF FlInv, Small, Timelines
<1>5. \A s \in Plays : LogGood(logs[s])' /\ Lively(logs[s], swept)'
  BY <1>1 DEF FlInv, LogGood, Lively, Chained, Sampled
<1>6. \A s \in Plays : Paid(logs[s], spent[s])'
  <2> SUFFICES ASSUME NEW s \in Plays PROVE Paid(logs[s], spent[s])'  OBVIOUS
  <2>1. Paid(logs[s], spent[s]) /\ logs[s].refillAt \in Nat  BY <1>2 DEF FlInv, FlLogs
  <2> QED BY <1>1, <1>2, <2>1 DEF Paid
<1> QED BY <1>3, <1>4, <1>5, <1>6 DEF FlInv

\* Only a step that records touches the server's count or a request that sends.
FlRecords == served' # served \/ (\E b \in Batches : batch[b].pc = "sends" /\ batch'[b] # batch[b])

\* Every step keeps the recorder in order, and who records leaves nothing old.
LEMMA FlSteps == ASSUME FlInv, [FLNext]_flVars PROVE FlInv' /\ (FlRecords => FreshKept)
<1>0. batch \in [Batches -> [pc: {"idle", "sends", "ended"}, play: Plays, left: Int]]
  BY DEF FlInv, FlTyped
<1>1. CASE UNCHANGED flVars
  <2>1. UNCHANGED <<clock, logs, feed, swept, batch, served, spent>>  BY <1>1 DEF flVars
  <2>2. FlInv'
    BY <2>1 DEF FlInv, FlTyped, Small, Timelines, LogGood, Lively, Paid, Chained, Sampled
  <2>3. ~FlRecords  BY <2>1 DEF FlRecords
  <2> QED BY <2>2, <2>3
<1>2. ASSUME NEW b \in Batches, NEW t \in Times, NEW s \in Plays, NEW n \in 1 .. Largest,
             NEW burst \in Bursts, Admit(b, s, n, burst, t)
      PROVE  FlInv' /\ ~FlRecords
  <2>1. FlInv'  BY <1>2, FlAdmitted
  <2>2. batch[b].pc = "idle" /\ served' = served
        /\ \E held : batch' = [batch EXCEPT ![b] = held]
    BY <1>2 DEF Admit
  <2>3. \A o \in Batches : o # b => batch'[o] = batch[o]  BY <1>0, <2>2
  <2>4. ~FlRecords  BY <2>2, <2>3 DEF FlRecords
  <2> QED BY <2>1, <2>4
<1>3. ASSUME NEW b \in Batches, NEW t \in Times, NEW typ \in {"buffer", "failover"}, Send(b, typ, t)
      PROVE  FlInv' /\ FreshKept
  BY <1>3, FlSent
<1>4. ASSUME NEW s \in Plays, NEW t \in Times, Serve(s, t) PROVE FlInv' /\ FreshKept
  BY <1>4, FlServed
<1>5. CASE Tick
  <2>1. FlInv'  BY <1>5, FlTicks
  <2>2. ~FlRecords  BY <1>5 DEF Tick, FlRecords
  <2> QED BY <2>1, <2>2
<1> QED BY <1>1, <1>2, <1>3, <1>4, <1>5 DEF FLNext

\* A recorder in order promises what it should.
LEMMA FlInvIsSafe == FlInv => FlightSafe
<1> SUFFICES ASSUME FlInv PROVE FlightSafe  OBVIOUS
<1>0. /\ FlTyped /\ Small(logs) /\ Len(feed) <= NotableKeep
      /\ \A s \in Plays : LogGood(logs[s]) /\ Paid(logs[s], spent[s])
      /\ MaxKept \in Nat \ {0}
  BY FlightAssumption DEF FlInv
<1>1. \A s \in Plays : logs[s].events \in Seq(FlEvents) /\ logs[s].count \in Nat
                       /\ DOMAIN logs[s].events = 1 .. Len(logs[s].events)
  BY <1>0, LenProperties DEF FlTyped, FlLogs
<1>2. FLTypeOK
  <2>1. \A s \in Plays : Len(logs[s].events) <= MaxKept  BY <1>0, <1>1 DEF LogGood, Chained
  <2>2. \A b \in Batches : batch[b].pc \in {"idle", "sends", "ended"}  BY <1>0 DEF FlTyped
  <2> QED BY <1>0, <2>1, <2>2 DEF FLTypeOK, Small
<1>3. NoGap
  <2> SUFFICES ASSUME NEW s \in Plays
               PROVE  /\ Len(logs[s].events) = Min({logs[s].count, MaxKept})
                      /\ \A i \in DOMAIN logs[s].events :
                           logs[s].events[i].n = logs[s].count - Len(logs[s].events) + i - 1
    BY DEF NoGap, Timelines
  <2>1. Min({logs[s].count, MaxKept}) = IF logs[s].count <= MaxKept THEN logs[s].count ELSE MaxKept
    BY <1>0, <1>1, TwoIsMin
  <2>2. Chained(logs[s])  BY <1>0 DEF LogGood
  <2> QED BY <1>1, <2>1, <2>2 DEF Chained
<1>4. SampledApart
  <2> SUFFICES ASSUME NEW s \in Plays
               PROVE  \A i, j \in DOMAIN logs[s].events :
                        i < j /\ logs[s].events[i].type = "buffer" /\ logs[s].events[j].type = "buffer" =>
                           logs[s].events[i].at + Every <= logs[s].events[j].at
    BY DEF SampledApart
  <2>1. Sampled(logs[s])  BY <1>0 DEF LogGood
  <2> QED BY <1>1, <2>1 DEF Sampled
<1>5. BudgetKept
  <2> SUFFICES ASSUME NEW s \in Plays, logs[s].refillAt > 0
               PROVE  spent[s].n <= Max(Bursts) + (clock - spent[s].since)
    BY DEF BudgetKept, Timelines
  <2>1. /\ logs[s].refillAt \in Nat /\ logs[s].tokens \in Nat /\ clock \in Nat
        /\ spent[s].n \in Nat /\ spent[s].since \in Nat
    BY <1>0 DEF FlTyped, FlLogs
  <2>2. Paid(logs[s], spent[s]) /\ Max(Bursts) \in Nat  BY <1>0, BurstsHaveMax
  <2> QED BY <2>1, <2>2 DEF Paid
<1> QED BY <1>2, <1>3, <1>4, <1>5 DEF FlightSafe

\* The flight recorder stays small, loses nothing in between, spaces sampled
\* events, keeps to its budgets and sweeps what is idle, whatever interleaves
\* (RecordEvent, Admit and sessionLocked).
THEOREM RecorderIsSafe == FLSpec => FlightContract
<1>1. FLInit => FlInv  BY FlStarts
<1>2. FlInv /\ [FLNext]_flVars => FlInv'  BY FlSteps
<1>3. FlInv /\ FlInv' /\ [FLNext]_flVars => [UNCHANGED flVars \/ FlightSafe']_flVars
  <2>1. FlInv' => FlightSafe'  BY FlInvIsSafe, PTL
  <2> QED BY <2>1
<1>4. FlInv /\ [FLNext]_flVars =>
        [served' # served \/ (\E b \in Batches : batch[b].pc = "sends" /\ batch'[b] # batch[b]) =>
            \A s \in Timelines(logs') : logs'[s].lastAt + Retention + SweepEvery >= clock]_flVars
  BY FlSteps DEF FlRecords, FreshKept
<1> QED BY <1>1, <1>2, <1>3, <1>4, PTL DEF FLSpec, FlightContract, SweptOnWrite

=============================================================================
