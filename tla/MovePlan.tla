------------------------------- MODULE MovePlan -------------------------------
(***************************************************************************)
(* What a library move is going to do (library/move_plan.go): for each     *)
(* title its own folder as one operation when it has one (planFolder), or  *)
(* its videos and what belongs to each of them one by one (planFiles),     *)
(* with a free name in the destination for everything (reservations).      *)
(*                                                                         *)
(* A name is a sequence of words, the parts between its dots, each with    *)
(* the number that " (2)" adds to it; a path is a sequence of names.       *)
(***************************************************************************)
EXTENDS Integers, SequencesExt

CONSTANTS
    Shelves,   \* what the source and the destination may look like
    MoveShows  \* titles that are shows; the others are movies

VARIABLES
    shelf,     \* the libraries
    planned,   \* titles planned so far
    ops,       \* what will be renamed or copied, for which title
    newRel,    \* where the catalogue will list each video
    reserved   \* paths taken in the destination

mpVars == <<shelf, planned, ops, newRel, reserved>>

Word(x) == <<x, 1>>
Name(words) == [i \in DOMAIN words |-> Word(words[i])]
Nobody == "nobody"   \* whom a video that is not catalogued belongs to

\* The video's title, its name without the extension, and its folder.
TitlesOf(shf) == {v.of : v \in shf.videos} \ {Nobody}
Stem(v) == Front(v.name)
FileAt(v) == Append(v.dir, v.name)
Under(d, p) == IsPrefix(d, p)
Above(p) == {SubSeq(p, 1, n) : n \in 1 .. Len(p)}

MPTypeOK ==
    /\ planned \subseteq TitlesOf(shelf)
    /\ \A op \in ops : op.of \in planned /\ op.src # <<>> /\ op.dst # <<>>
    /\ \A x \in newRel : x.video \in shelf.videos

MPStart ==
    /\ planned = {} /\ ops = {} /\ newRel = {}
    /\ reserved = UNION {Above(p) : p \in shelf.taken}

MPInit == shelf \in Shelves /\ MPStart

-----------------------------------------------------------------------------
(* reservations.claim: the name itself, or the first "name (n)" that is    *)
(* free. The number goes before a file's extension.                        *)

Numbered(name, isDir, n) ==
    LET i == IF isDir \/ Len(name) = 1 THEN Len(name) ELSE Len(name) - 1
    IN  [name EXCEPT ![i] = <<@[1], n>>]

Candidate(p, isDir, n) == Append(Front(p), Numbered(Last(p), isDir, n))

Claim(res, p, isDir) ==
    LET free == {n \in 1 .. Cardinality(res) + 1 : Candidate(p, isDir, n) \notin res}
    IN  Candidate(p, isDir, CHOOSE n \in free : \A m \in free : n <= m)

-----------------------------------------------------------------------------
(* planFolder.                                                             *)

FilesOf(t) == {v \in shelf.videos : v.of = t}
IsSeason(name) == name[1][1] \in {"season", "specials"}

CommonDir(fs) ==
    LET d == (CHOOSE v \in fs : TRUE).dir
        n == CHOOSE n \in 0 .. Len(d) :
               /\ \A v \in fs : IsPrefix(SubSeq(d, 1, n), v.dir)
               /\ n < Len(d) => \E v \in fs : ~IsPrefix(SubSeq(d, 1, n + 1), v.dir)
    IN  SubSeq(d, 1, n)

\* A show's season folders are not its own folder.
UnitDir(t) ==
    LET d == CommonDir(FilesOf(t))
        own == {0} \cup {i \in DOMAIN d : ~IsSeason(d[i])}
    IN  IF t \in MoveShows THEN SubSeq(d, 1, CHOOSE i \in own : \A j \in own : j <= i) ELSE d

\* A slip: only what is catalogued is asked about.
OwnsCatalogued(t, d) ==
    /\ d # <<>> /\ \A r \in shelf.roots : ~Under(d, r)
    /\ \A v \in shelf.videos : Under(d, v.dir) => v.of \in {t, Nobody}

\* folderBelongsTo: no library folder, no other title's video and none that
\* is not catalogued is in it.
Owns(t, d) ==
    /\ d # <<>> /\ \A r \in shelf.roots : ~Under(d, r)
    /\ \A v \in shelf.videos : Under(d, v.dir) => v.of = t

PlanFolder(t) ==
    LET d == UnitDir(t)
        to == Claim(reserved, <<Last(d)>>, TRUE)
    IN  /\ ops' = ops \cup {[of |-> t, src |-> d, dst |-> to, isDir |-> TRUE]}
        /\ newRel' = newRel \cup
             {[video |-> v, rel |-> to \o SubSeq(FileAt(v), Len(d) + 1, Len(FileAt(v)))] : v \in FilesOf(t)}
        /\ reserved' = reserved \cup Above(to)

-----------------------------------------------------------------------------
(* planFiles.                                                              *)

\* A sidecar belongs to the video with the longest name that it begins with.
Sidecars(v) ==
    {s \in shelf.sides :
        /\ s.dir = v.dir /\ IsStrictPrefix(Stem(v), s.name)
        /\ \A o \in shelf.videos :
             o.dir = v.dir /\ Len(o.name) > Len(v.name) => ~IsStrictPrefix(Stem(o), s.name)}

SeasonName(n) == IF n = 0 THEN Name(<<"specials">>) ELSE Name(<<"season">>) \o <<<<n, 1>>>>

\* Movies loose in the library folder stay loose.
Loose(t) == t \notin MoveShows /\ \A v \in FilesOf(t) : v.dir = <<>>

\* acc carries the reservations and the plan of one title through its videos.
AddSidecar(acc, s, dir, v, newName) ==
    LET want == Append(dir, Front(newName) \o SubSeq(s.name, Len(Stem(v)) + 1, Len(s.name)))
        got == Claim(acc.res, want, FALSE)
    IN  [acc EXCEPT !.res = @ \cup Above(got),
                    !.ops = IF got # want THEN @
                            ELSE @ \cup {[of |-> v.of, src |-> Append(s.dir, s.name), dst |-> want, isDir |-> FALSE]}]

AddVideo(acc, v, base) ==
    LET dir == IF v.of \in MoveShows THEN Append(base, SeasonName(v.season)) ELSE base
        to == Claim(acc.res, Append(dir, v.name), FALSE)
        moved == [res |-> acc.res \cup Above(to),
                  ops |-> acc.ops \cup {[of |-> v.of, src |-> FileAt(v), dst |-> to, isDir |-> FALSE]},
                  rel |-> acc.rel \cup {[video |-> v, rel |-> to]}]
    IN  FoldLeft(LAMBDA a, s : AddSidecar(a, s, dir, v, Last(to)), moved, SetToSeq(Sidecars(v)))

PlanFiles(t) ==
    LET base == IF Loose(t) THEN <<>> ELSE Claim(reserved, <<shelf.folder[t]>>, TRUE)
        start == [res |-> reserved \cup Above(base), ops |-> ops, rel |-> newRel]
        plan == FoldLeft(LAMBDA a, v : AddVideo(a, v, base), start, SetToSeq(FilesOf(t)))
    IN  ops' = plan.ops /\ newRel' = plan.rel /\ reserved' = plan.res

-----------------------------------------------------------------------------
(* planUnit, for the titles of the request one after the other.            *)

\* Titles the destination has already, or with a file that is not there.
CannotMove(t) == t \in shelf.there \/ \E v \in FilesOf(t) : v.offline

Reject(t) ==
    /\ CannotMove(t)
    /\ planned' = planned \cup {t} /\ UNCHANGED <<shelf, ops, newRel, reserved>>

PlanUnit(t) ==
    /\ ~CannotMove(t)
    /\ IF Owns(t, UnitDir(t)) THEN PlanFolder(t) ELSE PlanFiles(t)
    /\ planned' = planned \cup {t} /\ UNCHANGED shelf

MPNext == \E t \in TitlesOf(shelf) \ planned : Reject(t) \/ PlanUnit(t)

MPSpec == MPInit /\ [][MPNext]_mpVars

-----------------------------------------------------------------------------
(* Properties.                                                             *)

Taken == UNION {Above(p) : p \in shelf.taken}

\* "Nothing existing is ever replaced": every destination is free, and no
\* operation of the request puts something where another does, or into it.
NothingReplaced ==
    \A op \in ops :
        /\ op.dst \notin Taken
        /\ \A o \in ops \ {op} : ~Under(op.dst, o.dst)

\* "moving the folder moves nothing else": an operation carries no video but
\* its title's, each video of a title that is moved goes with exactly one.
OnlyItsOwn ==
    /\ \A op \in ops : \A v \in shelf.videos : Under(op.src, FileAt(v)) => v.of = op.of
    /\ \A v \in shelf.videos :
         v.of \in planned /\ ~CannotMove(v.of) => Cardinality({op \in ops : Under(op.src, FileAt(v))}) = 1

\* The catalogue will list each video where its operation puts it.
ListedWhereMoved ==
    \A x \in newRel : \E op \in ops :
        /\ Under(op.src, FileAt(x.video))
        /\ x.rel = op.dst \o SubSeq(FileAt(x.video), Len(op.src) + 1, Len(FileAt(x.video)))

\* Two videos in one folder that differ in their extension only.
Twin(v) == \E o \in shelf.videos \ {v} : o.dir = v.dir /\ Stem(o) = Stem(v)

\* A sidecar that is moved by itself goes where its video goes and begins
\* with the new name of that video; unless a twin claims it too, it is moved
\* once, so the second of two operations never finds it gone.
SidecarsFollow ==
    \A s \in shelf.sides :
      LET own == {v \in shelf.videos : s \in Sidecars(v)}
          mine == {op \in ops : op.src = Append(s.dir, s.name)}
      IN  /\ \A op \in mine : \E x \in newRel :
               /\ x.video \in own /\ x.video.of = op.of
               /\ Front(op.dst) = Front(x.rel) /\ IsStrictPrefix(Front(Last(x.rel)), Last(op.dst))
          /\ (\A v \in own : ~Twin(v)) => Cardinality(mine) <= 1

\* What an administrator may count on before anything is moved.
MovePlanSafe == MPTypeOK /\ NothingReplaced /\ OnlyItsOwn /\ ListedWhereMoved /\ SidecarsFollow

=============================================================================
