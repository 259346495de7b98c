-------------------------------- MODULE Backup --------------------------------
(***************************************************************************)
(* Backups at one destination (internal/backup): creation with its         *)
(* retention, and deletion. The restore of one is in Restore.              *)
(*                                                                         *)
(* The destination is an object store without transactions. Several        *)
(* processes may use it; each runs one creation at a time. A backup is     *)
(* listed when its manifest is there, so the order of puts and deletes is  *)
(* all that keeps a listed backup whole.                                   *)
(***************************************************************************)
EXTENDS Naturals, FiniteSets, SequencesExt

CONSTANTS
    Procs,      \* processes that create backups at this destination
    Deleters,   \* DELETE requests that may run at the same time
    Files,      \* the files of a backup
    Manifest,   \* its manifest.json
    MaxId,      \* bound on backups; ids are ordered by their creation time
    Keep,       \* the retention, 0 for none
    MaxStorageFaults   \* bound on failing calls and crashes

Ids  == 1 .. MaxId
Keys == Files \cup {Manifest}

ASSUME BackupAssumption ==
    /\ Manifest \notin Files /\ IsFiniteSet(Files) /\ Files # {}
    /\ MaxId \in Nat /\ Keep \in Nat /\ MaxStorageFaults \in Nat
    /\ Procs \cap Deleters = {}

VARIABLES
    objs,     \* the objects below each id
    stale,    \* ids whose newest object is older than incompleteAfter (6 h)
    next,     \* the id of the next backup
    work,     \* creations and deletions under way
    storageFaults,
    unsure,   \* history: ids whose manifest was put although the put failed
    erased    \* history: ids a DELETE removed the manifest of

bkVars == <<objs, stale, next, work, storageFaults, unsure, erased>>

WorkPcs == {"idle", "put", "cleanup", "list", "delete"}
\* plan: the groups to delete, each with the keys of it that were listed.
Idle == [pc |-> "idle", id |-> 0, keys |-> {}, plan |-> <<>>]
Workers == Procs \cup Deleters
Jobs == [pc: WorkPcs, id: 0 .. MaxId, keys: SUBSET Keys,
         plan: Seq([id: Ids, keys: SUBSET Keys])]

\* Every variable has its type. While a creation puts, its manifest is due, and
\* it cleans up nothing but files.
BKTypeOK ==
    /\ objs \in [Ids -> SUBSET Keys]
    /\ stale \subseteq Ids
    /\ next \in 1 .. MaxId + 1
    /\ work \in [Workers -> Jobs]
    /\ \A w \in Workers :
          /\ work[w].pc = "put" => Manifest \in work[w].keys
          /\ work[w].pc = "cleanup" => Manifest \notin work[w].keys
    /\ storageFaults \in 0 .. MaxStorageFaults
    /\ unsure \subseteq Ids /\ erased \subseteq Ids

BKInit ==
    /\ objs = [i \in Ids |-> {}] /\ stale = {} /\ next = 1
    /\ work = [w \in Workers |-> Idle]
    /\ storageFaults = 0
    /\ unsure = {} /\ erased = {}

StorageFault == storageFaults < MaxStorageFaults /\ storageFaults' = storageFaults + 1
Complete == {i \in Ids : Manifest \in objs[i]}
Whole == {i \in Ids : objs[i] = Keys}
Written(i, k) == objs' = [objs EXCEPT ![i] = @ \cup {k}]
Removed(i, k) == objs' = [objs EXCEPT ![i] = @ \ {k}]

-----------------------------------------------------------------------------
(* Create.                                                                 *)

\* begin: one creation at a time; the id carries the time.
Begin(p) ==
    /\ work[p].pc = "idle" /\ next <= MaxId
    /\ work' = [work EXCEPT ![p] = [Idle EXCEPT !.pc = "put", !.id = next, !.keys = Keys]]
    /\ next' = next + 1
    /\ UNCHANGED <<objs, stale, storageFaults, unsure, erased>>

\* The files in any order, then the manifest; an object appears whole.
PutObject(p, k) ==
    LET i == work[p].id IN
    /\ work[p].pc = "put" /\ k \in work[p].keys
    /\ k = Manifest => work[p].keys = {Manifest}
    /\ Written(i, k) /\ stale' = stale \ {i}
    /\ work' = [work EXCEPT ![p].keys = @ \ {k},
                            ![p].pc = IF k = Manifest THEN "list" ELSE "put"]
    /\ UNCHANGED <<next, storageFaults, unsure, erased>>

\* The creation ends when nothing is left to clean up ...
Uncleaned(i, keys) ==
    IF keys = {} THEN Idle ELSE [Idle EXCEPT !.pc = "cleanup", !.id = i, !.keys = keys]

\* ... and a deletion when its groups are done.
Undeleted(plan) == IF plan = <<>> THEN Idle ELSE [Idle EXCEPT !.pc = "delete", !.plan = plan]

\* A put fails, and may have been carried out all the same. What was put
\* before it is removed, what it put itself is not.
PutFails(p, k) ==
    LET i == work[p].id IN
    /\ work[p].pc = "put" /\ k \in work[p].keys
    /\ k = Manifest => work[p].keys = {Manifest}
    /\ StorageFault
    /\ \E done \in BOOLEAN :
          IF done THEN Written(i, k) /\ stale' = stale \ {i} ELSE UNCHANGED <<objs, stale>>
    /\ unsure' = IF k = Manifest THEN unsure \cup {i} ELSE unsure
    /\ work' = [work EXCEPT ![p] = Uncleaned(i, Keys \ work[p].keys)]
    /\ UNCHANGED <<next, erased>>

\* cleanup: one delete after the other, errors are not looked at.
CleanUp(p, k) ==
    /\ work[p].pc = "cleanup" /\ k \in work[p].keys
    /\ \/ Removed(work[p].id, k) /\ UNCHANGED storageFaults
       \/ StorageFault /\ UNCHANGED objs
    /\ work' = [work EXCEPT ![p] = Uncleaned(@.id, @.keys \ {k})]
    /\ UNCHANGED <<stale, next, unsure, erased>>

-----------------------------------------------------------------------------
(* prune and Delete.                                                       *)

\* Mutant: the oldest are kept.
SurplusNewest == {i \in Complete : Keep > 0 /\ Cardinality({j \in Complete : j < i}) >= Keep}

\* The complete backups beyond the newest Keep.
Surplus == {i \in Complete : Keep > 0 /\ Cardinality({j \in Complete : j > i}) >= Keep}

\* Uploads without a manifest that nobody has added to for six hours.
Abandoned == {i \in stale \ Complete : objs[i] # {}}

Group(i) == [id |-> i, keys |-> objs[i]]

\* prune lists once. Surplus backups are deleted newest first, then what was
\* abandoned, in some order.
List(p) ==
    /\ work[p].pc = "list"
    /\ \E order \in SetToSeqs(Surplus \cup Abandoned) :
          /\ \A m, n \in DOMAIN order :
                m < n /\ order[n] \in Surplus => order[m] \in Surplus /\ order[m] > order[n]
          /\ work' = [work EXCEPT ![p] = Undeleted([n \in DOMAIN order |-> Group(order[n])])]
    /\ UNCHANGED <<objs, stale, next, storageFaults, unsure, erased>>

\* The listing fails: retention is left to the next backup.
ListFails(p) ==
    /\ work[p].pc = "list" /\ StorageFault
    /\ work' = [work EXCEPT ![p] = Idle]
    /\ UNCHANGED <<objs, stale, next, unsure, erased>>

\* DELETE /backups/{id}: a complete backup, as it is listed.
StartDelete(d, i) ==
    /\ work[d].pc = "idle" /\ i \in Complete
    /\ work' = [work EXCEPT ![d] = Undeleted(<<Group(i)>>)]
    /\ UNCHANGED <<objs, stale, next, storageFaults, unsure, erased>>

Target(w) == Head(work[w].plan)

\* deleteKeys: the manifest first. Deleting what has gone is no error.
DeleteKey(w, k) ==
    /\ work[w].pc = "delete" /\ k \in Target(w).keys
    /\ Manifest \in Target(w).keys => k = Manifest
    /\ Removed(Target(w).id, k)
    /\ work' = [work EXCEPT ![w].plan[1].keys = @ \ {k}]
    /\ erased' = IF w \in Deleters THEN erased \cup {Target(w).id} ELSE erased
    /\ UNCHANGED <<stale, next, storageFaults, unsure>>

\* The group is done, or one of its deletes failed: on to the next.
NextGroup(w) ==
    /\ work[w].pc = "delete"
    /\ \/ Target(w).keys = {} /\ UNCHANGED storageFaults
       \/ Target(w).keys # {} /\ StorageFault
    /\ work' = [work EXCEPT ![w] = Undeleted(Tail(@.plan))]
    /\ UNCHANGED <<objs, stale, next, unsure, erased>>

\* The process of a creation ends. (A deletion that stops is NextGroup.)
Crash(p) ==
    /\ work[p].pc # "idle" /\ StorageFault
    /\ work' = [work EXCEPT ![p] = Idle]
    /\ UNCHANGED <<objs, stale, next, unsure, erased>>

\* Six hours without a put. No creation lasts that long: createTimeout is two.
GrowOld(i) ==
    /\ objs[i] # {} /\ i \notin stale
    /\ \A p \in Procs : work[p].pc \in {"put", "cleanup"} => work[p].id # i
    /\ stale' = stale \cup {i}
    /\ UNCHANGED <<objs, next, work, storageFaults, unsure, erased>>

CreateStep(p) ==
    \/ \E k \in Keys : PutObject(p, k) \/ CleanUp(p, k)
    \/ List(p)

DeleteStep(w) == (\E k \in Keys : DeleteKey(w, k)) \/ NextGroup(w)

BKNext ==
    \/ \E p \in Procs : Begin(p) \/ CreateStep(p) \/ ListFails(p)
                        \/ \E k \in Keys : PutFails(p, k)
    \/ \E w \in Workers : DeleteStep(w)
    \/ \E p \in Procs : Crash(p)
    \/ \E d \in Deleters, i \in Ids : StartDelete(d, i)
    \/ \E i \in Ids : GrowOld(i)

BKSpec == BKInit /\ [][BKNext]_bkVars

-----------------------------------------------------------------------------
(* Properties.                                                             *)

\* A listed backup has all its files, whatever fails or stops half-way and
\* whoever deletes at the same time, unless the destination kept a manifest
\* whose put it reported as failed: the cleanup does not remove that one.
ListedIsWhole == \A i \in Complete : i \in Whole \/ i \in unsure

\* Retention takes a backup off the list only while Keep newer ones are on it,
\* except those an administrator deleted since it looked.
RetentionKeeps ==
    [][\A p \in Procs, i \in Ids :
         (work[p].pc = "delete" /\ work'[p].plan # work[p].plan
             /\ i \in Complete \ Complete' /\ Keep > 0)
           => Cardinality({j \in Complete' \cup erased : j > i}) >= Keep]_bkVars

\* An upload that still goes on is not taken for one that was abandoned, by
\* this process or by another: what it has put stays until its manifest is put.
UploadStays ==
    \A p \in Procs : work[p].pc = "put" => Keys \ work[p].keys \subseteq objs[work[p].id]

\* What the list of backups, their retention and an upload may count on.
BackupContract == []BKTypeOK /\ []ListedIsWhole /\ []UploadStays /\ RetentionKeeps

=============================================================================
