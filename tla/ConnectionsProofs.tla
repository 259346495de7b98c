-------------------------- MODULE ConnectionsProofs ---------------------------
(***************************************************************************)
(* Proofs about the modules of MCConnections: the safety part of each      *)
(* contract, for any titles, tokens, requests, settings, processes, worker *)
(* nodes and viewers, and for any number of faults and changes.            *)
(* What they promise to happen eventually is left to TLC.                  *)
(***************************************************************************)
EXTENDS Matching, Gateway, Outage, Config, Workers, Timeline, FiniteSetTheorems,
        SequenceTheorems, TLAPS

-----------------------------------------------------------------------------
(* Matching titles with TMDB.                                              *)

MTWorkers == [pc: {"idle", "list", "look", "search", "apply", "after"}, t: Movies, failed: BOOLEAN]
MTAsked == [pc: {"idle", "fetch", "lock", "dequeue"}, t: Movies, id: {Automatic, Chosen, NoId}]

\* The queue holds each title once, in an order.
QueueGood(q) == q \in Seq(Movies) /\ \A i, j \in 1..Len(q) : q[i] = q[j] => i = j

\* What is asked: an administrator chooses, a refresh has found an id.
AskedGood(a, w) ==
    /\ w \in MTAsked
    /\ a \in Admins /\ w.pc = "fetch" => w.id = Chosen
    /\ a \in Refreshers => w.pc # "lock" /\ (w.pc = "fetch" => w.id # NoId)

\* A title an administrator has matched is locked, or about to be.
Kept ==
    \A t \in Movies : wanted[t] = Chosen
        => t \in lock \/ \E a \in Admins : asked[a].pc = "lock" /\ asked[a].t = t

\* It keeps its match, and nobody is about to change it, unless somebody had
\* read before.
Firm ==
    \A t \in Movies : wanted[t] = Chosen /\ t \notin overtaken => tmdb[t] = Chosen /\ ~Underway(t)

MTTypes ==
    /\ tmdb \in [Movies -> {Automatic, Chosen, NoId}] /\ wanted \in [Movies -> {Chosen, NoId}]
    /\ lock \subseteq Movies /\ overtaken \subseteq Movies
    /\ QueueGood(queue) /\ batch \in Seq(Movies) /\ worker \in MTWorkers
    /\ asked \in [Askers -> MTAsked] /\ \A a \in Askers : AskedGood(a, asked[a])

MTInv == MTTypes /\ Kept /\ Firm

LEMMA RangeOfSequence ==
    ASSUME NEW q \in Seq(Movies)
    PROVE  Range(q) \subseteq Movies /\ \A t : t \in Range(q) <=> \E i \in 1..Len(q) : q[i] = t
BY DEF Range

LEMMA MTTyped == MTInv => MTTypeOK
<1> SUFFICES ASSUME MTInv PROVE MTTypeOK  OBVIOUS
<1>1. IsInjective(queue)  BY DEF MTInv, MTTypes, QueueGood, IsInjective
<1>2. Range(queue) \subseteq Movies /\ Range(batch) \subseteq Movies
  BY RangeOfSequence DEF MTInv, MTTypes, QueueGood
<1> QED BY <1>1, <1>2 DEF MTInv, MTTypes, MTTypeOK, MTWorkers, MTAsked

LEMMA MTStays == MTInv => ChoiceStays
BY DEF MTInv, Firm, ChoiceStays

LEMMA NothingTyped == Nothing \in MTAsked /\ Nothing.t \in Movies /\ Nothing.pc = "idle"
<1>1. (CHOOSE t \in Movies : TRUE) \in Movies  BY MatchingAssumption
<1> QED BY <1>1 DEF Nothing, MTAsked

LEMMA MTStarts == MTInit => MTInv
<1> SUFFICES ASSUME MTInit PROVE MTInv  OBVIOUS
<1> USE MatchingAssumption
<1>1. QueueGood(queue) /\ batch \in Seq(Movies)  BY DEF MTInit, QueueGood
<1>2. worker \in MTWorkers  BY NothingTyped DEF MTInit, MTWorkers
<1>3. asked \in [Askers -> MTAsked] /\ \A a \in Askers : AskedGood(a, asked[a])
  BY NothingTyped DEF MTInit, AskedGood
<1>4. \A t \in Movies : wanted[t] = NoId  BY DEF MTInit
<1>5. Kept /\ Firm  BY <1>4 DEF Kept, Firm
<1>6. /\ tmdb \in [Movies -> {Automatic, Chosen, NoId}] /\ wanted \in [Movies -> {Chosen, NoId}]
      /\ lock \subseteq Movies /\ overtaken \subseteq Movies
  BY DEF MTInit
<1> QED BY <1>1, <1>2, <1>3, <1>5, <1>6 DEF MTInv, MTTypes

-----------------------------------------------------------------------------
(* The queue.                                                              *)

LEMMA WithoutGood ==
    ASSUME QueueGood(queue), NEW t
    PROVE  QueueGood(Without(t)) /\ \A i \in 1..Len(Without(t)) : Without(t)[i] # t
<1>0. queue \in Seq(Movies) /\ Len(queue) \in Nat /\ DOMAIN queue = 1..Len(queue)  BY DEF QueueGood
<1>1. CASE t \in Range(queue)
  <2>1. PICK k : k = CHOOSE i \in DOMAIN queue : queue[i] = t  OBVIOUS
  <2>2. k \in 1..Len(queue) /\ queue[k] = t  BY <1>0, <1>1, <2>1, RangeOfSequence
  <2>3. PICK a : a = SubSeq(queue, 1, k - 1)  OBVIOUS
  <2>4. PICK b : b = SubSeq(queue, k + 1, Len(queue))  OBVIOUS
  <2>5. a \in Seq(Movies) /\ Len(a) = k - 1 /\ \A i \in 1..(k - 1) : a[i] = queue[i]
    BY <1>0, <2>2, <2>3
  <2>6. b \in Seq(Movies) /\ Len(b) = Len(queue) - k /\ \A i \in 1..(Len(queue) - k) : b[i] = queue[k + i]
    <3>1. k + 1 \in Int /\ Len(queue) \in Int /\ \A i \in (k + 1) .. Len(queue) : queue[i] \in Movies
      BY <1>0, <2>2
    <3>2. /\ b \in Seq(Movies) /\ Len(b) = IF k + 1 <= Len(queue) THEN Len(queue) - (k + 1) + 1 ELSE 0
          /\ \A i \in 1 .. Len(queue) - (k + 1) + 1 : b[i] = queue[k + 1 + i - 1]
      BY <2>4, <3>1, SubSeqProperties
    <3>3. Len(b) = Len(queue) - k  BY <1>0, <2>2, <3>2
    <3>4. ASSUME NEW i \in 1..(Len(queue) - k) PROVE b[i] = queue[k + i]
      <4>1. i \in 1 .. Len(queue) - (k + 1) + 1 /\ k + 1 + i - 1 = k + i  BY <1>0, <2>2
      <4> QED BY <3>2, <4>1
    <3> QED BY <3>2, <3>3, <3>4
  <2>7. PICK r : r = a \o b  OBVIOUS
  <2>8. r \in Seq(Movies) /\ Len(r) = Len(queue) - 1
    <3>1. r \in Seq(Movies) /\ Len(r) = Len(a) + Len(b)  BY <2>5, <2>6, <2>7, ConcatProperties
    <3> QED BY <1>0, <2>2, <2>5, <2>6, <3>1
  <2>a. \A i \in 1..Len(r) : r[i] = IF i <= Len(a) THEN a[i] ELSE b[i - Len(a)]
    <3>1. \A i \in 1 .. Len(a) + Len(b) : r[i] = IF i <= Len(a) THEN a[i] ELSE b[i - Len(a)]
      BY <2>5, <2>6, <2>7, ConcatProperties
    <3>2. Len(r) = Len(a) + Len(b)  BY <1>0, <2>2, <2>5, <2>6, <2>8
    <3> QED BY <3>1, <3>2
  <2>9. \A i \in 1..Len(r) : r[i] = IF i < k THEN queue[i] ELSE queue[i + 1]
    <3> SUFFICES ASSUME NEW i \in 1..Len(r) PROVE r[i] = IF i < k THEN queue[i] ELSE queue[i + 1]  OBVIOUS
    <3>1. CASE i < k
      <4>1. i <= Len(a) /\ i \in 1..(k - 1)  BY <1>0, <2>2, <2>5, <2>8, <3>1
      <4> QED BY <2>5, <2>a, <3>1, <4>1
    <3>2. CASE ~(i < k)
      <4>1. i - (k - 1) \in 1..(Len(queue) - k)  BY <1>0, <2>2, <2>8, <3>2
      <4>2. r[i] = b[i - (k - 1)]
        <5>1. ~(i <= Len(a)) /\ Len(a) = k - 1  BY <1>0, <2>2, <2>5, <2>8, <3>2
        <5> QED BY <2>a, <5>1
      <4>3. b[i - (k - 1)] = queue[k + (i - (k - 1))]  BY <2>6, <4>1
      <4>4. k + (i - (k - 1)) = i + 1  BY <1>0, <2>2
      <4> QED BY <3>2, <4>2, <4>3, <4>4
    <3> QED BY <3>1, <3>2
  <2>10. ASSUME NEW i \in 1..Len(r), NEW j \in 1..Len(r), r[i] = r[j] PROVE i = j
    <3>1. PICK x \in 1..Len(queue) : r[i] = queue[x] /\ x = IF i < k THEN i ELSE i + 1
      BY <1>0, <2>2, <2>8, <2>9
    <3>2. PICK y \in 1..Len(queue) : r[j] = queue[y] /\ y = IF j < k THEN j ELSE j + 1
      BY <1>0, <2>2, <2>8, <2>9
    <3>3. x = y  BY <2>10, <3>1, <3>2 DEF QueueGood
    <3> QED BY <1>0, <2>2, <3>1, <3>2, <3>3
  <2>11. ASSUME NEW i \in 1..Len(r), r[i] = t PROVE FALSE
    <3>1. PICK x \in 1..Len(queue) : r[i] = queue[x] /\ x = IF i < k THEN i ELSE i + 1
      BY <1>0, <2>2, <2>8, <2>9
    <3>2. x = k  BY <2>2, <2>11, <3>1 DEF QueueGood
    <3> QED BY <1>0, <2>2, <3>1, <3>2
  <2>12. Without(t) = r  BY <1>1, <2>1, <2>3, <2>4, <2>7 DEF Without, RemoveAt
  <2> QED BY <2>8, <2>10, <2>11, <2>12 DEF QueueGood
<1>2. CASE t \notin Range(queue)
  <2>1. Without(t) = queue  BY <1>2 DEF Without
  <2> QED BY <1>0, <1>2, <2>1, RangeOfSequence
<1> QED BY <1>1, <1>2

LEMMA AppendedGood ==
    ASSUME NEW q, QueueGood(q), NEW t \in Movies, \A i \in 1..Len(q) : q[i] # t
    PROVE  QueueGood(Append(q, t))
<1>0. q \in Seq(Movies) /\ Len(q) \in Nat  BY DEF QueueGood
<1>1. PICK r : r = Append(q, t)  OBVIOUS
<1>2. r \in Seq(Movies) /\ Len(r) = Len(q) + 1 /\ \A i \in 1..Len(r) : r[i] = IF i <= Len(q) THEN q[i] ELSE t
  BY <1>0, <1>1
<1>3. ASSUME NEW i \in 1..Len(r), NEW j \in 1..Len(r), r[i] = r[j] PROVE i = j
  <2>1. i \in 1..Len(q) /\ j \in 1..Len(q) => i = j  BY <1>0, <1>2, <1>3 DEF QueueGood
  <2> QED BY <1>0, <1>2, <1>3, <2>1
<1> QED BY <1>1, <1>2, <1>3 DEF QueueGood

LEMMA JoinedGood ==
    ASSUME QueueGood(queue), NEW S \in SUBSET Movies, S \cap Range(queue) = {}, NEW new \in SetToSeqs(S)
    PROVE  QueueGood(queue \o new)
<1> USE MatchingAssumption
<1>0. queue \in Seq(Movies) /\ Len(queue) \in Nat  BY DEF QueueGood
<1>1. PICK n \in Nat : n = Cardinality(S)
  <2>1. IsFiniteSet(S)  BY FS_Subset
  <2>2. Cardinality(S) \in Nat  BY <2>1, FS_CardinalityType
  <2> QED BY <2>2
<1>2. new \in [1..n -> S] /\ \A i, j \in 1..n : i # j => new[i] # new[j]  BY <1>1 DEF SetToSeqs
<1>3. new \in Seq(Movies) /\ Len(new) = n  BY <1>2
<1>4. PICK r : r = queue \o new  OBVIOUS
<1>5. /\ r \in Seq(Movies) /\ Len(r) = Len(queue) + n
      /\ \A i \in 1..Len(r) : r[i] = IF i <= Len(queue) THEN queue[i] ELSE new[i - Len(queue)]
  <2>1. /\ r \in Seq(Movies) /\ Len(r) = Len(queue) + Len(new)
        /\ \A i \in 1 .. Len(queue) + Len(new) : r[i] = IF i <= Len(queue) THEN queue[i] ELSE new[i - Len(queue)]
    BY <1>0, <1>3, <1>4, ConcatProperties
  <2> QED BY <1>3, <2>1
<1>6. \A i \in 1..Len(queue) : queue[i] \notin S  BY <1>0, RangeOfSequence
<1>7. ASSUME NEW i \in 1..Len(r), NEW j \in 1..Len(r), r[i] = r[j] PROVE i = j
  <2>1. CASE i <= Len(queue) /\ j <= Len(queue)
    <3>1. i \in 1..Len(queue) /\ j \in 1..Len(queue) /\ queue[i] = queue[j]  BY <1>0, <1>5, <1>7, <2>1
    <3> QED BY <3>1 DEF QueueGood
  <2>2. CASE i > Len(queue) /\ j > Len(queue)
    <3>1. i - Len(queue) \in 1..n /\ j - Len(queue) \in 1..n  BY <1>0, <1>5, <2>2
    <3>2. new[i - Len(queue)] = new[j - Len(queue)]  BY <1>0, <1>5, <1>7, <2>2
    <3>3. i - Len(queue) = j - Len(queue)  BY <1>2, <3>1, <3>2
    <3> QED BY <1>0, <1>5, <3>3
  <2>3. CASE i <= Len(queue) /\ j > Len(queue)
    <3>1. i \in 1..Len(queue) /\ j - Len(queue) \in 1..n /\ queue[i] = new[j - Len(queue)]
      BY <1>0, <1>5, <1>7, <2>3
    <3> QED BY <1>2, <1>6, <3>1
  <2>4. CASE i > Len(queue) /\ j <= Len(queue)
    <3>1. j \in 1..Len(queue) /\ i - Len(queue) \in 1..n /\ queue[j] = new[i - Len(queue)]
      BY <1>0, <1>5, <1>7, <2>4
    <3> QED BY <1>2, <1>6, <3>1
  <2> QED BY <1>0, <1>5, <2>1, <2>2, <2>3, <2>4
<1> QED BY <1>4, <1>5, <1>7 DEF QueueGood

-----------------------------------------------------------------------------
(* The worker and the requests.                                            *)

\* A step of the worker keeps what was chosen: it changes a title only when it
\* is at it, and comes to one only when it is not locked.
LEMMA MTWorkerKeeps ==
    ASSUME MTInv, UNCHANGED <<lock, asked, wanted>>, overtaken \subseteq overtaken',
           \A t \in Movies : tmdb'[t] = tmdb[t] \/ Underway(t),
           \A t \in Movies : wanted[t] = Chosen /\ worker'.pc \in {"search", "apply"} /\ worker'.t = t
                                => t \in overtaken' \/ Underway(t)
    PROVE  Kept' /\ Firm'
<1>1. Kept'  BY DEF MTInv, Kept
<1>2. ASSUME NEW t \in Movies, wanted'[t] = Chosen, t \notin overtaken'
      PROVE  tmdb'[t] = Chosen /\ ~Underway(t)'
  <2>1. tmdb[t] = Chosen /\ ~Underway(t)  BY <1>2 DEF MTInv, Firm
  <2>2. ~(worker'.pc \in {"search", "apply"} /\ worker'.t = t)  BY <1>2, <2>1
  <2>3. ~(\E r \in Refreshers : asked[r].pc = "fetch" /\ asked[r].t = t /\ asked[r].id = Automatic)
    BY <2>1 DEF Underway
  <2>4. asked' = asked  OBVIOUS
  <2>5. ~Underway(t)'  BY <2>2, <2>3, <2>4 DEF Underway
  <2> QED BY <2>1, <2>5
<1> QED BY <1>1, <1>2 DEF Firm

\* Membership has a truth value, which a record may hold.
LEMMA FailsOrNot ==
    ASSUME NEW t
    PROVE  \E b \in BOOLEAN : b = (t \in Failing)
<1>1. CASE t \in Failing
  <2>1. TRUE = (t \in Failing)  BY <1>1
  <2> WITNESS TRUE \in BOOLEAN
  <2> QED BY <2>1
<1>2. CASE ~(t \in Failing)
  <2>1. FALSE = (t \in Failing)  BY <1>2
  <2> WITNESS FALSE \in BOOLEAN
  <2> QED BY <2>1
<1> QED BY <1>1, <1>2

LEMMA MTWorkerSteps ==
    ASSUME MTInv, WorkerStep
    PROVE  MTInv'
<1> USE MatchingAssumption
<1>0. MTTypes /\ Kept /\ Firm /\ worker \in MTWorkers /\ QueueGood(queue) /\ batch \in Seq(Movies)
  BY DEF MTInv, MTTypes
<1>1. UNCHANGED <<lock, asked, wanted>>
  BY DEF WorkerStep, Enqueue, List, Drained, Look, Search, Apply, After
<1>2. ASSUME QueueGood(queue'), batch' \in Seq(Movies), worker' \in MTWorkers,
             tmdb' \in [Movies -> {Automatic, Chosen, NoId}], overtaken' \subseteq Movies, Kept', Firm'
      PROVE  MTInv'
  BY <1>0, <1>1, <1>2 DEF MTInv, MTTypes
<1>3. tmdb \in [Movies -> {Automatic, Chosen, NoId}] /\ overtaken \subseteq Movies  BY <1>0 DEF MTTypes
<1>w. ASSUME NEW pc \in {"idle", "list", "look", "search", "apply", "after"}, Worker(pc)
      PROVE  worker' \in MTWorkers /\ worker'.pc = pc /\ worker'.t = worker.t
  BY <1>0, <1>w DEF Worker, MTWorkers
<1>4. CASE Enqueue
  <2>1. UNCHANGED <<tmdb, batch, overtaken>> /\ Worker("list")  BY <1>4 DEF Enqueue
  <2>2. PICK new \in SetToSeqs(Unmatched \ Range(queue)) : queue' = queue \o new  BY <1>4 DEF Enqueue
  <2>3. QueueGood(queue')  BY <1>0, <2>2, JoinedGood DEF Unmatched
  <2>4. worker' \in MTWorkers /\ worker'.pc = "list"  BY <1>w, <2>1
  <2>5. Kept' /\ Firm'  BY <1>1, <2>1, <2>4, MTWorkerKeeps
  <2> QED BY <1>0, <1>2, <1>3, <2>1, <2>3, <2>4, <2>5
<1>5. CASE List
  <2>1. UNCHANGED <<tmdb, queue, overtaken>> /\ Worker("look")  BY <1>5 DEF List
  <2>2. batch' \in Seq(Movies)
    <3>1. PICK n : n = IF Len(queue) < Limit THEN Len(queue) ELSE Limit  OBVIOUS
    <3>2. queue \in Seq(Movies) /\ n \in Nat /\ n <= Len(queue)  BY <1>0, <3>1 DEF QueueGood
    <3>3. batch' = SubSeq(queue, 1, n)  BY <1>5, <3>1 DEF List
    <3> QED BY <3>2, <3>3, SubSeqProperties
  <2>3. worker' \in MTWorkers /\ worker'.pc = "look"  BY <1>w, <2>1
  <2>4. Kept' /\ Firm'  BY <1>1, <2>1, <2>3, MTWorkerKeeps
  <2> QED BY <1>0, <1>2, <1>3, <2>1, <2>2, <2>3, <2>4
<1>6. CASE Drained
  <2>1. UNCHANGED <<tmdb, queue, batch, overtaken>> /\ Worker("idle")  BY <1>6 DEF Drained
  <2>2. worker' \in MTWorkers /\ worker'.pc = "idle"  BY <1>w, <2>1
  <2>3. Kept' /\ Firm'  BY <1>1, <2>1, <2>2, MTWorkerKeeps
  <2> QED BY <1>0, <1>2, <1>3, <2>1, <2>2, <2>3
<1>7. CASE Look
  <2>1. UNCHANGED <<tmdb, queue>> /\ batch # <<>> /\ batch' = Tail(batch)  BY <1>7 DEF Look
  <2>2. PICK t \in Movies : t = Head(batch)  BY <1>0, <2>1
  <2>3. batch' \in Seq(Movies)  BY <1>0, <2>1
  <2>4. overtaken' = overtaken \cup Unlocked(t)
        /\ worker' = [pc |-> IF t \in lock THEN "after" ELSE "search", t |-> t, failed |-> FALSE]
    BY <1>7, <2>2 DEF Look
  <2>5. worker' \in MTWorkers /\ worker'.t = t /\ (t \in lock => worker'.pc = "after")
    BY <2>4 DEF MTWorkers
  <2>6. Unlocked(t) \subseteq Movies  BY DEF Unlocked
  <2>7. wanted[t] = Chosen => t \in lock \/ t \in Unlocked(t)  BY <1>0 DEF Kept, Unlocked
  <2>8. Kept' /\ Firm'  BY <1>1, <2>1, <2>4, <2>5, <2>7, MTWorkerKeeps
  <2> QED BY <1>0, <1>2, <1>3, <2>1, <2>3, <2>4, <2>5, <2>6, <2>8
<1>8. CASE Search
  <2>1. UNCHANGED <<tmdb, queue, batch, overtaken>> /\ worker.pc = "search"  BY <1>8 DEF Search
  <2>2. PICK f \in BOOLEAN : f = (worker.t \in Failing)  BY FailsOrNot
  <2>3. f \in BOOLEAN  OBVIOUS
  <2>4. PICK pc \in {"after", "apply"} : worker' = [worker EXCEPT !.pc = pc, !.failed = f]
    BY <1>8, <2>2 DEF Search
  <2>5. worker' \in MTWorkers /\ worker'.t = worker.t  BY <1>0, <2>3, <2>4 DEF MTWorkers
  <2>6. Underway(worker.t)  BY <2>1 DEF Underway
  <2>7. Kept' /\ Firm'  BY <1>1, <2>1, <2>5, <2>6, MTWorkerKeeps
  <2> QED BY <1>0, <1>2, <1>3, <2>1, <2>5, <2>7
<1>9. CASE Apply
  <2>1. /\ UNCHANGED <<batch, overtaken>> /\ worker.pc = "apply" /\ Worker("after")
        /\ tmdb' = [tmdb EXCEPT ![worker.t] = Automatic] /\ queue' = Without(worker.t)
    BY <1>9 DEF Apply
  <2>2. worker' \in MTWorkers /\ worker'.pc = "after"  BY <1>w, <2>1
  <2>3. worker.t \in Movies  BY <1>0 DEF MTWorkers
  <2>4. Underway(worker.t)  BY <2>1 DEF Underway
  <2>5. tmdb' \in [Movies -> {Automatic, Chosen, NoId}] /\ \A t \in Movies : tmdb'[t] = tmdb[t] \/ t = worker.t
    BY <1>3, <2>1, <2>3
  <2>6. Kept' /\ Firm'  BY <1>1, <2>1, <2>2, <2>4, <2>5, MTWorkerKeeps
  <2>7. QueueGood(queue')  BY <1>0, <2>1, WithoutGood
  <2> QED BY <1>0, <1>2, <1>3, <2>1, <2>2, <2>5, <2>6, <2>7
<1>10. CASE After
  <2>1. UNCHANGED <<tmdb, batch, overtaken>> /\ Worker("look")  BY <1>10 DEF After
  <2>2. worker' \in MTWorkers /\ worker'.pc = "look"  BY <1>w, <2>1
  <2>3. worker.t \in Movies  BY <1>0 DEF MTWorkers
  <2>4. queue' \in {queue, Append(Without(worker.t), worker.t), Without(worker.t)}
    BY <1>10 DEF After
  <2>5. QueueGood(Without(worker.t)) /\ QueueGood(Append(Without(worker.t), worker.t))
    BY <1>0, <2>3, WithoutGood, AppendedGood
  <2>6. QueueGood(queue')  BY <1>0, <2>4, <2>5
  <2>7. Kept' /\ Firm'  BY <1>1, <2>1, <2>2, MTWorkerKeeps
  <2> QED BY <1>0, <1>2, <1>3, <2>1, <2>2, <2>6, <2>7
<1> QED BY <1>4, <1>5, <1>6, <1>7, <1>8, <1>9, <1>10 DEF WorkerStep

\* A request moves on: it is under way only if it was, or begins so.
LEMMA UnderwayMoves ==
    ASSUME asked \in [Askers -> MTAsked], NEW a \in Askers, NEW w \in MTAsked, worker' = worker,
           asked' = [asked EXCEPT ![a] = w], NEW t,
           a \in Refreshers /\ w.pc = "fetch" /\ w.t = t => w.id # Automatic,
           ~Underway(t)
    PROVE  ~Underway(t)'
<1> SUFFICES ASSUME Underway(t)' PROVE FALSE  OBVIOUS
<1>1. ~(worker'.pc \in {"search", "apply"} /\ worker'.t = t)  BY DEF Underway
<1>2. PICK r \in Refreshers : asked'[r].pc = "fetch" /\ asked'[r].t = t /\ asked'[r].id = Automatic
  BY <1>1 DEF Underway
<1>3. r \in Askers  BY DEF Askers
<1>4. CASE r = a  BY <1>2, <1>4
<1>5. CASE r # a
  <2>1. asked'[r] = asked[r]  BY <1>3, <1>5
  <2> QED BY <1>2, <2>1 DEF Underway
<1> QED BY <1>4, <1>5

\* The type of a step of a request.
LEMMA AskerTyped ==
    ASSUME MTInv, NEW a \in Askers, NEW w, AskedGood(a, w), UNCHANGED <<batch, worker>>,
           asked' = [asked EXCEPT ![a] = w], QueueGood(queue'),
           tmdb' \in [Movies -> {Automatic, Chosen, NoId}], wanted' \in [Movies -> {Chosen, NoId}],
           lock' \subseteq Movies, overtaken' \subseteq Movies
    PROVE  MTTypes'
<1>1. w \in MTAsked /\ asked \in [Askers -> MTAsked] /\ \A q \in Askers : AskedGood(q, asked[q])
  BY DEF AskedGood, MTInv, MTTypes
<1>2. asked' \in [Askers -> MTAsked] /\ \A q \in Askers : AskedGood(q, asked'[q])  BY <1>1
<1> QED BY <1>2 DEF MTInv, MTTypes

LEMMA MTAskerSteps ==
    ASSUME MTInv, NEW a \in Askers,
           \/ Update(a) \/ Lock(a) \/ Dequeue(a)
           \/ \E t \in Movies : Match(a, t) \/ Refresh(a, t)
    PROVE  MTInv'
<1> USE MatchingAssumption
<1>0. /\ MTTypes /\ Kept /\ Firm /\ QueueGood(queue)
      /\ tmdb \in [Movies -> {Automatic, Chosen, NoId}] /\ wanted \in [Movies -> {Chosen, NoId}]
      /\ lock \subseteq Movies /\ overtaken \subseteq Movies /\ asked \in [Askers -> MTAsked]
  BY DEF MTInv, MTTypes
<1>1. PICK w \in MTAsked : w = asked[a] /\ AskedGood(a, w)  BY <1>0 DEF MTTypes
<1>2. w.t \in Movies  BY <1>1 DEF MTAsked
<1>3. Admins \subseteq Askers /\ (a \in Admins <=> a \notin Refreshers)  BY DEF Askers
\* Nothing but the request changes.
<1>k. ASSUME NEW u, AskedGood(a, u), asked' = [asked EXCEPT ![a] = u], UNCHANGED <<batch, worker>>,
             UNCHANGED <<tmdb, wanted, overtaken>>, QueueGood(queue'), lock \subseteq lock', lock' \subseteq Movies,
             w.pc = "lock" => w.t \in lock',
             \A t \in Movies : wanted[t] = Chosen /\ t \notin overtaken /\ a \in Refreshers /\ u.pc = "fetch" /\ u.t = t
                                  => u.id # Automatic
      PROVE  MTInv'
  <2>1. u \in MTAsked  BY <1>k DEF AskedGood
  <2>2. MTTypes'  BY <1>0, <1>k, AskerTyped
  <2>3. ASSUME NEW t \in Movies, wanted'[t] = Chosen
        PROVE  t \in lock' \/ \E b \in Admins : asked'[b].pc = "lock" /\ asked'[b].t = t
    <3>1. t \in lock \/ \E b \in Admins : asked[b].pc = "lock" /\ asked[b].t = t  BY <1>0, <1>k, <2>3 DEF Kept
    <3>2. ASSUME NEW b \in Admins, asked[b].pc = "lock" /\ asked[b].t = t, t \notin lock'
          PROVE  asked'[b].pc = "lock" /\ asked'[b].t = t
      <4>1. b # a  BY <1>1, <1>k, <3>2
      <4>2. asked'[b] = asked[b]  BY <1>0, <1>3, <1>k, <4>1
      <4> QED BY <3>2, <4>2
    <3> QED BY <1>k, <3>1, <3>2
  <2>4. ASSUME NEW t \in Movies, wanted'[t] = Chosen, t \notin overtaken'
        PROVE  tmdb'[t] = Chosen /\ ~Underway(t)'
    <3>1. tmdb[t] = Chosen /\ ~Underway(t)  BY <1>0, <1>k, <2>4 DEF Firm
    <3>2. ~Underway(t)'  BY <1>0, <1>k, <2>1, <2>4, <3>1, UnderwayMoves
    <3> QED BY <1>k, <3>1, <3>2
  <2> QED BY <2>2, <2>3, <2>4 DEF MTInv, Kept, Firm
<1>4. CASE Dequeue(a)
  <2>1. /\ w.pc = "dequeue" /\ queue' = Without(w.t) /\ asked' = [asked EXCEPT ![a] = Nothing]
        /\ UNCHANGED <<tmdb, lock, batch, worker, wanted, overtaken>>
    BY <1>1, <1>4 DEF Dequeue
  <2>2. QueueGood(queue')  BY <1>0, <2>1, WithoutGood
  <2>3. AskedGood(a, Nothing)  BY NothingTyped DEF AskedGood
  <2> QED BY <1>0, <1>k, <2>1, <2>2, <2>3, NothingTyped
<1>5. ASSUME NEW t \in Movies, Match(a, t) PROVE MTInv'
  <2>1. PICK u : u = [pc |-> "fetch", t |-> t, id |-> Chosen]  OBVIOUS
  <2>2. a \in Admins /\ w.pc = "idle" /\ asked' = [asked EXCEPT ![a] = u]
        /\ UNCHANGED <<tmdb, lock, queue, batch, worker, wanted, overtaken>>
    BY <1>1, <1>5, <2>1 DEF Match
  <2>3. AskedGood(a, u)  BY <1>3, <2>1, <2>2 DEF AskedGood, MTAsked
  <2> QED BY <1>0, <1>3, <1>k, <2>2, <2>3
<1>6. ASSUME NEW t \in Movies, Refresh(a, t) PROVE MTInv'
  <2>1. PICK u : u = [pc |-> "fetch", t |-> t, id |-> tmdb[t]]  OBVIOUS
  <2>2. a \in Refreshers /\ w.pc = "idle" /\ tmdb[t] # NoId /\ asked' = [asked EXCEPT ![a] = u]
        /\ UNCHANGED <<tmdb, lock, queue, batch, worker, wanted, overtaken>>
    BY <1>1, <1>6, <2>1 DEF Refresh
  <2>3. AskedGood(a, u)  BY <1>0, <1>3, <2>1, <2>2 DEF AskedGood, MTAsked
  <2>4. \A m \in Movies : wanted[m] = Chosen /\ m \notin overtaken => tmdb[m] = Chosen  BY <1>0 DEF Firm
  <2>5. \A m \in Movies : wanted[m] = Chosen /\ m \notin overtaken /\ u.t = m => u.id # Automatic
    BY <2>1, <2>4
  <2> QED BY <1>0, <1>k, <2>2, <2>3, <2>5
<1>7. CASE Lock(a)
  <2>1. /\ w.pc = "lock" /\ lock' = lock \cup {w.t} /\ asked' = [asked EXCEPT ![a].pc = "dequeue"]
        /\ overtaken' = IF Underway(w.t) THEN overtaken \cup {w.t} ELSE overtaken
        /\ UNCHANGED <<tmdb, queue, batch, worker, wanted>>
    BY <1>1, <1>7 DEF Lock
  <2>2. PICK u : u = [w EXCEPT !.pc = "dequeue"]  OBVIOUS
  <2>3. asked' = [asked EXCEPT ![a] = u]  BY <1>0, <1>1, <2>1, <2>2
  <2>4. u \in MTAsked /\ u.pc = "dequeue" /\ AskedGood(a, u)  BY <1>1, <2>2 DEF MTAsked, AskedGood
  <2>5. MTTypes'  BY <1>0, <1>2, <2>1, <2>3, <2>4, AskerTyped
  <2>6. ASSUME NEW t \in Movies, wanted'[t] = Chosen
        PROVE  t \in lock' \/ \E b \in Admins : asked'[b].pc = "lock" /\ asked'[b].t = t
    <3>1. t \in lock \/ \E b \in Admins : asked[b].pc = "lock" /\ asked[b].t = t  BY <1>0, <2>1, <2>6 DEF Kept
    <3>2. ASSUME NEW b \in Admins, asked[b].pc = "lock" /\ asked[b].t = t, t \notin lock'
          PROVE  asked'[b].pc = "lock" /\ asked'[b].t = t
      <4>1. b # a  BY <1>1, <2>1, <3>2
      <4>2. asked'[b] = asked[b]  BY <1>0, <1>3, <2>3, <4>1
      <4> QED BY <3>2, <4>2
    <3> QED BY <2>1, <3>1, <3>2
  <2>7. ASSUME NEW t \in Movies, wanted'[t] = Chosen, t \notin overtaken'
        PROVE  tmdb'[t] = Chosen /\ ~Underway(t)'
    <3>1. tmdb[t] = Chosen /\ ~Underway(t)  BY <1>0, <2>1, <2>7 DEF Firm
    <3>2. ~Underway(t)'  BY <1>0, <2>1, <2>3, <2>4, <3>1, UnderwayMoves
    <3> QED BY <2>1, <3>1, <3>2
  <2> QED BY <2>5, <2>6, <2>7 DEF MTInv, Kept, Firm
<1>8. CASE Update(a)
  <2>1. /\ w.pc = "fetch" /\ tmdb' = [tmdb EXCEPT ![w.t] = w.id]
        /\ asked' = [asked EXCEPT ![a].pc = IF a \in Admins THEN "lock" ELSE "dequeue"]
        /\ wanted' = IF a \in Admins THEN [wanted EXCEPT ![w.t] = Chosen] ELSE wanted
        /\ overtaken' = IF a \in Admins /\ Underway(w.t) THEN overtaken \cup {w.t} ELSE overtaken
        /\ UNCHANGED <<lock, queue, batch, worker>>
    BY <1>1, <1>8 DEF Update
  <2>2. PICK u : u = [w EXCEPT !.pc = IF a \in Admins THEN "lock" ELSE "dequeue"]  OBVIOUS
  <2>3. asked' = [asked EXCEPT ![a] = u]  BY <1>0, <1>1, <2>1, <2>2
  <2>4. /\ u \in MTAsked /\ u.t = w.t /\ u.pc = (IF a \in Admins THEN "lock" ELSE "dequeue")
        /\ AskedGood(a, u)
    BY <1>1, <1>3, <2>2 DEF MTAsked, AskedGood
  <2>5. w.id \in {Automatic, Chosen, NoId}  BY <1>1 DEF MTAsked
  <2>6. MTTypes'
    <3>1. tmdb' \in [Movies -> {Automatic, Chosen, NoId}] /\ wanted' \in [Movies -> {Chosen, NoId}]
          /\ overtaken' \subseteq Movies
      BY <1>0, <1>2, <2>1, <2>5
    <3> QED BY <1>0, <2>1, <2>3, <2>4, <3>1, AskerTyped
  <2>7. ASSUME NEW t \in Movies, wanted'[t] = Chosen
        PROVE  t \in lock' \/ \E b \in Admins : asked'[b].pc = "lock" /\ asked'[b].t = t
    <3>1. CASE a \in Admins /\ t = w.t
      <4>1. asked'[a] = u  BY <1>0, <2>3
      <4> QED BY <2>4, <3>1, <4>1
    <3>2. CASE ~(a \in Admins /\ t = w.t)
      <4>1. wanted[t] = Chosen  BY <1>0, <2>1, <2>7, <3>2
      <4>2. t \in lock \/ \E b \in Admins : asked[b].pc = "lock" /\ asked[b].t = t  BY <1>0, <4>1 DEF Kept
      <4>3. ASSUME NEW b \in Admins, asked[b].pc = "lock" /\ asked[b].t = t
            PROVE  asked'[b].pc = "lock" /\ asked'[b].t = t
        <5>1. b # a  BY <1>1, <2>1, <4>3
        <5>2. asked'[b] = asked[b]  BY <1>0, <1>3, <2>3, <5>1
        <5> QED BY <4>3, <5>2
      <4> QED BY <2>1, <4>2, <4>3
    <3> QED BY <3>1, <3>2
  <2>8. ASSUME NEW t \in Movies, wanted'[t] = Chosen, t \notin overtaken'
        PROVE  tmdb'[t] = Chosen /\ ~Underway(t)'
    <3>1. ~Underway(t) => ~Underway(t)'  BY <1>0, <2>1, <2>3, <2>4, UnderwayMoves
    <3>2. t \notin overtaken  BY <2>1, <2>8
    <3>3. CASE a \in Admins /\ t = w.t
      <4>1. ~Underway(t)  BY <2>1, <2>8, <3>3
      <4>2. w.id = Chosen  BY <1>1, <2>1, <3>3 DEF AskedGood
      <4> QED BY <1>0, <2>1, <3>1, <3>3, <4>1, <4>2
    <3>4. CASE ~(a \in Admins /\ t = w.t)
      <4>1. wanted[t] = Chosen  BY <1>0, <2>1, <2>8, <3>4
      <4>2. tmdb[t] = Chosen /\ ~Underway(t)  BY <1>0, <3>2, <4>1 DEF Firm
      <4>3. CASE t = w.t
        <5>1. a \in Refreshers  BY <1>3, <3>4, <4>3
        <5>2. w.id # NoId  BY <1>1, <2>1, <5>1 DEF AskedGood
        <5>3. w.id # Automatic  BY <1>1, <2>1, <4>2, <4>3, <5>1 DEF Underway
        <5>4. w.id = Chosen  BY <2>5, <5>2, <5>3
        <5> QED BY <1>0, <2>1, <3>1, <4>2, <4>3, <5>4
      <4>4. CASE t # w.t  BY <1>0, <1>2, <2>1, <3>1, <4>2, <4>4
      <4> QED BY <4>3, <4>4
    <3> QED BY <3>3, <3>4
  <2> QED BY <2>6, <2>7, <2>8 DEF MTInv, Kept, Firm
<1> QED BY <1>4, <1>5, <1>6, <1>7, <1>8

LEMMA MTQueued ==
    ASSUME MTInv, NEW t \in Movies, RefreshUnmatched(t)
    PROVE  MTInv'
<1>1. /\ UNCHANGED <<tmdb, lock, batch, worker, asked, wanted, overtaken>> /\ queue' = Append(queue, t)
      /\ t \notin Range(queue)
  BY DEF RefreshUnmatched
<1>2. QueueGood(queue) /\ queue \in Seq(Movies)  BY DEF MTInv, MTTypes, QueueGood
<1>3. QueueGood(queue')  BY <1>1, <1>2, RangeOfSequence, AppendedGood
<1>4. Kept' /\ Firm'  BY <1>1 DEF MTInv, Kept, Firm, Underway
<1> QED BY <1>1, <1>3, <1>4 DEF MTInv, MTTypes

\* The safety part of MatchingContract (metadata/service.go, worker.go and
\* handlers.go): what an administrator chose is not written over by the worker
\* or a refresh, but by one that had read the title before it was locked.
THEOREM MatchingIsSafe ==
    MTSpec => []MTTypeOK /\ [][UNCHANGED mtVars \/ ChoiceStays']_mtVars
<1>1. MTInit => MTInv  BY MTStarts
<1>2. MTInv /\ [MTNext]_mtVars => MTInv'
  <2>1. CASE UNCHANGED mtVars  BY <2>1 DEF MTInv, MTTypes, Kept, Firm, Underway, mtVars
  <2>2. CASE MTNext  BY <2>2, MTWorkerSteps, MTAskerSteps, MTQueued, Zenon DEF MTNext
  <2> QED BY <2>1, <2>2
<1>3. MTInv => MTTypeOK  BY MTTyped
<1>4. MTInv => ChoiceStays  BY MTStays
<1> QED BY <1>1, <1>2, <1>3, <1>4, PTL DEF MTSpec

-----------------------------------------------------------------------------
(* The bot's connection to the Discord Gateway.                            *)

GWBots == [pc: {"top", "dial", "hello", "open", "pause", "off"}, tok: Tokens \cup {NoToken},
           sess: Tokens \cup {NoToken}, acked: BOOLEAN]
GWStates == [state: {"disabled", "connecting", "online", "reconnecting", "failed", "stopped"},
             rejected: BOOLEAN]

\* The session the bot holds, if any, was opened with the token of its turn.
OwnSession == bot.sess \in {NoToken, bot.tok}

GWInv == GWTypeOK /\ OwnSession

LEMMA GWStarts == GWInit => GWInv
<1> SUFFICES ASSUME GWInit PROVE GWInv  OBVIOUS
<1>1. bot \in GWBots /\ status \in GWStates  BY DEF GWInit, GWBots, GWStates
<1>2. {owed, kick, known, ended} \subseteq BOOLEAN  BY Zenon DEF GWInit
<1>3. mishaps \in 0..MaxFaults /\ changes \in 0..MaxChanges  BY GatewayAssumption DEF GWInit
<1>4. OwnSession  BY DEF GWInit, OwnSession
<1> QED BY <1>1, <1>2, <1>3, <1>4 DEF GWInit, GWInv, GWTypeOK, GWBots, GWStates

LEMMA GWMovesOn == GWInv /\ GWNext => GWInv'
<1> SUFFICES ASSUME GWInv, GWNext PROVE GWInv'  OBVIOUS
<1> USE GatewayAssumption
<1> DEFINE Lines == {"up", "dead", "gone"}
<1> DEFINE Good == /\ bot' \in GWBots /\ status' \in GWStates /\ OwnSession' /\ line' \in Lines
                   /\ owed' \in BOOLEAN /\ kick' \in BOOLEAN /\ known' \in BOOLEAN /\ ended' \in BOOLEAN
                   /\ setting' \in Tokens \cup {NoToken}
                   /\ mishaps' \in 0..MaxFaults /\ changes' \in 0..MaxChanges
<1>0. /\ bot \in GWBots /\ status \in GWStates /\ OwnSession /\ line \in Lines
      /\ owed \in BOOLEAN /\ kick \in BOOLEAN /\ known \in BOOLEAN /\ ended \in BOOLEAN
      /\ setting \in Tokens \cup {NoToken}
      /\ mishaps \in 0..MaxFaults /\ changes \in 0..MaxChanges
  BY DEF GWInv, GWTypeOK, GWBots, GWStates
<1>q. SUFFICES Good  BY Zenon DEF GWInv, GWTypeOK, GWBots, GWStates
<1>r. ASSUME NEW again \in BOOLEAN, Retry(again)
      PROVE  bot' \in GWBots /\ OwnSession' /\ line' \in Lines /\ status' \in GWStates
  <2>1. CASE again = TRUE  BY <1>0, <1>r, <2>1 DEF Retry, Shown, GWBots, GWStates, OwnSession
  <2>2. CASE again = FALSE  BY <1>0, <1>r, <2>2 DEF Retry, Shown, GWBots, GWStates, OwnSession
  <2> QED BY <1>r, <2>1, <2>2
<1>f. ASSUME NEW refused \in BOOLEAN, Fatal(refused)
      PROVE  bot' \in GWBots /\ OwnSession' /\ line' \in Lines /\ status' \in GWStates
  BY <1>0, <1>f DEF Fatal, GWBots, GWStates, OwnSession
<1>m. ASSUME Mishap PROVE mishaps' \in 0..MaxFaults  BY <1>0, <1>m DEF Mishap
<1>8. CASE Beat
  <2>1. bot' \in GWBots /\ OwnSession' /\ line' \in Lines /\ status' \in GWStates
    <3>1. CASE bot.acked = TRUE
      <4>1. bot' = [bot EXCEPT !.acked = FALSE] /\ UNCHANGED <<status, line>>
        BY <1>8, <3>1, Zenon DEF Beat
      <4>2. bot' \in GWBots /\ bot'.tok = bot.tok /\ bot'.sess = bot.sess  BY <1>0, <4>1 DEF GWBots
      <4> QED BY <1>0, <4>1, <4>2 DEF OwnSession
    <3>2. CASE bot.acked = FALSE
      <4>1. Retry(TRUE)  BY <1>8, <3>2, Zenon DEF Beat
      <4> QED BY <1>r, <4>1, Zenon
    <3>3. bot.acked \in BOOLEAN  BY <1>0 DEF GWBots
    <3> QED BY <3>1, <3>2, <3>3, Zenon
  <2>2. UNCHANGED <<setting, owed, ended, changes, kick, known, mishaps>>  BY <1>8, Zenon DEF Beat, outside
  <2> QED BY <1>0, <2>1, <2>2, Zenon
<1> USE DEF outside, Shown, Mishap, Open, Connected, Retry, Fatal, SigningIn, Resuming,
            GWBots, GWStates, OwnSession
<1>1. CASE Top
  <2>1. bot' \in GWBots /\ bot'.tok = setting /\ bot'.sess \in {NoToken, bot'.tok}
    BY <1>0, <1>1 DEF Top
  <2>2. status' \in GWStates
    <3>1. status' = [state |-> IF setting = NoToken THEN "disabled" ELSE "connecting",
                     rejected |-> IF setting # bot.tok THEN FALSE ELSE status.rejected]
      BY <1>1 DEF Top
    <3>2. status.rejected \in BOOLEAN  BY <1>0
    <3>3. (IF setting # bot.tok THEN FALSE ELSE status.rejected) \in BOOLEAN  BY <3>2, Zenon
    <3> QED BY <3>1, <3>3
  <2> QED BY <1>0, <1>1, <2>1, <2>2 DEF Top
<1>2. CASE Dial
  <2>1. /\ bot' \in GWBots /\ OwnSession' /\ line' \in Lines /\ status' \in GWStates
        /\ mishaps' \in 0..MaxFaults
    <3>1. CASE bot' = [bot EXCEPT !.pc = "hello"] /\ line' = "up" /\ UNCHANGED <<status, mishaps>>
      BY <1>0, <3>1
    <3>2. CASE Mishap /\ Retry(TRUE)  BY <1>r, <1>m, <3>2, Zenon
    <3> QED BY <1>2, <3>1, <3>2, Zenon DEF Dial
  <2> QED BY <1>0, <1>2, <2>1, Zenon DEF Dial
<1>3. CASE Hello  BY <1>0, <1>3 DEF Hello
<1>4. CASE NoHello  BY <1>0, <1>4 DEF NoHello
<1>5. CASE SignedIn  BY <1>0, <1>5 DEF SignedIn
<1>6. CASE Rejected  BY <1>0, <1>6 DEF Rejected
<1>7. CASE Unknown  BY <1>0, <1>7 DEF Unknown
<1>9. CASE ReadError  BY <1>0, <1>9 DEF ReadError
<1>10. CASE Reloaded
  <2>1. bot' \in GWBots /\ OwnSession' /\ line' \in Lines /\ known' \in BOOLEAN
    <3>1. CASE setting = bot.tok
      <4>1. UNCHANGED <<bot, line, known>>  BY <1>10, <3>1, Zenon DEF Reloaded
      <4> QED BY <1>0, <4>1
    <3>2. CASE setting # bot.tok
      <4>1. bot' = [bot EXCEPT !.pc = "top"] /\ line' = "gone" /\ known' = FALSE
        BY <1>10, <3>2, Zenon DEF Reloaded
      <4>2. bot' \in GWBots /\ bot'.tok = bot.tok /\ bot'.sess = bot.sess  BY <1>0, <4>1
      <4> QED BY <1>0, <4>1, <4>2
    <3> QED BY <3>1, <3>2
  <2>2. kick' = FALSE /\ UNCHANGED <<outside, status, mishaps>>  BY <1>10, Zenon DEF Reloaded
  <2>3. status' \in GWStates  BY <1>0, <2>2
  <2> QED BY <1>0, <2>1, <2>2, <2>3, Zenon
<1>11. CASE TimeOut  BY <1>0, <1>11 DEF TimeOut
<1>12. CASE WakeUp  BY <1>0, <1>12 DEF WakeUp
<1>13. CASE Halt
  <2>1. known' \in BOOLEAN
    <3>1. known' = (known /\ ~(bot.pc \in {"hello", "open"}))  BY <1>13, Zenon DEF Halt, Connected
    <3> QED BY <3>1, Zenon
  <2>2. bot' \in GWBots /\ status' \in GWStates /\ OwnSession'  BY <1>0, <1>13 DEF Halt
  <2> QED BY <1>0, <1>13, <2>1, <2>2 DEF Halt
<1>14. CASE Cut
  <2>1. PICK a \in BOOLEAN : bot' = [bot EXCEPT !.acked = a]  BY <1>14, Zenon DEF Cut
  <2>2. bot' \in GWBots /\ bot'.tok = bot.tok /\ bot'.sess = bot.sess  BY <1>0, <2>1
  <2> QED BY <1>0, <1>14, <2>2 DEF Cut
<1>15. CASE Dismiss
  <2>1. /\ bot' \in GWBots /\ OwnSession' /\ line' \in Lines /\ status' \in GWStates
        /\ mishaps' \in 0..MaxFaults
    <3>1. mishaps' \in 0..MaxFaults  BY <1>m, <1>15, Zenon DEF Dismiss
    <3>2. CASE Retry(TRUE)  BY <1>r, <3>1, <3>2, Zenon
    <3>3. CASE Retry(FALSE)  BY <1>r, <3>1, <3>3, Zenon
    <3>4. CASE Fatal(FALSE)  BY <1>f, <3>1, <3>4, Zenon
    <3> QED BY <1>15, <3>2, <3>3, <3>4, Zenon DEF Dismiss
  <2>2. known' \in BOOLEAN  BY <1>0, <1>15, Zenon DEF Dismiss
  <2> QED BY <1>0, <1>15, <2>1, <2>2, Zenon DEF Dismiss
<1>16. CASE Forget
  <2>1. mishaps' \in 0..MaxFaults  BY <1>m, <1>16, Zenon DEF Forget
  <2>2. bot' \in GWBots /\ status' \in GWStates /\ OwnSession'  BY <1>0, <1>16, Zenon DEF Forget
  <2> QED BY <1>0, <1>16, <2>1, <2>2, Zenon DEF Forget
<1>17. ASSUME NEW t \in Tokens \cup {NoToken}, Configure(t) PROVE Good  BY <1>0, <1>17 DEF Configure
<1>18. CASE Reload
  <2>1. owed' \in BOOLEAN /\ kick' \in BOOLEAN  BY <1>18, Zenon DEF Reload
  <2>2. UNCHANGED <<setting, bot, status, line, known, ended, mishaps, changes>>
    BY <1>18, Zenon DEF Reload
  <2>3. bot' \in GWBots /\ status' \in GWStates /\ OwnSession'  BY <1>0, <2>2
  <2> QED BY <1>0, <2>1, <2>2, <2>3, Zenon
<1>19. CASE StopBot  BY <1>0, <1>19 DEF StopBot
<1> QED BY <1>1, <1>2, <1>3, <1>4, <1>5, <1>6, <1>7, <1>8, <1>9, <1>10, <1>11, <1>12, <1>13, <1>14,
           <1>15, <1>16, <1>17, <1>18, <1>19 DEF GWNext, BotStep

\* The safety part of GatewayContract (gateway.go, run and session): whatever
\* the order of token changes, losses and refusals, the bot never resumes a
\* session with another token than the one it was opened with.
THEOREM GatewayIsSafe ==
    GWSpec => []GWTypeOK /\ [][UNCHANGED gwVars \/ ResumesItsOwn']_gwVars
<1>1. GWInit => GWInv  BY GWStarts
<1>2. GWInv /\ [GWNext]_gwVars => GWInv'
  <2>1. CASE UNCHANGED gwVars
    <3>1. /\ setting' = setting /\ owed' = owed /\ kick' = kick /\ bot' = bot /\ status' = status
          /\ line' = line /\ known' = known /\ ended' = ended /\ mishaps' = mishaps /\ changes' = changes
      BY <2>1, Zenon DEF gwVars
    <3>2. {owed, kick, known, ended} \subseteq BOOLEAN => {owed, kick, known, ended}' \subseteq BOOLEAN
      BY <3>1, Zenon
    <3>4. GWTypeOK => /\ setting' \in Tokens \cup {NoToken} /\ bot' \in GWBots /\ status' \in GWStates
                      /\ line' \in {"up", "dead", "gone"}
                      /\ mishaps' \in 0..MaxFaults /\ changes' \in 0..MaxChanges
      <4> HIDE DEF GWBots, GWStates
      <4>1. GWTypeOK => bot \in GWBots /\ status \in GWStates  BY Zenon DEF GWTypeOK, GWBots, GWStates
      <4>2. GWTypeOK => /\ setting \in Tokens \cup {NoToken} /\ line \in {"up", "dead", "gone"}
                        /\ mishaps \in 0..MaxFaults /\ changes \in 0..MaxChanges
        BY Zenon DEF GWTypeOK
      <4> QED BY <3>1, <4>1, <4>2
    <3>5. GWTypeOK => GWTypeOK'  BY <3>2, <3>4, Zenon DEF GWTypeOK, GWBots, GWStates
    <3>3. OwnSession => OwnSession'  BY <3>1, Zenon DEF OwnSession
    <3> QED BY <3>3, <3>5, Zenon DEF GWInv
  <2> QED BY <2>1, GWMovesOn
<1>3. GWInv => GWTypeOK  BY DEF GWInv
<1>4. GWInv => ResumesItsOwn  BY DEF GWInv, OwnSession, ResumesItsOwn, Resuming
<1> QED BY <1>1, <1>2, <1>3, <1>4, PTL DEF GWSpec

-----------------------------------------------------------------------------
(* Signed-in requests while the database stalls and recovers.              *)

OGCalls == [pc: {"idle", "guard", "register", "run", "put", "refused", "served", "failed"},
            got: Versions, since: Versions, late: BOOLEAN, slipped: BOOLEAN]
OGEntries == [there: BOOLEAN, ver: Versions, gen: Versions, age: 0..2, late: BOOLEAN]
OGBreakers == [open: BOOLEAN, failed: 0..TripAfter, sweep: BOOLEAN]

\* A call that may be served no rights older than those settled when it began:
\* what it has read is new enough by the time it is put into the cache, too.
CallGood(c, now) ==
    /\ c \in OGCalls /\ c.since <= now
    /\ c.pc = "put" => c.got >= c.since
    /\ c.pc = "served" /\ c.late = FALSE => c.got >= c.since

\* An entry is as new as the last change that is over, or marked as older.
EntryGood(e, now) == e \in OGEntries /\ (e.there = TRUE /\ e.late = FALSE => e.ver >= now)

\* The generation is one behind between the save and the count, and a change
\* is settled when the cache has been emptied.
RightsGood ==
    /\ gen \in Versions /\ rights \in Versions /\ settled \in Versions
    /\ edit \in {"none", "saved", "counted"}
    /\ edit = "saved" => gen + 1 = rights
    /\ edit # "saved" => gen = rights
    /\ settled <= rights

OGServer == /\ up \in BOOLEAN /\ inflight \subseteq Calls /\ outages \in 0..MaxOutages
            /\ breaker \in OGBreakers

OGInv ==
    /\ OGServer /\ RightsGood /\ EntryGood(cached, settled)
    /\ call \in [Calls -> OGCalls] /\ \A r \in Calls : CallGood(call[r], settled)

LEMMA OGTyped == OGInv => OGTypeOK
BY DEF OGInv, OGServer, RightsGood, EntryGood, OGTypeOK, OGCalls, OGEntries, OGBreakers

LEMMA OGServes == OGInv => RevokedIsSeen
<1> SUFFICES ASSUME OGInv, NEW r \in Calls, call[r].pc = "served", ~call[r].late
             PROVE  call[r].got >= call[r].since
  BY DEF RevokedIsSeen
<1>1. CallGood(call[r], settled)  BY DEF OGInv
<1>2. call[r].late = FALSE  BY <1>1 DEF CallGood, OGCalls
<1> QED BY <1>1, <1>2 DEF CallGood

LEMMA OGStarts == OGInit => OGInv
<1> SUFFICES ASSUME OGInit PROVE OGInv  OBVIOUS
<1> USE OutageAssumption
<1>0. 0 \in Versions  BY DEF Versions
<1>1. OGServer
  <2>1. breaker \in OGBreakers /\ outages \in 0..MaxOutages  BY DEF OGInit, OGBreakers
  <2>2. up \in BOOLEAN /\ inflight \subseteq Calls  BY Zenon DEF OGInit
  <2> QED BY <2>1, <2>2 DEF OGServer
<1>2. RightsGood  BY <1>0 DEF OGInit, RightsGood, Versions
<1>3. EntryGood(cached, settled)  BY <1>0 DEF OGInit, EntryGood, Empty, OGEntries
<1>4. Fresh \in OGCalls /\ CallGood(Fresh, settled)  BY <1>0 DEF OGInit, OGCalls, CallGood, Fresh
<1>5. call = [r \in Calls |-> Fresh]  BY DEF OGInit
<1> QED BY <1>1, <1>2, <1>3, <1>4, <1>5 DEF OGInv

\* One call moves on while what is settled stays.
LEMMA OGCallMoves ==
    ASSUME call \in [Calls -> OGCalls], \A r \in Calls : CallGood(call[r], settled), settled' = settled,
           NEW r \in Calls, NEW c, CallGood(c, settled), call' = [call EXCEPT ![r] = c]
    PROVE  call' \in [Calls -> OGCalls] /\ \A q \in Calls : CallGood(call'[q], settled')
<1>1. c \in OGCalls  BY DEF CallGood
<1>2. \A q \in Calls : call'[q] = IF q = r THEN c ELSE call[q]  OBVIOUS
<1> QED BY <1>1, <1>2

LEMMA OGRest ==
    ASSUME RightsGood, UNCHANGED <<gen, rights, settled, edit>>
    PROVE  RightsGood'
    BY DEF RightsGood

\* A comparison has a truth value, which a record may hold.
LEMMA EarlierOrNot ==
    ASSUME NEW v, NEW w
    PROVE  \E b \in BOOLEAN : b = (v < w)
<1>1. CASE v < w
  <2>1. TRUE = (v < w)  BY <1>1
  <2> WITNESS TRUE \in BOOLEAN
  <2> QED BY <2>1
<1>2. CASE ~(v < w)
  <2>1. FALSE = (v < w)  BY <1>2
  <2> WITNESS FALSE \in BOOLEAN
  <2> QED BY <2>1
<1> QED BY <1>1, <1>2

\* Every step of a call.
LEMMA OGCallSteps ==
    ASSUME OGInv, NEW r \in Calls, Begin(r) \/ ServeCall(r) \/ Done(r)
    PROVE  OGInv'
<1> USE OutageAssumption
<1>0. /\ OGServer /\ RightsGood /\ EntryGood(cached, settled)
      /\ call \in [Calls -> OGCalls] /\ \A q \in Calls : CallGood(call[q], settled)
  BY DEF OGInv
<1>1. PICK c \in OGCalls : c = call[r]  BY <1>0
<1>2. CallGood(c, settled)  BY <1>0, <1>1
<1>3. cached \in OGEntries /\ settled \in Versions /\ rights \in Versions /\ gen \in Versions /\ settled <= rights
  BY <1>0 DEF EntryGood, RightsGood
<1> DEFINE Moves == \E d : CallGood(d, settled) /\ call' = [call EXCEPT ![r] = d]
<1>m. ASSUME Moves, UNCHANGED server, inflight' \subseteq Calls, UNCHANGED <<gen, rights, settled, edit>>,
             EntryGood(cached', settled)
      PROVE  OGInv'
  <2>1. PICK d : CallGood(d, settled) /\ call' = [call EXCEPT ![r] = d]  BY <1>m
  <2>2. call' \in [Calls -> OGCalls] /\ \A q \in Calls : CallGood(call'[q], settled')
    BY <1>0, <1>m, <2>1, OGCallMoves
  <2>3. RightsGood'  BY <1>0, <1>m, OGRest
  <2>4. OGServer'  BY <1>0, <1>m DEF OGServer, server
  <2>5. EntryGood(cached', settled')  BY <1>m
  <2> QED BY <2>2, <2>3, <2>4, <2>5 DEF OGInv
<1>f. ASSUME UNCHANGED <<server, inflight, principals>>, Moves PROVE OGInv'
  <2>1. /\ UNCHANGED server /\ inflight' = inflight /\ cached' = cached
        /\ UNCHANGED <<gen, rights, settled, edit>>
    BY <1>f DEF principals
  <2> QED BY <1>0, <1>m, <1>f, <2>1 DEF OGServer
<1>4. CASE Begin(r)
  <2> DEFINE hit == cached.there /\ cached.age = 0 /\ cached.gen = gen
  <2>1. PICK d : d = [Fresh EXCEPT !.since = settled, !.pc = IF hit THEN "served" ELSE "guard",
                                   !.got = IF hit THEN cached.ver ELSE 0,
                                   !.late = (hit /\ cached.late)]
    OBVIOUS
  <2>2. call' = [call EXCEPT ![r] = d]  BY <1>4, <2>1 DEF Begin
  <2>3. CASE hit
    <3>1. d = [pc |-> "served", got |-> cached.ver, since |-> settled, late |-> (hit /\ cached.late), slipped |-> FALSE]
      BY <2>1, <2>3 DEF Fresh
    <3>2. (hit /\ cached.late) = cached.late /\ cached.late \in BOOLEAN /\ cached.there = TRUE
      <4>1. cached.late \in BOOLEAN /\ cached.there \in BOOLEAN  BY <1>3 DEF OGEntries
      <4> QED BY <2>3, <4>1, Zenon
    <3>3. d = [pc |-> "served", got |-> cached.ver, since |-> settled, late |-> cached.late, slipped |-> FALSE]
      BY <3>1, <3>2
    <3> HIDE DEF hit
    <3>4. d \in OGCalls  BY <1>3, <3>2, <3>3 DEF OGCalls, OGEntries
    <3>5. CallGood(d, settled)
      BY <1>0, <1>3, <3>2, <3>3, <3>4 DEF CallGood, EntryGood, Versions
    <3> QED BY <1>f, <1>4, <2>2, <3>5 DEF Begin
  <2>4. CASE ~hit
    <3>1. d = [pc |-> "guard", got |-> 0, since |-> settled, late |-> (hit /\ cached.late), slipped |-> FALSE]
      BY <2>1, <2>4 DEF Fresh
    <3>2. (hit /\ cached.late) = FALSE  BY <2>4, Zenon
    <3>3. d = [pc |-> "guard", got |-> 0, since |-> settled, late |-> FALSE, slipped |-> FALSE]
      BY <3>1, <3>2
    <3>4. CallGood(d, settled)  BY <1>3, <3>3 DEF OGCalls, CallGood, Versions
    <3> QED BY <1>f, <1>4, <2>2, <3>4 DEF Begin
  <2> QED BY <2>3, <2>4
<1>5. CASE Guard(r)
  <2>1. PICK p \in {"refused", "register"} : call' = [call EXCEPT ![r] = [c EXCEPT !.pc = p]]
    BY <1>0, <1>1, <1>5 DEF Guard
  <2>2. CallGood([c EXCEPT !.pc = p], settled)  BY <1>2, <2>1 DEF CallGood, OGCalls
  <2> QED BY <1>f, <1>5, <2>1, <2>2 DEF Guard
<1>6. CASE Register(r)
  <2>1. PICK s : s = (breaker.open /\ ~breaker.sweep)  OBVIOUS
  <2>2. s \in BOOLEAN  BY <2>1, Zenon
  <2>3. call' = [call EXCEPT ![r] = [c EXCEPT !.pc = "run", !.slipped = s]]
    BY <1>0, <1>1, <1>6, <2>1 DEF Register
  <2>4. CallGood([c EXCEPT !.pc = "run", !.slipped = s], settled)  BY <1>2, <2>2 DEF CallGood, OGCalls
  <2>5. inflight' \subseteq Calls  BY <1>0, <1>6 DEF Register, OGServer
  <2>6. UNCHANGED server /\ UNCHANGED <<gen, rights, settled, edit>> /\ cached' = cached
    BY <1>6 DEF Register, principals
  <2> QED BY <1>0, <1>m, <2>3, <2>4, <2>5, <2>6
<1>7. CASE Answer(r)
  <2>3. call' = [call EXCEPT ![r] = [c EXCEPT !.pc = "put", !.got = rights]]
    BY <1>0, <1>1, <1>7 DEF Answer
  <2>4. CallGood([c EXCEPT !.pc = "put", !.got = rights], settled)
    <3>1. PICK d : d = [c EXCEPT !.pc = "put", !.got = rights]  OBVIOUS
    <3>2. d \in OGCalls /\ d.pc = "put" /\ d.got = rights /\ d.since = c.since
      BY <1>3, <3>1 DEF OGCalls
    <3>3. c.since \in Nat /\ c.since <= settled /\ settled \in Nat /\ rights \in Nat
      BY <1>2, <1>3 DEF CallGood, OGCalls, Versions
    <3>4. CallGood(d, settled)  BY <1>3, <3>2, <3>3 DEF CallGood
    <3> QED BY <3>1, <3>4
  <2>5. inflight' \subseteq Calls  BY <1>0, <1>7 DEF Answer, OGServer
  <2>6. UNCHANGED server /\ UNCHANGED <<gen, rights, settled, edit>> /\ cached' = cached
    BY <1>7 DEF Answer, principals
  <2> QED BY <1>0, <1>m, <2>3, <2>4, <2>5, <2>6
<1>8. CASE Cancelled(r)
  <2>1. call' = [call EXCEPT ![r] = [c EXCEPT !.pc = "refused"]]  BY <1>0, <1>1, <1>8 DEF Cancelled
  <2>2. CallGood([c EXCEPT !.pc = "refused"], settled)  BY <1>2 DEF CallGood, OGCalls
  <2> QED BY <1>f, <1>8, <2>1, <2>2 DEF Cancelled
<1>9. CASE Remember(r)
  <2>1. call' = [call EXCEPT ![r] = [c EXCEPT !.pc = "served"]] /\ c.pc = "put"
    BY <1>0, <1>1, <1>9 DEF Remember
  <2>2. CallGood([c EXCEPT !.pc = "served"], settled)  BY <1>2, <2>1 DEF CallGood, OGCalls
  <2>3. PICK late \in BOOLEAN : late = (c.got < settled)  BY EarlierOrNot
  <2>4. late \in BOOLEAN  OBVIOUS
  <2>5. cached' = [there |-> TRUE, ver |-> c.got, gen |-> gen, age |-> 0, late |-> late]
    BY <1>1, <1>9, <2>3 DEF Remember
  <2>6. late = FALSE => c.got >= settled
    <3>1. c.got \in Versions  BY <1>1 DEF OGCalls
    <3>2. late = FALSE => ~(c.got < settled)  BY <2>3, Zenon
    <3> QED BY <1>3, <3>1, <3>2 DEF Versions
  <2>7. EntryGood(cached', settled)
    BY <1>1, <1>3, <2>4, <2>5, <2>6 DEF EntryGood, OGEntries, OGCalls
  <2>8. UNCHANGED server /\ UNCHANGED <<gen, rights, settled, edit>> /\ inflight' = inflight
    BY <1>9 DEF Remember
  <2> QED BY <1>0, <1>m, <2>1, <2>2, <2>7, <2>8 DEF OGServer
<1>10. CASE Fallback(r)
  <2> DEFINE stale == cached.there /\ cached.age < 2
  <2>1. PICK d : d = [c EXCEPT !.pc = IF stale THEN "served" ELSE "failed",
                               !.got = IF stale THEN cached.ver ELSE 0,
                               !.late = (stale /\ cached.late)]
    OBVIOUS
  <2>2. call' = [call EXCEPT ![r] = d]  BY <1>0, <1>1, <1>10, <2>1 DEF Fallback
  <2>3. CASE stale
    <3>1. (stale /\ cached.late) = cached.late /\ cached.late \in BOOLEAN /\ cached.there = TRUE
      <4>1. cached.late \in BOOLEAN /\ cached.there \in BOOLEAN  BY <1>3 DEF OGEntries
      <4> QED BY <2>3, <4>1, Zenon
    <3>2. d = [c EXCEPT !.pc = "served", !.got = cached.ver, !.late = (stale /\ cached.late)]
      BY <2>1, <2>3
    <3>3. d = [c EXCEPT !.pc = "served", !.got = cached.ver, !.late = cached.late]
      BY <3>1, <3>2
    <3> HIDE DEF stale
    <3>4. d \in OGCalls  BY <1>1, <1>3, <3>1, <3>3 DEF OGCalls, OGEntries
    <3>5. CallGood(d, settled)
      BY <1>0, <1>1, <1>2, <1>3, <3>1, <3>3, <3>4 DEF CallGood, EntryGood, OGCalls, OGEntries, Versions
    <3> QED BY <1>f, <1>10, <2>2, <3>5 DEF Fallback
  <2>4. CASE ~stale
    <3>1. (stale /\ cached.late) = FALSE  BY <2>4, Zenon
    <3>2. d = [c EXCEPT !.pc = "failed", !.got = 0, !.late = (stale /\ cached.late)]  BY <2>1, <2>4
    <3>3. d = [c EXCEPT !.pc = "failed", !.got = 0, !.late = FALSE]  BY <3>1, <3>2
    <3>4. 0 \in Versions  BY DEF Versions
    <3>5. d \in OGCalls  BY <1>1, <3>3, <3>4 DEF OGCalls
    <3>6. d \in OGCalls /\ d.pc = "failed" /\ d.since = c.since
      BY <1>1, <3>3, <3>5 DEF OGCalls
    <3>7. CallGood(d, settled)  BY <1>2, <3>6 DEF CallGood
    <3> QED BY <1>f, <1>10, <2>2, <3>7 DEF Fallback
  <2> QED BY <2>3, <2>4
<1>11. CASE Done(r)
  <2>1. call' = [call EXCEPT ![r] = Fresh]  BY <1>11 DEF Done
  <2>2. CallGood(Fresh, settled)  BY <1>3 DEF CallGood, OGCalls, Fresh, Versions
  <2> QED BY <1>f, <1>11, <2>1, <2>2 DEF Done
<1> QED BY <1>4, <1>5, <1>6, <1>7, <1>8, <1>9, <1>10, <1>11 DEF ServeCall

\* Every other step: the rights, the cache, the server and the breaker.
LEMMA OGOtherSteps ==
    ASSUME OGInv,
           SaveRights \/ CountGen \/ Clear \/ GrowOld \/ Stall \/ Recover \/ HealthWatch
    PROVE  OGInv'
<1> USE OutageAssumption
<1>0. /\ OGServer /\ RightsGood /\ EntryGood(cached, settled)
      /\ call \in [Calls -> OGCalls] /\ \A q \in Calls : CallGood(call[q], settled)
  BY DEF OGInv
<1>1. cached \in OGEntries /\ settled \in Versions /\ rights \in Versions /\ gen \in Versions /\ settled <= rights
  BY <1>0 DEF EntryGood, RightsGood
<1>2. ASSUME RightsGood', EntryGood(cached', settled'), UNCHANGED call, OGServer', settled' >= settled,
             settled' = settled \/ \A q \in Calls : CallGood(call[q], settled')
      PROVE  OGInv'
  BY <1>0, <1>2 DEF OGInv
<1>3. CASE SaveRights
  <2>1. RightsGood'  BY <1>0, <1>3 DEF SaveRights, RightsGood, Versions
  <2>2. UNCHANGED <<server, inflight, call, cached, settled>>  BY <1>3 DEF SaveRights
  <2> QED BY <1>0, <1>1, <1>2, <2>1, <2>2 DEF OGServer, server, Versions
<1>4. CASE CountGen
  <2>1. RightsGood'  BY <1>0, <1>4 DEF CountGen, RightsGood, Versions
  <2>2. UNCHANGED <<server, inflight, call, cached, settled>>  BY <1>4 DEF CountGen
  <2> QED BY <1>0, <1>1, <1>2, <2>1, <2>2 DEF OGServer, server, Versions
<1>5. CASE Clear
  <2>1. RightsGood' /\ settled' = rights  BY <1>0, <1>5 DEF Clear, RightsGood, Versions
  <2>2. UNCHANGED <<server, inflight, call>> /\ cached' = Empty  BY <1>5 DEF Clear
  <2>3. EntryGood(cached', settled')  BY <1>1, <2>2 DEF EntryGood, Empty, OGEntries, Versions
  <2>4. \A q \in Calls : CallGood(call[q], rights)
    <3> SUFFICES ASSUME NEW q \in Calls PROVE CallGood(call[q], rights)  OBVIOUS
    <3>1. CallGood(call[q], settled)  BY <1>0
    <3>2. call[q].since \in Nat  BY <3>1 DEF CallGood, OGCalls, Versions
    <3> QED BY <1>1, <3>1, <3>2 DEF CallGood, Versions
  <2> QED BY <1>0, <1>1, <1>2, <2>1, <2>2, <2>3, <2>4 DEF OGServer, server, Versions
<1>6. CASE GrowOld
  <2>1. UNCHANGED <<server, inflight, call, gen, rights, settled, edit>>  BY <1>6 DEF GrowOld
  <2>2. EntryGood(cached', settled)
    <3>1. cached' = [cached EXCEPT !.age = @ + 1] /\ cached.age < 2  BY <1>6 DEF GrowOld
    <3>2. /\ cached' \in OGEntries /\ cached'.there = cached.there /\ cached'.late = cached.late
          /\ cached'.ver = cached.ver
      BY <1>1, <3>1 DEF OGEntries
    <3> QED BY <1>0, <3>2 DEF EntryGood
  <2>3. RightsGood'  BY <1>0, <2>1, OGRest
  <2> QED BY <1>0, <1>1, <1>2, <2>1, <2>2, <2>3 DEF OGServer, server, Versions
<1>7. CASE Stall \/ Recover
  <2>1. UNCHANGED <<breaker, inflight, call, cached, gen, rights, settled, edit>>
    BY <1>7 DEF Stall, Recover, principals
  <2>2. outages' \in 0..MaxOutages  BY <1>0, <1>7 DEF Stall, Recover, OGServer
  <2>3. up' \in BOOLEAN  BY <1>7, Zenon DEF Stall, Recover
  <2>4. RightsGood'  BY <1>0, <2>1, OGRest
  <2> QED BY <1>0, <1>1, <1>2, <2>1, <2>2, <2>3, <2>4 DEF OGServer, Versions
<1>8. CASE Ping
  <2> DEFINE failed == IF breaker.failed < TripAfter THEN breaker.failed + 1 ELSE TripAfter
             trips == failed = TripAfter /\ ~breaker.open
  <2>1. UNCHANGED <<up, inflight, call, cached, gen, rights, settled, edit, outages>>
    BY <1>8 DEF Ping, principals
  <2>2. PICK t : t = trips  OBVIOUS
  <2>3. t \in BOOLEAN  BY <2>2, Zenon
  <2>4. PICK o : o = (breaker.open \/ t)  OBVIOUS
  <2>5. o \in BOOLEAN  BY <2>4, Zenon
  <2>6. breaker \in OGBreakers  BY <1>0 DEF OGServer
  <2>7. failed \in 0..TripAfter  BY <2>6 DEF OGBreakers
  <2>8. breaker' = IF up THEN [breaker EXCEPT !.open = FALSE, !.failed = 0]
                   ELSE [open |-> o, failed |-> failed, sweep |-> t]
    BY <1>8, <2>2, <2>4 DEF Ping
  <2> HIDE DEF failed
  <2>9. breaker' \in OGBreakers
    <3>1. CASE up
      <4>1. breaker' = [breaker EXCEPT !.open = FALSE, !.failed = 0]  BY <2>8, <3>1
      <4>2. 0 \in 0..TripAfter  OBVIOUS
      <4> QED BY <2>6, <4>1, <4>2 DEF OGBreakers
    <3>2. CASE ~up
      <4>1. breaker' = [open |-> o, failed |-> failed, sweep |-> t]  BY <2>8, <3>2
      <4> QED BY <2>3, <2>5, <2>7, <4>1 DEF OGBreakers
    <3> QED BY <3>1, <3>2
  <2>10. RightsGood'  BY <1>0, <2>1, OGRest
  <2> QED BY <1>0, <1>1, <1>2, <2>1, <2>9, <2>10 DEF OGServer, Versions
<1>9. CASE CancelAll
  <2>1. UNCHANGED <<up, call, cached, gen, rights, settled, edit, outages>> /\ inflight' = {}
    BY <1>9 DEF CancelAll, principals
  <2>2. breaker' \in OGBreakers  BY <1>0, <1>9 DEF CancelAll, OGServer, OGBreakers
  <2>3. RightsGood'  BY <1>0, <2>1, OGRest
  <2> QED BY <1>0, <1>1, <1>2, <2>1, <2>2, <2>3 DEF OGServer, Versions
<1> QED BY <1>3, <1>4, <1>5, <1>6, <1>7, <1>8, <1>9 DEF HealthWatch

\* The safety part of OutageContract (auth/principal_cache.go, db/breaker.go): once a
\* change of the rights is over, a call that begins is not served with older
\* ones, through the cache or during an outage, save by an entry that a lookup
\* from before the change has put back.
THEOREM OutageIsSafe ==
    OGSpec => []OGTypeOK /\ [][UNCHANGED ogVars \/ RevokedIsSeen']_ogVars
<1>1. OGInit => OGInv  BY OGStarts
<1>2. OGInv /\ [OGNext]_ogVars => OGInv'
  <2>1. CASE UNCHANGED ogVars
    BY <2>1 DEF OGInv, OGServer, RightsGood, ogVars
  <2>2. CASE OGNext  BY <2>2, OGCallSteps, OGOtherSteps, Zenon DEF OGNext
  <2> QED BY <2>1, <2>2
<1>3. OGInv => OGTypeOK  BY OGTyped
<1>4. OGInv => RevokedIsSeen  BY OGServes
<1> QED BY <1>1, <1>2, <1>3, <1>4, PTL DEF OGSpec

-----------------------------------------------------------------------------
(* The settings that several processes share.                              *)

CFLoads == [pc: {"idle", "compare", "read", "tell"}, ver: 0..MaxSaves, back: 0..MaxSaves,
            left: SUBSET Settings, vals: Assignments]

\* A version is never written over, and the latest one is what is stored.
CFData ==
    /\ stored \in Assignments /\ latest \in 0..MaxSaves
    /\ history \in [0..MaxSaves -> Assignments] /\ history[latest] = stored

CFMemory ==
    /\ told \in Assignments /\ losses \in 0..MaxLosses /\ crossed \subseteq Settings
    /\ held \in [values: Assignments, version: 0..latest]

\* A load or a rollback knows a version that exists. As long as that one is
\* the latest, a rollback has compared with what is still stored.
LoadGood(w, now, settings) ==
    /\ w \in CFLoads
    /\ w.pc = "read" => w.ver <= now
    /\ w.pc = "compare" => /\ w.ver <= now /\ w.back < w.ver
                           /\ now = w.ver => \A k \in Settings \ w.left : w.vals[k] = settings[k]

CFInv ==
    /\ CFData /\ CFMemory
    /\ load \in [Loaders -> CFLoads] /\ \A l \in Loaders : LoadGood(load[l], latest, stored)

LEMMA CFTyped == CFInv => CFTypeOK
BY DEF CFInv, CFData, CFMemory, CFTypeOK, CFLoads

LEMMA NobodyTyped ==
    /\ Default \in Assignments
    /\ Nobody \in CFLoads /\ Nobody.pc = "idle"
    /\ \A now, settings : LoadGood(Nobody, now, settings)
<1> USE ConfigAssumption
<1>1. Default \in Assignments  BY DEF Default, Assignments
<1>2. Nobody \in CFLoads /\ Nobody.pc = "idle"  BY <1>1 DEF Nobody, CFLoads
<1> QED BY <1>1, <1>2 DEF LoadGood

LEMMA CFStarts == CFInit => CFInv
<1> SUFFICES ASSUME CFInit PROVE CFInv  OBVIOUS
<1> USE ConfigAssumption, NobodyTyped
<1>1. CFData  BY DEF CFInit, CFData
<1>2. CFMemory  BY DEF CFInit, CFMemory
<1>3. load \in [Loaders -> CFLoads] /\ \A l \in Loaders : LoadGood(load[l], latest, stored)
  BY DEF CFInit
<1> QED BY <1>1, <1>2, <1>3 DEF CFInv

\* The database stays, and so does what the other loads know.
LEMMA CFLoadMoves ==
    ASSUME CFInv, UNCHANGED database, NEW l \in Loaders, NEW w, LoadGood(w, latest, stored),
           load' = [load EXCEPT ![l] = w], CFMemory'
    PROVE  CFInv'
<1>1. w \in CFLoads  BY DEF LoadGood
<1>2. load' \in [Loaders -> CFLoads]  BY <1>1 DEF CFInv
<1>3. stored' = stored /\ latest' = latest /\ history' = history  BY DEF database
<1>4. ASSUME NEW q \in Loaders PROVE LoadGood(load'[q], latest', stored')
  <2>1. load'[q] = IF q = l THEN w ELSE load[q]  BY DEF CFInv
  <2>2. LoadGood(load[q], latest, stored)  BY DEF CFInv
  <2> QED BY <1>3, <2>1, <2>2
<1>5. CFData'  BY <1>3 DEF CFInv, CFData
<1> QED BY <1>2, <1>4, <1>5 DEF CFInv

\* A commit moves the version on, past every version a rollback has compared
\* with.
LEMMA CFCommits ==
    ASSUME CFInv, NEW next \in Assignments, NEW at, Commit(next, at), load' \in [Loaders -> CFLoads],
           UNCHANGED <<memory, losses>>,
           \A q \in Loaders : load'[q] = load[q] \/ LoadGood(load'[q], latest', stored')
    PROVE  CFInv'
<1> USE ConfigAssumption
<1>1. /\ latest \in 0..MaxSaves /\ latest < MaxSaves /\ latest' = latest + 1 /\ stored' = next
      /\ history' = [history EXCEPT ![latest + 1] = next]
  BY DEF Commit, CFInv, CFData
<1>2. CFData'  BY <1>1 DEF CFInv, CFData
<1>3. CFMemory'
  <2>1. told' = told /\ held' = held /\ crossed' = crossed /\ losses' = losses  BY DEF memory
  <2>2. 0..latest \subseteq 0..latest'  BY <1>1
  <2> QED BY <2>1, <2>2 DEF CFInv, CFMemory
<1>4. ASSUME NEW q \in Loaders PROVE LoadGood(load'[q], latest', stored')
  <2>1. CASE load'[q] = load[q]
    <3>1. LoadGood(load[q], latest, stored)  BY DEF CFInv
    <3>2. load[q].ver \in Nat  BY <3>1 DEF LoadGood, CFLoads
    <3>3. LoadGood(load[q], latest', stored')  BY <1>1, <3>1, <3>2 DEF LoadGood
    <3> QED BY <2>1, <3>3
  <2> QED BY <2>1
<1> QED BY <1>2, <1>3, <1>4 DEF CFInv

\* What a request that has just saved starts with.
LEMMA ReadingGood ==
    ASSUME latest' \in 0..MaxSaves
    PROVE  Reading \in CFLoads /\ LoadGood(Reading, latest', stored')
<1>1. Reading \in CFLoads /\ Reading.pc = "read" /\ Reading.ver = latest'
  BY NobodyTyped DEF Reading, CFLoads
<1> QED BY <1>1, ConfigAssumption DEF LoadGood

\* Before the transaction: which settings a rollback that may commit stores.
LEMMA RolledBackIsBack ==
    ASSUME CFInv, NEW l \in Loaders, load[l].pc = "compare", load[l].left = {}, latest = load[l].ver
    PROVE  /\ history[load[l].back] \in Assignments
           /\ [k \in Settings |-> IF history[load[l].back][k] = load[l].vals[k] THEN stored[k]
                                  ELSE history[load[l].back][k]] = history[load[l].back]
<1> USE ConfigAssumption
<1>1. PICK w \in CFLoads : w = load[l]  BY DEF CFInv
<1>2. LoadGood(w, latest, stored)  BY <1>1 DEF CFInv
<1>3. w.back \in 0..MaxSaves  BY <1>1 DEF CFLoads
<1>4. PICK was \in Assignments : was = history[w.back]  BY <1>3 DEF CFInv, CFData
<1>5. \A k \in Settings : w.vals[k] = stored[k]  BY <1>1, <1>2 DEF LoadGood
<1>6. [k \in Settings |-> IF was[k] = w.vals[k] THEN stored[k] ELSE was[k]] = [k \in Settings |-> was[k]]
  BY <1>5
<1>7. [k \in Settings |-> was[k]] = was  BY DEF Assignments
<1> QED BY <1>1, <1>4, <1>6, <1>7

LEMMA CFSaves ==
    ASSUME CFInv, NEW k \in Settings, NEW v \in Values, Elsewhere(k, v) \/ \E l \in Savers : Save(l, k, v)
    PROVE  CFInv'
<1> USE ConfigAssumption
<1>1. [stored EXCEPT ![k] = v] \in Assignments  BY DEF CFInv, CFData, Assignments
<1>2. CASE Elsewhere(k, v)
  <2>1. Commit([stored EXCEPT ![k] = v], latest) /\ UNCHANGED <<memory, load, losses>>
    BY <1>2 DEF Elsewhere
  <2>2. load' = load /\ UNCHANGED <<memory, losses>>  BY <2>1
  <2> QED BY <1>1, <2>1, <2>2, CFCommits DEF CFInv
<1>3. ASSUME NEW l \in Savers, Save(l, k, v) PROVE CFInv'
  <2>1. /\ Commit([stored EXCEPT ![k] = v], held.version) /\ load' = [load EXCEPT ![l] = Reading]
        /\ UNCHANGED <<memory, losses>>
    BY <1>3 DEF Save
  <2>2. latest' \in 0..MaxSaves  BY <2>1 DEF Commit, CFInv, CFData
  <2>3. Reading \in CFLoads /\ LoadGood(Reading, latest', stored')  BY <2>2, ReadingGood
  <2>4. load' \in [Loaders -> CFLoads]  BY <2>1, <2>3 DEF CFInv, Loaders
  <2>5. \A q \in Loaders : load'[q] = load[q] \/ LoadGood(load'[q], latest', stored')
    BY <2>1, <2>3 DEF CFInv
  <2> QED BY <1>1, <2>1, <2>4, <2>5, CFCommits
<1> QED BY <1>2, <1>3

LEMMA CFLoadSteps ==
    ASSUME CFInv, NEW l \in Loaders, LoadStep(l) \/ Fail(l)
    PROVE  CFInv'
<1> USE ConfigAssumption
<1>1. PICK w \in CFLoads : w = load[l]  BY DEF CFInv
<1>2. LoadGood(w, latest, stored)  BY <1>1 DEF CFInv
<1>3. CFMemory /\ CFData /\ load \in [Loaders -> CFLoads]  BY DEF CFInv
<1>4. ASSUME UNCHANGED <<held, told, crossed, latest>>, losses' \in 0..MaxLosses PROVE CFMemory'
  BY <1>3, <1>4 DEF CFMemory
<1>5. CASE Read(l) \/ Compare(l)
  <2> DEFINE k == First(load[l].left)
  <2>1. load[l].left # {} /\ w.left # {}  BY <1>1, <1>5 DEF Read, Compare
  <2>2. k \in w.left  BY <1>1, <2>1 DEF First
  <2>3. k \in Settings  BY <1>1, <2>2 DEF CFLoads
  <2>4. load' = [load EXCEPT ![l].left = @ \ {k}, ![l].vals[k] = stored[k]]
    BY <1>5 DEF Read, Compare
  <2> HIDE DEF k
  <2>5. PICK e : e = [load EXCEPT ![l].left = @ \ {k}]  OBVIOUS
  <2>6. PICK u : u = [w EXCEPT !.left = w.left \ {k}]  OBVIOUS
  <2>7. PICK d : d = [u EXCEPT !.vals[k] = stored[k]]  OBVIOUS
  <2>8. u \in CFLoads  BY <2>6 DEF CFLoads
  <2>9. e = [load EXCEPT ![l] = u]  BY <1>1, <1>3, <2>5, <2>6
  <2>10. load' = [e EXCEPT ![l].vals[k] = stored[k]]  BY <2>4, <2>5
  <2>11. load' = [load EXCEPT ![l] = d]  BY <1>3, <2>7, <2>8, <2>9, <2>10
  <2>12. stored[k] \in Values /\ w.vals \in Assignments  BY <1>1, <1>3, <2>3 DEF CFData, CFLoads, Assignments
  <2>13. d = [w EXCEPT !.left = w.left \ {k}, !.vals = [w.vals EXCEPT ![k] = stored[k]]]
    BY <1>1, <2>6, <2>7 DEF CFLoads
  <2>14. [w.vals EXCEPT ![k] = stored[k]] \in Assignments  BY <2>3, <2>12 DEF Assignments
  <2>15. /\ d \in CFLoads /\ d.pc = w.pc /\ d.ver = w.ver /\ d.back = w.back /\ d.left = w.left \ {k}
         /\ d.vals = [w.vals EXCEPT ![k] = stored[k]]
    BY <1>1, <2>13, <2>14 DEF CFLoads
  <2>16. \A j \in Settings \ d.left : j # k => j \in Settings \ w.left  BY <2>15
  <2>17. \A j \in Settings : d.vals[j] = IF j = k THEN stored[k] ELSE w.vals[j]
    BY <2>12, <2>15 DEF Assignments
  <2>18. LoadGood(d, latest, stored)
    <3>1. ASSUME w.pc = "compare", latest = w.ver, NEW j \in Settings \ d.left PROVE d.vals[j] = stored[j]
      <4>1. CASE j = k  BY <2>17, <4>1
      <4>2. CASE j # k  BY <1>2, <2>16, <2>17, <3>1, <4>2 DEF LoadGood
      <4> QED BY <4>1, <4>2
    <3> QED BY <1>2, <2>15, <3>1 DEF LoadGood
  <2>19. UNCHANGED database /\ UNCHANGED <<memory, losses>>  BY <1>5, Zenon DEF Read, Compare
  <2>20. CFMemory'  BY <1>3, <1>4, <2>19 DEF memory, database, CFMemory
  <2> QED BY <2>11, <2>18, <2>19, <2>20, CFLoadMoves
<1>6. CASE Fail(l)
  <2>1. load' = [load EXCEPT ![l] = Nobody] /\ UNCHANGED database /\ UNCHANGED memory /\ losses' \in 0..MaxLosses
    BY <1>3, <1>6 DEF Fail, CFMemory
  <2>2. CFMemory'  BY <1>4, <2>1 DEF memory, database
  <2> QED BY <2>1, <2>2, NobodyTyped, CFLoadMoves
<1>7. CASE Install(l)
  <2> DEFINE news == {k \in Settings : held.values[k] # load[l].vals[k]}
             others == UNION {ToTell(m) : m \in Loaders \ {l}}
  <2>1. PICK n \in SUBSET Settings : n = news  OBVIOUS
  <2>2. load' = [load EXCEPT ![l].pc = "tell", ![l].left = n] /\ w.pc = "read"  BY <1>1, <1>7, <2>1 DEF Install
  <2>3. load' = [load EXCEPT ![l] = [w EXCEPT !.pc = "tell", !.left = n]]  BY <1>1, <1>3, <2>2
  <2>4. LoadGood([w EXCEPT !.pc = "tell", !.left = n], latest, stored)  BY <1>1 DEF LoadGood, CFLoads
  <2>5. UNCHANGED database /\ told' = told /\ losses' = losses  BY <1>7 DEF Install
  <2>6. crossed' = crossed \cup (n \cap others)  BY <1>7, <2>1 DEF Install
  <2>7. crossed' \subseteq Settings  BY <1>3, <2>6 DEF CFMemory
  <2>8. held' = [values |-> w.vals, version |-> w.ver]  BY <1>1, <1>7 DEF Install
  <2>9. w.ver \in 0..latest /\ w.vals \in Assignments
    BY <1>1, <1>2, <1>3, <2>2 DEF LoadGood, CFLoads, CFData
  <2>10. CFMemory'  BY <1>3, <2>5, <2>7, <2>8, <2>9 DEF CFMemory, database
  <2> QED BY <2>3, <2>4, <2>5, <2>10, CFLoadMoves
<1>8. CASE Tell(l)
  <2>1. ASSUME NEW k \in load[l].left, load[l].pc = "tell", load' = [load EXCEPT ![l].left = @ \ {k}],
               told' = [told EXCEPT ![k] = load[l].vals[k]], UNCHANGED <<database, held, crossed, losses>>
        PROVE  CFInv'
    <3>1. load' = [load EXCEPT ![l] = [w EXCEPT !.left = w.left \ {k}]]  BY <1>1, <1>3, <2>1
    <3>2. LoadGood([w EXCEPT !.left = w.left \ {k}], latest, stored)  BY <1>1, <2>1 DEF LoadGood, CFLoads
    <3>3. k \in Settings /\ w.vals[k] \in Values  BY <1>1, <2>1 DEF CFLoads, Assignments
    <3>4. told' \in Assignments  BY <1>1, <1>3, <2>1, <3>3 DEF CFMemory, Assignments
    <3>5. held' = held /\ crossed' = crossed /\ losses' = losses /\ latest' = latest /\ UNCHANGED database
      BY <2>1 DEF database
    <3>6. CFMemory'  BY <1>3, <3>4, <3>5 DEF CFMemory
    <3> QED BY <3>1, <3>2, <3>5, <3>6, CFLoadMoves
  <2>2. ASSUME load' = [load EXCEPT ![l] = Nobody], UNCHANGED <<database, memory, losses>> PROVE CFInv'
    <3>1. UNCHANGED database /\ CFMemory'  BY <1>3, <1>4, <2>2 DEF memory, database, CFMemory
    <3> QED BY <2>2, <3>1, NobodyTyped, CFLoadMoves
  <2> QED BY <1>8, <2>1, <2>2, Zenon DEF Tell
<1>9. CASE RolledBack(l)
  <2> DEFINE was == history[load[l].back]
             next == [k \in Settings |-> IF was[k] = load[l].vals[k] THEN stored[k] ELSE was[k]]
  <2>1. load[l].pc = "compare" /\ load[l].left = {} /\ UNCHANGED <<memory, losses>>
    BY <1>9, Zenon DEF RolledBack
  <2>2. CASE Commit(next, load[l].ver) /\ load' = [load EXCEPT ![l] = Reading]
    <3>1. latest = load[l].ver  BY <2>2 DEF Commit
    <3>2. next \in Assignments  BY <2>1, <3>1, RolledBackIsBack
    <3> HIDE DEF next
    <3>3. latest' \in 0..MaxSaves  BY <1>3, <2>2 DEF Commit, CFData
    <3>4. Reading \in CFLoads /\ LoadGood(Reading, latest', stored')  BY <3>3, ReadingGood
    <3>5. load' \in [Loaders -> CFLoads]  BY <1>3, <2>2, <3>4
    <3>6. \A q \in Loaders : load'[q] = load[q] \/ LoadGood(load'[q], latest', stored')
      BY <1>3, <2>2, <3>4
    <3> QED BY <2>1, <2>2, <3>2, <3>5, <3>6, CFCommits
  <2>3. CASE load' = [load EXCEPT ![l] = Nobody] /\ UNCHANGED database
    <3>1. CFMemory'  BY <1>3, <1>4, <2>1, <2>3 DEF memory, database, CFMemory
    <3> QED BY <2>3, <3>1, NobodyTyped, CFLoadMoves
  <2> QED BY <1>9, <2>2, <2>3, Zenon DEF RolledBack
<1> QED BY <1>5, <1>6, <1>7, <1>8, <1>9 DEF LoadStep

LEMMA CFBegins ==
    ASSUME CFInv, Watch \/ \E l \in Savers, back \in 0..MaxSaves : RollBack(l, back)
    PROVE  CFInv'
<1> USE ConfigAssumption
<1>1. ASSUME UNCHANGED <<database, memory, losses>> PROVE UNCHANGED database /\ CFMemory'
  BY <1>1 DEF CFInv, CFMemory, memory, database
<1>2. CASE Watch
  <2>1. PICK w : w = [Nobody EXCEPT !.pc = "read", !.ver = latest, !.left = Settings]  OBVIOUS
  <2>2. w \in CFLoads /\ w.pc = "read" /\ w.ver = latest  BY <2>1, NobodyTyped DEF CFLoads, CFInv, CFData
  <2>3. LoadGood(w, latest, stored)  BY <2>2 DEF LoadGood, CFInv, CFData
  <2>4. load' = [load EXCEPT ![Watcher] = w] /\ UNCHANGED <<database, memory, losses>>  BY <1>2, <2>1 DEF Watch
  <2> QED BY <1>1, <2>3, <2>4, CFLoadMoves DEF Loaders
<1>3. ASSUME NEW l \in Savers, NEW back \in 0..MaxSaves, RollBack(l, back) PROVE CFInv'
  <2>1. PICK w : w = [Nobody EXCEPT !.pc = "compare", !.ver = held.version, !.back = back, !.left = Settings]
    OBVIOUS
  <2>2. held.version \in 0..latest /\ latest \in 0..MaxSaves /\ back < held.version
    BY <1>3 DEF RollBack, CFInv, CFMemory, CFData
  <2>3. held.version \in 0..MaxSaves  BY <2>2
  <2>4. w \in CFLoads /\ w.pc = "compare" /\ w.ver = held.version /\ w.back = back /\ w.left = Settings
    BY <2>1, <2>3, NobodyTyped DEF CFLoads
  <2>5. LoadGood(w, latest, stored)  BY <2>2, <2>4 DEF LoadGood
  <2>6. load' = [load EXCEPT ![l] = w] /\ UNCHANGED <<database, memory, losses>>  BY <1>3, <2>1 DEF RollBack
  <2> QED BY <1>1, <2>5, <2>6, CFLoadMoves DEF Loaders
<1> QED BY <1>2, <1>3

LEMMA CFMovesOn == CFInv /\ CFNext => CFInv'
BY CFSaves, CFLoadSteps, CFBegins DEF CFNext

\* A rollback that commits is a step of that rollback.
LEMMA CFRestores ==
    ASSUME CFInv, CFNext, NEW l \in Savers, load[l].pc = "compare", latest' # latest, load'[l].pc = "read"
    PROVE  stored' = history[load[l].back]
<1> USE ConfigAssumption
<1>0. l \in Loaders /\ load \in [Loaders -> CFLoads]  BY DEF Loaders, CFInv
<1>1. ASSUME NEW m \in Loaders, m # l, NEW w, load' = [load EXCEPT ![m] = w] PROVE FALSE
  BY <1>0, <1>1
<1>2. CASE RolledBack(l)
  <2> DEFINE was == history[load[l].back]
             next == [k \in Settings |-> IF was[k] = load[l].vals[k] THEN stored[k] ELSE was[k]]
  <2>1. load[l].pc = "compare" /\ load[l].left = {} /\ Commit(next, load[l].ver)
    BY <1>2 DEF RolledBack, database
  <2>2. latest = load[l].ver /\ stored' = next  BY <2>1 DEF Commit
  <2>3. next = was  BY <1>0, <2>1, <2>2, RolledBackIsBack
  <2> QED BY <2>2, <2>3
<1>3. ASSUME NEW m \in Loaders, m # l, RolledBack(m) PROVE FALSE
  <2>1. load' = [load EXCEPT ![m] = Reading] \/ load' = [load EXCEPT ![m] = Nobody]
    BY <1>3, Zenon DEF RolledBack
  <2> QED BY <1>1, <1>3, <2>1
<1>4. ASSUME NEW k \in Settings, NEW v \in Values, Elsewhere(k, v) PROVE FALSE  BY <1>4 DEF Elsewhere
<1>5. ASSUME NEW m \in Savers, NEW k \in Settings, NEW v \in Values, Save(m, k, v) PROVE FALSE
  <2>1. load' = [load EXCEPT ![m] = Reading] /\ m # l  BY <1>5 DEF Save
  <2> QED BY <1>1, <2>1 DEF Loaders
<1>6. ASSUME UNCHANGED database PROVE FALSE  BY <1>6 DEF database
<1>7. Watch => UNCHANGED database  BY DEF Watch
<1>8. \A m \in Loaders : Fail(m) \/ Read(m) \/ Compare(m) \/ Install(m) => UNCHANGED database
  BY DEF Fail, Read, Compare, Install
<1>9. \A m \in Loaders : Tell(m) => UNCHANGED database  BY DEF Tell
<1>10. \A m \in Savers, back \in 0..MaxSaves : RollBack(m, back) => UNCHANGED database  BY DEF RollBack
<1> QED BY <1>2, <1>3, <1>4, <1>5, <1>6, <1>7, <1>8, <1>9, <1>10 DEF CFNext, LoadStep

\* The safety part of ConfigContract (runtimecfg/service.go, Rollback and
\* applyStored): a
\* rollback that is saved leaves every setting as it was in that version,
\* whoever else saves while it compares.
THEOREM ConfigIsSafe == CFSpec => []CFTypeOK /\ RollbackRestores
<1>1. CFInit => CFInv  BY CFStarts
<1>2. CFInv /\ [CFNext]_cfVars => CFInv'
  <2>1. CASE UNCHANGED cfVars
    BY <2>1 DEF CFInv, CFData, CFMemory, cfVars
  <2> QED BY <2>1, CFMovesOn
<1>3. CFInv => CFTypeOK  BY CFTyped
<1>4. CFInv /\ [CFNext]_cfVars
        => [\A l \in Savers : load[l].pc = "compare" /\ latest' # latest /\ load'[l].pc = "read"
                                => stored' = history[load[l].back]]_cfVars
  BY CFRestores
<1> QED BY <1>1, <1>2, <1>3, <1>4, PTL DEF CFSpec, RollbackRestores

-----------------------------------------------------------------------------
(* The media workers.                                                      *)

WKRows == [drain: BOOLEAN, well: BOOLEAN, cred: Creds]
WKLists == [rows: Views, fresh: BOOLEAN, late: SUBSET Nodes]
WKProbes == [pc: {"idle", "keep", "ask", "well", "ill"}, was: BOOLEAN, cred: Creds]
WKPlaces == [pc: {"idle", "read", "try", "mark", "over"}, left: SUBSET Nodes, on: Nodes \cup {NoNode},
             rows: Views, seen: SUBSET Nodes, late: SUBSET Nodes]
WKAdmins == [pc: {"idle", "drain", "flush"}, node: Nodes, row: WKRows]

\* A node whose draining is over is draining in the table.
TableGood == table \in [Nodes -> WKRows] /\ drained \subseteq {n \in Nodes : table[n].drain = TRUE}

\* The node that is about to be changed does not count as drained.
AdminGood == admin \in WKAdmins /\ (admin.pc = "drain" => admin.node \notin drained)

\* A fresh copy shows the drained nodes as draining, but for those it was made
\* too late for.
ListGood(copy, gone) ==
    copy \in WKLists /\ (copy.fresh = TRUE => \A n \in gone : copy.rows[n].drain = TRUE \/ n \in copy.late)

\* What was read from the table is at least as new as the request, and of the
\* nodes drained before it only those of a late copy are candidates.
PlaceGood(p) ==
    /\ p \in WKPlaces
    /\ p.pc = "read" => \A n \in p.seen : p.rows[n].drain = TRUE
    /\ p.pc \in {"try", "mark", "over"} => (p.left \cup {p.on}) \cap p.seen \subseteq p.late
    /\ p.pc = "mark" => p.on \in Nodes
    /\ p.pc \in {"read", "try"} => p.on = NoNode

WKRest ==
    /\ fails \in [Nodes -> 0..SoftFailures] /\ secret \in [Nodes -> Creds \cup {Unread}]
    /\ alive \in [Nodes -> BOOLEAN] /\ has \in [Nodes -> Creds] /\ probe \in [Nodes -> WKProbes]
    /\ nodeChanges \in 0..MaxChangesOfMind /\ flips \in 0..MaxFlips

WKInv == TableGood /\ AdminGood /\ ListGood(list, drained) /\ PlaceGood(place) /\ WKRest

LEMMA WKTyped == WKInv => WKTypeOK
BY DEF WKInv, TableGood, AdminGood, ListGood, PlaceGood, WKRest, WKTypeOK, WKRows, WKLists, WKProbes,
       WKPlaces, WKAdmins

LEMMA WKDrains == WKInv => DrainHolds
BY DEF WKInv, PlaceGood, DrainHolds

LEMMA NoPlaceGood ==
    /\ NoPlace \in WKPlaces /\ PlaceGood(NoPlace) /\ NoPlace.pc = "idle" /\ NoPlace.on = NoNode
    /\ NoPlace.seen = {} /\ NoPlace.left = {} /\ NoPlace.late = {} /\ NoPlace.rows \in Views
<1>1. [n \in Nodes |-> [drain |-> FALSE, well |-> FALSE]] \in Views  BY DEF Views
<1> QED BY <1>1 DEF NoPlace, WKPlaces, PlaceGood

LEMMA RowsViewed ==
    ASSUME NEW t \in [Nodes -> WKRows]
    PROVE  View(t) \in Views /\ \A n \in Nodes : View(t)[n].drain = t[n].drain
<1>1. \A n \in Nodes : t[n].drain \in BOOLEAN /\ t[n].well \in BOOLEAN  BY DEF WKRows
<1> QED BY <1>1 DEF View, Views

LEMMA NewRowTyped == NewRow \in WKRows
BY WorkersAssumption DEF NewRow, WKRows, Creds

LEMMA WKStarts == WKInit => WKInv
<1> SUFFICES ASSUME WKInit PROVE WKInv  OBVIOUS
<1> USE WorkersAssumption, NewRowTyped
<1>1. table \in [Nodes -> WKRows] /\ drained = {}  BY DEF WKInit
<1>2. AdminGood
  <2>1. AnyNode \in Nodes  BY DEF AnyNode
  <2> QED BY <2>1 DEF WKInit, AdminGood, WKAdmins
<1>3. ListGood(list, drained)
  <2>1. View(table) \in Views  BY <1>1, RowsViewed
  <2> QED BY <1>1, <2>1 DEF WKInit, ListGood, WKLists
<1>4. PlaceGood(place)  BY NoPlaceGood DEF WKInit
<1>5. WKRest
  <2>1. 0 \in Creds  BY DEF Creds
  <2> QED BY <2>1 DEF WKInit, WKRest, WKProbes
<1> QED BY <1>1, <1>2, <1>3, <1>4, <1>5 DEF WKInv, TableGood

\* SetHealth changes nothing but the health.
LEMMA StoredKeeps ==
    ASSUME TableGood, AdminGood, NEW n \in Nodes, NEW well \in BOOLEAN, Stored(n, well),
           UNCHANGED <<drained, admin>>
    PROVE  TableGood' /\ AdminGood'
<1>1. table' = [table EXCEPT ![n].well = well]  BY DEF Stored
<1>2. table' \in [Nodes -> WKRows]  BY <1>1 DEF TableGood, WKRows
<1>3. \A m \in Nodes : table'[m].drain = table[m].drain  BY <1>1 DEF TableGood, WKRows
<1>4. drained' = drained /\ admin' = admin  OBVIOUS
<1>5. TableGood'  BY <1>2, <1>3, <1>4 DEF TableGood
<1> QED BY <1>4, <1>5 DEF AdminGood

\* Neither does what the copy is told.
LEMMA ListedKeeps ==
    ASSUME TableGood, ListGood(list, drained), NEW n \in Nodes, NEW well \in BOOLEAN, Listed(n, well),
           UNCHANGED drained
    PROVE  ListGood(list', drained')
<1>1. list' = [list EXCEPT !.rows[n].well = well]  BY DEF Listed
<1>2. list \in WKLists /\ drained \subseteq Nodes  BY DEF ListGood, TableGood
<1>3. PICK rows : rows = [list.rows EXCEPT ![n].well = well]  OBVIOUS
<1>4. list.rows \in Views  BY <1>2 DEF WKLists
<1>5. rows \in Views /\ \A m \in Nodes : rows[m].drain = list.rows[m].drain  BY <1>3, <1>4 DEF Views
<1>6. list' = [list EXCEPT !.rows = rows]  BY <1>1, <1>2, <1>3 DEF WKLists
<1>7. list' \in WKLists /\ list'.fresh = list.fresh /\ list'.late = list.late /\ list'.rows = rows
  BY <1>2, <1>5, <1>6 DEF WKLists
<1> QED BY <1>2, <1>5, <1>7 DEF ListGood

LEMMA WKProbeSteps ==
    ASSUME WKInv, NEW n \in Nodes, ProbeStep(n)
    PROVE  WKInv'
<1> USE WorkersAssumption
<1>0. /\ TableGood /\ AdminGood /\ ListGood(list, drained) /\ PlaceGood(place) /\ WKRest
      /\ table \in [Nodes -> WKRows] /\ secret \in [Nodes -> Creds \cup {Unread}] /\ probe \in [Nodes -> WKProbes]
      /\ fails \in [Nodes -> 0..SoftFailures]
  BY DEF WKInv, TableGood, WKRest
<1>1. PICK p \in WKProbes : p = probe[n]  BY <1>0
<1>2. PICK row \in WKRows : row = table[n]  BY <1>0
<1>3. UNCHANGED <<world, place, admin, drained, nodeChanges>>
  BY DEF ProbeStep, ProbeGet, ProbeKeep, ProbeWell, ProbeIll, ProbeStore
<1>4. alive' = alive /\ has' = has /\ flips' = flips /\ place' = place /\ admin' = admin /\ drained' = drained
      /\ nodeChanges' = nodeChanges
  BY <1>3 DEF world
<1>5. ASSUME TableGood' /\ AdminGood', ListGood(list', drained'), fails' \in [Nodes -> 0..SoftFailures],
             secret' \in [Nodes -> Creds \cup {Unread}], probe' \in [Nodes -> WKProbes]
      PROVE  WKInv'
  BY <1>0, <1>4, <1>5 DEF WKInv, WKRest
<1>6. table' = table => TableGood' /\ AdminGood'  BY <1>0, <1>4 DEF TableGood, AdminGood
<1>7. list' = list => ListGood(list', drained')  BY <1>0, <1>4
<1>p. ASSUME NEW pc \in {"idle", "keep", "ask", "well", "ill"}, probe' = [probe EXCEPT ![n].pc = pc]
      PROVE  probe' \in [Nodes -> WKProbes]
  <2>1. [p EXCEPT !.pc = pc] \in WKProbes  BY <1>1 DEF WKProbes
  <2> QED BY <1>0, <1>1, <1>p, <2>1
<1>8. CASE ProbeGet(n)
  <2>1. table' = table /\ list' = list /\ fails' = fails /\ secret' = secret  BY <1>8 DEF ProbeGet
  <2>2. row.well \in BOOLEAN /\ row.cred \in Creds  BY <1>2 DEF WKRows
  <2>3. secret[n] # Unread => secret[n] \in Creds  BY <1>0
  <2>4. PICK r : r = [pc |-> IF secret[n] # Unread THEN "ask" ELSE "keep", was |-> row.well,
                      cred |-> IF secret[n] # Unread THEN secret[n] ELSE row.cred]
    OBVIOUS
  <2>5. r \in WKProbes  BY <2>2, <2>3, <2>4 DEF WKProbes
  <2>6. probe' = [probe EXCEPT ![n] = r]  BY <1>2, <1>8, <2>4 DEF ProbeGet
  <2> QED BY <1>0, <1>5, <1>6, <1>7, <2>1, <2>5, <2>6
<1>9. CASE ProbeKeep(n)
  <2>1. table' = table /\ list' = list /\ fails' = fails /\ probe' = [probe EXCEPT ![n].pc = "ask"]
        /\ secret' = [secret EXCEPT ![n] = p.cred]
    BY <1>1, <1>9 DEF ProbeKeep
  <2>2. p.cred \in Creds  BY <1>1 DEF WKProbes
  <2>3. probe' \in [Nodes -> WKProbes]  BY <1>p, <2>1
  <2> QED BY <1>0, <1>5, <1>6, <1>7, <2>1, <2>2, <2>3
<1>10. CASE ProbeWell(n)
  <2>1. table' = table /\ secret' = secret /\ probe' = [probe EXCEPT ![n].pc = "well"] /\ Listed(n, TRUE)
        /\ fails' = [fails EXCEPT ![n] = 0]
    BY <1>10 DEF ProbeWell
  <2>2. probe' \in [Nodes -> WKProbes]  BY <1>p, <2>1
  <2>3. ListGood(list', drained')  BY <1>0, <1>4, <2>1, ListedKeeps
  <2> QED BY <1>0, <1>5, <1>6, <2>1, <2>2, <2>3
<1>11. CASE ProbeIll(n)
  <2>1. table' = table /\ secret' = secret /\ fails' \in [Nodes -> 0..SoftFailures]
    <3>1. fails' = [fails EXCEPT ![n] = IF fails[n] < SoftFailures THEN fails[n] + 1 ELSE fails[n]]
      BY <1>11 DEF ProbeIll
    <3> QED BY <1>0, <1>11, <3>1 DEF ProbeIll
  <2>2. \/ Listed(n, FALSE) /\ probe' = [probe EXCEPT ![n].pc = "ill"]
        \/ UNCHANGED list /\ probe' = [probe EXCEPT ![n].pc = "idle"]
    BY <1>11, Zenon DEF ProbeIll
  <2>3. probe' \in [Nodes -> WKProbes]  BY <1>p, <2>2
  <2>4. ListGood(list', drained')  BY <1>0, <1>4, <1>7, <2>2, ListedKeeps
  <2> QED BY <1>5, <1>6, <1>0, <2>1, <2>3, <2>4
<1>12. CASE ProbeStore(n)
  <2>1. list' = list /\ fails' = fails /\ secret' = secret /\ probe' = [probe EXCEPT ![n].pc = "idle"]
    BY <1>12 DEF ProbeStore
  <2>2. Stored(n, TRUE) \/ Stored(n, FALSE)
    <3>1. probe[n].pc \in {"well", "ill"} /\ table' = [table EXCEPT ![n].well = (probe[n].pc = "well")]
      BY <1>12 DEF ProbeStore, Stored
    <3>2. CASE probe[n].pc = "well"
      <4>1. (probe[n].pc = "well") = TRUE  BY <3>2
      <4> QED BY <3>1, <4>1, Zenon DEF Stored
    <3>3. CASE probe[n].pc # "well"
      <4>1. (probe[n].pc = "well") = FALSE  BY <3>3
      <4> QED BY <3>1, <4>1, Zenon DEF Stored
    <3> QED BY <3>2, <3>3
  <2>3. probe' \in [Nodes -> WKProbes]  BY <1>p, <2>1
  <2>4. TableGood' /\ AdminGood'  BY <1>0, <1>4, <2>2, StoredKeeps
  <2> QED BY <1>0, <1>5, <1>7, <2>1, <2>3, <2>4
<1> QED BY <1>8, <1>9, <1>10, <1>11, <1>12 DEF ProbeStep

\* Placing a session.
LEMMA WKPlaceSteps ==
    ASSUME WKInv,
           \/ Ask \/ InstallList \/ MarkStored \/ NobodyLeft \/ AskAgain
           \/ \E n \in Nodes : Answered(n) \/ Unreached(n)
    PROVE  WKInv'
<1> USE WorkersAssumption
<1>0. /\ TableGood /\ AdminGood /\ ListGood(list, drained) /\ PlaceGood(place) /\ WKRest
      /\ table \in [Nodes -> WKRows] /\ secret \in [Nodes -> Creds \cup {Unread}] /\ drained \subseteq Nodes
      /\ fails \in [Nodes -> 0..SoftFailures] /\ place \in WKPlaces /\ list \in WKLists
  BY DEF WKInv, TableGood, ListGood, PlaceGood, WKRest
<1>1. UNCHANGED <<world, probe, admin, drained, nodeChanges>>
  BY DEF Ask, InstallList, MarkStored, NobodyLeft, AskAgain, Answered, Unreached
<1>2. alive' = alive /\ has' = has /\ flips' = flips /\ probe' = probe /\ admin' = admin /\ drained' = drained
      /\ nodeChanges' = nodeChanges
  BY <1>1 DEF world
<1>3. ASSUME TableGood' /\ AdminGood', ListGood(list', drained'), fails' \in [Nodes -> 0..SoftFailures],
             secret' \in [Nodes -> Creds \cup {Unread}], PlaceGood(place')
      PROVE  WKInv'
  BY <1>0, <1>2, <1>3 DEF WKInv, WKRest
<1>4. table' = table => TableGood' /\ AdminGood'  BY <1>0, <1>2 DEF TableGood, AdminGood
<1>5. list' = list => ListGood(list', drained')  BY <1>0, <1>2
<1>6. ASSUME NEW rows \in Views PROVE Candidates(rows) \subseteq Nodes /\ Outdated(rows) \subseteq drained
                                      /\ \A n \in Nodes : rows[n].drain \in BOOLEAN
  BY <1>6 DEF Candidates, Outdated, Views
<1>7. CASE Ask
  <2>1. table' = table /\ list' = list /\ fails' = fails /\ secret' = secret  BY <1>7 DEF Ask
  <2>2. PlaceGood(place')
    <3>1. CASE list.fresh
      <4>1. place' = [NoPlace EXCEPT !.pc = "try", !.seen = drained, !.late = list.late,
                                     !.left = Candidates(list.rows)]
        BY <1>7, <3>1 DEF Ask
      <4>2. list.rows \in Views /\ list.late \subseteq Nodes /\ list.fresh = TRUE
        <5>1. list.rows \in Views /\ list.late \subseteq Nodes /\ list.fresh \in BOOLEAN  BY <1>0 DEF WKLists
        <5> QED BY <3>1, <5>1, Zenon
      <4>3. /\ place' \in WKPlaces /\ place'.pc = "try" /\ place'.on = NoNode /\ place'.seen = drained
            /\ place'.late = list.late /\ place'.left = Candidates(list.rows)
        BY <1>0, <1>6, <4>1, <4>2, NoPlaceGood DEF WKPlaces
      <4>4. \A n \in Candidates(list.rows) : n \in drained => n \in list.late
        <5>1. \A n \in Candidates(list.rows) : n \in Nodes /\ ~list.rows[n].drain  BY DEF Candidates
        <5> QED BY <1>0, <4>2, <5>1 DEF ListGood
      <4> QED BY <1>0, <4>3, <4>4 DEF PlaceGood
    <3>2. CASE ~list.fresh
      <4>1. place' = [NoPlace EXCEPT !.pc = "read", !.seen = drained, !.rows = View(table)]
        BY <1>7, <3>2 DEF Ask
      <4>2. View(table) \in Views /\ \A n \in Nodes : View(table)[n].drain = table[n].drain
        BY <1>0, RowsViewed
      <4>3. place' \in WKPlaces /\ place'.pc = "read" /\ place'.seen = drained /\ place'.rows = View(table)
            /\ place'.on = NoNode
        BY <1>0, <4>1, <4>2, NoPlaceGood DEF WKPlaces
      <4> QED BY <1>0, <4>2, <4>3 DEF PlaceGood, TableGood
    <3> QED BY <3>1, <3>2
  <2> QED BY <1>0, <1>3, <1>4, <1>5, <2>1, <2>2
<1>8. CASE InstallList
  <2> DEFINE left == Candidates(place.rows)
             late == Outdated(place.rows)
  <2>1. table' = table /\ fails' = fails /\ secret' = secret /\ place.pc = "read"  BY <1>8 DEF InstallList
  <2>2. list' = [rows |-> place.rows, fresh |-> TRUE, late |-> late]  BY <1>8 DEF InstallList
  <2>3. place' = [place EXCEPT !.pc = "try", !.left = left, !.late = late, !.rows = NoPlace.rows]
    BY <1>8 DEF InstallList
  <2>4. place.rows \in Views /\ place.seen \subseteq Nodes /\ place.on \in Nodes \cup {NoNode}  BY <1>0 DEF WKPlaces
  <2>5. left \subseteq Nodes /\ late \subseteq Nodes  BY <1>0, <1>6, <2>4
  <2>6. \A n \in drained : place.rows[n].drain = TRUE \/ n \in late  BY <1>0, <1>6, <2>4 DEF Outdated
  <2>7. \A n \in left : n \in Nodes /\ ~place.rows[n].drain  BY DEF Candidates
  <2> HIDE DEF left, late
  <2>8. ListGood(list', drained')  BY <1>0, <1>2, <2>2, <2>4, <2>5, <2>6 DEF ListGood, WKLists
  <2>9. /\ place' \in WKPlaces /\ place'.pc = "try" /\ place'.left = left /\ place'.on = place.on
        /\ place'.seen = place.seen
    BY <1>0, <2>3, <2>5, NoPlaceGood DEF WKPlaces
  <2>10. \A n \in place.seen : place.rows[n].drain = TRUE  BY <1>0, <2>1 DEF PlaceGood
  <2>11. place.on \notin place.seen
    <3>1. place.on = NoNode  BY <1>0, <2>1 DEF PlaceGood
    <3> QED BY <2>4, <3>1
  <2>12. PlaceGood(place')  BY <1>0, <2>1, <2>7, <2>9, <2>10, <2>11 DEF PlaceGood
  <2> QED BY <1>0, <1>3, <1>4, <2>1, <2>8, <2>12
<1>u. ASSUME NEW n \in Nodes PROVE Used(n) \in Creds
  <2>1. table[n].cred \in Creds  BY <1>0 DEF WKRows
  <2> QED BY <1>0, <2>1 DEF Used
<1>9. ASSUME NEW n \in Nodes, Answered(n) PROVE WKInv'
  <2>1. /\ table' = table /\ list' = list /\ fails' = fails /\ secret' = [secret EXCEPT ![n] = Used(n)]
        /\ place.pc = "try" /\ n \in place.left
    BY <1>9 DEF Answered
  <2>2. secret' \in [Nodes -> Creds \cup {Unread}]  BY <1>0, <1>u, <2>1
  <2>3. PlaceGood(place')
    <3>1. PICK p \in WKPlaces : p = place  BY <1>0
    <3>2. PlaceGood(p) /\ p.pc = "try" /\ n \in p.left  BY <1>0, <2>1, <3>1
    <3>3. CASE place' = [p EXCEPT !.pc = "over", !.on = n]
      <4>1. place' \in WKPlaces /\ place'.pc = "over" /\ place'.on = n /\ place'.left = p.left
            /\ place'.seen = p.seen /\ place'.late = p.late
        BY <3>3 DEF WKPlaces
      <4> QED BY <3>2, <4>1 DEF PlaceGood
    <3>4. CASE place' = [p EXCEPT !.left = p.left \ {n}]
      <4>1. place' \in WKPlaces /\ place'.pc = "try" /\ place'.on = p.on /\ place'.left = p.left \ {n}
            /\ place'.seen = p.seen /\ place'.late = p.late
        BY <3>2, <3>4 DEF WKPlaces
      <4> QED BY <3>2, <4>1 DEF PlaceGood
    <3>5. CASE place' = [p EXCEPT !.pc = "over"]
      <4>1. place' \in WKPlaces /\ place'.pc = "over" /\ place'.on = p.on /\ place'.left = p.left
            /\ place'.seen = p.seen /\ place'.late = p.late
        BY <3>5 DEF WKPlaces
      <4> QED BY <3>2, <4>1 DEF PlaceGood
    <3> QED BY <1>9, <3>1, <3>3, <3>4, <3>5 DEF Answered
  <2> QED BY <1>0, <1>3, <1>4, <1>5, <2>1, <2>2, <2>3
<1>10. ASSUME NEW n \in Nodes, Unreached(n) PROVE WKInv'
  <2>1. /\ table' = table /\ secret' = [secret EXCEPT ![n] = Used(n)] /\ Listed(n, FALSE)
        /\ fails' = [fails EXCEPT ![n] = SoftFailures] /\ place.pc = "try" /\ n \in place.left
        /\ place' = [place EXCEPT !.pc = "mark", !.on = n, !.left = place.left \ {n}]
    BY <1>10 DEF Unreached
  <2>2. secret' \in [Nodes -> Creds \cup {Unread}] /\ fails' \in [Nodes -> 0..SoftFailures]
    BY <1>0, <1>u, <2>1
  <2>3. place' \in WKPlaces /\ place'.pc = "mark" /\ place'.on = n /\ place'.left = place.left \ {n}
        /\ place'.seen = place.seen /\ place'.late = place.late
    BY <1>0, <2>1 DEF WKPlaces
  <2>4. PlaceGood(place')  BY <1>0, <2>1, <2>3 DEF PlaceGood
  <2>5. ListGood(list', drained')  BY <1>0, <1>2, <2>1, ListedKeeps
  <2> QED BY <1>3, <1>4, <2>1, <2>2, <2>4, <2>5
<1>11. CASE MarkStored
  <2>1. /\ list' = list /\ fails' = fails /\ secret' = secret /\ place.pc = "mark" /\ Stored(place.on, FALSE)
        /\ place' = [place EXCEPT !.pc = "try", !.on = NoNode]
    BY <1>11 DEF MarkStored
  <2>2. place.on \in Nodes /\ place.seen \subseteq Nodes  BY <1>0, <2>1 DEF PlaceGood, WKPlaces
  <2>3. TableGood' /\ AdminGood'  BY <1>0, <1>2, <2>1, <2>2, StoredKeeps
  <2>4. place' \in WKPlaces /\ place'.pc = "try" /\ place'.on = NoNode /\ place'.left = place.left
        /\ place'.seen = place.seen /\ place'.late = place.late
    BY <1>0, <2>1 DEF WKPlaces
  <2>5. PlaceGood(place')  BY <1>0, <2>1, <2>2, <2>4 DEF PlaceGood
  <2> QED BY <1>0, <1>3, <1>5, <2>1, <2>3, <2>5
<1>12. CASE NobodyLeft
  <2>1. /\ table' = table /\ list' = list /\ fails' = fails /\ secret' = secret
        /\ place.pc = "try" /\ place' = [place EXCEPT !.pc = "over"]
    BY <1>12 DEF NobodyLeft
  <2>2. place' \in WKPlaces /\ place'.pc = "over" /\ place'.on = place.on /\ place'.left = place.left
        /\ place'.seen = place.seen /\ place'.late = place.late
    BY <1>0, <2>1 DEF WKPlaces
  <2>3. PlaceGood(place')  BY <1>0, <2>1, <2>2 DEF PlaceGood
  <2> QED BY <1>0, <1>3, <1>4, <1>5, <2>1, <2>3
<1>13. CASE AskAgain
  <2>1. table' = table /\ list' = list /\ fails' = fails /\ secret' = secret /\ place' = NoPlace
    BY <1>13 DEF AskAgain
  <2> QED BY <1>0, <1>3, <1>4, <1>5, <2>1, NoPlaceGood
<1> QED BY <1>7, <1>8, <1>9, <1>10, <1>11, <1>12, <1>13

\* The copy expires, the administrator, and what happens to the nodes.
LEMMA WKOtherSteps ==
    ASSUME WKInv,
           \/ ListExpires \/ AdminStep
           \/ \E n \in Nodes : DrainRead(n) \/ Rotate(n) \/ Configured(n) \/ Flip(n)
    PROVE  WKInv'
<1> USE WorkersAssumption
<1>0. /\ TableGood /\ AdminGood /\ ListGood(list, drained) /\ PlaceGood(place) /\ WKRest
      /\ table \in [Nodes -> WKRows] /\ drained \subseteq Nodes /\ list \in WKLists /\ admin \in WKAdmins
      /\ nodeChanges \in 0..MaxChangesOfMind
  BY DEF WKInv, TableGood, ListGood, AdminGood, WKRest
<1>1. ASSUME UNCHANGED <<fails, secret, world, probe>>, nodeChanges' \in 0..MaxChangesOfMind PROVE WKRest'
  BY <1>0, <1>1 DEF WKRest, world
<1>2. UNCHANGED <<fails, probe, place>>
  BY DEF ListExpires, AdminStep, DrainSave, Invalidate, DrainRead, Rotate, Configured, Flip
<1>3. PlaceGood(place')  BY <1>0, <1>2
<1>4. CASE ListExpires
  <2>1. /\ UNCHANGED <<fails, secret, world, probe>> /\ UNCHANGED <<table, admin, drained, nodeChanges>>
        /\ list' = [list EXCEPT !.fresh = FALSE]
    BY <1>4 DEF ListExpires
  <2>2. list' \in WKLists /\ list'.fresh = FALSE  BY <1>0, <2>1 DEF WKLists
  <2>3. ListGood(list', drained')  BY <2>2 DEF ListGood
  <2>4. TableGood' /\ AdminGood'  BY <1>0, <2>1 DEF TableGood, AdminGood
  <2>5. WKRest'  BY <1>0, <1>1, <2>1
  <2> QED BY <1>3, <2>3, <2>4, <2>5 DEF WKInv
<1>5. ASSUME NEW n \in Nodes, DrainRead(n) PROVE WKInv'
  <2>1. /\ UNCHANGED <<fails, secret, world, probe>> /\ UNCHANGED <<table, list>>
        /\ admin' = [pc |-> "drain", node |-> n, row |-> table[n]]
        /\ drained' = IF table[n].drain THEN drained \ {n} ELSE drained
        /\ nodeChanges' \in 0..MaxChangesOfMind
    BY <1>0, <1>5 DEF DrainRead, ChangeOfMind
  <2>2. drained' \subseteq drained /\ n \notin drained'
    <3>1. CASE table[n].drain  BY <2>1, <3>1
    <3>2. CASE ~table[n].drain  BY <1>0, <2>1, <3>2 DEF TableGood
    <3> QED BY <3>1, <3>2
  <2>3. AdminGood'
    <3>1. admin' \in WKAdmins /\ admin'.node = n  BY <1>0, <2>1 DEF WKAdmins
    <3> QED BY <2>2, <3>1 DEF AdminGood
  <2>4. TableGood'  BY <1>0, <2>1, <2>2 DEF TableGood
  <2>5. ListGood(list', drained')  BY <1>0, <2>1, <2>2 DEF ListGood
  <2>6. WKRest'  BY <1>1, <2>1
  <2> QED BY <1>3, <2>3, <2>4, <2>5, <2>6 DEF WKInv
<1>6. CASE DrainSave
  <2>1. PICK a \in WKAdmins : a = admin  BY <1>0
  <2>2. PICK row \in WKRows : row = a.row  BY <2>1 DEF WKAdmins
  <2>3. a.node \in Nodes /\ a.pc = "drain" /\ a.node \notin drained
    BY <1>0, <1>6, <2>1 DEF DrainSave, AdminGood, WKAdmins
  <2>4. PICK old \in WKRows : old = table[a.node]  BY <1>0, <2>3
  <2>5. PICK d : d = ~row.drain  OBVIOUS
  <2>6. d \in BOOLEAN  BY <2>5, Zenon
  <2>7. PICK new : new = [row EXCEPT !.drain = d, !.cred = old.cred]  OBVIOUS
  <2>8. new \in WKRows  BY <2>2, <2>4, <2>6, <2>7 DEF WKRows
  <2>9. /\ UNCHANGED <<fails, secret, world, probe>> /\ UNCHANGED <<list, drained, nodeChanges>>
        /\ table' = [table EXCEPT ![a.node] = new] /\ admin' = [a EXCEPT !.pc = "flush"]
    BY <1>6, <2>1, <2>2, <2>4, <2>5, <2>7 DEF DrainSave
  <2>10. AdminGood'
    <3>1. admin' \in WKAdmins /\ admin'.pc = "flush"  BY <2>9, <2>1 DEF WKAdmins
    <3> QED BY <3>1 DEF AdminGood
  <2>11. TableGood'
    <3>1. table' \in [Nodes -> WKRows]  BY <1>0, <2>8, <2>9
    <3>2. \A m \in drained : table'[m] = table[m]  BY <1>0, <2>3, <2>9
    <3> QED BY <1>0, <2>9, <3>1, <3>2 DEF TableGood
  <2>12. ListGood(list', drained') /\ WKRest'  BY <1>0, <1>1, <2>9
  <2> QED BY <1>3, <2>10, <2>11, <2>12 DEF WKInv
<1>7. ASSUME NEW n \in Nodes, Rotate(n) PROVE WKInv'
  <2>1. /\ UNCHANGED <<fails, secret, world, probe>> /\ UNCHANGED <<list, drained>>
        /\ table' = [table EXCEPT ![n].cred = nodeChanges']
        /\ admin' = [pc |-> "flush", node |-> n, row |-> NewRow]
        /\ nodeChanges' \in 0..MaxChangesOfMind
    BY <1>0, <1>7 DEF Rotate, ChangeOfMind
  <2>2. AdminGood'  BY <2>1, NewRowTyped DEF AdminGood, WKAdmins
  <2>3. TableGood'
    <3>1. table' \in [Nodes -> WKRows]  BY <1>0, <2>1 DEF WKRows, Creds
    <3>2. \A m \in Nodes : table'[m].drain = table[m].drain  BY <1>0, <2>1 DEF WKRows
    <3> QED BY <1>0, <2>1, <3>1, <3>2 DEF TableGood
  <2>4. ListGood(list', drained') /\ WKRest'  BY <1>0, <1>1, <2>1
  <2> QED BY <1>3, <2>2, <2>3, <2>4 DEF WKInv
<1>8. CASE Invalidate
  <2> DEFINE node == admin.node
             over == IF table[node].drain THEN {node} ELSE {}
  <2>1. /\ UNCHANGED <<table, fails, world, probe, nodeChanges>> /\ list' = [list EXCEPT !.fresh = FALSE]
        /\ secret' = [n \in Nodes |-> Unread] /\ drained' = drained \cup over
        /\ admin' = [pc |-> "idle", node |-> AnyNode, row |-> NewRow]
    BY <1>8 DEF Invalidate
  <2>2. list' \in WKLists /\ list'.fresh = FALSE  BY <1>0, <2>1 DEF WKLists
  <2>3. node \in Nodes  BY <1>0 DEF WKAdmins
  <2>4. over \subseteq {n \in Nodes : table[n].drain = TRUE}
    <3>1. table[node].drain \in BOOLEAN  BY <1>0, <2>3 DEF WKRows
    <3>2. CASE table[node].drain
      <4>1. table[node].drain = TRUE  BY <3>1, <3>2, Zenon
      <4> QED BY <2>3, <3>2, <4>1
    <3>3. CASE ~table[node].drain  BY <3>3
    <3> QED BY <3>2, <3>3
  <2>5. TableGood'  BY <1>0, <2>1, <2>4 DEF TableGood
  <2>6. AdminGood'
    <3>1. AnyNode \in Nodes  BY DEF AnyNode
    <3> QED BY <2>1, <3>1, NewRowTyped DEF AdminGood, WKAdmins
  <2>7. ListGood(list', drained')  BY <2>2 DEF ListGood
  <2>8. WKRest'  BY <1>0, <2>1 DEF WKRest, world
  <2> QED BY <1>3, <2>5, <2>6, <2>7, <2>8 DEF WKInv
<1>9. ASSUME NEW n \in Nodes, Configured(n) \/ Flip(n) PROVE WKInv'
  <2>1. UNCHANGED <<table, list, fails, secret, probe, admin, drained, nodeChanges>>
    BY <1>9 DEF Configured, Flip
  <2>2. has' \in [Nodes -> Creds]
    <3>1. table[n].cred \in Creds  BY <1>0 DEF WKRows
    <3> QED BY <1>0, <1>9, <3>1 DEF WKRest, Configured, Flip
  <2>3. flips' \in 0..MaxFlips  BY <1>0, <1>9 DEF WKRest, Configured, Flip
  <2>4. alive' \in [Nodes -> BOOLEAN]
    <3>1. alive \in [Nodes -> BOOLEAN]  BY <1>0 DEF WKRest
    <3>2. alive' = alive \/ alive' = [alive EXCEPT ![n] = ~alive[n]]  BY <1>9 DEF Configured, Flip
    <3>3. PICK b : b = ~alive[n]  OBVIOUS
    <3>4. b \in BOOLEAN  BY <3>3, Zenon
    <3> QED BY <3>1, <3>2, <3>3, <3>4
  <2>5. WKRest'  BY <1>0, <2>1, <2>2, <2>3, <2>4 DEF WKRest
  <2>6. TableGood' /\ AdminGood' /\ ListGood(list', drained')  BY <1>0, <2>1 DEF TableGood, AdminGood
  <2> QED BY <1>3, <2>5, <2>6 DEF WKInv
<1> QED BY <1>4, <1>5, <1>6, <1>7, <1>8, <1>9 DEF AdminStep

\* The safety part of WorkersContract (backend/routing.go, mesh/control.go): a
\* request that begins after a node was drained places no session on it, but
\* through a copy of the table that was read before and installed since.
THEOREM WorkersAreSafe ==
    WKSpec => []WKTypeOK /\ [][UNCHANGED wkVars \/ DrainHolds']_wkVars
<1>1. WKInit => WKInv  BY WKStarts
<1>2. WKInv /\ [WKNext]_wkVars => WKInv'
  <2>1. CASE UNCHANGED wkVars
    BY <2>1 DEF WKInv, TableGood, AdminGood, WKRest, wkVars
  <2>2. CASE WKNext  BY <2>2, WKProbeSteps, WKPlaceSteps, WKOtherSteps, Zenon DEF WKNext
  <2> QED BY <2>1, <2>2
<1>3. WKInv => WKTypeOK  BY WKTyped
<1>4. WKInv => DrainHolds  BY WKDrains
<1> QED BY <1>1, <1>2, <1>3, <1>4, PTL DEF WKSpec

-----------------------------------------------------------------------------
(* How a watch party keeps its viewers together.                           *)

LEMMA LimitTypes ==
    /\ IsFiniteSet(Viewers) /\ Near \in Nat /\ Exit \in Nat /\ Hard \in Nat /\ Widest \in Nat
    /\ Cooldown \in Nat /\ Hold \in Nat /\ MaxUpsets \in Nat
    /\ Quorum \in Nat \ {0} /\ Override \in Nat \ {0}
    /\ Exit < Near /\ Near < Hard /\ Hard <= Widest
BY LimitsInOrder

TMPlaces ==
    /\ playing \in BOOLEAN /\ drift \in [Viewers -> Range0] /\ stalled \subseteq Viewers
    /\ pace \in [Viewers -> {-1, 0, 1}]

\* What the room knows of the last action is as old as the last action.
TMInv == TMTypeOK /\ moved.ago = quiet

LEMMA TMPlaced == TMTypeOK => TMPlaces
BY DEF TMTypeOK, TMPlaces

\* Of a group in which k viewers are, one is the k-th from behind.
LEMMA SmallestExists ==
    ASSUME drift \in [Viewers -> Range0], NEW S \in SUBSET Viewers, NEW k \in Nat \ {0}, k <= Cardinality(S)
    PROVE  Smallest(S, k) \in {drift[m] : m \in S}
<1> USE LimitTypes
<1> DEFINE UpTo(j) == {m \in S : drift[m] + Widest <= j}
           T == {j \in Nat : Cardinality(UpTo(j)) >= k}
<1>1. /\ IsFiniteSet(S) /\ Cardinality(S) \in Nat
      /\ \A A \in SUBSET S : IsFiniteSet(A) /\ Cardinality(A) \in Nat /\ Cardinality(A) <= Cardinality(S)
  <2>1. IsFiniteSet(S)  BY FS_Subset
  <2> QED BY <2>1, FS_Subset, FS_CardinalityType
<1>2. \A m \in S : drift[m] \in Int /\ drift[m] + Widest \in Nat /\ drift[m] <= Widest
  BY DEF Range0
<1>3. T # {}
  <2>1. UpTo(2 * Widest) = S  BY <1>2
  <2>2. 2 * Widest \in Nat  OBVIOUS
  <2> QED BY <1>1, <2>1, <2>2
<1>4. PICK j \in T : \A i \in T : ~(<<i, j>> \in OpToRel(<, Nat))
  <2>1. T \subseteq Nat  OBVIOUS
  <2> HIDE DEF T
  <2> QED BY <1>3, <2>1, NatLessThanWellFounded, WFMin
<1>5. j \in Nat /\ Cardinality(UpTo(j)) >= k /\ \A i \in T : ~(i < j)
  <2>1. T \subseteq Nat  OBVIOUS
  <2>2. \A i \in T : ~(i < j)
    <3> HIDE DEF T
    <3> QED BY <1>4, <2>1 DEF OpToRel
  <2> QED BY <2>2
<1> DEFINE d == j - Widest
<1>6. {m \in S : drift[m] <= d} = UpTo(j)  BY <1>2, <1>5
<1>7. Cardinality({m \in S : drift[m] < d}) < k
  <2>1. CASE j = 0
    <3>1. {m \in S : drift[m] < d} = {}  BY <1>2, <2>1
    <3>2. Cardinality({m \in S : drift[m] < d}) = 0  BY <3>1, FS_EmptySet, Zenon
    <3> QED BY <3>2
  <2>2. CASE j # 0
    <3>1. j - 1 \in Nat /\ j - 1 < j  BY <1>5, <2>2
    <3>2. ~(Cardinality(UpTo(j - 1)) >= k)  BY <1>5, <3>1
    <3>3. {m \in S : drift[m] < d} = UpTo(j - 1)  BY <1>2, <1>5
    <3>4. Cardinality(UpTo(j - 1)) \in Nat  BY <1>1
    <3> QED BY <3>2, <3>3, <3>4
  <2> QED BY <2>1, <2>2
<1>8. d \in {drift[m] : m \in S}
  <2> SUFFICES ASSUME d \notin {drift[m] : m \in S} PROVE FALSE  OBVIOUS
  <2>1. {m \in S : drift[m] < d} = {m \in S : drift[m] <= d}  BY <1>2, <1>5
  <2>2. Cardinality(UpTo(j)) < k  BY <1>6, <1>7, <2>1
  <2>3. Cardinality(UpTo(j)) \in Nat  BY <1>1
  <2> QED BY <1>5, <2>2, <2>3
<1>9. Cardinality({m \in S : drift[m] <= d}) >= k  BY <1>5, <1>6
<1> HIDE DEF d
<1> QED BY <1>7, <1>8, <1>9 DEF Smallest

\* The group on one side, when it decides.
Together(S) ==
    /\ S \subseteq Viewers \ stalled /\ IsMajority(S) /\ Cardinality(S) >= 1
    /\ \A d \in Spread(S) : d <= Hard

LEMMA DirectionDecides ==
    ASSUME TMPlaces
    PROVE  /\ Direction \in {-1, 0, 1}
           /\ Direction = 1 => Together(Ahead)
           /\ Direction = -1 => Together(Behind)
<1> USE LimitTypes
<1>1. Eligible \subseteq Viewers /\ Cardinality(Eligible) \in Nat
  <2>1. IsFiniteSet(Eligible)  BY FS_Subset DEF Eligible
  <2> QED BY <2>1, FS_CardinalityType DEF Eligible
<1>2. \A S \in SUBSET Eligible : Cardinality(S) \in Nat
  BY <1>1, FS_Subset, FS_CardinalityType
<1>3. Ahead \subseteq Eligible /\ Behind \subseteq Eligible  BY DEF Ahead, Behind
<1>4. \A S \in SUBSET Eligible : \A d \in Spread(S) : d \in Int
  <2> SUFFICES ASSUME NEW S \in SUBSET Eligible, NEW m \in S, NEW o \in S PROVE Abs(drift[m] - drift[o]) \in Int
    BY DEF Spread
  <2>1. drift[m] \in Int /\ drift[o] \in Int  BY <1>1 DEF TMPlaces, Range0
  <2> QED BY <2>1 DEF Abs
<1> DEFINE dir == IF IsMajority(Ahead) THEN 1 ELSE IF IsMajority(Behind) THEN -1 ELSE 0
           group == IF dir = 1 THEN Ahead ELSE Behind
<1>5. Direction = IF Cardinality(Eligible) < Quorum \/ \E d \in Spread(group) : d > Hard THEN 0 ELSE dir
  BY DEF Direction
<1>6. dir \in {-1, 0, 1} /\ (dir = 1 => IsMajority(Ahead)) /\ (dir = -1 => IsMajority(Behind))  OBVIOUS
<1>7. group \in SUBSET Eligible /\ (dir = 1 => group = Ahead) /\ (dir = -1 => group = Behind)  BY <1>3
<1> HIDE DEF dir, group
<1>8. Direction \in {-1, 0, 1}  BY <1>5, <1>6
<1>9. ASSUME Direction # 0
      PROVE  /\ Direction = dir /\ Cardinality(Eligible) >= Quorum /\ \A d \in Spread(group) : d <= Hard
  <2>1. ~(Cardinality(Eligible) < Quorum \/ \E d \in Spread(group) : d > Hard) /\ Direction = dir
    BY <1>5, <1>9
  <2>2. \A d \in Spread(group) : d \in Int  BY <1>4, <1>7
  <2> QED BY <1>1, <2>1, <2>2
<1>10. ASSUME NEW S \in SUBSET Eligible, IsMajority(S), Cardinality(Eligible) >= Quorum
       PROVE  Cardinality(S) >= 1
  BY <1>1, <1>2, <1>10 DEF IsMajority
<1>11. ASSUME Direction = 1 PROVE Together(Ahead)
  BY <1>3, <1>6, <1>7, <1>9, <1>10, <1>11 DEF Together, Eligible
<1>12. ASSUME Direction = -1 PROVE Together(Behind)
  BY <1>3, <1>6, <1>7, <1>9, <1>10, <1>12 DEF Together, Eligible
<1> QED BY <1>8, <1>11, <1>12

\* The median of a group that is together is near everyone in it, also when it
\* lies between two of them and is rounded.
LEMMA MedianNear ==
    ASSUME TMPlaces, NEW S, Together(S)
    PROVE  Median(S) \in Int /\ \A m \in S : Abs(drift[m] - Median(S)) <= Hard
<1> USE LimitTypes
<1>1. S \in SUBSET Viewers /\ drift \in [Viewers -> Range0]  BY DEF Together, TMPlaces
<1>2. Cardinality(S) \in Nat /\ Cardinality(S) >= 1
  <2>1. IsFiniteSet(S)  BY <1>1, FS_Subset
  <2>2. Cardinality(S) \in Nat  BY <2>1, FS_CardinalityType
  <2> QED BY <2>2 DEF Together
<1>3. PICK n \in Nat : n = Cardinality(S)  BY <1>2
<1>4. \A m \in S : drift[m] \in Int  BY <1>1 DEF Range0
<1>5. \A m \in S : \A o \in S : drift[m] - drift[o] <= Hard /\ drift[o] - drift[m] <= Hard
  <2> SUFFICES ASSUME NEW m \in S, NEW o \in S
               PROVE  drift[m] - drift[o] <= Hard /\ drift[o] - drift[m] <= Hard
    OBVIOUS
  <2>1. Abs(drift[m] - drift[o]) <= Hard  BY DEF Together, Spread
  <2> QED BY <1>4, <2>1 DEF Abs
<1>6. ASSUME NEW k \in Nat \ {0}, k <= n PROVE \E o \in S : Smallest(S, k) = drift[o]
  BY <1>1, <1>3, <1>6, SmallestExists
<1>7. CASE n % 2 = 1
  <2>1. (n + 1) \div 2 \in Nat \ {0} /\ (n + 1) \div 2 <= n  BY <1>2, <1>3, <1>7
  <2>2. PICK o \in S : Smallest(S, (n + 1) \div 2) = drift[o]  BY <1>6, <2>1
  <2>3. Median(S) = drift[o]  BY <1>3, <1>7, <2>2 DEF Median
  <2> QED BY <1>4, <1>5, <2>3 DEF Abs
<1>8. CASE n % 2 # 1
  <2>1. n \div 2 \in Nat \ {0} /\ n \div 2 + 1 \in Nat \ {0} /\ n \div 2 <= n /\ n \div 2 + 1 <= n
    BY <1>2, <1>3, <1>8
  <2>2. PICK o \in S : Smallest(S, n \div 2) = drift[o]  BY <1>6, <2>1
  <2>3. PICK q \in S : Smallest(S, n \div 2 + 1) = drift[q]  BY <1>6, <2>1
  <2>4. Median(S) = Half(drift[o] + drift[q])  BY <1>3, <1>8, <2>2, <2>3 DEF Median
  <2>5. PICK x \in Int : x = drift[o] + drift[q]  BY <1>4
  <2>6. PICK h : h = Half(x)  OBVIOUS
  <2>7. h \in Int /\ 2 * h <= x + 1 /\ x <= 2 * h + 1  BY <2>5, <2>6 DEF Half
  <2>8. Median(S) = h  BY <2>4, <2>5, <2>6
  <2>9. ASSUME NEW m \in S PROVE Abs(drift[m] - h) <= Hard
    <3>1. PICK y \in Int : y = drift[m]  BY <1>4
    <3>2. 2 * y - x <= 2 * Hard /\ x - 2 * y <= 2 * Hard  BY <1>4, <1>5, <2>5, <3>1
    <3>3. y - h <= Hard /\ h - y <= Hard  BY <2>7, <3>2
    <3> QED BY <2>7, <3>1, <3>3 DEF Abs
  <2> QED BY <2>7, <2>8, <2>9
<1> QED BY <1>7, <1>8

LEMMA ShiftTyped ==
    ASSUME TMPlaces
    PROVE  Shift \in Int
<1>1. Realigns => Direction \in {-1, 1}  BY DirectionDecides DEF Realigns
<1> QED BY <1>1, DirectionDecides, MedianNear DEF Shift

LEMMA PaceTyped ==
    ASSUME TMPlaces, NEW m \in Viewers
    PROVE  PaceOf(m) \in {-1, 0, 1} /\ Progress1(m) \in {-1, 0, 1}
<1>1. drift[m] \in Int /\ pace[m] \in {-1, 0, 1}  BY LimitTypes DEF TMPlaces, Range0
<1>2. Sign(drift[m]) \in {-1, 0, 1} /\ -Sign(drift[m]) \in {-1, 0, 1}
  <2>1. ASSUME NEW x \in Int PROVE Sign(x) \in {-1, 0, 1}  BY DEF Sign
  <2>2. PICK s \in {-1, 0, 1} : s = Sign(drift[m])  BY <1>1, <2>1
  <2> QED BY <2>2
<1>3. PaceOf(m) \in {-1, 0, 1}  BY <1>1, <1>2 DEF PaceOf
<1> QED BY <1>3 DEF Progress1

LEMMA BoundedTyped ==
    ASSUME NEW x \in Int
    PROVE  /\ Bounded(x) \in Range0 /\ Abs(Bounded(x)) <= Abs(x)
BY LimitTypes DEF Bounded, Range0, Abs

LEMMA LaterTyped ==
    ASSUME NEW limit \in Nat, NEW n \in 0 .. limit
    PROVE  Later(n, limit) \in 0 .. limit /\ (limit # 0 => Later(n, limit) # 0)
BY DEF Later

LEMMA TMStarts == TMInit => TMInv
<1> SUFFICES ASSUME TMInit PROVE TMInv  OBVIOUS
<1> USE LimitTypes
<1>1. playing \in BOOLEAN  BY Zenon DEF TMInit
<1>2. drift \in [Viewers -> Range0] /\ mode \in [Viewers -> Modes]
  <2>1. 0 \in Range0 /\ "" \in Modes  BY DEF Range0, Modes
  <2>2. drift = [m \in Viewers |-> 0] /\ mode = [m \in Viewers |-> ""]  BY DEF TMInit
  <2> QED BY <2>1, <2>2
<1>3. pace \in [Viewers -> {-1, 0, 1}] /\ cool \in [Viewers -> 0 .. Cooldown]
  <2>1. pace = [m \in Viewers |-> 0] /\ cool = [m \in Viewers |-> Cooldown]  BY DEF TMInit
  <2> QED BY <2>1
<1>4. /\ stalled = {} /\ majority = [dir |-> 0, since |-> 0] /\ quiet \in {0, Override}
      /\ moved = [by |-> "nobody", ago |-> quiet] /\ upsets = 0
  BY DEF TMInit
<1>5. /\ stalled \subseteq Viewers /\ quiet \in 0 .. Override /\ upsets \in 0 .. MaxUpsets
      /\ majority \in [dir: {-1, 0, 1}, since: 0 .. Hold] /\ moved.ago = quiet
      /\ moved \in [by: {"host", "majority", "nobody"}, ago: 0 .. Override]
  BY <1>4
<1> QED BY <1>1, <1>2, <1>3, <1>5 DEF TMInv, TMTypeOK

LEMMA TMSecond == TMInv /\ Second => TMInv'
<1> SUFFICES ASSUME TMInv, Second PROVE TMInv'  OBVIOUS
<1> USE LimitTypes
<1>0. TMTypeOK /\ TMPlaces /\ moved.ago = quiet  BY TMPlaced DEF TMInv
<1>1. playing' = playing /\ stalled' = stalled /\ upsets' = upsets  BY DEF Second
<1>2. drift' \in [Viewers -> Range0]
  <2>1. ASSUME NEW m \in Viewers
        PROVE  Bounded((IF Seeks(m) THEN 0 ELSE drift[m]) - Shift + Progress1(m)) \in Range0
    <3>1. PICK x \in Int : x = IF Seeks(m) THEN 0 ELSE drift[m]  BY <1>0 DEF TMPlaces, Range0
    <3>2. x - Shift + Progress1(m) \in Int  BY <1>0, ShiftTyped, PaceTyped
    <3> QED BY <3>1, <3>2, BoundedTyped
  <2> QED BY <2>1 DEF Second
<1>3. mode' \in [Viewers -> Modes]
  <2>1. \A m \in Viewers : Correction(m) \in Modes  BY <1>0 DEF Correction, Modes, TMTypeOK
  <2>2. mode' = [m \in Viewers |-> IF Realigns THEN "" ELSE Correction(m)]  BY DEF Second
  <2>3. "" \in Modes  BY DEF Modes
  <2> QED BY <2>1, <2>2, <2>3
<1>4. pace' \in [Viewers -> {-1, 0, 1}]  BY <1>0, PaceTyped DEF Second
<1>5. cool' \in [Viewers -> 0 .. Cooldown]
  <2>1. \A m \in Viewers : Later(cool[m], Cooldown) \in 0 .. Cooldown  BY <1>0, LaterTyped DEF TMTypeOK
  <2>2. cool' = [m \in Viewers |-> IF Seeks(m) THEN 0 ELSE Later(cool[m], Cooldown)]  BY DEF Second
  <2> QED BY <2>1, <2>2
<1>6. majority' \in [dir: {-1, 0, 1}, since: 0 .. Hold]
  <2>1. majority \in [dir: {-1, 0, 1}, since: 0 .. Hold]  BY <1>0 DEF TMTypeOK
  <2>2. Later(majority.since, Hold) \in 0 .. Hold  BY <2>1, LaterTyped
  <2>3. Direction \in {-1, 0, 1}  BY <1>0, DirectionDecides
  <2>4. majority' = MajorityNext  BY DEF Second
  <2> QED BY <2>1, <2>2, <2>3, <2>4 DEF MajorityNext
<1>7. quiet' \in 0 .. Override /\ moved'.ago = quiet' /\ moved' \in [by: {"host", "majority", "nobody"}, ago: 0 .. Override]
  <2>1. quiet \in 0 .. Override /\ moved \in [by: {"host", "majority", "nobody"}, ago: 0 .. Override]
    BY <1>0 DEF TMTypeOK
  <2>2. Later(quiet, Override) \in 0 .. Override  BY <2>1, LaterTyped
  <2>3. CASE Realigns
    <3>1. quiet' = 0 /\ moved' = [by |-> "majority", ago |-> 0]  BY <2>3 DEF Second
    <3> QED BY <3>1
  <2>4. CASE ~Realigns
    <3>1. quiet' = Later(quiet, Override) /\ moved' = [moved EXCEPT !.ago = Later(quiet, Override)]
      BY <1>0, <2>4 DEF Second
    <3> QED BY <2>1, <2>2, <3>1
  <2> QED BY <2>3, <2>4
<1> QED BY <1>0, <1>1, <1>2, <1>3, <1>4, <1>5, <1>6, <1>7 DEF TMInv, TMTypeOK

LEMMA TMOthers ==
    ASSUME TMInv,
           \/ \E play \in BOOLEAN, by \in {-Hard, 0, Hard + 1} : Control(play, by)
           \/ \E m \in Viewers : Upset(m) \/ Buffered(m)
    PROVE  TMInv'
<1> USE LimitTypes
<1>0. TMTypeOK /\ moved.ago = quiet  BY DEF TMInv
<1>1. ASSUME NEW play \in BOOLEAN, NEW by \in {-Hard, 0, Hard + 1}, Control(play, by) PROVE TMInv'
  <2>1. by \in Int  OBVIOUS
  <2>2. drift' \in [Viewers -> Range0]
    <3>1. \A m \in Viewers : drift[m] - by \in Int  BY <1>0, <2>1 DEF TMTypeOK, Range0
    <3>2. \A m \in Viewers : Bounded(drift[m] - by) \in Range0  BY <3>1, BoundedTyped
    <3> QED BY <1>1, <3>2 DEF Control
  <2>3. mode' \in [Viewers -> Modes]  BY <1>1 DEF Control, Modes
  <2>4. playing' \in BOOLEAN  BY <1>1 DEF Control
  <2>5. upsets' \in 0 .. MaxUpsets
    <3>1. upsets < MaxUpsets /\ upsets' = upsets + 1  BY <1>1 DEF Control
    <3> QED BY <1>0, <3>1 DEF TMTypeOK
  <2>6. UNCHANGED <<pace, cool, stalled>>  BY <1>1 DEF Control
  <2>7. /\ quiet' \in 0 .. Override /\ moved'.ago = quiet'
        /\ majority' \in [dir: {-1, 0, 1}, since: 0 .. Hold]
        /\ moved' \in [by: {"host", "majority", "nobody"}, ago: 0 .. Override]
    <3>1. quiet' = 0 /\ majority' = [dir |-> 0, since |-> 0] /\ moved' = [by |-> "host", ago |-> 0]
      BY <1>1 DEF Control
    <3> QED BY <3>1
  <2> QED BY <1>0, <2>2, <2>3, <2>4, <2>5, <2>6, <2>7 DEF TMInv, TMTypeOK
<1>2. ASSUME NEW m \in Viewers, Upset(m) PROVE TMInv'
  <2>1. UNCHANGED <<playing, mode, pace, cool, majority, quiet, moved>>  BY <1>2 DEF Upset
  <2>2. upsets' \in 0 .. MaxUpsets  BY <1>0, <1>2 DEF Upset, TMTypeOK
  <2>3. drift' \in [Viewers -> Range0] /\ stalled' \subseteq Viewers  BY <1>0, <1>2 DEF Upset, TMTypeOK
  <2> QED BY <1>0, <2>1, <2>2, <2>3 DEF TMInv, TMTypeOK
<1>3. ASSUME NEW m \in Viewers, Buffered(m) PROVE TMInv'
  <2>1. UNCHANGED <<playing, drift, mode, pace, cool, majority, quiet, moved, upsets>> /\ stalled' \subseteq Viewers
    BY <1>0, <1>3 DEF Buffered, TMTypeOK
  <2> QED BY <1>0, <2>1 DEF TMInv, TMTypeOK
<1> QED BY <1>1, <1>2, <1>3

LEMMA TMMovesOn == TMInv /\ [TMNext]_tmVars => TMInv'
<1>1. CASE UNCHANGED tmVars  BY <1>1 DEF TMInv, TMTypeOK, tmVars
<1> QED BY <1>1, TMSecond, TMOthers DEF TMNext

\* When the majority moves the room, it is a second of the room that does so.
LEMMA MajorityMoves ==
    ASSUME TMInv, [TMNext]_tmVars, ByMajority, ~UNCHANGED tmVars
    PROVE  Second /\ Realigns
<1> USE LimitTypes
<1>0. TMTypeOK  BY DEF TMInv
<1>1. upsets \in Nat /\ stalled \subseteq Viewers  BY <1>0 DEF TMTypeOK
<1>2. upsets' = upsets /\ stalled' = stalled /\ moved'.by = "majority" /\ moved'.ago = 0  BY DEF ByMajority
<1>3. ASSUME NEW play \in BOOLEAN, NEW by \in {-Hard, 0, Hard + 1}, Control(play, by) PROVE FALSE
  <2>1. upsets' = upsets + 1  BY <1>3 DEF Control
  <2> QED BY <1>1, <1>2, <2>1
<1>4. ASSUME NEW m \in Viewers, Upset(m) PROVE FALSE  BY <1>1, <1>2, <1>4 DEF Upset
<1>5. ASSUME NEW m \in Viewers, Buffered(m) PROVE FALSE  BY <1>1, <1>2, <1>5 DEF Buffered
<1>6. Second  BY <1>3, <1>4, <1>5 DEF TMNext
<1>7. Realigns
  <2> SUFFICES ASSUME ~Realigns PROVE FALSE  OBVIOUS
  <2>1. moved \in [by: {"host", "majority", "nobody"}, ago: 0 .. Override]  BY <1>0 DEF TMTypeOK
  <2>2. moved' = [moved EXCEPT !.ago = Later(moved.ago, Override)]  BY <1>6 DEF Second
  <2>3. moved'.ago = Later(moved.ago, Override)  BY <2>1, <2>2
  <2>4. Later(moved.ago, Override) # 0  BY <2>1, LaterTyped
  <2> QED BY <1>2, <2>3, <2>4
<1> QED BY <1>6, <1>7

LEMMA MajorityServed ==
    ASSUME TMInv, Second, Realigns
    PROVE  \E S \in SUBSET Eligible :
              IsMajority(S) /\ \A m \in S : Seeks(m) \/ Abs(drift'[m]) <= Hard + 1
<1> USE LimitTypes
<1>0. TMPlaces  BY TMPlaced DEF TMInv
<1>1. PICK S : Together(S) /\ Shift = Median(S)
  <2>1. Direction \in {-1, 1}  BY <1>0, DirectionDecides DEF Realigns
  <2>2. CASE Direction = 1  BY <1>0, <2>2, DirectionDecides DEF Shift
  <2>3. CASE Direction = -1  BY <1>0, <2>3, DirectionDecides DEF Shift
  <2> QED BY <2>1, <2>2, <2>3
<1>2. S \in SUBSET Eligible /\ S \subseteq Viewers /\ IsMajority(S)  BY <1>1 DEF Together, Eligible
<1>3. Median(S) \in Int /\ \A m \in S : Abs(drift[m] - Median(S)) <= Hard  BY <1>0, <1>1, MedianNear
<1>4. ASSUME NEW m \in S, ~Seeks(m) PROVE Abs(drift'[m]) <= Hard + 1
  <2>1. m \in Viewers /\ drift[m] \in Int  BY <1>0, <1>2 DEF TMPlaces, Range0
  <2>2. PICK p \in {-1, 0, 1} : p = Progress1(m)  BY <1>0, <2>1, PaceTyped
  <2>3. PICK y \in Int : y = drift[m] - Median(S)  BY <1>3, <2>1
  <2>4. drift'[m] = Bounded(y + p)  BY <1>1, <1>4, <2>1, <2>2, <2>3 DEF Second
  <2>5. Abs(y) <= Hard  BY <1>3, <2>3
  <2>6. Abs(y + p) <= Hard + 1  BY <2>5 DEF Abs
  <2>7. Abs(Bounded(y + p)) <= Abs(y + p)  BY BoundedTyped
  <2>8. Abs(y + p) \in Int /\ Bounded(y + p) \in Int /\ Abs(Bounded(y + p)) \in Int
    BY BoundedTyped DEF Range0, Abs
  <2> QED BY <2>4, <2>6, <2>7, <2>8
<1> QED BY <1>2, <1>4

\* The safety part of TimelineContract (sync.go, realignLocked): the majority
\* that moves a room is in step with it afterwards, but for those who were told
\* to seek to where it was; and no room is moved within hostOverride of what
\* its host, or a majority before, did to it.
THEOREM TimelineIsSafe == TMSpec => []TMTypeOK /\ MajorityIsServed /\ HostIsHeard
<1>1. TMInit => TMInv  BY TMStarts
<1>2. TMInv /\ [TMNext]_tmVars => TMInv'  BY TMMovesOn
<1>3. TMInv => TMTypeOK  BY DEF TMInv
<1>4. TMInv /\ [TMNext]_tmVars
        => [ByMajority => \E S \in SUBSET Eligible :
                              /\ IsMajority(S)
                              /\ \A m \in S : Seeks(m) \/ Abs(drift'[m]) <= Hard + 1]_tmVars
  BY MajorityMoves, MajorityServed
<1>5. TMInv /\ [TMNext]_tmVars => [ByMajority => moved.ago = Override]_tmVars
  <2> SUFFICES ASSUME TMInv, [TMNext]_tmVars, ByMajority, ~UNCHANGED tmVars PROVE moved.ago = Override
    OBVIOUS
  <2>1. Realigns  BY MajorityMoves
  <2> QED BY <2>1 DEF Realigns, MayRealign, TMInv
<1> QED BY <1>1, <1>2, <1>3, <1>4, <1>5, PTL DEF TMSpec, MajorityIsServed, HostIsHeard

=============================================================================
