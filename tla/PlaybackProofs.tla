--------------------------- MODULE PlaybackProofs ---------------------------
(***************************************************************************)
(* Proofs about the modules of playback, for any number of sessions,       *)
(* processes, requests and reports.                                        *)
(***************************************************************************)
EXTENDS Playback, Pipeline, Progress, HlsPlan, FiniteSetTheorems, SequenceTheorems,
        NaturalsInduction, TLAPS

-----------------------------------------------------------------------------
(* Playback sessions and their slots.                                      *)

\* A killer that is in kill, and the sessions somebody is about to kill.
Busy(k) == kill[k].pc \notin {"idle", "found"}
Enc(s) == sess[s].kind \in {"promote", "encode"}
Held == {s \in Sessions : sess[s].held}

\* A session that was registered stays "live", and leaves the registry for good.
Registered ==
    /\ \A s \in reg \cup dead \cup todo : sess[s].pc = "live"
    /\ \A k \in Killers : kill[k].pc # "idle" => kill[k].s \in Sessions /\ sess[kill[k].s].pc = "live"
    /\ \A k \in Killers : Busy(k) => kill[k].s \notin reg
    /\ reg \cap dead = {}
    /\ slotMu # NoSession => sess[slotMu].pc = "locked"
    /\ \A s \in Sessions : sess[s].pc = "locked" => slotMu = s

\* A process runs from its start to the kill, and an encode runs on a slot.
RunsOnSlot ==
    /\ \A s \in Sessions : sess[s].run => sess[s].pc \in {"ready", "live"} /\ (Enc(s) => sess[s].held)
    /\ \A k \in Killers : kill[k].pc \in {"check", "release", "clear"} => ~sess[kill[k].s].run
    /\ \A s \in Sessions : sess[s].pc \in {"dir", "ready"} /\ Enc(s) => sess[s].held
    /\ \A s \in Sessions : sess[s].pc = "admitted" => (sess[s].held <=> sess[s].kind = "encode")
    /\ \A s \in Sessions : sess[s].pc = "slot" => sess[s].kind = "promote" /\ ~sess[s].held
    /\ \A s \in Sessions : sess[s].pc \in {"slot", "dir", "ready"} => sess[s].kind \in OnDisk

\* Who will give a slot back: the request that took it, or a kill to come.
SlotHasOwner ==
    \A s \in Sessions : sess[s].held =>
        \/ sess[s].pc \in {"admitted", "dir", "ready"}
        \/ s \in reg \cup dead
        \/ \E k \in Killers : kill[k].s = s /\ kill[k].pc \in {"mark", "check", "release"}

\* Calls of kill are counted, and only a second one can find the slot gone.
Killed ==
    /\ \A k \in Killers : Busy(k) => sess[kill[k].s].kills # 0
    /\ \A j, k \in Killers : Busy(j) /\ Busy(k) /\ j # k /\ kill[j].s = kill[k].s
                                => sess[kill[k].s].kills = 2
    /\ \A k \in Killers : kill[k].pc = "release" => sess[kill[k].s].held \/ sess[kill[k].s].kills = 2

\* The limiter counts the slots that are held, unless one was released twice.
Counted ==
    /\ active <= Cardinality(Held)
    /\ Twice = {} => active = Cardinality(Held)

\* One of two sessions of a viewer that are on their way or registered is about
\* to stop the other, or their requests overlapped.
Coming(s) == sess[s].pc \in Building \/ s \in reg
OneOfTwo ==
    /\ \A n, o \in Sessions :
          <<n, o>> \in Replaces /\ n # o /\ Coming(n) /\ Coming(o) =>
              \/ n \in overlap \/ o \in overlap
              \/ slotMu = n /\ o \in todo
              \/ slotMu = o /\ n \in todo
    /\ \A n, o \in Sessions :
          <<n, o>> \in Replaces /\ <<o, n>> \notin Replaces /\ sess[n].pc # "none"
              => sess[o].pc = "live"

\* A directory stays until its session is killed.
HasDirectory ==
    \A s \in Sessions : sess[s].pc \in {"slot", "dir", "ready"} \/ s \in reg =>
        (sess[s].kind \in OnDisk => s \in dirs \/ s \in evicted)

PBInv ==
    /\ PBTypeOK /\ Registered /\ RunsOnSlot /\ SlotHasOwner /\ Killed /\ Counted
    /\ OneOfTwo /\ HasDirectory

\* What a well-typed state of playback is made of.
LEMMA PBTypes ==
    ASSUME PBTypeOK
    PROVE  /\ sess \in [Sessions -> SessionRecords] /\ kill \in [Killers -> KillRecords]
           /\ \A s \in Sessions : /\ sess[s].pc \in Phases /\ sess[s].kind \in Kinds
                                  /\ sess[s].held \in BOOLEAN /\ sess[s].run \in BOOLEAN
                                  /\ sess[s].age \in 0 .. 2 /\ sess[s].kills \in 0 .. 2
           /\ \A k \in Killers : kill[k].pc \in KillPcs /\ kill[k].s \in Sessions \cup {NoSession}
           /\ reg \subseteq Sessions /\ dead \subseteq Sessions /\ todo \subseteq Sessions
           /\ dirs \subseteq Sessions /\ overlap \subseteq Sessions /\ evicted \subseteq Sessions
           /\ slotMu \in Sessions \cup {NoSession} /\ active \in Nat /\ slots \in Nat
           /\ "sweep" \in Killers /\ "create" \in Killers /\ Deleters \subseteq Killers
           /\ NoSession \notin Sessions
BY PlaybackAssumption DEF PBTypeOK, SessionRecords, KillRecords, Killers

\* Nobody has asked for anything yet.
LEMMA PBInitInv == PBInit => PBInv
<1> SUFFICES ASSUME PBInit PROVE PBInv
  OBVIOUS
<1>1. /\ \A s \in Sessions : /\ sess[s].pc = "none" /\ sess[s].kind = "direct"
                             /\ ~sess[s].held /\ ~sess[s].run /\ sess[s].kills = 0
      /\ \A k \in Killers : kill[k].pc = "idle"
      /\ reg = {} /\ dead = {} /\ todo = {} /\ slotMu = NoSession /\ active = 0
  BY DEF PBInit
<1>2. PBTypeOK
  <2>1. sess \in [Sessions -> SessionRecords]
    BY DEF PBInit, SessionRecords, Phases, Building, Kinds
  <2>2. kill \in [Killers -> KillRecords]
    BY DEF PBInit, KillRecords, KillPcs
  <2> QED
    BY <2>1, <2>2, PlaybackAssumption DEF PBInit, PBTypeOK
<1>3. Registered /\ RunsOnSlot /\ SlotHasOwner
  BY <1>1, PlaybackAssumption DEF Registered, RunsOnSlot, SlotHasOwner
<1>4. Killed /\ OneOfTwo /\ HasDirectory
  BY <1>1 DEF Killed, OneOfTwo, HasDirectory, Busy, Coming, Building
<1>5. Counted
  <2>1. Held = {}
    BY <1>1 DEF Held
  <2> QED
    BY <2>1, <1>1, FS_EmptySet DEF Counted
<1> QED
  BY <1>2, <1>3, <1>4, <1>5 DEF PBInv

\* One slot more, or one less, is held.
LEMMA HeldCount ==
    ASSUME PBTypeOK
    PROVE  /\ Cardinality(Held) \in Nat
           /\ IsFiniteSet(Held)
           /\ \A n \in Sessions \ Held : Cardinality(Held \cup {n}) = Cardinality(Held) + 1
           /\ \A n \in Held : Cardinality(Held \ {n}) = Cardinality(Held) - 1 /\ Cardinality(Held) > 0
<1>1. IsFiniteSet(Held)
  BY PlaybackAssumption, FS_Subset DEF Held
<1>2. Cardinality(Held) \in Nat
  BY <1>1, FS_CardinalityType
<1>3. \A n \in Sessions \ Held : Cardinality(Held \cup {n}) = Cardinality(Held) + 1
  BY <1>1, FS_AddElement
<1>4. \A n \in Held : Cardinality(Held \ {n}) = Cardinality(Held) - 1 /\ Cardinality(Held) > 0
  BY <1>1, <1>2, FS_RemoveElement, FS_EmptySet
<1> QED
  BY <1>1, <1>2, <1>3, <1>4

\* A request takes slotMu.
LEMMA LockSlotsInv == ASSUME PBInv, NEW n \in Sessions, NEW kind \in Plays[n], LockSlots(n, kind) PROVE PBInv'
<1>0. PBTypeOK
  BY DEF PBInv
<1>t. kind \in Kinds
  BY PlaybackAssumption
<1>1. /\ sess[n].pc = "none" /\ slotMu = NoSession /\ slotMu' = n
      /\ sess' = [sess EXCEPT ![n] = [@ EXCEPT !.pc = "locked", !.kind = kind]]
      /\ todo' = reg \cap Replaced(n)
      /\ slots' = slots /\ active' = active /\ reg' = reg /\ kill' = kill /\ dead' = dead
      /\ dirs' = dirs /\ evicted' = evicted /\ overlap \subseteq overlap' /\ overlap' \subseteq overlap \cup {n}
      /\ \A o \in Replaced(n) \ SameTitle(n) : sess[o].pc = "live"
      /\ touches' = touches
  BY <1>0, PBTypes DEF LockSlots, SessionRecords
<1>2. /\ sess' \in [Sessions -> SessionRecords]
      /\ \A s \in Sessions \ {n} : sess'[s] = sess[s]
      /\ sess'[n].pc = "locked" /\ sess'[n].kind = kind /\ sess'[n].held = sess[n].held
      /\ sess'[n].run = sess[n].run /\ sess'[n].kills = sess[n].kills
  <2>1. sess[n] \in SessionRecords /\ "locked" \in Phases
    BY <1>0, PBTypes DEF Phases, Building
  <2> QED
    BY <2>1, <1>0, <1>1, <1>t, PBTypes DEF SessionRecords
<1>3. ~sess[n].held /\ ~sess[n].run /\ n \notin reg \cup dead \cup todo
      /\ \A k \in Killers : kill[k].pc # "idle" => kill[k].s # n /\ kill[k].s \in Sessions
  BY <1>1 DEF PBInv, Registered, RunsOnSlot, SlotHasOwner
<1>4. PBTypeOK'
  BY <1>0, <1>1, <1>2 DEF PBTypeOK, Replaced
<1>5. Registered'
  BY <1>0, <1>1, <1>2, <1>3, PBTypes DEF PBInv, Registered, Busy, Replaced
<1>6. RunsOnSlot'
  BY <1>0, <1>1, <1>2, <1>3, PBTypes DEF PBInv, RunsOnSlot, Enc
<1>7. SlotHasOwner'
  BY <1>0, <1>1, <1>2, <1>3 DEF PBInv, SlotHasOwner
<1>8. Killed'
  BY <1>0, <1>1, <1>2, <1>3 DEF PBInv, Killed, Busy
<1>9. Counted'
  <2>1. Held' = Held
    BY <1>2 DEF Held
  <2>2. Twice' = Twice
    BY <1>2 DEF Twice
  <2> QED
    BY <1>1, <2>1, <2>2 DEF PBInv, Counted
<1>10. OneOfTwo'
  <2>1. \A s \in Sessions \ {n} : Coming(s)' <=> Coming(s)
    BY <1>1, <1>2 DEF Coming
  <2>2. \A a \in Sessions \ {n} :
            (<<n, a>> \in Replaces \/ <<a, n>> \in Replaces) /\ Coming(a) => n \in overlap' \/ a \in todo'
    <3> SUFFICES ASSUME NEW a \in Sessions \ {n}, Coming(a), n \notin overlap',
                        <<n, a>> \in Replaces \/ <<a, n>> \in Replaces
                 PROVE  a \in todo'
      OBVIOUS
    <3>1. sess[a].pc \notin Building
      BY DEF LockSlots
    <3>2. a \in reg /\ sess[a].pc = "live"
      BY <3>1 DEF Coming, PBInv, Registered
    <3>3. <<n, a>> \in Replaces
      BY <3>2, <1>1 DEF PBInv, OneOfTwo
    <3> QED
      BY <3>2, <3>3, <1>1 DEF Replaced
  <2>3. \A a, b \in Sessions \ {n} :
            <<a, b>> \in Replaces /\ a # b /\ Coming(a) /\ Coming(b) => a \in overlap' \/ b \in overlap'
    BY <1>1, PBTypes, <1>0 DEF PBInv, OneOfTwo
  <2>4. \A a, b \in Sessions :
          <<a, b>> \in Replaces /\ a # b /\ Coming(a)' /\ Coming(b)' =>
              a \in overlap' \/ b \in overlap' \/ (slotMu' = a /\ b \in todo') \/ (slotMu' = b /\ a \in todo')
    <3> SUFFICES ASSUME NEW a \in Sessions, NEW b \in Sessions,
                        <<a, b>> \in Replaces, a # b, Coming(a)', Coming(b)'
                 PROVE  a \in overlap' \/ b \in overlap' \/ (slotMu' = a /\ b \in todo') \/ (slotMu' = b /\ a \in todo')
      OBVIOUS
    <3>1. CASE a = n
      BY <3>1, <2>1, <2>2, <1>1
    <3>2. CASE b = n
      BY <3>2, <2>1, <2>2, <1>1
    <3>3. CASE a # n /\ b # n
      BY <3>3, <2>1, <2>3
    <3> QED
      BY <3>1, <3>2, <3>3
  <2>5. \A a, b \in Sessions :
          <<a, b>> \in Replaces /\ <<b, a>> \notin Replaces /\ sess'[a].pc # "none" => sess'[b].pc = "live"
    <3> SUFFICES ASSUME NEW a \in Sessions, NEW b \in Sessions,
                        <<a, b>> \in Replaces, <<b, a>> \notin Replaces, sess'[a].pc # "none"
                 PROVE  sess'[b].pc = "live"
      OBVIOUS
    <3>1. sess[b].pc = "live"
      BY <1>1, <1>2 DEF PBInv, OneOfTwo, Replaced, SameTitle
    <3> QED
      BY <3>1, <1>1, <1>2
  <2> QED
    BY <2>4, <2>5 DEF OneOfTwo
<1>11. HasDirectory'
  BY <1>1, <1>2, <1>3 DEF PBInv, HasDirectory
<1> QED
  BY <1>4, <1>5, <1>6, <1>7, <1>8, <1>9, <1>10, <1>11 DEF PBInv

\* A call of kill begins for a session nobody will find in the registry again.
LEMMA EnterInv ==
    ASSUME PBInv, NEW k \in Killers, NEW s \in Sessions, Enter(k, s), ~Busy(k), sess[s].pc = "live",
           reg' = reg \ {s}, dead' \in {dead, dead \ {s}}, todo' \in {todo, todo \ {s}},
           UNCHANGED <<slots, active, slotMu, dirs, touches, overlap, evicted>>
    PROVE  PBInv'
<1>0. PBTypeOK
  BY DEF PBInv
<1>1. /\ kill' \in [Killers -> KillRecords] /\ sess' \in [Sessions -> SessionRecords]
      /\ kill'[k].pc = "mark" /\ kill'[k].s = s /\ \A j \in Killers \ {k} : kill'[j] = kill[j]
      /\ \A t \in Sessions \ {s} : sess'[t] = sess[t]
      /\ \A t \in Sessions : /\ sess'[t].pc = sess[t].pc /\ sess'[t].kind = sess[t].kind
                             /\ sess'[t].held = sess[t].held /\ sess'[t].run = sess[t].run
                             /\ sess'[t].kills \in 0 .. 2
                             /\ sess[t].kills = 2 => sess'[t].kills = 2
                             /\ sess[t].kills # 0 => sess'[t].kills # 0
      /\ sess'[s].kills = IF sess[s].kills = 2 THEN 2 ELSE sess[s].kills + 1
  <2>1. kill' = [kill EXCEPT ![k] = [pc |-> "mark", s |-> s]] /\ [pc |-> "mark", s |-> s] \in KillRecords
    BY DEF Enter, KillRecords, KillPcs
  <2>c. PICK c \in 0 .. 2 : c = IF sess[s].kills = 2 THEN 2 ELSE sess[s].kills + 1
    BY <1>0, PBTypes
  <2>2. sess' = [sess EXCEPT ![s].kills = c]
    BY <2>c DEF Enter
  <2>3. sess' = [sess EXCEPT ![s] = [sess[s] EXCEPT !.kills = c]] /\ sess[s] \in SessionRecords
    BY <1>0, <2>2, PBTypes
  <2>4. [sess[s] EXCEPT !.kills = c] \in SessionRecords
    BY <2>3 DEF SessionRecords
  <2>5. kill' \in [Killers -> KillRecords] /\ sess' \in [Sessions -> SessionRecords]
    BY <1>0, <2>1, <2>3, <2>4, PBTypes
  <2>6. kill'[k].pc = "mark" /\ kill'[k].s = s /\ \A j \in Killers \ {k} : kill'[j] = kill[j]
    BY <1>0, <2>1, PBTypes
  <2>7. \A t \in Sessions \ {s} : sess'[t] = sess[t]
    BY <1>0, <2>3, PBTypes
  <2>8. /\ sess'[s].pc = sess[s].pc /\ sess'[s].kind = sess[s].kind
        /\ sess'[s].held = sess[s].held /\ sess'[s].run = sess[s].run
        /\ sess'[s].kills = IF sess[s].kills = 2 THEN 2 ELSE sess[s].kills + 1
    BY <1>0, <2>3, <2>c, PBTypes DEF SessionRecords
  <2> QED
    BY <1>0, <2>c, <2>5, <2>6, <2>7, <2>8, PBTypes
<1>2. Twice \subseteq Twice' /\ Held' = Held
  BY <1>1 DEF Twice, Held
<1>3. PBTypeOK'
  BY <1>0, <1>1 DEF PBTypeOK
<1>4. Registered'
  BY <1>0, <1>1, PBTypes DEF PBInv, Registered, Busy
<1>5. RunsOnSlot'
  BY <1>0, <1>1, PBTypes DEF PBInv, Registered, RunsOnSlot, Enc
<1>6. SlotHasOwner'
  <2> SUFFICES ASSUME NEW t \in Sessions, sess'[t].held
               PROVE  \/ sess'[t].pc \in {"admitted", "dir", "ready"}
                      \/ t \in reg' \cup dead'
                      \/ \E j \in Killers : kill'[j].s = t /\ kill'[j].pc \in {"mark", "check", "release"}
    BY DEF SlotHasOwner
  <2>1. CASE t = s
    BY <2>1, <1>1
  <2>2. CASE t # s
    <3>1. \A j \in Killers : kill[j].pc \in {"mark", "check", "release"} => kill'[j] = kill[j]
      BY <1>1 DEF Busy
    <3> QED
      BY <2>2, <3>1, <1>1 DEF PBInv, SlotHasOwner
  <2> QED
    BY <2>1, <2>2
<1>7. Killed'
  <2>1. \A j \in Killers \ {k} : Busy(j)' <=> Busy(j)
    BY <1>1 DEF Busy
  <2>2. \A j \in Killers \ {k} : Busy(j) /\ kill[j].s = s => sess'[s].kills = 2
    BY <1>0, <1>1, PBTypes DEF PBInv, Killed
  <2>3. \A j \in Killers : Busy(j)' => sess'[kill'[j].s].kills # 0
    BY <2>1, <1>0, <1>1, PBTypes DEF PBInv, Killed, Registered, Busy
  <2>4. \A i, j \in Killers : Busy(i)' /\ Busy(j)' /\ i # j /\ kill'[i].s = kill'[j].s => sess'[kill'[j].s].kills = 2
    BY <2>1, <2>2, <1>0, <1>1, PBTypes DEF PBInv, Killed, Registered, Busy
  <2>5. \A j \in Killers : kill'[j].pc = "release" => sess'[kill'[j].s].held \/ sess'[kill'[j].s].kills = 2
    BY <1>1, PBTypes, <1>0 DEF PBInv, Killed, Registered
  <2> QED
    BY <2>3, <2>4, <2>5 DEF Killed
<1>8. Counted'
  BY <1>2 DEF PBInv, Counted
<1>9. OneOfTwo'
  <2>1. ~Coming(s)' /\ \A t \in Sessions : Coming(t)' => Coming(t)
    BY <1>1 DEF Coming, Building
  <2> QED
    BY <2>1, <1>1 DEF PBInv, OneOfTwo
<1>10. HasDirectory'
  BY <1>1 DEF PBInv, HasDirectory
<1> QED
  BY <1>3, <1>4, <1>5, <1>6, <1>7, <1>8, <1>9, <1>10 DEF PBInv

\* A request stops what it replaces, a DELETE what it found, the sweep what expired.
LEMMA SupersedeInv == ASSUME PBInv, NEW n \in Sessions, NEW o \in Sessions, Supersede(n, o) PROVE PBInv'
<1>1. "create" \in Killers /\ ~Busy("create") /\ sess[o].pc = "live"
  BY PBTypes DEF PBInv, Supersede, Busy, Registered
<1> QED
  BY <1>1, EnterInv DEF Supersede

LEMMA DeleteInv == ASSUME PBInv, NEW d \in Deleters, Delete(d) PROVE PBInv'
<1>1. d \in Killers /\ ~Busy(d) /\ kill[d].s \in Sessions /\ sess[kill[d].s].pc = "live"
  BY PBTypes DEF PBInv, Delete, Busy, Registered
<1> QED
  BY <1>1, EnterInv DEF Delete

LEMMA KillExpiredInv == ASSUME PBInv, NEW s \in Sessions, KillExpired(s) PROVE PBInv'
<1>1. "sweep" \in Killers /\ ~Busy("sweep") /\ sess[s].pc = "live" /\ reg = reg \ {s}
  BY PBTypes DEF PBInv, KillExpired, Busy, Registered
<1> QED
  BY <1>1, EnterInv DEF KillExpired

\* A session is no killer's target before it is registered.
LEMMA NotYetKilled ==
    ASSUME PBInv, NEW n \in Sessions, sess[n].pc # "live"
    PROVE  n \notin reg \cup dead \cup todo /\ \A k \in Killers : kill[k].pc # "idle" => kill[k].s # n /\ kill[k].s \in Sessions
BY DEF PBInv, Registered

\* What the steps of a create request keep: session n moves on without being
\* registered or killed, and keeps what it holds.
LEMMA CreateStepKeeps ==
    ASSUME PBInv, NEW n \in Sessions, sess[n].pc \in Building, sess'[n].pc \in Building \cup {"refused", "failed"},
           sess' \in [Sessions -> SessionRecords], \A s \in Sessions \ {n} : sess'[s] = sess[s],
           sess'[n].kind = sess[n].kind, sess'[n].kills = sess[n].kills,
           UNCHANGED <<slots, reg, todo, kill, dead, touches, overlap, evicted>>,
           slotMu' = IF sess[n].pc = "locked" THEN NoSession ELSE slotMu, sess'[n].pc # "locked",
           sess[n].pc = "locked" => todo = {},
           active' \in Nat, dirs' \subseteq Sessions
    PROVE  /\ PBTypeOK' /\ Registered' /\ Killed' /\ OneOfTwo' /\ Twice' = Twice
           /\ (sess'[n].held => sess'[n].pc \in {"admitted", "dir", "ready"}) => SlotHasOwner'
<1>0. PBTypeOK /\ sess[n].pc # "live" /\ sess'[n].pc \notin {"live", "none"}
  BY DEF PBInv, Building
<1>1. PBTypeOK'
  BY <1>0 DEF PBTypeOK
<1>2. /\ n \notin reg \cup dead \cup todo
      /\ \A k \in Killers : kill[k].pc # "idle" => kill[k].s # n /\ kill[k].s \in Sessions
  BY <1>0, NotYetKilled
<1>3. Registered'
  <2>1. sess[n].pc = "locked" => slotMu = n
    BY DEF PBInv, Registered
  <2> QED
    BY <1>0, <1>2, <2>1, PBTypes DEF PBInv, Registered, Busy
<1>4. Killed'
  BY <1>2 DEF PBInv, Killed, Busy
<1>5. OneOfTwo'
  <2>1. \A s \in Sessions : Coming(s)' => Coming(s)
    BY <1>2, <1>0 DEF Coming
  <2>2. \A a, b \in Sessions : sess'[a].pc = "none" <=> sess[a].pc = "none"
    BY <1>0 DEF Building
  <2>3. \A a \in Sessions : sess[a].pc = "live" => sess'[a].pc = "live"
    BY <1>0
  <2>4. \A a, b \in Sessions : slotMu = a /\ b \in todo => slotMu' = a /\ b \in todo'
    BY <1>0 DEF PBInv, Registered
  <2> QED
    BY <2>1, <2>2, <2>3, <2>4 DEF PBInv, OneOfTwo
<1>6. Twice' = Twice
  BY DEF Twice
<1>7. ASSUME sess'[n].held => sess'[n].pc \in {"admitted", "dir", "ready"} PROVE SlotHasOwner'
  BY <1>7 DEF PBInv, SlotHasOwner
<1> QED
  BY <1>1, <1>3, <1>4, <1>5, <1>6, <1>7

\* What such a step does to the sessions.
LEMMA CreateStepSess ==
    ASSUME PBTypeOK, NEW n \in Sessions, NEW p \in Phases, NEW h \in BOOLEAN, NEW r \in BOOLEAN,
           sess' = [sess EXCEPT ![n] = [@ EXCEPT !.pc = p, !.held = h, !.run = r]]
    PROVE  /\ sess' \in [Sessions -> SessionRecords] /\ \A s \in Sessions \ {n} : sess'[s] = sess[s]
           /\ sess'[n].pc = p /\ sess'[n].kind = sess[n].kind /\ sess'[n].kills = sess[n].kills
           /\ sess'[n].held = h /\ sess'[n].run = r
<1>1. sess' = [sess EXCEPT ![n] = [sess[n] EXCEPT !.pc = p, !.held = h, !.run = r]]
  OBVIOUS
<1>2. sess[n] \in SessionRecords /\ sess \in [Sessions -> SessionRecords]
  BY PBTypes
<1>3. [sess[n] EXCEPT !.pc = p, !.held = h, !.run = r] \in SessionRecords
  BY <1>2 DEF SessionRecords
<1>4. sess' \in [Sessions -> SessionRecords]
  BY <1>1, <1>2, <1>3
<1>5. sess'[n] = [sess[n] EXCEPT !.pc = p, !.held = h, !.run = r] /\ \A s \in Sessions \ {n} : sess'[s] = sess[s]
  BY <1>1, <1>2
<1> QED
  BY <1>2, <1>4, <1>5 DEF SessionRecords

\* A request that is on its way stays so, or fails.
LEMMA PhaseNames ==
    /\ Building \cup {"refused", "failed"} \subseteq Phases
    /\ "live" \notin Building /\ "none" \notin Building /\ "live" \in Phases
BY DEF Phases, Building

\* The directory is made.
LEMMA MakeDirInv == ASSUME PBInv, NEW n \in Sessions, MakeDir(n) PROVE PBInv'
<1>0. PBTypeOK
  BY DEF PBInv
<1> DEFINE p == IF sess[n].kind = "promote" THEN "slot" ELSE "dir"
<1>1. /\ sess[n].pc = "admitted" /\ sess[n].kind \in OnDisk /\ p \in Building /\ p \in {"slot", "dir"}
      /\ UNCHANGED <<slots, active, reg, slotMu, todo, kill, dead, touches, overlap, evicted>>
      /\ dirs' = dirs \cup {n} /\ dirs' \subseteq Sessions /\ sess[n].pc \in Building /\ active' \in Nat
      /\ sess[n].held \in BOOLEAN /\ sess[n].run \in BOOLEAN
  BY <1>0, PBTypes DEF MakeDir, Building
<1>2. sess' = [sess EXCEPT ![n].pc = p]
  BY DEF MakeDir, Step
<1>3. sess' = [sess EXCEPT ![n] = [@ EXCEPT !.pc = p, !.held = sess[n].held, !.run = sess[n].run]]
  <2>1. sess[n] \in SessionRecords
    BY <1>0, PBTypes
  <2>2. [sess[n] EXCEPT !.pc = p] = [sess[n] EXCEPT !.pc = p, !.held = sess[n].held, !.run = sess[n].run]
    BY <2>1 DEF SessionRecords
  <2> QED
    BY <1>2, <2>2, <1>0, PBTypes
<1>h. p = "slot" <=> sess[n].kind = "promote"
  OBVIOUS
<1> HIDE DEF p
<1>4. /\ sess' \in [Sessions -> SessionRecords] /\ \A s \in Sessions \ {n} : sess'[s] = sess[s]
      /\ sess'[n].pc = p /\ sess'[n].kind = sess[n].kind /\ sess'[n].kills = sess[n].kills
      /\ sess'[n].held = sess[n].held /\ sess'[n].run = sess[n].run
  BY <1>0, <1>1, <1>3, CreateStepSess, PhaseNames, ZenonT(60)
<1>5. /\ PBTypeOK' /\ Registered' /\ Killed' /\ OneOfTwo' /\ Twice' = Twice
      /\ (sess'[n].held => sess'[n].pc \in {"admitted", "dir", "ready"}) => SlotHasOwner'
  BY <1>1, <1>4, CreateStepKeeps, PhaseNames
<1>6. RunsOnSlot'
  BY <1>1, <1>4, <1>h, NotYetKilled DEF PBInv, RunsOnSlot, Enc, Registered
<1>7. SlotHasOwner'
  BY <1>1, <1>4, <1>5, <1>h DEF PBInv, RunsOnSlot
<1>8. Counted'
  <2>1. Held' = Held
    BY <1>4 DEF Held
  <2> QED
    BY <1>1, <1>5, <2>1 DEF PBInv, Counted
<1>9. HasDirectory'
  BY <1>1, <1>4 DEF PBInv, HasDirectory
<1> QED
  BY <1>5, <1>6, <1>7, <1>8, <1>9 DEF PBInv

\* The slot of a promoted remux is taken.
LEMMA PromoteInv == ASSUME PBInv, NEW n \in Sessions, Promote(n) PROVE PBInv'
<1>0. PBTypeOK
  BY DEF PBInv
<1>1. /\ sess[n].pc = "slot" /\ active' = active + 1 /\ sess[n].pc \in Building /\ active' \in Nat
      /\ UNCHANGED <<slots, reg, slotMu, todo, kill, dead, dirs, touches, overlap, evicted>>
      /\ sess[n].run \in BOOLEAN /\ dirs' \subseteq Sessions /\ "dir" \in Building
      /\ ~sess[n].held /\ sess[n].kind = "promote" /\ ~sess[n].run
  BY <1>0, PBTypes DEF Promote, Building, PBInv, RunsOnSlot
<1>3. sess' = [sess EXCEPT ![n] = [@ EXCEPT !.pc = "dir", !.held = TRUE, !.run = FALSE]]
  <2>1. sess[n] \in SessionRecords
    BY <1>0, PBTypes
  <2>2. [sess[n] EXCEPT !.pc = "dir", !.held = TRUE] = [sess[n] EXCEPT !.pc = "dir", !.held = TRUE, !.run = FALSE]
    BY <2>1, <1>1 DEF SessionRecords
  <2>3. sess' = [sess EXCEPT ![n] = [sess[n] EXCEPT !.pc = "dir", !.held = TRUE]]
    BY <1>0, PBTypes DEF Promote
  <2> QED
    BY <2>2, <2>3, <1>0, PBTypes
<1>4. /\ sess' \in [Sessions -> SessionRecords] /\ \A s \in Sessions \ {n} : sess'[s] = sess[s]
      /\ sess'[n].pc = "dir" /\ sess'[n].kind = sess[n].kind /\ sess'[n].kills = sess[n].kills
      /\ sess'[n].held = TRUE /\ sess'[n].run = FALSE
  BY <1>0, <1>1, <1>3, CreateStepSess, PhaseNames
<1>5. PBTypeOK' /\ Registered' /\ Killed' /\ OneOfTwo' /\ Twice' = Twice /\ SlotHasOwner'
  BY <1>1, <1>4, CreateStepKeeps, PhaseNames
<1>6. RunsOnSlot'
  BY <1>1, <1>4, NotYetKilled DEF PBInv, RunsOnSlot, Enc, Registered
<1>8. Counted'
  <2>1. Held' = Held \cup {n} /\ n \in Sessions \ Held
    BY <1>1, <1>4 DEF Held
  <2> QED
    BY <1>0, <1>1, <1>5, <2>1, HeldCount DEF PBInv, Counted, PBTypeOK
<1>9. HasDirectory'
  BY <1>1, <1>4 DEF PBInv, HasDirectory
<1> QED
  BY <1>5, <1>6, <1>8, <1>9 DEF PBInv

\* The process of a session starts.
LEMMA StartStreamInv == ASSUME PBInv, NEW n \in Sessions, StartStream(n) PROVE PBInv'
<1>0. PBTypeOK
  BY DEF PBInv
<1>1. /\ sess[n].pc = "dir" /\ sess[n].pc \in Building /\ active' \in Nat
      /\ UNCHANGED <<slots, active, reg, slotMu, todo, kill, dead, dirs, touches, overlap, evicted>>
      /\ sess[n].held \in BOOLEAN /\ dirs' \subseteq Sessions /\ "ready" \in Building
  BY <1>0, PBTypes DEF StartStream, Building
<1>3. sess' = [sess EXCEPT ![n] = [@ EXCEPT !.pc = "ready", !.held = sess[n].held, !.run = TRUE]]
  <2>1. sess[n] \in SessionRecords
    BY <1>0, PBTypes
  <2>2. [sess[n] EXCEPT !.pc = "ready", !.run = TRUE] = [sess[n] EXCEPT !.pc = "ready", !.held = sess[n].held, !.run = TRUE]
    BY <2>1 DEF SessionRecords
  <2>3. sess' = [sess EXCEPT ![n] = [sess[n] EXCEPT !.pc = "ready", !.run = TRUE]]
    BY <1>0, PBTypes DEF StartStream
  <2> QED
    BY <2>2, <2>3, <1>0, PBTypes
<1>4. /\ sess' \in [Sessions -> SessionRecords] /\ \A s \in Sessions \ {n} : sess'[s] = sess[s]
      /\ sess'[n].pc = "ready" /\ sess'[n].kind = sess[n].kind /\ sess'[n].kills = sess[n].kills
      /\ sess'[n].held = sess[n].held /\ sess'[n].run = TRUE
  BY <1>0, <1>1, <1>3, CreateStepSess, PhaseNames
<1>5. PBTypeOK' /\ Registered' /\ Killed' /\ OneOfTwo' /\ Twice' = Twice /\ SlotHasOwner'
  BY <1>1, <1>4, CreateStepKeeps, PhaseNames
<1>6. RunsOnSlot'
  BY <1>1, <1>4, NotYetKilled DEF PBInv, RunsOnSlot, Enc, Registered
<1>8. Counted'
  <2>1. Held' = Held
    BY <1>4 DEF Held
  <2> QED
    BY <1>1, <1>5, <2>1 DEF PBInv, Counted
<1>9. HasDirectory'
  BY <1>1, <1>4 DEF PBInv, HasDirectory
<1> QED
  BY <1>5, <1>6, <1>8, <1>9 DEF PBInv

\* A request waiting for its turn holds nothing.
LEMMA LockedHoldsNothing ==
    ASSUME PBInv, NEW n \in Sessions, sess[n].pc = "locked" PROVE ~sess[n].held /\ ~sess[n].run
<1>1. n \notin reg \cup dead /\ \A k \in Killers : kill[k].pc # "idle" => kill[k].s # n
  BY NotYetKilled
<1> QED
  BY <1>1 DEF PBInv, SlotHasOwner, RunsOnSlot

\* The request is admitted or refused.
LEMMA AdmitInv == ASSUME PBInv, NEW n \in Sessions, Admit(n) PROVE PBInv'
<1>0. PBTypeOK
  BY DEF PBInv
<1>1. /\ sess[n].pc = "locked" /\ sess[n].pc \in Building /\ todo = {}
      /\ slotMu' = NoSession /\ dirs' \subseteq Sessions
      /\ UNCHANGED <<slots, reg, todo, kill, dead, dirs, touches, overlap, evicted>>
      /\ "admitted" \in Building /\ sess[n] \in SessionRecords
      /\ ~sess[n].held /\ ~sess[n].run
  BY <1>0, PBTypes, LockedHoldsNothing DEF Admit, Building
<1>2. \E p \in {"admitted", "refused"}, h \in BOOLEAN :
         /\ sess' = [sess EXCEPT ![n] = [@ EXCEPT !.pc = p, !.held = h, !.run = FALSE]]
         /\ active' = IF h THEN active + 1 ELSE active
         /\ p = "admitted" => (h <=> sess[n].kind = "encode")
         /\ p = "refused" => ~h
  <2>1. CASE sess[n].kind # "encode" /\ Step(n, "admitted") /\ UNCHANGED active
    <3>1. [sess[n] EXCEPT !.pc = "admitted"] = [sess[n] EXCEPT !.pc = "admitted", !.held = FALSE, !.run = FALSE]
      BY <1>1 DEF SessionRecords
    <3>2. sess' = [sess EXCEPT ![n] = [@ EXCEPT !.pc = "admitted", !.held = FALSE, !.run = FALSE]]
      BY <2>1, <3>1, <1>0, PBTypes DEF Step
    <3> QED
      BY <2>1, <3>2
  <2>2. CASE sess[n].kind = "encode" /\ active >= slots /\ Step(n, "refused") /\ UNCHANGED active
    <3>1. [sess[n] EXCEPT !.pc = "refused"] = [sess[n] EXCEPT !.pc = "refused", !.held = FALSE, !.run = FALSE]
      BY <1>1 DEF SessionRecords
    <3>2. sess' = [sess EXCEPT ![n] = [@ EXCEPT !.pc = "refused", !.held = FALSE, !.run = FALSE]]
      BY <2>2, <3>1, <1>0, PBTypes DEF Step
    <3> QED
      BY <2>2, <3>2
  <2>3. CASE /\ sess[n].kind = "encode" /\ active < slots
             /\ active' = active + 1
             /\ sess' = [sess EXCEPT ![n].pc = "admitted", ![n].held = TRUE]
    <3>1. [sess[n] EXCEPT !.pc = "admitted", !.held = TRUE]
             = [sess[n] EXCEPT !.pc = "admitted", !.held = TRUE, !.run = FALSE]
      BY <1>1 DEF SessionRecords
    <3>3. sess' = [sess EXCEPT ![n] = [@ EXCEPT !.pc = "admitted", !.held = TRUE]]
      BY <2>3, <1>0, PBTypes
    <3>2. sess' = [sess EXCEPT ![n] = [@ EXCEPT !.pc = "admitted", !.held = TRUE, !.run = FALSE]]
      BY <3>1, <3>3, <1>0, PBTypes
    <3> QED
      BY <2>3, <3>2
  <2> QED
    BY <2>1, <2>2, <2>3 DEF Admit
<1>3. PICK p \in {"admitted", "refused"}, h \in BOOLEAN :
         /\ sess' = [sess EXCEPT ![n] = [@ EXCEPT !.pc = p, !.held = h, !.run = FALSE]]
         /\ active' = IF h THEN active + 1 ELSE active
         /\ p = "admitted" => (h <=> sess[n].kind = "encode")
         /\ p = "refused" => ~h
  BY <1>2
<1>4. /\ sess' \in [Sessions -> SessionRecords] /\ \A s \in Sessions \ {n} : sess'[s] = sess[s]
      /\ sess'[n].pc = p /\ sess'[n].kind = sess[n].kind /\ sess'[n].kills = sess[n].kills
      /\ sess'[n].held = h /\ sess'[n].run = FALSE
  BY <1>0, <1>1, <1>3, CreateStepSess, PhaseNames, ZenonT(60)
<1>a. active' \in Nat
  BY <1>0, <1>3, PBTypes
<1>5. PBTypeOK' /\ Registered' /\ Killed' /\ OneOfTwo' /\ Twice' = Twice /\ SlotHasOwner'
  BY <1>1, <1>3, <1>4, <1>a, CreateStepKeeps, PhaseNames
<1>6. RunsOnSlot'
  BY <1>1, <1>3, <1>4, NotYetKilled DEF PBInv, RunsOnSlot, Enc, Registered
<1>8. Counted'
  <2>1. CASE h
    <3>1. Held' = Held \cup {n} /\ n \in Sessions \ Held
      BY <1>1, <1>4, <2>1 DEF Held
    <3> QED
      BY <1>0, <1>3, <1>5, <2>1, <3>1, HeldCount DEF PBInv, Counted, PBTypeOK
  <2>2. CASE ~h
    <3>1. Held' = Held
      BY <1>1, <1>4, <2>2 DEF Held
    <3> QED
      BY <1>3, <1>5, <2>2, <3>1 DEF PBInv, Counted
  <2> QED
    BY <2>1, <2>2
<1>9. HasDirectory'
  BY <1>1, <1>4 DEF PBInv, HasDirectory
<1> QED
  BY <1>5, <1>6, <1>8, <1>9 DEF PBInv

\* A slot is given back once: by its holder.
LEMMA ReleaseCounted ==
    ASSUME PBInv, NEW n \in Sessions, Held' = Held \ {n}, active' = Released, Twice \subseteq Twice',
           n \in Held \/ n \in Twice
    PROVE  Counted' /\ active' \in Nat
<1>0. PBTypeOK /\ active \in Nat
  BY PBTypes DEF PBInv
<1>1. active' \in Nat
  BY <1>0 DEF Released
<1>2. CASE n \in Held
  <2>1. Cardinality(Held') = Cardinality(Held) - 1 /\ Cardinality(Held) > 0 /\ Cardinality(Held) \in Nat
    BY <1>0, <1>2, HeldCount
  <2> QED
    BY <1>0, <1>1, <2>1 DEF PBInv, Counted, Released
<1>3. CASE n \notin Held
  <2>1. Held' = Held
    BY <1>3
  <2>2. n \in Twice /\ Twice' # {}
    BY <1>3
  <2>3. Cardinality(Held) \in Nat /\ active <= Cardinality(Held)
    BY <1>0, HeldCount DEF PBInv, Counted
  <2> QED
    BY <1>0, <1>1, <2>1, <2>2, <2>3 DEF Counted, Released
<1> QED
  BY <1>2, <1>3

\* The request fails after its admission.
LEMMA AbortInv == ASSUME PBInv, NEW n \in Sessions, Abort(n) PROVE PBInv'
<1>0. PBTypeOK
  BY DEF PBInv
<1>1. /\ sess[n].pc \in {"admitted", "dir", "slot"} /\ sess[n].pc \in Building /\ dirs' = dirs \ {n}
      /\ UNCHANGED <<slots, reg, slotMu, todo, kill, dead, touches, overlap, evicted>>
      /\ "failed" \in Phases /\ sess[n] \in SessionRecords /\ dirs' \subseteq Sessions
      /\ active' = IF sess[n].held THEN Released ELSE active
      /\ sess[n].run = FALSE
  BY <1>0, PBTypes DEF Abort, Building, Phases, PBInv, RunsOnSlot
<1>3. sess' = [sess EXCEPT ![n] = [@ EXCEPT !.pc = "failed", !.held = FALSE, !.run = FALSE]]
  <2>1. [sess[n] EXCEPT !.pc = "failed", !.held = FALSE] = [sess[n] EXCEPT !.pc = "failed", !.held = FALSE, !.run = FALSE]
    BY <1>1 DEF SessionRecords
  <2>2. sess' = [sess EXCEPT ![n] = [@ EXCEPT !.pc = "failed", !.held = FALSE]]
    BY <1>0, PBTypes DEF Abort
  <2> QED
    BY <2>1, <2>2, <1>0, PBTypes
<1>4. /\ sess' \in [Sessions -> SessionRecords] /\ \A s \in Sessions \ {n} : sess'[s] = sess[s]
      /\ sess'[n].pc = "failed" /\ sess'[n].kind = sess[n].kind /\ sess'[n].kills = sess[n].kills
      /\ sess'[n].held = FALSE /\ sess'[n].run = FALSE
  BY <1>0, <1>1, <1>3, CreateStepSess, PhaseNames
<1>a. active' \in Nat
  BY <1>0, <1>1, PBTypes DEF Released
<1>5. PBTypeOK' /\ Registered' /\ Killed' /\ OneOfTwo' /\ Twice' = Twice /\ SlotHasOwner'
  BY <1>1, <1>3, <1>4, <1>a, CreateStepKeeps, PhaseNames
<1>6. RunsOnSlot'
  BY <1>1, <1>3, <1>4, NotYetKilled DEF PBInv, RunsOnSlot, Enc, Registered
<1>8. Counted'
  <2>1. CASE sess[n].held
    <3>1. Held' = Held \ {n} /\ n \in Held
      BY <1>1, <1>4, <2>1 DEF Held
    <3> QED
      BY <1>1, <1>5, <2>1, <3>1, ReleaseCounted
  <2>2. CASE ~sess[n].held
    <3>1. Held' = Held
      BY <1>1, <1>4, <2>2 DEF Held
    <3> QED
      BY <1>1, <1>5, <2>2, <3>1 DEF PBInv, Counted
  <2> QED
    BY <2>1, <2>2
<1>9. HasDirectory'
  <2>1. n \notin reg
    BY <1>1, NotYetKilled
  <2> QED
    BY <2>1, <1>1, <1>4 DEF PBInv, HasDirectory
<1> QED
  BY <1>5, <1>6, <1>8, <1>9 DEF PBInv

\* The session is registered.
LEMMA PutInv == ASSUME PBInv, NEW n \in Sessions, Put(n) PROVE PBInv'
<1>0. PBTypeOK
  BY DEF PBInv
<1>p. /\ sess[n].pc = "ready" \/ (sess[n].pc = "admitted" /\ sess[n].kind \notin OnDisk)
      /\ reg' = reg \cup {n}
      /\ UNCHANGED <<slots, active, slotMu, todo, kill, dead, dirs, touches, overlap, evicted>>
  BY DEF Put
<1>q. sess[n].pc \in Building /\ sess[n] \in SessionRecords /\ sess[n].pc # "live"
  BY <1>0, <1>p, PBTypes DEF Building
<1>1. /\ sess[n].pc = "ready" \/ (sess[n].pc = "admitted" /\ sess[n].kind \notin OnDisk)
      /\ sess[n].pc \in Building /\ reg' = reg \cup {n} /\ sess[n] \in SessionRecords
      /\ UNCHANGED <<slots, active, slotMu, todo, kill, dead, dirs, touches, overlap, evicted>>
      /\ n \notin reg \cup dead \cup todo
      /\ \A k \in Killers : kill[k].pc # "idle" => kill[k].s # n /\ kill[k].s \in Sessions
  BY <1>p, <1>q, NotYetKilled
<1>2. [sess[n] EXCEPT !.pc = "live", !.age = 0] \in SessionRecords
  <2>1. "live" \in Phases /\ 0 \in 0 .. 2
    BY PhaseNames
  <2> QED
    BY <2>1, <1>1 DEF SessionRecords
<1>3. sess' = [sess EXCEPT ![n] = [@ EXCEPT !.pc = "live", !.age = 0]]
  BY <1>0, PBTypes DEF Put
<1>4. /\ sess' \in [Sessions -> SessionRecords] /\ \A s \in Sessions \ {n} : sess'[s] = sess[s]
      /\ sess'[n].pc = "live" /\ sess'[n].kind = sess[n].kind /\ sess'[n].kills = sess[n].kills
      /\ sess'[n].held = sess[n].held /\ sess'[n].run = sess[n].run
  <2>1. sess' \in [Sessions -> SessionRecords] /\ \A s \in Sessions \ {n} : sess'[s] = sess[s]
    BY <1>0, <1>2, <1>3, PBTypes
  <2>2. sess'[n] = [sess[n] EXCEPT !.pc = "live", !.age = 0]
    BY <1>0, <1>3, PBTypes
  <2> QED
    BY <1>1, <2>1, <2>2 DEF SessionRecords
<1>5. PBTypeOK'
  BY <1>0, <1>1, <1>4 DEF PBTypeOK
<1>6. Registered'
  BY <1>0, <1>1, <1>4, PBTypes DEF PBInv, Registered, Busy
<1>7. RunsOnSlot'
  BY <1>1, <1>4 DEF PBInv, RunsOnSlot, Enc, Registered, OnDisk
<1>8. SlotHasOwner' /\ Killed'
  BY <1>1, <1>4 DEF PBInv, SlotHasOwner, Killed, Busy
<1>9. Counted'
  <2>1. Held' = Held /\ Twice' = Twice
    BY <1>4 DEF Held, Twice
  <2> QED
    BY <1>1, <2>1 DEF PBInv, Counted
<1>10. OneOfTwo'
  <2>1. \A s \in Sessions : Coming(s)' => Coming(s)
    BY <1>1, <1>4 DEF Coming, Building
  <2>2. \A a \in Sessions : (sess[a].pc = "live" => sess'[a].pc = "live") /\ (sess'[a].pc # "none" => sess[a].pc # "none")
    BY <1>1, <1>4
  <2> QED
    BY <2>1, <2>2, <1>1 DEF PBInv, OneOfTwo
<1>11. HasDirectory'
  BY <1>1, <1>4 DEF PBInv, HasDirectory
<1> QED
  BY <1>5, <1>6, <1>7, <1>8, <1>9, <1>10, <1>11 DEF PBInv

\* The age of a registered session changes.
LEMMA AgeKeeps ==
    ASSUME PBInv, NEW s \in Sessions, NEW a \in 0 .. 2, sess' = [sess EXCEPT ![s].age = a],
           UNCHANGED <<slots, active, reg, slotMu, todo, kill, dead, dirs, overlap, evicted>>,
           touches' \in 0 .. MaxTouches
    PROVE  PBInv'
<1>0. PBTypeOK /\ sess[s] \in SessionRecords
  BY PBTypes DEF PBInv
<1>1. [sess[s] EXCEPT !.age = a] \in SessionRecords
  BY <1>0 DEF SessionRecords
<1>2. sess' = [sess EXCEPT ![s] = [sess[s] EXCEPT !.age = a]]
  BY <1>0, PBTypes
<1>3. sess' \in [Sessions -> SessionRecords] /\ \A t \in Sessions \ {s} : sess'[t] = sess[t]
  BY <1>0, <1>1, <1>2, PBTypes
<1>4. \A t \in Sessions : /\ sess'[t].pc = sess[t].pc /\ sess'[t].kind = sess[t].kind
                          /\ sess'[t].held = sess[t].held /\ sess'[t].run = sess[t].run
                          /\ sess'[t].kills = sess[t].kills
  <2>1. sess'[s] = [sess[s] EXCEPT !.age = a]
    BY <1>0, <1>2, PBTypes
  <2> QED
    BY <2>1, <1>0, <1>3 DEF SessionRecords
<1>5. PBTypeOK'
  BY <1>0, <1>3 DEF PBTypeOK
<1>6. Registered' /\ RunsOnSlot'
  <2>1. Registered'
    BY <1>4, PBTypes, <1>0 DEF PBInv, Registered, Busy
  <2>2. RunsOnSlot'
    BY <1>4, PBTypes, <1>0 DEF PBInv, Registered, RunsOnSlot, Enc
  <2> QED
    BY <2>1, <2>2
<1>7. SlotHasOwner' /\ Killed'
  <2>1. SlotHasOwner'
    BY <1>4 DEF PBInv, SlotHasOwner
  <2>2. Killed'
    BY <1>4 DEF PBInv, Killed, Busy, Registered
  <2> QED
    BY <2>1, <2>2
<1>8. Counted'
  <2>1. Held' = Held /\ Twice' = Twice
    BY <1>4 DEF Held, Twice
  <2> QED
    BY <2>1 DEF PBInv, Counted
<1>9. OneOfTwo' /\ HasDirectory'
  BY <1>4 DEF PBInv, OneOfTwo, HasDirectory, Coming
<1> QED
  BY <1>5, <1>6, <1>7, <1>8, <1>9 DEF PBInv

LEMMA TouchInv == ASSUME PBInv, NEW s \in Sessions, Touch(s) PROVE PBInv'
<1>1. touches \in 0 .. MaxTouches /\ MaxTouches \in Nat
  BY PlaybackAssumption DEF PBInv, PBTypeOK
<1>2. touches' \in 0 .. MaxTouches
  BY <1>1 DEF Touch
<1>3. 0 \in 0 .. 2
  OBVIOUS
<1> QED
  BY <1>2, <1>3, AgeKeeps DEF Touch

LEMMA AgeInv == ASSUME PBInv, NEW s \in Sessions, Age(s) PROVE PBInv'
<1>1. PICK a \in 0 .. 2 : a = sess[s].age + 1
  BY PBTypes DEF PBInv, Age
<1>2. sess' = [sess EXCEPT ![s].age = a]
  BY <1>1 DEF Age
<1>3. touches' \in 0 .. MaxTouches
  BY DEF Age, PBInv, PBTypeOK
<1> QED
  BY <1>2, <1>3, AgeKeeps DEF Age

\* A DELETE finds its session; an administrator changes the slots.
LEMMA FindToDeleteInv == ASSUME PBInv, NEW d \in Deleters, NEW s \in Sessions, FindToDelete(d, s) PROVE PBInv'
<1>0. PBTypeOK /\ d \in Killers /\ sess[s].pc = "live"
  BY PBTypes DEF PBInv, Registered, FindToDelete
<1>1. /\ kill' = [kill EXCEPT ![d] = [pc |-> "found", s |-> s]] /\ kill[d].pc = "idle"
      /\ UNCHANGED <<slots, active, sess, reg, slotMu, todo, dead, dirs, touches, overlap, evicted>>
  BY DEF FindToDelete
<1>2. [pc |-> "found", s |-> s] \in KillRecords
  BY DEF KillRecords, KillPcs
<1>3. /\ kill' \in [Killers -> KillRecords] /\ kill'[d].pc = "found" /\ kill'[d].s = s
      /\ \A j \in Killers \ {d} : kill'[j] = kill[j]
  BY <1>0, <1>1, <1>2, PBTypes
<1>4. PBTypeOK'
  BY <1>0, <1>1, <1>3 DEF PBTypeOK
<1>5. Registered'
  BY <1>0, <1>1, <1>3 DEF PBInv, Registered, Busy
<1>6. RunsOnSlot'
  BY <1>1, <1>3 DEF PBInv, RunsOnSlot, Enc
<1>7. SlotHasOwner'
  <2>1. \A j \in Killers : kill[j].pc \in {"mark", "check", "release"} => kill'[j] = kill[j]
    BY <1>1, <1>3
  <2> QED
    BY <2>1, <1>1 DEF PBInv, SlotHasOwner
<1>8. Killed'
  BY <1>1, <1>3 DEF PBInv, Killed, Busy
<1>9. Counted' /\ OneOfTwo' /\ HasDirectory'
  BY <1>1 DEF PBInv, Counted, OneOfTwo, HasDirectory, Coming, Held, Twice
<1> QED
  BY <1>4, <1>5, <1>6, <1>7, <1>8, <1>9 DEF PBInv

LEMMA SetSlotsInv == ASSUME PBInv, NEW n \in SlotChoices, SetSlots(n) PROVE PBInv'
<1>1. UNCHANGED <<active, sess, reg, slotMu, todo, kill, dead, dirs, touches, overlap, evicted>> /\ slots' \in SlotChoices
  BY DEF SetSlots
<1> QED
  BY <1>1 DEF PBInv, PBTypeOK, Registered, RunsOnSlot, SlotHasOwner, Killed, Counted, OneOfTwo, HasDirectory,
              Busy, Enc, Held, Coming, Twice

\* The sweep takes what expired out of the registry.
LEMMA ExpireInv == ASSUME PBInv, Expire PROVE PBInv'
<1>1. /\ dead = {} /\ dead' \subseteq reg /\ reg' = reg \ dead'
      /\ UNCHANGED <<slots, active, sess, slotMu, todo, kill, dirs, touches, overlap, evicted>>
  BY DEF Expire
<1>2. PBTypeOK'
  BY <1>1 DEF PBInv, PBTypeOK
<1>3. Registered' /\ RunsOnSlot' /\ SlotHasOwner'
  BY <1>1 DEF PBInv, Registered, RunsOnSlot, SlotHasOwner, Busy, Enc
<1>4. Killed' /\ Counted' /\ HasDirectory'
  BY <1>1 DEF PBInv, Killed, Counted, HasDirectory, Busy, Held, Twice
<1>5. OneOfTwo'
  BY <1>1 DEF PBInv, OneOfTwo, Coming
<1> QED
  BY <1>2, <1>3, <1>4, <1>5 DEF PBInv

\* The cache evicts a directory.
LEMMA EvictInv == ASSUME PBInv, NEW s \in Sessions, Evict(s) PROVE PBInv'
<1>1. /\ dirs' = dirs \ {s} /\ evicted' = evicted \cup {s}
      /\ UNCHANGED <<slots, active, sess, reg, slotMu, todo, kill, dead, touches, overlap>>
  BY DEF Evict
<1>2. PBTypeOK' /\ HasDirectory'
  BY <1>1 DEF PBInv, PBTypeOK, HasDirectory
<1> QED
  BY <1>1, <1>2 DEF PBInv, Registered, RunsOnSlot, SlotHasOwner, Killed, Counted, OneOfTwo,
                    Busy, Enc, Held, Coming, Twice

\* A killer moves on in kill.
LEMMA KillPcMoves ==
    ASSUME PBTypeOK, NEW k \in Killers, NEW q \in KillPcs, kill' = [kill EXCEPT ![k].pc = q]
    PROVE  /\ kill' \in [Killers -> KillRecords] /\ kill'[k].pc = q
           /\ \A j \in Killers \ {k} : kill'[j] = kill[j]
           /\ \A j \in Killers : kill'[j].s = kill[j].s
<1>1. kill[k] \in KillRecords /\ kill \in [Killers -> KillRecords]
  BY PBTypes
<1>2. [kill[k] EXCEPT !.pc = q] \in KillRecords /\ [kill[k] EXCEPT !.pc = q].pc = q
      /\ [kill[k] EXCEPT !.pc = q].s = kill[k].s
  BY <1>1 DEF KillRecords
<1> QED
  BY <1>1, <1>2

\* kill marks its session and stops the process.
LEMMA KillMarkInv == ASSUME PBInv, NEW k \in Killers, KillMark(k) PROVE PBInv'
<1>0. PBTypeOK
  BY DEF PBInv
<1> DEFINE s == kill[k].s
<1>1. /\ kill[k].pc = "mark" /\ s \in Sessions /\ sess[s] \in SessionRecords /\ "check" \in KillPcs
      /\ UNCHANGED <<slots, active, reg, slotMu, todo, dead, dirs, touches, overlap, evicted>>
  BY <1>0, PBTypes DEF KillMark, PBInv, Registered, KillPcs
<1>2. /\ kill' \in [Killers -> KillRecords] /\ kill'[k].pc = "check"
      /\ \A j \in Killers \ {k} : kill'[j] = kill[j]
      /\ \A j \in Killers : kill'[j].s = kill[j].s
  BY <1>0, <1>1, KillPcMoves DEF KillMark
<1>3. sess' = [sess EXCEPT ![s] = [sess[s] EXCEPT !.run = FALSE]]
  BY <1>0, PBTypes DEF KillMark
<1>4. [sess[s] EXCEPT !.run = FALSE] \in SessionRecords
  BY <1>1 DEF SessionRecords
<1>5. sess' \in [Sessions -> SessionRecords] /\ \A t \in Sessions \ {s} : sess'[t] = sess[t]
  BY <1>0, <1>1, <1>3, <1>4, PBTypes
<1>6. /\ \A t \in Sessions : /\ sess'[t].pc = sess[t].pc /\ sess'[t].kind = sess[t].kind
                             /\ sess'[t].held = sess[t].held /\ sess'[t].kills = sess[t].kills
                             /\ sess'[t].run => sess[t].run
      /\ ~sess'[s].run
  <2>1. sess'[s] = [sess[s] EXCEPT !.run = FALSE]
    BY <1>0, <1>1, <1>3, PBTypes
  <2> QED
    BY <2>1, <1>1, <1>5 DEF SessionRecords
<1> HIDE DEF s
<1>7. PBTypeOK'
  BY <1>0, <1>1, <1>2, <1>5 DEF PBTypeOK
<1>8. Registered'
  BY <1>0, <1>1, <1>2, <1>6, PBTypes DEF PBInv, Registered, Busy
<1>9. RunsOnSlot'
  <2>1. \A j \in Killers : kill'[j].pc \in {"check", "release", "clear"} => ~sess'[kill'[j].s].run
    BY <1>1, <1>2, <1>6 DEF PBInv, Registered, RunsOnSlot, s
  <2> QED
    BY <2>1, <1>6 DEF PBInv, RunsOnSlot, Enc
<1>10. SlotHasOwner'
  <2>1. \A j \in Killers : kill[j].pc \in {"mark", "check", "release"} => kill'[j].pc \in {"mark", "check", "release"}
    BY <1>2
  <2> QED
    BY <2>1, <1>1, <1>2, <1>6 DEF PBInv, SlotHasOwner
<1>11. Killed'
  <2>1. \A j \in Killers : (Busy(j)' <=> Busy(j)) /\ (kill'[j].pc = "release" => kill[j].pc = "release")
    BY <1>1, <1>2 DEF Busy
  <2> QED
    BY <2>1, <1>2, <1>6 DEF PBInv, Killed, Registered, Busy
<1>12. Counted'
  <2>1. Held' = Held /\ Twice' = Twice
    BY <1>6 DEF Held, Twice
  <2> QED
    BY <1>1, <2>1 DEF PBInv, Counted
<1>13. OneOfTwo' /\ HasDirectory'
  BY <1>1, <1>6 DEF PBInv, OneOfTwo, HasDirectory, Coming
<1> QED
  BY <1>7, <1>8, <1>9, <1>10, <1>11, <1>12, <1>13 DEF PBInv

\* kill reads whether a slot is held, without a lock.
LEMMA KillCheckInv == ASSUME PBInv, NEW k \in Killers, KillCheck(k) PROVE PBInv'
<1>0. PBTypeOK
  BY DEF PBInv
<1> DEFINE q == IF sess[kill[k].s].held THEN "release" ELSE "clear"
<1>1. /\ kill[k].pc = "check" /\ kill[k].s \in Sessions /\ q \in KillPcs
      /\ UNCHANGED <<slots, active, sess, reg, slotMu, todo, dead, dirs, touches, overlap, evicted>>
      /\ q = "release" <=> sess[kill[k].s].held
      /\ q \in {"release", "clear"}
  BY <1>0, PBTypes DEF KillCheck, PBInv, Registered, KillPcs
<1>2. kill' = [kill EXCEPT ![k].pc = q]
  BY DEF KillCheck
<1> HIDE DEF q
<1>3. /\ kill' \in [Killers -> KillRecords] /\ kill'[k].pc = q
      /\ \A j \in Killers \ {k} : kill'[j] = kill[j]
      /\ \A j \in Killers : kill'[j].s = kill[j].s
  BY <1>0, <1>1, <1>2, KillPcMoves
<1>4. PBTypeOK'
  BY <1>0, <1>1, <1>3 DEF PBTypeOK
<1>5. Registered'
  BY <1>0, <1>1, <1>3, PBTypes DEF PBInv, Registered, Busy
<1>6. RunsOnSlot'
  <2>1. \A j \in Killers : kill'[j].pc \in {"check", "release", "clear"} => ~sess'[kill'[j].s].run
    BY <1>1, <1>3 DEF PBInv, RunsOnSlot
  <2> QED
    BY <2>1, <1>1 DEF PBInv, RunsOnSlot, Enc
<1>7. SlotHasOwner'
  <2>1. \A j \in Killers : kill[j].pc \in {"mark", "check", "release"} /\ sess[kill[j].s].held
                              => kill'[j].pc \in {"mark", "check", "release"}
    BY <1>1, <1>3
  <2> QED
    BY <2>1, <1>1, <1>3 DEF PBInv, SlotHasOwner
<1>8. Killed'
  <2>1. \A j \in Killers : (Busy(j)' <=> Busy(j)) /\ (kill'[j].pc = "release" => kill[j].pc = "release" \/ sess[kill[j].s].held)
    BY <1>1, <1>3 DEF Busy
  <2> QED
    BY <2>1, <1>1, <1>3 DEF PBInv, Killed, Busy
<1>9. Counted' /\ OneOfTwo' /\ HasDirectory'
  BY <1>1 DEF PBInv, Counted, OneOfTwo, HasDirectory, Coming, Held, Twice
<1> QED
  BY <1>4, <1>5, <1>6, <1>7, <1>8, <1>9 DEF PBInv

\* kill gives the slot back.
LEMMA KillReleaseInv == ASSUME PBInv, NEW k \in Killers, KillRelease(k) PROVE PBInv'
<1>0. PBTypeOK
  BY DEF PBInv
<1> DEFINE s == kill[k].s
<1>1. /\ kill[k].pc = "release" /\ s \in Sessions /\ sess[s] \in SessionRecords /\ "clear" \in KillPcs
      /\ sess[s].pc = "live" /\ s \notin reg /\ ~sess[s].run
      /\ active' = Released
      /\ UNCHANGED <<slots, reg, slotMu, todo, dead, dirs, touches, overlap, evicted>>
  BY <1>0, PBTypes DEF KillRelease, PBInv, Registered, RunsOnSlot, Busy, KillPcs
<1>2. /\ kill' \in [Killers -> KillRecords] /\ kill'[k].pc = "clear"
      /\ \A j \in Killers \ {k} : kill'[j] = kill[j]
      /\ \A j \in Killers : kill'[j].s = kill[j].s
  BY <1>0, <1>1, KillPcMoves DEF KillRelease
<1>3. sess' = [sess EXCEPT ![s] = [sess[s] EXCEPT !.held = FALSE]]
  BY <1>0, PBTypes DEF KillRelease
<1>4. [sess[s] EXCEPT !.held = FALSE] \in SessionRecords
  BY <1>1 DEF SessionRecords
<1>5. sess' \in [Sessions -> SessionRecords] /\ \A t \in Sessions \ {s} : sess'[t] = sess[t]
  BY <1>0, <1>1, <1>3, <1>4, PBTypes
<1>6. /\ \A t \in Sessions : /\ sess'[t].pc = sess[t].pc /\ sess'[t].kind = sess[t].kind
                             /\ sess'[t].run = sess[t].run /\ sess'[t].kills = sess[t].kills
                             /\ sess'[t].held => sess[t].held
                             /\ t # s => sess'[t].held = sess[t].held
      /\ sess'[s].held = FALSE
  <2>1. sess'[s] = [sess[s] EXCEPT !.held = FALSE]
    BY <1>0, <1>1, <1>3, PBTypes
  <2> QED
    BY <2>1, <1>1, <1>5 DEF SessionRecords
<1>k. sess[s].held \/ sess[s].kills = 2
  BY <1>1 DEF PBInv, Killed
<1>s. s = kill[k].s
  OBVIOUS
<1> HIDE DEF s
<1>7. Counted' /\ active' \in Nat
  <2>1. Held' = Held \ {s} /\ Twice' = Twice
    BY <1>5, <1>6 DEF Held, Twice
  <2>2. s \in Held \/ s \in Twice
    BY <1>1, <1>k DEF Held, Twice
  <2> QED
    BY <1>1, <2>1, <2>2, ReleaseCounted
<1>8. PBTypeOK'
  BY <1>0, <1>1, <1>2, <1>5, <1>7 DEF PBTypeOK
<1>9. Registered'
  BY <1>0, <1>1, <1>2, <1>6, PBTypes DEF PBInv, Registered, Busy
<1>10. RunsOnSlot'
  <2>1. \A j \in Killers : kill'[j].pc \in {"check", "release", "clear"} => ~sess'[kill'[j].s].run
    BY <1>1, <1>2, <1>6, <1>s DEF PBInv, Registered, RunsOnSlot
  <2> QED
    BY <2>1, <1>1, <1>6 DEF PBInv, RunsOnSlot, Enc
<1>11. SlotHasOwner'
  <2>1. \A j \in Killers : kill[j].pc \in {"mark", "check", "release"} /\ kill[j].s # s => kill'[j].pc = kill[j].pc
    BY <1>2, <1>s
  <2>2. \A t \in Sessions : sess'[t].held => t # s
    BY <1>6
  <2> QED
    BY <2>1, <2>2, <1>1, <1>2, <1>6 DEF PBInv, SlotHasOwner
<1>12. Killed'
  <2>1. \A j \in Killers : (Busy(j)' <=> Busy(j)) /\ (kill'[j].pc = "release" => kill[j].pc = "release" /\ j # k)
    BY <1>1, <1>2 DEF Busy
  <2>2. \A j \in Killers : kill'[j].pc = "release" => sess'[kill'[j].s].held \/ sess'[kill'[j].s].kills = 2
    <3> SUFFICES ASSUME NEW j \in Killers, kill'[j].pc = "release"
                 PROVE  sess'[kill'[j].s].held \/ sess'[kill'[j].s].kills = 2
      OBVIOUS
    <3>1. kill[j].pc = "release" /\ j # k /\ kill[j].s \in Sessions
      BY <2>1 DEF PBInv, Registered
    <3>2. CASE kill[j].s = s
      BY <3>1, <3>2, <1>1, <1>2, <1>6, <1>s DEF PBInv, Killed, Busy
    <3>3. CASE kill[j].s # s
      BY <3>1, <3>3, <1>2, <1>6 DEF PBInv, Killed
    <3> QED
      BY <3>2, <3>3
  <2>3. \A j \in Killers : kill[j].pc # "idle" => kill[j].s \in Sessions
    BY DEF PBInv, Registered
  <2> QED
    BY <2>1, <2>2, <2>3, <1>2, <1>6 DEF PBInv, Killed, Busy
<1>13. OneOfTwo' /\ HasDirectory'
  BY <1>1, <1>6 DEF PBInv, OneOfTwo, HasDirectory, Coming
<1> QED
  BY <1>7, <1>8, <1>9, <1>10, <1>11, <1>12, <1>13 DEF PBInv

\* kill removes the directory and returns.
LEMMA KillClearInv == ASSUME PBInv, NEW k \in Killers, KillClear(k) PROVE PBInv'
<1>0. PBTypeOK
  BY DEF PBInv
<1>1. /\ kill[k].pc = "clear" /\ kill[k].s \in Sessions /\ sess[kill[k].s].pc = "live" /\ kill[k].s \notin reg
      /\ dirs' = dirs \ {kill[k].s}
      /\ UNCHANGED <<slots, active, sess, reg, slotMu, todo, dead, touches, overlap, evicted>>
      /\ kill' = [kill EXCEPT ![k] = [pc |-> "idle", s |-> NoSession]]
  BY DEF KillClear, PBInv, Registered, Busy
<1>2. [pc |-> "idle", s |-> NoSession] \in KillRecords
  BY DEF KillRecords, KillPcs
<1>3. /\ kill' \in [Killers -> KillRecords] /\ kill'[k].pc = "idle"
      /\ \A j \in Killers \ {k} : kill'[j] = kill[j]
  BY <1>0, <1>1, <1>2, PBTypes
<1>4. PBTypeOK'
  BY <1>0, <1>1, <1>3 DEF PBTypeOK
<1>5. Registered' /\ Killed'
  BY <1>1, <1>3 DEF PBInv, Registered, Killed, Busy
<1>6. RunsOnSlot'
  BY <1>1, <1>3 DEF PBInv, RunsOnSlot, Enc
<1>7. SlotHasOwner'
  <2>1. \A j \in Killers : kill[j].pc \in {"mark", "check", "release"} => kill'[j] = kill[j]
    BY <1>1, <1>3
  <2> QED
    BY <2>1, <1>1 DEF PBInv, SlotHasOwner
<1>8. Counted' /\ OneOfTwo'
  BY <1>1 DEF PBInv, Counted, OneOfTwo, Coming, Held, Twice
<1>9. HasDirectory'
  BY <1>1 DEF PBInv, HasDirectory
<1> QED
  BY <1>4, <1>5, <1>6, <1>7, <1>8, <1>9 DEF PBInv

\* Every step of playback keeps the invariant.
LEMMA PBNextInv == PBInv /\ [PBNext]_pbVars => PBInv'
<1> SUFFICES ASSUME PBInv, [PBNext]_pbVars PROVE PBInv'
  OBVIOUS
<1>1. CASE \E n \in Sessions, kind \in Kinds : kind \in Plays[n] /\ LockSlots(n, kind)
  BY <1>1, LockSlotsInv
<1>2. CASE \E n \in Sessions : Proceed(n)
  BY <1>2, SupersedeInv, AdmitInv, MakeDirInv, PromoteInv, StartStreamInv, PutInv, AbortInv DEF Proceed, CreateStep
<1>3. CASE \E n \in Sessions : Touch(n) \/ Age(n) \/ Evict(n)
  BY <1>3, TouchInv, AgeInv, EvictInv
<1>4. CASE \E d \in Deleters : Delete(d) \/ \E s \in Sessions : FindToDelete(d, s)
  BY <1>4, DeleteInv, FindToDeleteInv
<1>5. CASE \E k \in Killers : KillStep(k)
  BY <1>5, KillMarkInv, KillCheckInv, KillReleaseInv, KillClearInv DEF KillStep
<1>6. CASE \E n \in SlotChoices : SetSlots(n)
  BY <1>6, SetSlotsInv
<1>7. CASE Sweep
  BY <1>7, ExpireInv, KillExpiredInv DEF Sweep
<1>8. CASE UNCHANGED pbVars
  BY <1>8 DEF pbVars, PBInv, PBTypeOK, Registered, RunsOnSlot, SlotHasOwner, Killed, Counted, OneOfTwo, HasDirectory,
              Busy, Enc, Held, Coming, Twice
<1> QED
  <2>1. \A n \in Sessions : \A kind \in Plays[n] : kind \in Kinds
    BY PlaybackAssumption
  <2> QED
    BY <2>1, <1>1, <1>2, <1>3, <1>4, <1>5, <1>6, <1>7, <1>8 DEF PBNext

\* What the invariant says of slots, processes, streams and directories.
LEMMA PBInvSafe == PBInv => PlaybackSafe
<1> SUFFICES ASSUME PBInv PROVE PlaybackSafe
  OBVIOUS
<1>0. PBTypeOK
  BY DEF PBInv
<1>1. EncodesAreCounted
  <2>1. Encodes \subseteq Held
    BY DEF PBInv, RunsOnSlot, Encodes, Held, Enc
  <2>2. Cardinality(Encodes) <= Cardinality(Held) /\ Cardinality(Encodes) \in Nat
    BY <2>1, <1>0, HeldCount, FS_Subset, FS_CardinalityType
  <2> QED
    BY <2>2, <1>0, PBTypes, HeldCount DEF PBInv, Counted, EncodesAreCounted
<1>2. NoSlotLeaks
  <2> SUFFICES ASSUME reg = {}, dead = {}, \A k \in Killers : kill[k].pc \in {"idle", "found"},
                      \A s \in Sessions : sess[s].pc \notin Building
               PROVE  active = 0
    BY DEF NoSlotLeaks
  <2>1. Held = {}
    BY DEF Held, PBInv, SlotHasOwner, Building
  <2> QED
    BY <2>1, <1>0, PBTypes, FS_EmptySet DEF PBInv, Counted
<1>3. OneStreamEach
  BY <1>0, PBTypes DEF PBInv, OneOfTwo, OneStreamEach, Coming, Registered
<1>4. LiveHasDirectory
  BY <1>0, PBTypes DEF PBInv, HasDirectory, LiveHasDirectory
<1> QED
  BY <1>0, <1>1, <1>2, <1>3, <1>4 DEF PlaybackSafe

\* Playback's registry, slots, processes and directories agree for any number
\* of sessions, DELETE requests and slots: every running encode is counted
\* unless its session was killed twice, no path leaks a slot, two streams of
\* one viewer for one title come only from overlapping requests, and a
\* registered HLS session has its directory unless it was evicted early.
THEOREM PlaybackIsSafe == PBSpec => []PlaybackSafe
BY PBInitInv, PBNextInv, PBInvSafe, PTL DEF PBSpec
-----------------------------------------------------------------------------
(* One pipeline: the processes behind an HLS session.                      *)

\* Processes are numbered as they are started, and s.cancel stops the last.
Numbered ==
    /\ cancelOf = starts /\ cmd <= starts
    /\ \A p \in Procs : p > starts => proc[p] = "none"
    /\ job.step = "spawn" => starts # None
    /\ job.who = Nobody => job.step = "free"
    /\ cmd = None => \A p \in Procs : waiter[p] = "none"

\* A waiter that waits no more has seen its process end, and one that holds
\* jobMu is about to replace it.
Waiters ==
    /\ \A p \in Procs : proc[p] = "none" => waiter[p] = "none"
    /\ \A p \in Procs : waiter[p] \notin {"none", "wait"} => proc[p] # "running"
    /\ job.who \in Procs => waiter[job.who] \in {"fallbackJob", "failoverJob"}

\* Nothing runs for the first start, and a segment request has stopped what
\* ran before its own.
Cleared ==
    /\ job.who = 0 => cmd = None /\ ~flags.live /\ ~flags.killed
    /\ job.who \in Seekers => ~Running(cmd)

\* A stop of what s.cmd names is announced by killed or restarting.
Announced == cmd # None /\ proc[cmd] = "stopped" => flags.killed \/ flags.restarting \/ stray # {}

PLInv ==
    /\ PLTypeOK /\ Numbered /\ Waiters /\ Cleared /\ Announced
    /\ OneWriter /\ StoppedIsNoFailure
    /\ flags.killed => ~flags.live

\* Process numbers, and who is who.
LEMMA PLNumbers ==
    /\ MaxStarts \in Nat \ {0}
    /\ \A p \in Procs : p \in Nat /\ p # 0 /\ p # None /\ p <= MaxStarts /\ p \notin Seekers /\ p \in Actors
    /\ 0 \notin Seekers /\ Nobody \notin Actors /\ Nobody # 0 /\ 0 \in Actors /\ None = 0
    /\ Nobody \notin Seekers /\ Nobody \notin Procs
    /\ \A n \in 0 .. MaxStarts : n = None \/ n \in Procs
    /\ \A r \in Seekers : r \in Actors /\ r # Nobody
BY PipelineAssumption DEF Procs, None, Actors

\* What a well-typed state of a pipeline is made of.
LEMMA PLTypes ==
    ASSUME PLTypeOK
    PROVE  /\ proc \in [Procs -> ProcStates] /\ waiter \in [Procs -> WaiterPcs]
           /\ job \in [who: Actors \cup {Nobody}, step: JobSteps] /\ flags \in Flags
           /\ cmd \in 0 .. MaxStarts /\ starts \in 0 .. MaxStarts /\ cancelOf \in 0 .. MaxStarts
           /\ Free \in [who: Actors \cup {Nobody}, step: JobSteps] /\ Free.who = Nobody /\ Free.step = "free"
           /\ stray \subseteq Procs /\ seek \in [Seekers -> SeekPcs]
BY DEF PLTypeOK, Free, JobSteps

\* The first process is about to be started.
LEMMA PLInitInv == PLInit => PLInv
<1> SUFFICES ASSUME PLInit PROVE PLInv
  OBVIOUS
<1>1. /\ cmd = 0 /\ cancelOf = 0 /\ starts = 0 /\ stray = {} /\ job.who = 0 /\ job.step = "begin"
      /\ \A p \in Procs : proc[p] = "none" /\ waiter[p] = "none"
  BY DEF PLInit, None
<1>f. flags \in Flags /\ ~flags.live /\ ~flags.killed
  <2>1. flags \in [killed: {FALSE}, restarting: {FALSE}, failed: {FALSE}, cpuFallback: {FALSE},
                   standby: BOOLEAN, device: {FALSE}, live: {FALSE}]
    BY DEF PLInit
  <2> QED
    BY <2>1 DEF Flags
<1>2. PLTypeOK
  <2>1. job \in [who: Actors \cup {Nobody}, step: JobSteps]
    BY PLNumbers DEF PLInit, JobSteps, Actors
  <2>2. cmd \in 0 .. MaxStarts /\ cancelOf \in 0 .. MaxStarts /\ starts \in 0 .. MaxStarts
    BY <1>1, PLNumbers
  <2>3. proc \in [Procs -> ProcStates] /\ waiter \in [Procs -> WaiterPcs] /\ seek \in [Seekers -> SeekPcs]
    BY DEF PLInit, ProcStates, WaiterPcs, SeekPcs
  <2> QED
    BY <1>1, <1>f, <2>1, <2>2, <2>3 DEF PLTypeOK
<1>3. Numbered /\ Waiters
  BY <1>1, PLNumbers DEF Numbered, Waiters
<1>4. Cleared /\ Announced
  BY <1>1, <1>f, PLNumbers DEF Cleared, Announced
<1>5. OneWriter /\ StoppedIsNoFailure
  BY <1>1 DEF OneWriter, StoppedIsNoFailure, Running
<1> QED
  BY <1>f, <1>2, <1>3, <1>4, <1>5 DEF PLInv

\* s.cancel is replaced.
LEMMA SetCancelInv == ASSUME PLInv, SetCancel PROVE PLInv'
<1>0. PLTypeOK
  BY DEF PLInv
<1>1. /\ starts' = starts + 1 /\ cancelOf' = starts + 1 /\ starts' \in 0 .. MaxStarts /\ starts' # None
      /\ job'.who = job.who /\ job'.step = "spawn" /\ job.step = "begin" /\ job' \in [who: Actors \cup {Nobody}, step: JobSteps]
      /\ proc' = proc /\ cmd' = cmd /\ waiter' = waiter /\ flags' = flags /\ seek' = seek /\ stray' = stray
  BY <1>0, PLTypes, PLNumbers DEF SetCancel, JobSteps, None
<1>2. PLTypeOK'
  BY <1>0, <1>1 DEF PLTypeOK
<1>3. Numbered'
  BY <1>0, <1>1, PLTypes, PLNumbers DEF PLInv, Numbered
<1>4. Waiters' /\ Cleared' /\ Announced'
  BY <1>1 DEF PLInv, Waiters, Cleared, Announced, Running
<1> QED
  BY <1>1, <1>2, <1>3, <1>4 DEF PLInv, OneWriter, StoppedIsNoFailure, Running

\* The process runs.
LEMMA SpawnInv == ASSUME PLInv, Spawn PROVE PLInv'
<1>0. PLTypeOK
  BY DEF PLInv
<1>1. /\ starts \in Procs /\ proc[starts] = "none" /\ job.step = "spawn"
      /\ cmd' = starts /\ starts' = starts /\ cancelOf' = cancelOf /\ seek' = seek
      /\ job' = Free /\ stray' = stray \cup Overlooked
      /\ proc' = [proc EXCEPT ![starts] = "running"]
  BY <1>0, PLTypes, PLNumbers DEF Spawn, PLInv, Numbered
<1>2. /\ \A p \in Procs : proc'[p] = IF p = starts THEN "running" ELSE proc[p]
      /\ \A p \in Procs : waiter'[p] = IF p = starts THEN "wait" ELSE IF p = job.who THEN "gone" ELSE waiter[p]
      /\ waiter' \in [Procs -> WaiterPcs] /\ proc' \in [Procs -> ProcStates]
  BY <1>0, <1>1, PLTypes DEF Spawn, WaiterPcs, ProcStates
<1>3. /\ flags' \in Flags /\ flags'.killed = flags.killed /\ flags'.restarting = FALSE
      /\ flags'.live = (flags.live \/ job.who = 0)
  BY <1>0, PLTypes DEF Spawn, Flags
<1>4. job.who \in Procs => cmd # None
  BY PLNumbers DEF PLInv, Waiters, Numbered
<1>5. stray' \subseteq Procs /\ (job.who \in Procs \ {cmd} => cmd \in stray')
  BY <1>0, <1>1, <1>4, PLTypes, PLNumbers DEF Overlooked
<1>6. PLTypeOK'
  BY <1>0, <1>1, <1>2, <1>3, <1>5, PLTypes DEF PLTypeOK
<1>7. Numbered'
  BY <1>0, <1>1, <1>2, PLTypes, PLNumbers DEF PLInv, Numbered, None
<1>8. Waiters'
  BY <1>0, <1>1, <1>2, PLTypes, PLNumbers DEF PLInv, Waiters
<1>9. Cleared' /\ Announced' /\ (flags'.killed => ~flags'.live)
  <2>1. job'.who # 0 /\ job'.who \notin Seekers
    BY <1>0, <1>1, PLTypes, PLNumbers
  <2>2. proc'[cmd'] = "running"
    BY <1>1, <1>2
  <2>3. flags'.killed => ~flags'.live
    BY <1>3 DEF PLInv, Cleared
  <2> QED
    BY <2>1, <2>2, <2>3 DEF Cleared, Announced
<1>10. OneWriter'
  <2> SUFFICES ASSUME NEW p \in Procs, proc'[p] = "running", p # starts
               PROVE  p \in stray'
    BY <1>1 DEF OneWriter, Running
  <2>1. proc[p] = "running"
    BY <1>2
  <2>2. p = cmd \/ p \in stray
    BY <2>1, PLNumbers DEF PLInv, OneWriter, Running
  <2>3. CASE p = cmd
    <3>1. job.who # 0 /\ job.who \notin Seekers /\ job.who # cmd
      BY <2>1, <2>3, PLNumbers DEF PLInv, Cleared, Waiters, Running
    <3>2. job.who # Nobody
      BY <1>1 DEF PLInv, Numbered
    <3> QED
      BY <1>0, <1>5, <2>3, <3>1, <3>2, PLTypes, PLNumbers DEF Actors
  <2> QED
    BY <1>1, <2>2, <2>3
<1>11. StoppedIsNoFailure'
  BY <1>1, <1>2 DEF PLInv, StoppedIsNoFailure
<1> QED
  BY <1>6, <1>7, <1>8, <1>9, <1>10, <1>11 DEF PLInv

\* The start fails.
LEMMA StartErrorInv == ASSUME PLInv, StartError PROVE PLInv'
<1>0. PLTypeOK
  BY DEF PLInv
<1>1. /\ job' = Free /\ proc' = proc /\ cmd' = cmd /\ cancelOf' = cancelOf /\ starts' = starts /\ seek' = seek
      /\ stray' = stray \cup Overlooked
  BY DEF StartError
<1>2. /\ waiter' = waiter /\ flags' = flags
      \/ /\ job.who \in Procs /\ flags' = flags
         /\ waiter[job.who] = "fallbackJob" /\ waiter' = [waiter EXCEPT ![job.who] = "failover"]
      \/ /\ job.who \in Procs /\ flags' = [flags EXCEPT !.restarting = FALSE]
         /\ waiter[job.who] = "failoverJob" /\ waiter' = [waiter EXCEPT ![job.who] = "fail"]
  BY DEF StartError
<1>3. job.who \in Procs => cmd # None /\ waiter[job.who] \in {"fallbackJob", "failoverJob"}
  BY PLNumbers DEF PLInv, Waiters, Numbered
<1>4. stray' \subseteq Procs /\ (job.who \in Procs \ {cmd} => cmd \in stray')
  BY <1>0, <1>1, <1>3, PLTypes, PLNumbers DEF Overlooked
<1>5. /\ waiter' \in [Procs -> WaiterPcs]
      /\ \A p \in Procs : \/ waiter'[p] = waiter[p]
                          \/ {waiter[p], waiter'[p]} \subseteq WaiterPcs \ {"none", "wait", "gone"}
  BY <1>0, <1>2, PLTypes DEF WaiterPcs
<1>6. flags' \in Flags /\ flags'.killed = flags.killed /\ flags'.live = flags.live
  BY <1>0, <1>2, PLTypes DEF Flags
<1>7. PLTypeOK'
  BY <1>0, <1>1, <1>4, <1>5, <1>6, PLTypes DEF PLTypeOK
<1>8. Numbered'
  BY <1>0, <1>1, <1>3, <1>5, PLTypes, PLNumbers DEF PLInv, Numbered
<1>9. Waiters'
  BY <1>0, <1>1, <1>5, PLTypes, PLNumbers DEF PLInv, Waiters
<1>10. Cleared' /\ (flags'.killed => ~flags'.live)
  BY <1>0, <1>1, <1>6, PLTypes, PLNumbers DEF PLInv, Cleared
<1>11. Announced'
  <2> SUFFICES ASSUME cmd # None, proc[cmd] = "stopped", ~flags'.killed, ~flags'.restarting, stray' = {}
               PROVE  FALSE
    BY <1>1 DEF Announced
  <2>1. stray = {}
    BY <1>1
  <2>2. flags.restarting
    BY <1>6, <2>1 DEF PLInv, Announced
  <2>3. job.who \in Procs /\ waiter[job.who] = "failoverJob"
    BY <1>2, <2>2
  <2>4. job.who = cmd
    BY <1>4, <2>3
  <2>5. proc[cmd] = "failed"
    BY <2>1, <2>3, <2>4 DEF PLInv, StoppedIsNoFailure, WaiterPcs
  <2> QED
    BY <2>5
<1>12. OneWriter'
  BY <1>1 DEF PLInv, OneWriter, Running
<1>13. StoppedIsNoFailure'
  BY <1>1, <1>5 DEF PLInv, StoppedIsNoFailure
<1> QED
  BY <1>7, <1>8, <1>9, <1>10, <1>11, <1>12, <1>13 DEF PLInv

\* A process ends by itself.
LEMMA EndInv == ASSUME PLInv, NEW p \in Procs, Finish(p) \/ Crash(p) PROVE PLInv'
<1>0. PLTypeOK
  BY DEF PLInv
<1>1. /\ proc[p] = "running" /\ cmd' = cmd /\ cancelOf' = cancelOf /\ starts' = starts /\ seek' = seek
      /\ stray' = stray /\ job' = job /\ waiter' = waiter
  BY DEF Finish, Crash, Running
<1>2. PICK e \in {"done", "failed"} : proc' = [proc EXCEPT ![p] = e]
  BY DEF Finish, Crash
<1>3. proc' \in [Procs -> ProcStates] /\ \A q \in Procs : proc'[q] = IF q = p THEN e ELSE proc[q]
  BY <1>0, <1>2, PLTypes DEF ProcStates
<1>4. /\ flags' \in Flags /\ flags'.killed = flags.killed /\ flags'.live = flags.live
      /\ flags'.restarting = flags.restarting
  BY <1>0, PLTypes DEF Finish, Crash, Flags
<1>5. PLTypeOK'
  BY <1>0, <1>1, <1>3, <1>4 DEF PLTypeOK
<1>6. Numbered' /\ Waiters'
  BY <1>1, <1>3 DEF PLInv, Numbered, Waiters
<1>7. cmd \in Procs \/ cmd = None
  BY <1>0, PLTypes, PLNumbers
<1>8. Cleared' /\ Announced' /\ (flags'.killed => ~flags'.live)
  <2>1. cmd # None => (proc'[cmd] = "running" => proc[cmd] = "running")
                      /\ (proc'[cmd] = "stopped" => proc[cmd] = "stopped")
    BY <1>3, <1>7
  <2> QED
    BY <1>1, <1>4, <2>1 DEF PLInv, Cleared, Announced, Running
<1>9. OneWriter'
  BY <1>1, <1>3 DEF PLInv, OneWriter, Running
<1>10. StoppedIsNoFailure'
  BY <1>1, <1>3 DEF PLInv, StoppedIsNoFailure, Waiters
<1> QED
  BY <1>5, <1>6, <1>8, <1>9, <1>10 DEF PLInv

\* The goroutine that waits sees its process end, and goes on from there.
LEMMA WaiterInv ==
    ASSUME PLInv, NEW p \in Procs, Notice(p) \/ Failover(p) \/ Fail(p)
    PROVE  PLInv'
<1>0. PLTypeOK
  BY DEF PLInv
<1>1. /\ proc' = proc /\ cmd' = cmd /\ cancelOf' = cancelOf /\ starts' = starts /\ seek' = seek
      /\ stray' = stray /\ job' = job
  BY DEF Notice, Failover, Fail
<1>2. PICK c \in {"gone", "fallbackJob", "failover", "failoverJob", "fail"} : waiter' = [waiter EXCEPT ![p] = c]
  BY DEF Notice, Failover, Fail
<1>3. waiter' \in [Procs -> WaiterPcs] /\ \A q \in Procs : waiter'[q] = IF q = p THEN c ELSE waiter[q]
  BY <1>0, <1>2, PLTypes DEF WaiterPcs
<1>4. /\ flags' \in Flags /\ flags'.killed = flags.killed /\ flags'.live = flags.live
      /\ flags.restarting => flags'.restarting
  <2>0. flags \in Flags
    BY <1>0 DEF PLTypeOK
  <2>1. \/ flags' = flags
        \/ flags' = [flags EXCEPT !.cpuFallback = TRUE]
        \/ flags' = [flags EXCEPT !.standby = FALSE, !.restarting = TRUE]
        \/ flags' = [flags EXCEPT !.failed = TRUE]
    <3>1. CASE Notice(p)
      BY <3>1 DEF Notice
    <3>2. CASE Failover(p)
      BY <3>2 DEF Failover
    <3>3. CASE Fail(p)
      BY <3>3 DEF Fail
    <3> QED
      BY <3>1, <3>2, <3>3
  <2> QED
    BY <2>0, <2>1 DEF Flags
<1>5. waiter[p] \in {"wait", "failover", "fail"} /\ waiter[p] # "none"
  BY DEF Notice, Failover, Fail
<1>6. PLTypeOK'
  BY <1>0, <1>1, <1>3, <1>4 DEF PLTypeOK
<1>7. Numbered'
  BY <1>1, <1>3, <1>5 DEF PLInv, Numbered
<1>8. proc[p] # "none" /\ proc[p] # "running"
  <2>1. CASE Notice(p)
    BY <2>1 DEF Notice
  <2>2. CASE ~Notice(p)
    BY <1>5, <2>2 DEF PLInv, Waiters, Failover, Fail
  <2> QED
    BY <2>1, <2>2
<1>9. Waiters'
  BY <1>1, <1>3, <1>5, <1>8 DEF PLInv, Waiters
<1>10. Cleared' /\ Announced' /\ (flags'.killed => ~flags'.live)
  BY <1>1, <1>4 DEF PLInv, Cleared, Announced, Running
<1>11. OneWriter'
  BY <1>1 DEF PLInv, OneWriter, Running
<1>12. StoppedIsNoFailure'
  <2>1. c = "gone" \/ proc[p] = "failed" \/ stray # {}
    <3>1. CASE Notice(p)
      <4> SUFFICES ASSUME c # "gone" PROVE proc[p] = "failed" \/ stray # {}
        OBVIOUS
      <4>1. waiter'[p] # "gone"
        BY <1>3
      <4>2. proc[p] \in {"failed", "done", "stopped"} /\ proc[p] # "done"
            /\ ~flags.killed /\ ~flags.restarting /\ cmd = p
        BY <1>0, <3>1, <4>1, PLTypes DEF Notice
      <4> QED
        BY <4>2, PLNumbers DEF PLInv, Announced
    <3>2. CASE Failover(p) \/ Fail(p)
      <4>1. waiter[p] \in WaiterPcs \ {"none", "wait", "gone"}
        BY <3>2 DEF Failover, Fail, WaiterPcs
      <4> QED
        BY <4>1 DEF PLInv, StoppedIsNoFailure
    <3> QED
      BY <3>1, <3>2
  <2> QED
    BY <1>1, <1>3, <2>1 DEF PLInv, StoppedIsNoFailure
<1> QED
  BY <1>6, <1>7, <1>9, <1>10, <1>11, <1>12 DEF PLInv

\* A waiter gets jobMu; a segment request comes, or waits.
LEMMA QuietInv ==
    ASSUME PLInv,
           \/ \E p \in Procs : WaiterStarts(p)
           \/ \E r \in Seekers : Ask(r) \/ Wait(r)
    PROVE  PLInv'
<1>0. PLTypeOK
  BY DEF PLInv
<1>1. /\ proc' = proc /\ cmd' = cmd /\ cancelOf' = cancelOf /\ starts' = starts
      /\ stray' = stray /\ waiter' = waiter /\ flags' = flags
  BY DEF WaiterStarts, Ask, Wait
<1>2. seek' \in [Seekers -> SeekPcs]
  BY <1>0, PLTypes DEF WaiterStarts, Ask, Wait, SeekPcs
<1>3. /\ job' \in [who: Actors \cup {Nobody}, step: JobSteps]
      /\ \/ job' = job
         \/ job'.who \in Procs /\ job'.step = "begin" /\ waiter[job'.who] \in {"fallbackJob", "failoverJob"}
  BY <1>0, PLTypes, PLNumbers DEF WaiterStarts, LockJob, Ask, Wait, JobSteps
<1>4. PLTypeOK'
  BY <1>0, <1>1, <1>2, <1>3 DEF PLTypeOK
<1>5. Numbered' /\ Waiters' /\ Cleared'
  BY <1>1, <1>3, PLNumbers DEF PLInv, Numbered, Waiters, Cleared, Running
<1> QED
  BY <1>1, <1>4, <1>5 DEF PLInv, Announced, OneWriter, StoppedIsNoFailure, Running

\* What s.cmd and s.cancel name is stopped.
LEMMA StopInv ==
    ASSUME PLInv, Stop({cmd, cancelOf})
    PROVE  /\ proc' \in [Procs -> ProcStates]
           /\ \A p \in Procs : proc'[p] = proc[p] \/ (p \in {cmd, cancelOf} /\ proc'[p] = "stopped" /\ proc[p] \in {"none", "running"})
           /\ cmd # None => proc'[cmd] # "running"
           /\ \A p \in Procs : p > starts => proc'[p] = "none"
<1>0. PLTypeOK
  BY DEF PLInv
<1>1. \A p \in Procs : proc'[p] = IF p \in {cmd, cancelOf} /\ proc[p] \in {"none", "running"} THEN "stopped" ELSE proc[p]
  BY DEF Stop
<1>2. proc' \in [Procs -> ProcStates]
  BY <1>0, PLTypes DEF Stop, ProcStates
<1>3. cmd # None => proc'[cmd] # "running"
  BY <1>0, <1>1, PLTypes, PLNumbers
<1>4. \A p \in Procs : p > starts => proc[p] = "none" /\ p \notin {cmd, cancelOf}
  BY <1>0, PLTypes, PLNumbers DEF PLInv, Numbered
<1> QED
  BY <1>1, <1>2, <1>3, <1>4

\* A segment request restarts the process.
LEMMA RestartInv == ASSUME PLInv, NEW r \in Seekers, Restart(r) PROVE PLInv'
<1>0. PLTypeOK
  BY DEF PLInv
<1>1. /\ cmd' = cmd /\ cancelOf' = cancelOf /\ starts' = starts
      /\ stray' = stray /\ waiter' = waiter /\ Stop({cmd, cancelOf})
      /\ job' = [who |-> r, step |-> "begin"]
  BY DEF Restart, LockJob
<1>2. /\ flags' \in Flags /\ flags'.killed = flags.killed /\ flags'.live = flags.live /\ flags'.restarting
  BY <1>0, PLTypes DEF Restart, Flags
<1>3. seek' \in [Seekers -> SeekPcs]
  BY <1>0, PLTypes DEF Restart, SeekPcs
<1>4. /\ job' \in [who: Actors \cup {Nobody}, step: JobSteps] /\ job'.who = r /\ job'.step = "begin"
      /\ r \notin Procs /\ r # 0 /\ r # Nobody
  BY <1>0, <1>1, PLTypes, PLNumbers DEF JobSteps
<1>5. /\ proc' \in [Procs -> ProcStates]
      /\ \A p \in Procs : proc'[p] = proc[p] \/ (p \in {cmd, cancelOf} /\ proc'[p] = "stopped" /\ proc[p] \in {"none", "running"})
      /\ cmd # None => proc'[cmd] # "running"
      /\ \A p \in Procs : p > starts => proc'[p] = "none"
  BY <1>1, StopInv
<1>6. PLTypeOK'
  BY <1>0, <1>1, <1>2, <1>3, <1>4, <1>5 DEF PLTypeOK
<1>7. Numbered' /\ Waiters'
  BY <1>1, <1>4, <1>5 DEF PLInv, Numbered, Waiters
<1>8. Cleared' /\ Announced' /\ (flags'.killed => ~flags'.live)
  BY <1>1, <1>2, <1>4, <1>5 DEF PLInv, Cleared, Announced, Running
<1>9. OneWriter'
  BY <1>1, <1>5 DEF PLInv, OneWriter, Running
<1>10. StoppedIsNoFailure'
  BY <1>1, <1>5 DEF PLInv, StoppedIsNoFailure, Waiters
<1> QED
  BY <1>2, <1>6, <1>7, <1>8, <1>9, <1>10 DEF PLInv

\* The session is killed.
LEMMA KillInv == ASSUME PLInv, Kill PROVE PLInv'
<1>0. PLTypeOK
  BY DEF PLInv
<1>1. /\ cmd' = cmd /\ cancelOf' = cancelOf /\ starts' = starts /\ seek' = seek
      /\ stray' = stray /\ waiter' = waiter /\ Stop({cmd, cancelOf}) /\ job' = job /\ flags.live
  BY DEF Kill
<1>2. /\ flags' \in Flags /\ flags'.killed /\ ~flags'.live
  BY <1>0, PLTypes DEF Kill, Flags
<1>5. /\ proc' \in [Procs -> ProcStates]
      /\ \A p \in Procs : proc'[p] = proc[p] \/ (p \in {cmd, cancelOf} /\ proc'[p] = "stopped" /\ proc[p] \in {"none", "running"})
      /\ cmd # None => proc'[cmd] # "running"
      /\ \A p \in Procs : p > starts => proc'[p] = "none"
  BY <1>1, StopInv
<1>6. PLTypeOK'
  BY <1>0, <1>1, <1>2, <1>5 DEF PLTypeOK
<1>7. Numbered' /\ Waiters'
  BY <1>1, <1>5 DEF PLInv, Numbered, Waiters
<1>8. Cleared' /\ Announced'
  BY <1>1, <1>2, <1>5 DEF PLInv, Cleared, Announced, Running
<1>9. OneWriter'
  BY <1>1, <1>5 DEF PLInv, OneWriter, Running
<1>10. StoppedIsNoFailure'
  BY <1>1, <1>5 DEF PLInv, StoppedIsNoFailure, Waiters
<1> QED
  BY <1>2, <1>6, <1>7, <1>8, <1>9, <1>10 DEF PLInv

\* Every step keeps the invariant.
LEMMA PLNextInv == ASSUME PLInv, [PLNext]_plVars PROVE PLInv'
<1>1. CASE UNCHANGED plVars
  <2>1. /\ proc' = proc /\ cmd' = cmd /\ cancelOf' = cancelOf /\ starts' = starts /\ seek' = seek
        /\ stray' = stray /\ waiter' = waiter /\ job' = job /\ flags' = flags
    BY <1>1 DEF plVars
  <2> QED
    BY <2>1 DEF PLInv, PLTypeOK, Numbered, Waiters, Cleared, Announced, OneWriter, StoppedIsNoFailure, Running
<1>2. CASE PLNext
  BY <1>2, SetCancelInv, SpawnInv, StartErrorInv, EndInv, WaiterInv, QuietInv, RestartInv, KillInv
     DEF PLNext, Start, WaiterStep
<1> QED
  BY <1>1, <1>2

\* waitFFmpeg, failover, fallbackCPU and restartGeneration, for any number of
\* segment requests and processes: the directory of a session has one writer,
\* and a process that was stopped on purpose is not taken for one that failed,
\* unless a fallback or failover was overtaken by a segment request.
THEOREM PipelineIsSafe == PLSpec => []PipelineSafe
<1>1. PLInv => PipelineSafe
  BY DEF PLInv, PipelineSafe
<1> QED
  BY <1>1, PLInitInv, PLNextInv, PTL DEF PLSpec

\* kill and the registry: once a session is killed nobody starts a process for
\* it who was not past the last check of killed by then.
THEOREM KilledStaysKilled == PLSpec => KillIsFinal
<1>1. ASSUME PLInv, [PLNext]_plVars PROVE [flags.killed => AboutToStart' \subseteq AboutToStart]_plVars
  <2> SUFFICES ASSUME PLNext, flags.killed PROVE AboutToStart' \subseteq AboutToStart
    BY <1>1
  <2>0. ~flags.live /\ job.who # 0 /\ PLTypeOK
    BY <1>1 DEF PLInv, Cleared
  <2>1. ASSUME NEW p \in Procs, waiter'[p] \in {"fallbackJob", "failoverJob"} PROVE p \in AboutToStart
    <3>1. waiter[p] \in {"fallbackJob", "failoverJob"}
      BY <2>0, <2>1, PLTypes DEF PLNext, Start, SetCancel, Spawn, StartError, Finish, Crash, WaiterStep,
         Notice, Failover, WaiterStarts, Fail, Ask, Wait, Restart, Kill
    <3> QED
      BY <3>1 DEF AboutToStart
  <2>2. ASSUME NEW r \in Seekers, seek'[r] = "live" PROVE seek[r] = "live"
    BY <2>0, <2>2, PLTypes DEF PLNext, Start, SetCancel, Spawn, StartError, Finish, Crash, WaiterStep,
       Notice, Failover, WaiterStarts, Fail, Ask, Wait, Restart, Kill
  <2>3. ASSUME job'.who \in Actors PROVE job'.who \in AboutToStart
    <3>1. \/ job'.who = job.who
          \/ job'.who \in Procs /\ waiter[job'.who] \in {"fallbackJob", "failoverJob"}
          \/ job'.who \in Seekers /\ seek[job'.who] = "live"
      BY <2>0, <2>3, PLTypes, PLNumbers DEF PLNext, Start, SetCancel, Spawn, StartError, Finish, Crash, WaiterStep,
         Notice, Failover, WaiterStarts, Fail, Ask, Wait, Restart, Kill, LockJob
    <3> QED
      BY <2>3, <3>1 DEF AboutToStart
  <2> QED
    BY <2>1, <2>2, <2>3 DEF AboutToStart
<1> QED
  BY <1>1, PLInitInv, PLNextInv, PTL DEF PLSpec, KillIsFinal

-----------------------------------------------------------------------------
(* The position of a session.                                              *)

\* Flushes between taking the position and writing it, and those that still
\* owe an entry of the history.
Writing == {f \in Flushers : call[f].pc \in {"look", "put"}}
Noted == {f \in Flushers : call[f].pc = "note"}

\* Without a crossing one flush at a time has the newest position, and what it
\* read of the row still holds.
OneFlush ==
    ~crossed =>
      /\ \A f, g \in Writing : f = g
      /\ \A f \in Writing : call[f].pos = cp.stored
      /\ Writing = {} => cp.dirty \/ cp.first \/ row.pos = cp.stored
      /\ \A f \in Flushers : call[f].pc = "put" /\ call[f].note =>
             ~row.there \/ (call[f].pos \in Finished /\ row.pos \notin Finished)

\* What is not dirty was taken.
Reported == ~cp.dirty /\ bounds.reports # 0 => cp.stored = cp.pos /\ ~cp.first

\* kill flushes after the last report.
KillFlushes ==
    /\ life = "playing" => call["kill"].pc = "idle"
    /\ life # "playing" /\ call["kill"].pc # "take" /\ ~crossed /\ bounds.faults = 0
          => ~cp.dirty /\ Writing \subseteq {"kill"}

\* Entries of the history, owed ones included, that the row accounts for.
Due == IF ~row.there THEN 0 ELSE IF row.pos \in Finished THEN 2 ELSE 1
Entries == ~crossed /\ ~wentBack => hist + Cardinality(Noted) <= Due

PGInv == PGTypeOK /\ OneFlush /\ Reported /\ KillFlushes /\ Entries /\ ResumesWhereStopped

\* What a well-typed state is made of.
LEMMA PGTypes ==
    ASSUME PGTypeOK
    PROVE  /\ cp.pos \in Positions /\ cp.stored \in Positions /\ cp.first \in BOOLEAN
           /\ cp.due \in BOOLEAN /\ cp.dirty \in BOOLEAN
           /\ row.there \in BOOLEAN /\ row.pos \in Positions /\ hist \in Nat
           /\ call \in [Flushers -> [pc: FlushPcs, pos: Positions, note: BOOLEAN]]
           /\ \A f \in Flushers : call[f].pc \in FlushPcs /\ call[f].pos \in Positions /\ call[f].note \in BOOLEAN
           /\ bounds.reports \in 0 .. MaxReports /\ bounds.faults \in 0 .. MaxFaults
           /\ "kill" \in Flushers /\ Handlers \subseteq Flushers /\ 0 \in Positions
           /\ MaxReports \in Nat /\ MaxFaults \in Nat
BY ProgressAssumption DEF PGTypeOK, Flushers, Positions

\* A flush moves on; the other calls stay.
LEMMA CallMoves ==
    ASSUME PGTypeOK, NEW f \in Flushers, NEW r \in [pc: FlushPcs, pos: Positions, note: BOOLEAN],
           call' = [call EXCEPT ![f] = r]
    PROVE  /\ call' \in [Flushers -> [pc: FlushPcs, pos: Positions, note: BOOLEAN]]
           /\ call'[f] = r
           /\ \A g \in Flushers \ {f} : call'[g] = call[g]
           /\ r.pc \in {"look", "put"} => Writing' = Writing \cup {f}
           /\ r.pc \notin {"look", "put"} => Writing' = Writing \ {f}
           /\ r.pc = "note" => Noted' = Noted \cup {f}
           /\ r.pc # "note" => Noted' = Noted \ {f}
<1>1. /\ call' \in [Flushers -> [pc: FlushPcs, pos: Positions, note: BOOLEAN]]
      /\ call'[f] = r
      /\ \A g \in Flushers \ {f} : call'[g] = call[g]
  BY PGTypes
<1> QED
  BY <1>1 DEF Writing, Noted

\* Only a call's state changes.
LEMMA CallPc ==
    ASSUME PGTypeOK, NEW f \in Flushers, NEW q \in FlushPcs, call' = [call EXCEPT ![f].pc = q]
    PROVE  /\ call' \in [Flushers -> [pc: FlushPcs, pos: Positions, note: BOOLEAN]]
           /\ call'[f].pc = q /\ call'[f].pos = call[f].pos /\ call'[f].note = call[f].note
           /\ \A g \in Flushers \ {f} : call'[g] = call[g]
           /\ q \in {"look", "put"} => Writing' = Writing \cup {f}
           /\ q \notin {"look", "put"} => Writing' = Writing \ {f}
           /\ q = "note" => Noted' = Noted \cup {f}
           /\ q # "note" => Noted' = Noted \ {f}
<1>1. call[f] \in [pc: FlushPcs, pos: Positions, note: BOOLEAN]
  BY PGTypes
<1>2. PICK r \in [pc: FlushPcs, pos: Positions, note: BOOLEAN] : r = [call[f] EXCEPT !.pc = q]
  BY <1>1
<1>3. call' = [call EXCEPT ![f] = r] /\ r.pc = q /\ r.pos = call[f].pos /\ r.note = call[f].note
  BY <1>1, <1>2, PGTypes
<1> QED
  BY <1>3, CallMoves

\* Entries owed are counted one by one.
LEMMA NotedCount ==
    ASSUME PGTypeOK
    PROVE  /\ Cardinality(Noted) \in Nat
           /\ \A f \in Flushers \ Noted : Cardinality(Noted \cup {f}) = Cardinality(Noted) + 1
           /\ \A f \in Noted : Cardinality(Noted \ {f}) = Cardinality(Noted) - 1
<1>1. IsFiniteSet(Flushers)
  BY ProgressAssumption, FS_AddElement DEF Flushers
<1>2. IsFiniteSet(Noted)
  BY <1>1, FS_Subset DEF Noted
<1>3. Cardinality(Noted) \in Nat
  BY <1>2, FS_CardinalityType
<1>4. \A f \in Flushers \ Noted : Cardinality(Noted \cup {f}) = Cardinality(Noted) + 1
  BY <1>2, FS_AddElement
<1>5. \A f \in Noted : Cardinality(Noted \ {f}) = Cardinality(Noted) - 1
  BY <1>2, FS_RemoveElement
<1> QED
  BY <1>3, <1>4, <1>5

\* Nothing was reported yet.
LEMMA PGInitInv == PGInit => PGInv
<1> SUFFICES ASSUME PGInit PROVE PGInv
  OBVIOUS
<1>1. /\ \A f \in Flushers : call[f].pc = "idle"
      /\ cp.first = TRUE /\ cp.dirty = FALSE /\ cp.stored = 0 /\ cp.due = FALSE
      /\ hist = 0 /\ life = "playing" /\ bounds.reports = 0 /\ bounds.faults = 0
      /\ crossed = FALSE /\ wentBack = FALSE
  BY DEF PGInit
<1>2. row.there \in BOOLEAN /\ row.pos \in Positions /\ row \in [there: BOOLEAN, pos: Positions]
  <2>1. 0 \in Positions
    BY ProgressAssumption DEF Positions
  <2>2. CASE row \in [there: {FALSE}, pos: {0}]
    BY <2>1, <2>2
  <2>3. CASE row \in [there: {TRUE}, pos: Positions \ {0}]
    BY <2>3
  <2> QED
    BY <2>2, <2>3 DEF PGInit
<1>3. PGTypeOK
  <2>1. cp \in [pos: Positions, stored: Positions, first: BOOLEAN, due: BOOLEAN, dirty: BOOLEAN]
    BY <1>2, ProgressAssumption DEF PGInit, Positions
  <2>2. call \in [Flushers -> [pc: FlushPcs, pos: Positions, note: BOOLEAN]]
    BY ProgressAssumption DEF PGInit, FlushPcs, Positions
  <2>3. bounds \in [reports: 0 .. MaxReports, faults: 0 .. MaxFaults] /\ resumed \in Positions
    BY ProgressAssumption DEF PGInit, Positions
  <2> QED
    BY <2>1, <2>2, <2>3, <1>1, <1>2 DEF PGTypeOK
<1>4. OneFlush /\ Reported /\ KillFlushes /\ ResumesWhereStopped
  BY <1>1 DEF OneFlush, Reported, KillFlushes, ResumesWhereStopped, Writing, Flushers
<1>5. Entries
  <2>1. Noted = {}
    BY <1>1 DEF Noted
  <2> QED
    BY <2>1, <1>1, FS_EmptySet DEF Entries, Due
<1> QED
  BY <1>3, <1>4, <1>5 DEF PGInv

\* The player reports.
LEMMA ReportInv ==
    ASSUME PGInv, NEW h \in Handlers, NEW event \in Events, NEW p \in Positions, Report(h, event, p)
    PROVE  PGInv'
<1>0. PGTypeOK /\ h \in Flushers /\ h # "kill"
  BY PGTypes, ProgressAssumption DEF PGInv
<1>1. PICK pos \in Positions, q \in {"take", "idle"} :
          /\ cp' = [cp EXCEPT !.pos = pos, !.dirty = TRUE]
          /\ call' = [call EXCEPT ![h].pc = q]
  <2> DEFINE pos == IF event = "stop" /\ p = 0 /\ cp.pos \in Resumable THEN cp.pos ELSE p
             q == IF ShouldCheckpoint(event, pos) THEN "take" ELSE "idle"
  <2>1. pos \in Positions /\ q \in {"take", "idle"}
    BY <1>0, PGTypes
  <2>2. cp' = [cp EXCEPT !.pos = pos, !.dirty = TRUE] /\ call' = [call EXCEPT ![h].pc = q]
    BY DEF Report
  <2> QED
    BY <2>1, <2>2
<1>2. /\ life # "next" /\ call[h].pc = "idle" /\ crossed' = (crossed \/ life = "killed")
      /\ UNCHANGED <<row, hist, life, resumed, wentBack>>
      /\ bounds' \in [reports: 0 .. MaxReports, faults: 0 .. MaxFaults] /\ bounds'.faults = bounds.faults
  <2>1. bounds \in [reports: 0 .. MaxReports, faults: 0 .. MaxFaults] /\ bounds.reports + 1 \in 0 .. MaxReports
    BY <1>0, PGTypes DEF Report, PGTypeOK
  <2> QED
    BY <2>1 DEF Report
<1>3. /\ cp' \in [pos: Positions, stored: Positions, first: BOOLEAN, due: BOOLEAN, dirty: BOOLEAN]
      /\ cp'.stored = cp.stored /\ cp'.first = cp.first /\ cp'.dirty = TRUE
  BY <1>0, <1>1 DEF PGTypeOK
<1>4. /\ call' \in [Flushers -> [pc: FlushPcs, pos: Positions, note: BOOLEAN]]
      /\ call'[h].pc \in {"take", "idle"} /\ \A g \in Flushers \ {h} : call'[g] = call[g]
      /\ Writing' = Writing /\ Noted' = Noted
  <2>1. q \in FlushPcs
    BY DEF FlushPcs
  <2>3. /\ call' \in [Flushers -> [pc: FlushPcs, pos: Positions, note: BOOLEAN]]
        /\ call'[h].pc = q /\ \A g \in Flushers \ {h} : call'[g] = call[g]
        /\ Writing' = Writing \ {h} /\ Noted' = Noted \ {h}
    BY <1>0, <1>1, <2>1, CallPc
  <2> QED
    BY <2>3, <1>2 DEF Writing, Noted
<1>5. PGTypeOK'
  BY <1>0, <1>2, <1>3, <1>4 DEF PGTypeOK
<1>6. OneFlush'
  BY <1>2, <1>3, <1>4 DEF PGInv, OneFlush, Writing
<1>7. Reported' /\ ResumesWhereStopped'
  BY <1>2, <1>3 DEF Reported, ResumesWhereStopped
<1>8. KillFlushes'
  BY <1>0, <1>2, <1>4, PGTypes DEF PGInv, KillFlushes, PGTypeOK
<1>9. Entries'
  BY <1>2, <1>4 DEF PGInv, Entries, Due
<1> QED
  BY <1>5, <1>6, <1>7, <1>8, <1>9 DEF PGInv

\* A minute passes.
LEMMA MinuteInv == ASSUME PGInv, Minute PROVE PGInv'
<1>1. /\ UNCHANGED <<row, hist, call, life, resumed, bounds, crossed, wentBack>>
      /\ cp' \in [pos: Positions, stored: Positions, first: BOOLEAN, due: BOOLEAN, dirty: BOOLEAN]
      /\ cp'.pos = cp.pos /\ cp'.stored = cp.stored /\ cp'.first = cp.first /\ cp'.dirty = cp.dirty
  BY DEF Minute, PGInv, PGTypeOK
<1> QED
  BY <1>1 DEF PGInv, PGTypeOK, OneFlush, Reported, KillFlushes, Entries, Due, ResumesWhereStopped, Writing, Noted

\* The session is killed, with a flush.
LEMMA KillSessionInv == ASSUME PGInv, KillSession PROVE PGInv'
<1>0. PGTypeOK /\ "kill" \in Flushers /\ "take" \in FlushPcs
  BY PGTypes DEF PGInv, FlushPcs
<1>1. /\ life = "playing" /\ life' = "killed" /\ call["kill"].pc = "idle"
      /\ UNCHANGED <<cp, row, hist, resumed, bounds, crossed, wentBack>>
  BY DEF KillSession, PGInv, KillFlushes
<1>2. /\ call' \in [Flushers -> [pc: FlushPcs, pos: Positions, note: BOOLEAN]]
      /\ call'["kill"].pc = "take" /\ \A g \in Flushers \ {"kill"} : call'[g] = call[g]
      /\ Writing' = Writing /\ Noted' = Noted
  <2>1. /\ call' \in [Flushers -> [pc: FlushPcs, pos: Positions, note: BOOLEAN]]
        /\ call'["kill"].pc = "take" /\ \A g \in Flushers \ {"kill"} : call'[g] = call[g]
        /\ Writing' = Writing \ {"kill"} /\ Noted' = Noted \ {"kill"}
    BY <1>0, CallPc DEF KillSession
  <2> QED
    BY <2>1, <1>1 DEF Writing, Noted
<1>3. PGTypeOK'
  BY <1>0, <1>1, <1>2 DEF PGTypeOK
<1>4. OneFlush'
  BY <1>1, <1>2 DEF PGInv, OneFlush, Writing
<1>5. Reported' /\ KillFlushes' /\ ResumesWhereStopped' /\ Entries'
  BY <1>1, <1>2 DEF PGInv, Reported, KillFlushes, ResumesWhereStopped, Entries, Due
<1> QED
  BY <1>3, <1>4, <1>5 DEF PGInv

\* Where a flush may stand.
LEMMA FlushPcNames == {"idle", "take", "look", "put", "note"} \subseteq FlushPcs
BY DEF FlushPcs

\* A flush takes the newest position, or finds it taken.
LEMMA TakeInv == ASSUME PGInv, NEW f \in Flushers, Take(f) PROVE PGInv'
<1>0. PGTypeOK
  BY DEF PGInv
<1>1. /\ call[f].pc = "take" /\ f \notin Writing /\ f \notin Noted
      /\ UNCHANGED <<row, hist, life, resumed, bounds, wentBack>>
      /\ crossed' = (crossed \/ Writing # {})
  BY DEF Take, Writing, Noted
<1>e. crossed' \in BOOLEAN
  BY <1>0, <1>1 DEF PGTypeOK
<1>2. CASE cp.dirty
  <2>1. /\ cp' = [cp EXCEPT !.dirty = FALSE, !.stored = cp.pos, !.first = FALSE, !.due = FALSE]
        /\ call' = [call EXCEPT ![f].pc = "look", ![f].pos = cp.pos]
    BY <1>2 DEF Take
  <2>2. /\ cp' \in [pos: Positions, stored: Positions, first: BOOLEAN, due: BOOLEAN, dirty: BOOLEAN]
        /\ cp'.pos = cp.pos /\ cp'.stored = cp.pos /\ cp'.first = FALSE /\ cp'.dirty = FALSE
    BY <2>1, <1>0 DEF PGTypeOK
  <2>3. /\ call' \in [Flushers -> [pc: FlushPcs, pos: Positions, note: BOOLEAN]]
        /\ call'[f].pc = "look" /\ call'[f].pos = cp.pos
        /\ \A g \in Flushers \ {f} : call'[g] = call[g]
        /\ Writing' = Writing \cup {f} /\ Noted' = Noted
    <3>1. PICK r \in [pc: FlushPcs, pos: Positions, note: BOOLEAN] :
             r = [call[f] EXCEPT !.pc = "look", !.pos = cp.pos]
      BY <1>0, PGTypes, FlushPcNames
    <3>2. r.pc = "look" /\ r.pos = cp.pos
      BY <1>0, <3>1, PGTypes
    <3>3. call' = [call EXCEPT ![f] = [call[f] EXCEPT !.pc = "look", !.pos = cp.pos]]
      BY <1>0, <2>1, PGTypes
    <3>4. call' = [call EXCEPT ![f] = r]
      BY <3>1, <3>3
    <3>5. /\ call' \in [Flushers -> [pc: FlushPcs, pos: Positions, note: BOOLEAN]]
          /\ call'[f] = r /\ \A g \in Flushers \ {f} : call'[g] = call[g]
          /\ r.pc \in {"look", "put"} => Writing' = Writing \cup {f}
          /\ r.pc # "note" => Noted' = Noted \ {f}
      BY <1>0, <3>4, CallMoves
    <3> QED
      BY <1>1, <3>2, <3>5
  <2>4. PGTypeOK'
    BY <1>0, <1>1, <1>e, <2>2, <2>3 DEF PGTypeOK
  <2>5. OneFlush'
    <3> SUFFICES ASSUME ~crossed' PROVE OneFlush'
      BY DEF OneFlush
    <3>1. ~crossed /\ Writing = {} /\ Writing' = {f}
      BY <1>1, <2>3
    <3>2. \A g \in Flushers : call'[g].pc # "put"
      BY <3>1, <2>3 DEF Writing
    <3> QED
      BY <3>1, <3>2, <2>2, <2>3 DEF OneFlush
  <2>6. Reported' /\ ResumesWhereStopped'
    BY <1>1, <2>2 DEF PGInv, Reported, ResumesWhereStopped
  <2>7. KillFlushes'
    <3>1. life = "playing" => f # "kill"
      BY <1>1 DEF PGInv, KillFlushes
    <3>2. ~crossed' => ~crossed /\ Writing = {} /\ Writing' = {f}
      BY <1>1, <2>3
    <3>3. f # "kill" => call'["kill"] = call["kill"]
      BY <2>3, <1>0, PGTypes
    <3> QED
      BY <3>1, <3>2, <3>3, <1>1, <1>2, <2>2, <2>3 DEF PGInv, KillFlushes
  <2>8. Entries'
    BY <1>1, <2>3 DEF PGInv, Entries, Due
  <2> QED
    BY <2>4, <2>5, <2>6, <2>7, <2>8 DEF PGInv
<1>3. CASE ~cp.dirty
  <2>1. call' = [call EXCEPT ![f].pc = "idle"] /\ cp' = cp
    BY <1>3 DEF Take
  <2>3. /\ call' \in [Flushers -> [pc: FlushPcs, pos: Positions, note: BOOLEAN]]
        /\ call'[f].pc = "idle" /\ \A g \in Flushers \ {f} : call'[g] = call[g]
        /\ Writing' = Writing /\ Noted' = Noted
    <3>1. "idle" \in FlushPcs
      BY FlushPcNames
    <3>2. /\ call' \in [Flushers -> [pc: FlushPcs, pos: Positions, note: BOOLEAN]]
          /\ call'[f].pc = "idle" /\ \A g \in Flushers \ {f} : call'[g] = call[g]
          /\ Writing' = Writing \ {f} /\ Noted' = Noted \ {f}
      BY <1>0, <2>1, <3>1, CallPc, ZenonT(60)
    <3> QED
      BY <3>2, <1>1
  <2>4. PGTypeOK'
    BY <1>0, <1>1, <1>e, <2>1, <2>3 DEF PGTypeOK
  <2>5. OneFlush'
    BY <1>1, <2>1, <2>3 DEF PGInv, OneFlush, Writing
  <2>6. Reported' /\ ResumesWhereStopped' /\ Entries'
    BY <1>1, <2>1, <2>3 DEF PGInv, Reported, ResumesWhereStopped, Entries, Due
  <2>7. KillFlushes'
    <3>1. f # "kill" => call'["kill"] = call["kill"]
      BY <2>3, <1>0, PGTypes
    <3>2. ~crossed' => ~crossed /\ Writing' = {}
      BY <1>1, <2>3
    <3> QED
      BY <3>1, <3>2, <1>1, <1>3, <2>1, <2>3 DEF PGInv, KillFlushes
  <2> QED
    BY <2>4, <2>5, <2>6, <2>7 DEF PGInv
<1> QED
  BY <1>2, <1>3

\* Put looks at the row.
LEMMA LookInv == ASSUME PGInv, NEW f \in Flushers, Look(f) PROVE PGInv'
<1>0. PGTypeOK
  BY DEF PGInv
<1>1. /\ call[f].pc = "look" /\ f \in Writing /\ f \notin Noted
      /\ UNCHANGED <<cp, row, hist, life, resumed, bounds, crossed, wentBack>>
  BY DEF Look, Writing, Noted
<1>2. PICK b \in BOOLEAN : b = (~row.there \/ (call[f].pos \in Finished /\ row.pos \notin Finished))
  OBVIOUS
<1>3. call' = [call EXCEPT ![f].pc = "put", ![f].note = b]
  BY <1>2 DEF Look
<1>4. /\ call' \in [Flushers -> [pc: FlushPcs, pos: Positions, note: BOOLEAN]]
      /\ call'[f].pc = "put" /\ call'[f].pos = call[f].pos /\ call'[f].note = b
      /\ \A g \in Flushers \ {f} : call'[g] = call[g]
      /\ Writing' = Writing /\ Noted' = Noted
  <2>1. PICK r \in [pc: FlushPcs, pos: Positions, note: BOOLEAN] :
           r = [call[f] EXCEPT !.pc = "put", !.note = b]
    BY <1>0, PGTypes, FlushPcNames
  <2>2. r.pc = "put" /\ r.pos = call[f].pos /\ r.note = b
    BY <1>0, <2>1, PGTypes
  <2>3. call' = [call EXCEPT ![f] = [call[f] EXCEPT !.pc = "put", !.note = b]]
    BY <1>0, <1>3, PGTypes
  <2>4. call' = [call EXCEPT ![f] = r]
    BY <2>1, <2>3
  <2>5. /\ call' \in [Flushers -> [pc: FlushPcs, pos: Positions, note: BOOLEAN]]
        /\ call'[f] = r /\ \A g \in Flushers \ {f} : call'[g] = call[g]
        /\ r.pc \in {"look", "put"} => Writing' = Writing \cup {f}
        /\ r.pc # "note" => Noted' = Noted \ {f}
    BY <1>0, <2>4, CallMoves
  <2> QED
    BY <1>1, <2>2, <2>5
<1>5. PGTypeOK'
  BY <1>0, <1>1, <1>4 DEF PGTypeOK
<1>6. OneFlush'
  <2>1. \A g \in Flushers : call'[g].pos = call[g].pos
    BY <1>4
  <2>2. \A g \in Flushers : ~crossed /\ call'[g].pc = "put" /\ call'[g].note =>
             ~row.there \/ (call'[g].pos \in Finished /\ row.pos \notin Finished)
    BY <1>2, <1>4 DEF PGInv, OneFlush
  <2> QED
    BY <2>1, <2>2, <1>1, <1>4 DEF PGInv, OneFlush, Writing
<1>7. Reported' /\ ResumesWhereStopped' /\ Entries'
  BY <1>1, <1>4 DEF PGInv, Reported, ResumesWhereStopped, Entries, Due
<1>8. KillFlushes'
  <2>1. f # "kill" => call'["kill"] = call["kill"]
    BY <1>4, <1>0, PGTypes
  <2> QED
    BY <2>1, <1>1, <1>4 DEF PGInv, KillFlushes
<1> QED
  BY <1>5, <1>6, <1>7, <1>8 DEF PGInv

\* The row is written.
LEMMA UpsertInv == ASSUME PGInv, NEW f \in Flushers, Upsert(f) PROVE PGInv'
<1>0. PGTypeOK
  BY DEF PGInv
<1>1. /\ call[f].pc = "put" /\ f \in Writing /\ f \notin Noted
      /\ row' = [there |-> TRUE, pos |-> call[f].pos]
      /\ wentBack' = (wentBack \/ (row.pos \in Finished /\ call[f].pos \notin Finished))
      /\ UNCHANGED <<cp, hist, life, resumed, bounds, crossed>>
  BY DEF Upsert, Writing, Noted
<1>2. PICK q \in {"note", "idle"} : q = IF call[f].note THEN "note" ELSE "idle"
  OBVIOUS
<1>3. call' = [call EXCEPT ![f].pc = q]
  BY <1>2 DEF Upsert
<1>4. /\ call' \in [Flushers -> [pc: FlushPcs, pos: Positions, note: BOOLEAN]]
      /\ call'[f].pc = q /\ call'[f].pos = call[f].pos
      /\ \A g \in Flushers \ {f} : call'[g] = call[g]
      /\ Writing' = Writing \ {f} /\ Noted' = IF q = "note" THEN Noted \cup {f} ELSE Noted
  <2>1. q \in FlushPcs
    BY FlushPcNames
  <2>2. /\ call' \in [Flushers -> [pc: FlushPcs, pos: Positions, note: BOOLEAN]]
        /\ call'[f].pc = q /\ call'[f].pos = call[f].pos
        /\ \A g \in Flushers \ {f} : call'[g] = call[g]
        /\ q \notin {"look", "put"} => Writing' = Writing \ {f}
        /\ q = "note" => Noted' = Noted \cup {f}
        /\ q # "note" => Noted' = Noted \ {f}
    BY <1>0, <1>3, <2>1, CallPc
  <2> QED
    BY <2>2, <1>1, <1>2
<1>5. PGTypeOK'
  <2>1. row' \in [there: BOOLEAN, pos: Positions] /\ wentBack' \in BOOLEAN
    BY <1>0, <1>1, PGTypes DEF PGTypeOK
  <2> QED
    BY <2>1, <1>0, <1>1, <1>4 DEF PGTypeOK
<1>6. OneFlush'
  <2> SUFFICES ASSUME ~crossed' PROVE OneFlush'
    BY DEF OneFlush
  <2>1. Writing = {f} /\ call[f].pos = cp.stored
    BY <1>1 DEF PGInv, OneFlush
  <2>2. Writing' = {} /\ row'.pos = cp'.stored
    BY <2>1, <1>1, <1>4
  <2>3. \A g \in Flushers : call'[g].pc # "put"
    BY <2>2 DEF Writing
  <2> QED
    BY <2>2, <2>3 DEF OneFlush
<1>7. Reported' /\ ResumesWhereStopped'
  BY <1>1 DEF PGInv, Reported, ResumesWhereStopped
<1>8. KillFlushes'
  <2>1. f # "kill" => call'["kill"] = call["kill"]
    BY <1>4, <1>0, PGTypes
  <2> QED
    BY <2>1, <1>1, <1>4 DEF PGInv, KillFlushes
<1>9. Entries'
  <2> SUFFICES ASSUME ~crossed', ~wentBack' PROVE hist' + Cardinality(Noted') <= Due'
    BY DEF Entries
  <2>0. hist + Cardinality(Noted) <= Due /\ Cardinality(Noted) \in Nat /\ hist \in Nat /\ ~crossed
    BY <1>0, <1>1, PGTypes, NotedCount DEF PGInv, Entries
  <2>1. row'.there = TRUE /\ row'.pos = call[f].pos
    BY <1>1
  <2>2. CASE ~call[f].note
    <3>1. Noted' = Noted
      BY <2>2, <1>2, <1>4
    <3>2. row.pos \in Finished => row'.pos \in Finished
      BY <1>1
    <3>3. Due <= Due'
      BY <3>2, <2>1 DEF Due
    <3> QED
      BY <2>0, <3>1, <3>3, <1>1 DEF Due
  <2>3. CASE call[f].note
    <3>1. Noted' = Noted \cup {f} /\ Cardinality(Noted') = Cardinality(Noted) + 1
      BY <2>3, <1>0, <1>1, <1>2, <1>4, NotedCount
    <3>2. ~row.there \/ (call[f].pos \in Finished /\ row.pos \notin Finished)
      BY <2>0, <2>3, <1>1 DEF PGInv, OneFlush
    <3>3. Due + 1 <= Due'
      BY <2>1, <3>2 DEF Due
    <3> QED
      BY <2>0, <3>1, <3>3, <1>1 DEF Due
  <2> QED
    BY <2>2, <2>3, <1>0, PGTypes
<1> QED
  BY <1>5, <1>6, <1>7, <1>8, <1>9 DEF PGInv

\* The write fails.
LEMMA PutErrorInv == ASSUME PGInv, NEW f \in Flushers, PutError(f) PROVE PGInv'
<1>0. PGTypeOK
  BY DEF PGInv
<1>1. /\ call[f].pc = "put" /\ f \in Writing /\ f \notin Noted
      /\ call' = [call EXCEPT ![f].pc = "idle"]
      /\ UNCHANGED <<row, hist, life, resumed, crossed, wentBack>>
  BY DEF PutError, Writing, Noted
<1>2. /\ bounds' \in [reports: 0 .. MaxReports, faults: 0 .. MaxFaults] /\ bounds'.faults # 0
      /\ bounds'.reports = bounds.reports
  <2>1. /\ bounds \in [reports: 0 .. MaxReports, faults: 0 .. MaxFaults] /\ bounds.faults + 1 \in 0 .. MaxFaults
        /\ bounds.faults \in Nat /\ bounds' = [bounds EXCEPT !.faults = bounds.faults + 1]
    BY <1>0, PGTypes DEF PutError, PGTypeOK
  <2> QED
    BY <2>1
<1>3. /\ cp' \in [pos: Positions, stored: Positions, first: BOOLEAN, due: BOOLEAN, dirty: BOOLEAN]
      /\ cp'.dirty = TRUE /\ cp'.stored = cp.stored /\ cp'.pos = cp.pos
  BY <1>0 DEF PutError, PGTypeOK
<1>4. /\ call' \in [Flushers -> [pc: FlushPcs, pos: Positions, note: BOOLEAN]]
      /\ call'[f].pc = "idle" /\ \A g \in Flushers \ {f} : call'[g] = call[g]
      /\ Writing' = Writing \ {f} /\ Noted' = Noted
  <2>1. "idle" \in FlushPcs
    BY FlushPcNames
  <2>2. /\ call' \in [Flushers -> [pc: FlushPcs, pos: Positions, note: BOOLEAN]]
        /\ call'[f].pc = "idle" /\ \A g \in Flushers \ {f} : call'[g] = call[g]
        /\ Writing' = Writing \ {f} /\ Noted' = Noted \ {f}
    BY <1>0, <1>1, <2>1, CallPc
  <2> QED
    BY <2>2, <1>1
<1>5. PGTypeOK'
  BY <1>0, <1>1, <1>2, <1>3, <1>4 DEF PGTypeOK
<1>6. OneFlush'
  BY <1>1, <1>3, <1>4 DEF PGInv, OneFlush, Writing
<1>7. Reported' /\ ResumesWhereStopped' /\ Entries'
  BY <1>1, <1>2, <1>3, <1>4 DEF PGInv, Reported, ResumesWhereStopped, Entries, Due
<1>8. KillFlushes'
  <2>1. life = "playing" => call'["kill"] = call["kill"]
    BY <1>0, <1>1, <1>4, PGTypes DEF PGInv, KillFlushes
  <2> QED
    BY <2>1, <1>1, <1>2 DEF PGInv, KillFlushes
<1> QED
  BY <1>5, <1>6, <1>7, <1>8 DEF PGInv

\* The entry of the history.
LEMMA NoteInv == ASSUME PGInv, NEW f \in Flushers, Note(f) PROVE PGInv'
<1>0. PGTypeOK
  BY DEF PGInv
<1>1. /\ call[f].pc = "note" /\ f \notin Writing /\ f \in Noted /\ hist' = hist + 1
      /\ call' = [call EXCEPT ![f].pc = "idle"]
      /\ UNCHANGED <<cp, row, life, resumed, bounds, crossed, wentBack>>
  BY DEF Note, Writing, Noted
<1>4. /\ call' \in [Flushers -> [pc: FlushPcs, pos: Positions, note: BOOLEAN]]
      /\ call'[f].pc = "idle" /\ \A g \in Flushers \ {f} : call'[g] = call[g]
      /\ Writing' = Writing /\ Noted' = Noted \ {f}
  <2>1. "idle" \in FlushPcs
    BY FlushPcNames
  <2>2. /\ call' \in [Flushers -> [pc: FlushPcs, pos: Positions, note: BOOLEAN]]
        /\ call'[f].pc = "idle" /\ \A g \in Flushers \ {f} : call'[g] = call[g]
        /\ Writing' = Writing \ {f} /\ Noted' = Noted \ {f}
    BY <1>0, <1>1, <2>1, CallPc
  <2> QED
    BY <2>2, <1>1
<1>5. PGTypeOK'
  BY <1>0, <1>1, <1>4 DEF PGTypeOK
<1>6. OneFlush'
  BY <1>1, <1>4 DEF PGInv, OneFlush, Writing
<1>7. Reported' /\ ResumesWhereStopped'
  BY <1>1 DEF PGInv, Reported, ResumesWhereStopped
<1>8. Entries'
  <2>1. /\ Cardinality(Noted') = Cardinality(Noted) - 1 /\ Cardinality(Noted) \in Nat /\ hist \in Nat
        /\ Due' = Due
    BY <1>0, <1>1, <1>4, NotedCount, PGTypes DEF Due
  <2>2. hist' + Cardinality(Noted') = hist + Cardinality(Noted)
    BY <2>1, <1>1
  <2> QED
    BY <2>1, <2>2, <1>1 DEF PGInv, Entries
<1>9. KillFlushes'
  <2>1. life = "playing" => call'["kill"] = call["kill"]
    BY <1>0, <1>1, <1>4, PGTypes DEF PGInv, KillFlushes
  <2>2. call["kill"].pc = "take" => call'["kill"].pc = "take"
    BY <1>0, <1>1, <1>4, PGTypes
  <2> QED
    BY <2>1, <2>2, <1>1, <1>4 DEF PGInv, KillFlushes
<1> QED
  BY <1>5, <1>6, <1>7, <1>8, <1>9 DEF PGInv

\* The next session reads where to start.
LEMMA ResumeInv == ASSUME PGInv, Resume PROVE PGInv'
<1>0. PGTypeOK
  BY DEF PGInv
<1>1. /\ life = "killed" /\ call["kill"].pc = "idle" /\ life' = "next"
      /\ resumed' = IF row.pos \in Resumable \ Finished THEN row.pos ELSE 0
      /\ UNCHANGED <<cp, row, hist, call, bounds, crossed, wentBack>>
  BY DEF Resume
<1>2. resumed' \in Positions
  BY <1>0, <1>1, PGTypes
<1>3. PGTypeOK'
  BY <1>0, <1>1, <1>2 DEF PGTypeOK
<1>4. OneFlush' /\ Reported' /\ Entries' /\ KillFlushes'
  BY <1>1 DEF PGInv, OneFlush, Reported, Entries, Due, KillFlushes, Writing, Noted
<1>5. ResumesWhereStopped'
  <2> SUFFICES ASSUME ~crossed, bounds.faults = 0, bounds.reports > 0
               PROVE  row.pos = cp.pos
    BY <1>1 DEF ResumesWhereStopped
  <2>1. ~cp.dirty /\ Writing = {}
    BY <1>1 DEF PGInv, KillFlushes, Writing
  <2>2. cp.stored = cp.pos /\ ~cp.first
    BY <2>1, <1>0, PGTypes DEF PGInv, Reported
  <2> QED
    BY <2>1, <2>2 DEF PGInv, OneFlush
<1> QED
  BY <1>3, <1>4, <1>5 DEF PGInv

\* Every step keeps the invariant.
LEMMA PGNextInv == PGInv /\ [PGNext]_pgVars => PGInv'
<1> SUFFICES ASSUME PGInv, [PGNext]_pgVars PROVE PGInv'
  OBVIOUS
<1>1. CASE \E h \in Handlers, event \in Events, p \in Positions : Report(h, event, p)
  BY <1>1, ReportInv
<1>2. CASE Minute \/ KillSession \/ Resume
  BY <1>2, MinuteInv, KillSessionInv, ResumeInv
<1>3. CASE \E f \in Flushers : Take(f) \/ Look(f) \/ Upsert(f) \/ PutError(f) \/ Note(f)
  BY <1>3, TakeInv, LookInv, UpsertInv, PutErrorInv, NoteInv
<1>4. CASE UNCHANGED pgVars
  BY <1>4 DEF pgVars, PGInv, PGTypeOK, OneFlush, Reported, KillFlushes, Entries, Due, ResumesWhereStopped, Writing, Noted
<1> QED
  BY <1>1, <1>2, <1>3, <1>4 DEF PGNext

\* What the invariant says of the position and the history.
LEMMA PGInvSafe == PGInv => ProgressSafe
<1> SUFFICES ASSUME PGInv PROVE ProgressSafe
  OBVIOUS
<1>0. PGTypeOK
  BY DEF PGInv
<1>1. HistoryOnceEach
  <2> SUFFICES ASSUME ~crossed, ~wentBack PROVE hist <= 2
    BY DEF HistoryOnceEach
  <2>1. hist + Cardinality(Noted) <= Due /\ Cardinality(Noted) \in Nat /\ hist \in Nat
    BY <1>0, NotedCount, PGTypes DEF PGInv, Entries
  <2>2. Due \in {0, 1, 2}
    BY DEF Due
  <2> QED
    BY <2>1, <2>2
<1>2. NothingForgotten
  BY DEF PGInv, OneFlush, NothingForgotten, Writing
<1> QED
  BY <1>0, <1>1, <1>2 DEF PGInv, ProgressSafe

\* A viewer's position and history hold for any number of requests, positions,
\* reports and failing writes: the session that replaces another starts where
\* the viewer stopped and the history has one entry for the start and one for
\* the finish, unless two flushes were in flight at once; and a position is
\* written or still marked dirty.
THEOREM ProgressIsSafe == PGSpec => []ProgressSafe
BY PGInitInv, PGNextInv, PGInvSafe, PTL DEF PGSpec

-----------------------------------------------------------------------------
(* The fixed timeline.                                                     *)

\* Every set of numbers that is not empty has a least one: induction over
\* data, where the prover can do it.
LEMMA LeastOf ==
    ASSUME NEW T, T \subseteq Nat, T # {}
    PROVE  \E j \in T : \A i \in T : j <= i
<1>1. PICK j \in T : \A i \in T : ~(<<i, j>> \in OpToRel(<, Nat))
  BY NatLessThanWellFounded, WFMin
<1>2. \A i \in T : ~(i < j)  BY <1>1 DEF OpToRel
<1> QED BY <1>2

\* The next cut is later, until the end.
Advances(next, dur) ==
    /\ next \in [0 .. dur -> 0 .. dur] /\ next[dur] = dur
    /\ \A t \in 0 .. dur - 1 : t < next[t]

\* A timeline from 0 to dur, and one that was cut by a rule.
Spans(cs, dur) ==
    /\ cs \in Seq(0 .. dur) /\ Len(cs) >= 2 /\ cs[1] = 0 /\ cs[Len(cs)] = dur
    /\ \A i \in 1 .. Len(cs) - 1 : cs[i] < dur /\ cs[i] < cs[i + 1]
CutBy(cs, next) == \A i \in 1 .. Len(cs) - 1 : cs[i + 1] = next[cs[i]]

\* The cuts one after the other.
CutsOf(next, dur, at) == at = [n \in 0 .. dur |-> IF n = 0 THEN 0 ELSE next[at[n - 1]]]

\* The function CutsFrom recurses over is there, by the least bound for which
\* it would not be.
LEMMA CutsDefined ==
    ASSUME NEW next, NEW dur \in Nat
    PROVE  \E at : CutsOf(next, dur, at)
<1> DEFINE Cut(f, n) == IF n = 0 THEN 0 ELSE next[f[n - 1]]
           Cuts(m, f) == f = [n \in 0 .. m |-> Cut(f, n)]
           T == {m \in Nat : ~ \E f : Cuts(m, f)}
<1>1. CASE T = {}
  <2>1. \E f : Cuts(dur, f)  BY <1>1
  <2> QED BY <2>1 DEF CutsOf
<1>2. CASE T # {}
  <2>1. T \subseteq Nat  OBVIOUS
  <2>2. PICK m \in T : \A i \in T : m <= i
    <3> HIDE DEF T
    <3> QED BY <1>2, <2>1, LeastOf
  <2>3. CASE m = 0
    <3>1. Cuts(0, [n \in 0 .. 0 |-> 0])  OBVIOUS
    <3> QED BY <2>2, <2>3, <3>1
  <2>4. CASE m # 0
    <3>1. m \in Nat /\ m - 1 \in Nat /\ ~(m <= m - 1)  BY <2>1, <2>2, <2>4
    <3>2. PICK f : Cuts(m - 1, f)  BY <2>2, <3>1
    <3> DEFINE g == [n \in 0 .. m |-> IF n = m THEN Cut(f, m) ELSE f[n]]
    <3>3. \A n \in 0 .. m - 1 : f[n] = Cut(f, n) /\ g[n] = f[n]
      <4> HIDE DEF Cut
      <4>1. \A n \in 0 .. m - 1 : n \in 0 .. m /\ n # m  BY <3>1
      <4> QED BY <3>2, <4>1
    <3>4. ASSUME NEW n \in 0 .. m PROVE g[n] = Cut(g, n)
      <4>1. CASE n = 0
        <5>1. 0 \in 0 .. m - 1  BY <3>1
        <5>2. g[0] = Cut(f, 0)
          <6> HIDE DEF g, Cut
          <6> QED BY <3>3, <5>1
        <5> QED BY <4>1, <5>2
      <4>2. CASE n # 0
        <5>1. n - 1 \in 0 .. m - 1 /\ g[n - 1] = f[n - 1]  BY <3>1, <3>3, <4>2
        <5>2. Cut(g, n) = Cut(f, n)  BY <5>1
        <5>3. g[n] = Cut(f, n)
          <6> HIDE DEF Cut
          <6>1. CASE n = m  BY <6>1
          <6>2. CASE n # m
            <7>1. n \in 0 .. m - 1  BY <3>1, <6>2
            <7> QED BY <3>3, <7>1
          <6> QED BY <6>1, <6>2
        <5> QED BY <5>2, <5>3
      <4> QED BY <4>1, <4>2
    <3>5. Cuts(m, g)
      <4> HIDE DEF Cut
      <4> QED BY <3>4
    <3> QED BY <2>2, <3>5
  <2> QED BY <2>3, <2>4
<1> QED BY <1>1, <1>2

\* What CutsFrom gives: from 0 to the end, each cut the next of the one before.
LEMMA CutsAre ==
    ASSUME NEW dur \in Nat \ {0}, NEW next, Advances(next, dur)
    PROVE  Spans(CutsFrom(next, dur), dur) /\ CutBy(CutsFrom(next, dur), next)
<1> DEFINE at == CHOOSE f : CutsOf(next, dur, f)
           count == Cardinality({n \in 0 .. dur : at[n] < dur})
           cs == [i \in 1 .. count + 1 |-> at[i - 1]]
<1>0. next \in [0 .. dur -> 0 .. dur] /\ next[dur] = dur /\ \A t \in 0 .. dur - 1 : t < next[t]
  BY DEF Advances
<1>1. at = [n \in 0 .. dur |-> IF n = 0 THEN 0 ELSE next[at[n - 1]]]
  <2>1. dur \in Nat  OBVIOUS
  <2>2. CutsOf(next, dur, at)  BY <2>1, CutsDefined, Zenon
  <2> HIDE DEF at
  <2> QED BY <2>2 DEF CutsOf
<1>2. CutsFrom(next, dur) = cs  BY DEF CutsFrom, CutsOf
<1> HIDE DEF at
<1>3. at[0] = 0 /\ \A n \in 1 .. dur : at[n] = next[at[n - 1]]
  <2>1. \A n \in 0 .. dur : at[n] = IF n = 0 THEN 0 ELSE next[at[n - 1]]  BY <1>1
  <2> QED BY <2>1
<1>4. \A n \in 0 .. dur : at[n] \in 0 .. dur /\ (at[n] = dur \/ at[n] >= n)
  <2> DEFINE Far(n) == at[n] \in 0 .. dur /\ (at[n] = dur \/ at[n] >= n)
             T == {n \in 0 .. dur : ~Far(n)}
  <2> SUFFICES ASSUME T # {} PROVE FALSE  OBVIOUS
  <2>1. T \subseteq Nat  OBVIOUS
  <2>2. PICK n \in T : \A i \in T : n <= i
    <3> HIDE DEF T
    <3> QED BY <2>1, LeastOf
  <2>3. n # 0  BY <1>3, <2>2
  <2>4. n \in 1 .. dur /\ n - 1 \in 0 .. dur /\ ~(n <= n - 1)  BY <2>2, <2>3
  <2>5. Far(n - 1)
    <3> HIDE DEF Far
    <3> QED BY <2>2, <2>4
  <2>6. at[n] = next[at[n - 1]]  BY <1>3, <2>4
  <2>7. Far(n)
    <3>1. CASE at[n - 1] = dur  BY <1>0, <2>6, <3>1
    <3>2. CASE at[n - 1] # dur
      <4>1. at[n - 1] \in 0 .. dur - 1 /\ at[n - 1] >= n - 1  BY <2>5, <3>2
      <4>2. at[n - 1] < next[at[n - 1]]  BY <1>0, <4>1
      <4>3. next[at[n - 1]] \in 0 .. dur
        <5>1. at[n - 1] \in 0 .. dur  BY <2>5
        <5> QED BY <1>0, <5>1, Zenon
      <4> QED BY <2>4, <2>6, <4>1, <4>2, <4>3
    <3> QED BY <3>1, <3>2
  <2> QED BY <2>2, <2>7
<1>5. at[dur] = dur  BY <1>4
<1>6. PICK m \in 1 .. dur : at[m] = dur /\ \A n \in 0 .. m - 1 : at[n] # dur
  <2> DEFINE T == {n \in 0 .. dur : at[n] = dur}
  <2>1. T \subseteq Nat /\ T # {}  BY <1>5
  <2>2. PICK m \in T : \A i \in T : m <= i
    <3> HIDE DEF T
    <3> QED BY <2>1, LeastOf
  <2>3. m # 0  BY <1>3, <2>2
  <2> QED BY <2>2, <2>3
<1>7. \A n \in m .. dur : at[n] = dur
  <2> DEFINE T == {n \in m .. dur : at[n] # dur}
  <2> SUFFICES ASSUME T # {} PROVE FALSE  OBVIOUS
  <2>1. T \subseteq Nat  OBVIOUS
  <2>2. PICK n \in T : \A i \in T : n <= i
    <3> HIDE DEF T
    <3> QED BY <2>1, LeastOf
  <2>3. n # m  BY <1>6, <2>2
  <2>4. n \in 1 .. dur /\ n - 1 \in m .. dur /\ ~(n <= n - 1)  BY <2>2, <2>3
  <2>5. at[n - 1] = dur  BY <2>2, <2>4
  <2> QED BY <1>0, <1>3, <2>2, <2>4, <2>5
<1>8. count = m
  <2>1. \A n \in 0 .. dur : (at[n] < dur) <=> n \in 0 .. m - 1
    <3> SUFFICES ASSUME NEW n \in 0 .. dur PROVE (at[n] < dur) <=> n \in 0 .. m - 1  OBVIOUS
    <3>1. CASE n \in 0 .. m - 1  BY <1>4, <1>6, <3>1
    <3>2. CASE n \notin 0 .. m - 1
      <4>1. n \in m .. dur  BY <3>2
      <4> QED BY <1>7, <3>2, <4>1
    <3> QED BY <3>1, <3>2
  <2>2. {n \in 0 .. dur : at[n] < dur} = 0 .. m - 1  BY <2>1
  <2>3. Cardinality(0 .. m - 1) = m  BY FS_Interval
  <2> QED BY <2>2, <2>3
<1>9. cs = [i \in 1 .. m + 1 |-> at[i - 1]]  BY <1>8
<1> HIDE DEF cs
<1>10. \A i \in 1 .. m + 1 : cs[i] = at[i - 1] /\ i - 1 \in 0 .. dur  BY <1>9
<1>11. cs \in Seq(0 .. dur) /\ Len(cs) = m + 1
  <2>1. cs \in [1 .. m + 1 -> 0 .. dur]  BY <1>4, <1>9
  <2>2. m + 1 \in Nat  OBVIOUS
  <2>3. cs \in Seq(0 .. dur)  BY <2>1, <2>2, SeqDef
  <2>4. DOMAIN cs = 1 .. m + 1 /\ DOMAIN cs = 1 .. Len(cs) /\ Len(cs) \in Nat
    BY <2>1, <2>3, LenProperties
  <2> QED BY <2>3, <2>4
<1>12. cs[1] = 0 /\ cs[m + 1] = dur  BY <1>3, <1>6, <1>10
<1>13. ASSUME NEW i \in 1 .. m PROVE cs[i] < dur /\ cs[i + 1] = next[cs[i]] /\ cs[i] < cs[i + 1]
  <2>1. i - 1 \in 0 .. m - 1 /\ i \in 1 .. dur /\ i \in 1 .. m + 1 /\ i + 1 \in 1 .. m + 1
    OBVIOUS
  <2>2. cs[i] = at[i - 1] /\ cs[i + 1] = at[i]  BY <1>10, <2>1
  <2>3. at[i - 1] \in 0 .. dur - 1
    <3>1. at[i - 1] # dur  BY <1>6, <2>1
    <3>2. at[i - 1] \in 0 .. dur  BY <1>4, <2>1
    <3> QED BY <3>1, <3>2
  <2>4. at[i] = next[at[i - 1]]  BY <1>3, <2>1
  <2> QED BY <1>0, <2>2, <2>3, <2>4
<1>14. Spans(cs, dur)  BY <1>11, <1>12, <1>13 DEF Spans
<1>15. CutBy(cs, next)  BY <1>11, <1>13 DEF CutBy
<1> QED BY <1>2, <1>14, <1>15

\* IndexForMS finds the slot that holds the position.
LEMMA SlotFound ==
    ASSUME NEW dur \in Nat \ {0}, Spans(cuts, dur), NEW t \in 0 .. dur
    PROVE  LET n == IndexForMS(t) IN
           n \in 0 .. Len(cuts) - 2 /\ cuts[n + 1] <= t /\ (t < dur => t < cuts[n + 2])
<1> DEFINE begun == {i \in PlanSlots : cuts[i] <= t}
<1>0. /\ Len(cuts) \in Nat /\ Len(cuts) >= 2 /\ \A i \in 1 .. Len(cuts) : cuts[i] \in 0 .. dur
      /\ cuts[1] = 0 /\ cuts[Len(cuts)] = dur
      /\ \A i \in 1 .. Len(cuts) - 1 : cuts[i] < dur /\ cuts[i] < cuts[i + 1]
  BY LenProperties, ElementOfSeq DEF Spans
<1>1. PICK m \in 2 .. Len(cuts) : /\ m = Len(cuts) \/ cuts[m] > t
                                  /\ \A i \in 1 .. m - 1 : cuts[i] <= t
  <2> DEFINE T == {i \in 1 .. Len(cuts) : i = Len(cuts) \/ cuts[i] > t}
  <2>1. T \subseteq Nat /\ T # {}  BY <1>0
  <2>2. PICK m \in T : \A i \in T : m <= i
    <3> HIDE DEF T
    <3> QED BY <2>1, LeastOf
  <2>3. m # 1  BY <1>0, <2>2
  <2>4. \A i \in 1 .. m - 1 : cuts[i] <= t
    <3> SUFFICES ASSUME NEW i \in 1 .. m - 1 PROVE cuts[i] <= t  OBVIOUS
    <3>1. i \in 1 .. Len(cuts) /\ ~(m <= i)  BY <1>0, <2>2
    <3>2. i \notin T
      <4> HIDE DEF T
      <4> QED BY <2>2, <3>1
    <3> QED BY <1>0, <3>1, <3>2
  <2> QED BY <1>0, <2>2, <2>3, <2>4
<1>2. \A j \in m .. Len(cuts) - 1 : cuts[j] > t
  <2> DEFINE T == {j \in m .. Len(cuts) - 1 : ~(cuts[j] > t)}
  <2> SUFFICES ASSUME T # {} PROVE FALSE  OBVIOUS
  <2>1. T \subseteq Nat  BY <1>0
  <2>2. PICK j \in T : \A i \in T : j <= i
    <3> HIDE DEF T
    <3> QED BY <2>1, LeastOf
  <2>3. j # m  BY <1>0, <1>1, <2>2
  <2>4. j - 1 \in m .. Len(cuts) - 1 /\ ~(j <= j - 1) /\ j - 1 \in 1 .. Len(cuts) - 1 /\ j \in 1 .. Len(cuts)
    BY <1>0, <1>1, <2>2, <2>3
  <2>5. cuts[j - 1] > t  BY <2>2, <2>4
  <2>6. cuts[j - 1] < cuts[(j - 1) + 1] /\ (j - 1) + 1 = j  BY <1>0, <2>4
  <2>7. cuts[j - 1] \in Int /\ cuts[j] \in Int /\ t \in Int
    <3>1. j - 1 \in 1 .. Len(cuts)  BY <1>0, <2>4
    <3> QED BY <1>0, <2>4, <3>1
  <2> QED BY <2>2, <2>5, <2>6, <2>7
<1>3. begun = 1 .. m - 1
  <2>1. \A i \in 1 .. Len(cuts) - 1 : (cuts[i] <= t) <=> i \in 1 .. m - 1
    <3> SUFFICES ASSUME NEW i \in 1 .. Len(cuts) - 1 PROVE (cuts[i] <= t) <=> i \in 1 .. m - 1
      OBVIOUS
    <3>1. CASE i \in 1 .. m - 1  BY <1>1, <3>1
    <3>2. CASE i \notin 1 .. m - 1
      <4>1. i \in m .. Len(cuts) - 1 /\ i \in 1 .. Len(cuts)  BY <1>0, <1>1, <3>2
      <4>2. cuts[i] > t /\ cuts[i] \in Int  BY <1>0, <1>2, <4>1
      <4> QED BY <3>2, <4>2
    <3> QED BY <3>1, <3>2
  <2>2. 1 .. m - 1 \subseteq 1 .. Len(cuts) - 1  BY <1>0, <1>1
  <2> QED BY <2>1, <2>2 DEF PlanSlots
<1>4. Cardinality(1 .. m - 1) = m - 1 /\ 1 .. m - 1 # {}
  <2>1. 1 \in 1 .. m - 1  BY <1>1
  <2>2. m - 1 \in Int /\ 1 \in Int /\ ~(1 > m - 1)  BY <1>1
  <2>3. Cardinality(1 .. m - 1) = (m - 1) - 1 + 1  BY <2>2, FS_Interval
  <2>4. (m - 1) - 1 + 1 = m - 1  BY <2>2
  <2>5. Cardinality(1 .. m - 1) = m - 1  BY <2>3, <2>4, Zenon
  <2> QED BY <2>1, <2>5
<1>5. IndexForMS(t) = m - 2
  <2>1. IndexForMS(t) = IF begun = {} THEN 0 ELSE Cardinality(begun) - 1  BY DEF IndexForMS
  <2> HIDE DEF begun
  <2> QED BY <1>1, <1>3, <1>4, <2>1
<1>6. m - 2 \in 0 .. Len(cuts) - 2 /\ (m - 2) + 1 = m - 1 /\ (m - 2) + 2 = m /\ m - 1 \in 1 .. m - 1
  BY <1>0, <1>1
<1>7. cuts[m - 1] <= t  BY <1>1, <1>6
<1>8. t < dur => t < cuts[m]
  <2>1. CASE m = Len(cuts)  BY <1>0, <2>1
  <2>2. CASE m # Len(cuts)
    <3>1. cuts[m] > t /\ cuts[m] \in Int  BY <1>0, <1>1, <2>2
    <3> QED BY <3>1
  <2> QED BY <2>1, <2>2
<1> QED BY <1>5, <1>6, <1>7, <1>8

-----------------------------------------------------------------------------
(* The session.                                                            *)

FilmKinds == [dur: Nat \ {0}, keys: SUBSET Int, mode: {"remux", "audio", "video"}]

\* The rule by which ffmpeg cuts now.
CutRule == IF film.mode = "video" THEN NextStep(film, SegmentTime) ELSE NextKey(film, SegmentTime)

\* Before the plan there is nothing; then it spans the title, and a run began
\* at one of its slots. Where plan and encoder agree, the plan was made by the
\* rule ffmpeg cuts by, and ffmpeg is where its next segment begins.
HPInv ==
    /\ film \in FilmKinds /\ enc \in Encoders \cup {"cpu"} /\ fallbacks \in Nat
    /\ ffmpeg \in [on: BOOLEAN, first: Nat, at: Nat, n: Nat]
    /\ ffmpeg.first <= ffmpeg.n /\ ffmpeg.at <= film.dur
    /\ DOMAIN segments = 0 .. film.dur
    /\ cuts = <<>> => ffmpeg.on = FALSE /\ \A i \in DOMAIN segments : segments[i] = NoFile
    /\ cuts # <<>> => Spans(cuts, film.dur)
    /\ ffmpeg.on = TRUE => cuts # <<>> /\ ffmpeg.first + 1 \in PlanSlots /\ ffmpeg.at < film.dur
    /\ Agreed => /\ cuts # <<>> => CutBy(cuts, CutRule)
                 /\ SegmentsMatch
                 /\ ffmpeg.on = TRUE => ffmpeg.n + 1 \in PlanSlots /\ ffmpeg.at = cuts[ffmpeg.n + 1]

\* The next keyframe, or the end.
LEMMA NextKeyAdvances ==
    ASSUME NEW f \in FilmKinds, NEW length \in Nat
    PROVE  Advances(NextKey(f, length), f.dur)
<1> DEFINE Later(t) == {k \in f.keys : k > t /\ k >= t + length} \cup {f.dur}
           next == NextKey(f, length)
<1>1. f.dur \in Nat \ {0} /\ f.keys \subseteq Int  BY DEF FilmKinds
<1>2. next = [t \in 0 .. f.dur |-> Least(Later(t))]  BY DEF NextKey
<1>3. ASSUME NEW t \in 0 .. f.dur
      PROVE  Least(Later(t)) \in Later(t) /\ \A k \in Later(t) : Least(Later(t)) <= k
  <2>1. Later(t) \subseteq Nat /\ Later(t) # {}  BY <1>1, <1>3
  <2> HIDE DEF Later
  <2>2. \E j \in Later(t) : \A k \in Later(t) : j <= k  BY <2>1, LeastOf
  <2> QED BY <2>2 DEF Least
<1>4. ASSUME NEW t \in 0 .. f.dur
      PROVE  Least(Later(t)) \in 0 .. f.dur /\ (t < f.dur => t < Least(Later(t)))
  <2>1. f.dur \in Later(t) /\ \A k \in Later(t) : k \in Nat /\ (k = f.dur \/ t < k)
    BY <1>1, <1>4
  <2> HIDE DEF Later
  <2>2. PICK j \in Nat : j = Least(Later(t)) /\ j <= f.dur /\ (j = f.dur \/ t < j)
    BY <1>3, <2>1
  <2> QED BY <1>1, <2>2
<1>5. Least(Later(f.dur)) = f.dur
  <2>1. f.dur \in 0 .. f.dur  BY <1>1
  <2>2. \A k \in Later(f.dur) : k \in Nat /\ k >= f.dur  BY <1>1
  <2>3. f.dur \in Later(f.dur)  OBVIOUS
  <2>4. Least(Later(f.dur)) \in Later(f.dur) /\ Least(Later(f.dur)) <= f.dur
    BY <1>3, <2>1, <2>3
  <2> HIDE DEF Later
  <2> QED BY <1>1, <2>2, <2>4
<1> HIDE DEF Later, next
<1> QED BY <1>1, <1>2, <1>4, <1>5 DEF Advances, next

\* One step of the grid, or the end.
LEMMA NextStepAdvances ==
    ASSUME NEW f \in FilmKinds, NEW length \in Nat \ {0}
    PROVE  Advances(NextStep(f, length), f.dur)
<1>1. f.dur \in Nat \ {0}  BY DEF FilmKinds
<1> QED BY <1>1 DEF Advances, NextStep

\* A run cuts every two seconds or every four.
LEMMA SegmentTimes == SegmentTime \in {2, 4}
BY DEF SegmentTime

\* Whatever the rule, the next cut is later.
LEMMA RuleAdvances == ASSUME HPInv PROVE Advances(CutRule, film.dur)
<1>1. film \in FilmKinds /\ SegmentTime \in Nat \ {0}  BY SegmentTimes DEF HPInv
<1>2. CASE film.mode = "video"  BY <1>1, <1>2, NextStepAdvances DEF CutRule
<1>3. CASE film.mode # "video"  BY <1>1, <1>3, NextKeyAdvances DEF CutRule
<1> QED BY <1>2, <1>3

\* A plan that spans the title has slots.
LEMMA SpansHasSlots ==
    ASSUME NEW dur \in Nat \ {0}, NEW cs, Spans(cs, dur)
    PROVE  /\ cs # <<>> /\ Len(cs) \in Nat /\ Len(cs) >= 2
           /\ \A i \in 1 .. Len(cs) : cs[i] \in 0 .. dur
           /\ \A i \in 1 .. Len(cs) - 1 : cs[i] < dur
<1>1. Len(cs) \in Nat /\ Len(cs) >= 2 /\ \A i \in 1 .. Len(cs) : cs[i] \in 0 .. dur
  BY LenProperties, ElementOfSeq DEF Spans
<1>2. cs # <<>>  BY <1>1, EmptySeq
<1> QED BY <1>1, <1>2 DEF Spans

\* Before the plan.
LEMMA HPStarts == HPInit => HPInv
<1> SUFFICES ASSUME HPInit PROVE HPInv  OBVIOUS
<1>1. /\ film \in Films /\ enc \in Encoders /\ cuts = <<>> /\ fallbacks = 0
      /\ ffmpeg.on = FALSE /\ ffmpeg.first = 0 /\ ffmpeg.n = 0 /\ ffmpeg.at = 0
      /\ ffmpeg \in [on: BOOLEAN, first: Nat, at: Nat, n: Nat]
      /\ segments = [i \in 0 .. film.dur |-> NoFile]
  BY DEF HPInit, Off
<1>2. film \in FilmKinds /\ film.dur \in Nat \ {0}  BY <1>1, HlsPlanAssumption DEF FilmKinds
<1>3. SegmentsMatch  BY <1>1 DEF SegmentsMatch, WrittenSegments
<1> QED BY <1>1, <1>2, <1>3 DEF HPInv

\* prepareVOD plans as ffmpeg will cut.
LEMMA HPPrepared == ASSUME HPInv, Prepare PROVE HPInv'
<1> DEFINE byKeys == KeyframePlan(film, 4)
           copies == film.mode # "video" /\ byKeys # <<>>
<1>0. /\ film \in FilmKinds /\ film.dur \in Nat \ {0} /\ ffmpeg.on = FALSE
      /\ \A i \in DOMAIN segments : segments[i] = NoFile
      /\ film.mode \in {"remux", "audio", "video"}
  BY DEF HPInv, Prepare, FilmKinds
<1>1. /\ cuts = <<>> /\ UNCHANGED <<enc, ffmpeg, segments, seeks, fallbacks>>
      /\ cuts' = (IF copies THEN byKeys ELSE EqualLengthPlan(film, HlsTarget(enc)))
      /\ film' = (IF copies THEN film ELSE [film EXCEPT !.mode = "video"])
  BY DEF Prepare
<1>2. /\ film' \in FilmKinds /\ film'.dur = film.dur
      /\ Spans(cuts', film.dur) /\ (Agreed' => CutBy(cuts', CutRule'))
  <2>1. CASE copies
    <3>1. cuts' = CutsFrom(NextKey(film, 4), film.dur) /\ film' = film
      BY <1>1, <2>1 DEF KeyframePlan
    <3>2. Advances(NextKey(film, 4), film.dur)  BY <1>0, NextKeyAdvances
    <3>3. Spans(cuts', film.dur) /\ CutBy(cuts', NextKey(film, 4))  BY <1>0, <3>1, <3>2, CutsAre
    <3>4. Agreed' => CutRule' = NextKey(film, 4)
      BY <1>0, <1>1, <2>1, <3>1 DEF Agreed, CutRule, SegmentTime
    <3> QED BY <1>0, <3>1, <3>3, <3>4
  <2>2. CASE ~copies
    <3>1. cuts' = CutsFrom(NextStep(film, HlsTarget(enc)), film.dur)
          /\ film' = [film EXCEPT !.mode = "video"]
      BY <1>1, <2>2 DEF EqualLengthPlan
    <3>2. film' \in FilmKinds /\ film'.dur = film.dur /\ film'.mode = "video"
      BY <1>0, <3>1 DEF FilmKinds
    <3>3. HlsTarget(enc) \in Nat \ {0}  BY DEF HlsTarget
    <3>4. Advances(NextStep(film, HlsTarget(enc)), film.dur)  BY <1>0, <3>3, NextStepAdvances
    <3>5. Spans(cuts', film.dur) /\ CutBy(cuts', NextStep(film, HlsTarget(enc)))
      BY <1>0, <3>1, <3>4, CutsAre
    <3>6. Agreed' => SegmentTime' = HlsTarget(enc)
      BY <1>1, <3>2 DEF Agreed, SegmentTime, HlsTarget
    <3>7. Agreed' => CutRule' = NextStep(film, HlsTarget(enc))
      BY <3>2, <3>6 DEF CutRule, NextStep
    <3> QED BY <3>2, <3>5, <3>7
  <2> QED BY <2>1, <2>2
<1>3. SegmentsMatch'  BY <1>0, <1>1 DEF SegmentsMatch, WrittenSegments
<1>4. cuts' # <<>>  BY <1>0, <1>2, SpansHasSlots
<1> HIDE DEF copies, byKeys
<1> QED BY <1>0, <1>1, <1>2, <1>3, <1>4 DEF HPInv

\* A run begins at the slot of the position.
LEMMA HPSought == ASSUME HPInv, NEW t \in 0 .. film.dur, Seek(t) PROVE HPInv'
<1> DEFINE n == IndexForMS(t)
<1>0. film \in FilmKinds /\ film.dur \in Nat \ {0}  BY DEF HPInv, FilmKinds
<1>1. /\ cuts # <<>> /\ UNCHANGED <<film, enc, cuts, segments, fallbacks>>
      /\ ffmpeg' = [on |-> TRUE, first |-> n, at |-> cuts[n + 1], n |-> n]
  BY DEF Seek, StartAt, StartForIndex
<1>2. Spans(cuts, film.dur)  BY <1>1 DEF HPInv
<1>3. n \in 0 .. Len(cuts) - 2  BY <1>0, <1>2, SlotFound
<1> HIDE DEF n
<1>4. n \in Nat /\ n + 1 \in PlanSlots /\ cuts[n + 1] \in Nat /\ cuts[n + 1] < film.dur
  <2>1. Len(cuts) \in Nat /\ Len(cuts) >= 2  BY <1>0, <1>2, SpansHasSlots
  <2>2. n \in Nat /\ n + 1 \in 1 .. Len(cuts) - 1 /\ n + 1 \in 1 .. Len(cuts)  BY <1>3, <2>1
  <2> QED BY <1>0, <1>2, <2>2, SpansHasSlots DEF PlanSlots
<1>5. /\ ffmpeg' \in [on: BOOLEAN, first: Nat, at: Nat, n: Nat]
      /\ ffmpeg'.first = n /\ ffmpeg'.n = n /\ ffmpeg'.at = cuts[n + 1] /\ ffmpeg'.on = TRUE
  BY <1>1, <1>4
<1>6. Agreed' = Agreed /\ CutRule' = CutRule /\ SegmentsMatch' = SegmentsMatch /\ PlanSlots' = PlanSlots
  BY <1>1 DEF Agreed, CutRule, SegmentTime, SegmentsMatch, WrittenSegments, PlanSlots
<1> QED BY <1>0, <1>1, <1>2, <1>4, <1>5, <1>6 DEF HPInv

\* After the device failed nothing is promised but that it begins at a slot.
LEMMA HPFellBack == ASSUME HPInv, FallBack PROVE HPInv'
<1>0. /\ film \in FilmKinds /\ film.dur \in Nat \ {0} /\ fallbacks \in Nat
      /\ ffmpeg \in [on: BOOLEAN, first: Nat, at: Nat, n: Nat]
  BY DEF HPInv, FilmKinds
<1>1. /\ ffmpeg.on /\ film.mode # "remux" /\ enc' = "cpu" /\ fallbacks' = fallbacks + 1
      /\ UNCHANGED <<film, cuts, segments, seeks>>
      /\ ffmpeg' = [on |-> TRUE, first |-> ffmpeg.first, at |-> cuts[ffmpeg.first + 1], n |-> ffmpeg.first]
  BY DEF FallBack, StartAt, StartForIndex
<1>2. cuts # <<>> /\ ffmpeg.first + 1 \in PlanSlots /\ Spans(cuts, film.dur)  BY <1>1 DEF HPInv
<1>3. cuts[ffmpeg.first + 1] \in Nat /\ cuts[ffmpeg.first + 1] < film.dur
  <2>1. Len(cuts) \in Nat  BY <1>0, <1>2, SpansHasSlots
  <2>2. ffmpeg.first + 1 \in 1 .. Len(cuts) - 1 /\ ffmpeg.first + 1 \in 1 .. Len(cuts)
    BY <1>2, <2>1 DEF PlanSlots
  <2> QED BY <1>0, <1>2, <2>2, SpansHasSlots
<1>4. /\ ffmpeg' \in [on: BOOLEAN, first: Nat, at: Nat, n: Nat]
      /\ ffmpeg'.first = ffmpeg.first /\ ffmpeg'.n = ffmpeg.first
      /\ ffmpeg'.at = cuts[ffmpeg.first + 1] /\ ffmpeg'.on = TRUE
  BY <1>0, <1>1, <1>3
<1>5. ~Agreed'  BY <1>0, <1>1 DEF Agreed
<1>6. PlanSlots' = PlanSlots  BY <1>1 DEF PlanSlots
<1> QED BY <1>0, <1>1, <1>2, <1>3, <1>4, <1>5, <1>6 DEF HPInv

\* ffmpeg cuts where the next slot begins.
LEMMA HPWrote == ASSUME HPInv, WriteSegment PROVE HPInv'
<1> DEFINE end == CutRule[ffmpeg.at]
<1>0. /\ film \in FilmKinds /\ film.dur \in Nat \ {0}
      /\ ffmpeg \in [on: BOOLEAN, first: Nat, at: Nat, n: Nat]
      /\ ffmpeg.first \in Nat /\ ffmpeg.n \in Nat /\ ffmpeg.at \in Nat /\ ffmpeg.first <= ffmpeg.n
      /\ DOMAIN segments = 0 .. film.dur
  BY DEF HPInv, FilmKinds
<1>1. /\ ffmpeg.on = TRUE /\ UNCHANGED <<film, enc, cuts, seeks, fallbacks>>
      /\ segments' = [segments EXCEPT ![ffmpeg.n] = <<ffmpeg.at, end>>]
      /\ ffmpeg' = (IF end = film.dur THEN Off ELSE [ffmpeg EXCEPT !.at = end, !.n = @ + 1])
  BY <1>0 DEF WriteSegment, CutRule
<1>2. cuts # <<>> /\ ffmpeg.first + 1 \in PlanSlots /\ ffmpeg.at < film.dur /\ Spans(cuts, film.dur)
  BY <1>1 DEF HPInv
<1>3. end \in 0 .. film.dur /\ ffmpeg.at < end
  <2>1. ffmpeg.at \in 0 .. film.dur - 1 /\ ffmpeg.at \in 0 .. film.dur  BY <1>0, <1>2
  <2>2. /\ CutRule \in [0 .. film.dur -> 0 .. film.dur]
        /\ \A t \in 0 .. film.dur - 1 : t < CutRule[t]
    BY RuleAdvances DEF Advances
  <2>3. CutRule[ffmpeg.at] \in 0 .. film.dur  BY <2>1, <2>2, Zenon
  <2> QED BY <2>1, <2>2, <2>3
<1>4. /\ Len(cuts) \in Nat /\ Len(cuts) >= 2 /\ cuts[Len(cuts)] = film.dur
      /\ \A i \in 1 .. Len(cuts) - 1 : cuts[i] < film.dur
  BY <1>0, <1>2, SpansHasSlots DEF Spans
<1>5. /\ ffmpeg' \in [on: BOOLEAN, first: Nat, at: Nat, n: Nat]
      /\ ffmpeg'.first <= ffmpeg'.n /\ ffmpeg'.at <= film.dur
      /\ ffmpeg'.on = TRUE => /\ end # film.dur /\ ffmpeg'.first = ffmpeg.first /\ ffmpeg'.at = end
                              /\ ffmpeg'.n = ffmpeg.n + 1 /\ ffmpeg'.at < film.dur
  <2> HIDE DEF end
  <2>1. CASE end = film.dur
    <3>1. ffmpeg' = Off  BY <1>1, <2>1
    <3> QED BY <1>0, <3>1 DEF Off
  <2>2. CASE end # film.dur
    <3>1. ffmpeg' = [ffmpeg EXCEPT !.at = end, !.n = @ + 1]  BY <1>1, <2>2
    <3>2. end \in Nat /\ end <= film.dur /\ end < film.dur  BY <1>0, <1>3, <2>2
    <3>3. /\ ffmpeg' \in [on: BOOLEAN, first: Nat, at: Nat, n: Nat]
          /\ ffmpeg'.first = ffmpeg.first /\ ffmpeg'.at = end /\ ffmpeg'.n = ffmpeg.n + 1
      <4>1. PICK k \in Nat : k = ffmpeg.n + 1  BY <1>0
      <4>2. ffmpeg' = [ffmpeg EXCEPT !.at = end, !.n = k]  BY <3>1, <4>1
      <4>3. ffmpeg \in [on: BOOLEAN, first: Nat, at: Nat, n: Nat] /\ end \in Nat  BY <1>0, <3>2
      <4> QED BY <4>1, <4>2, <4>3
    <3>4. ffmpeg'.first <= ffmpeg'.n  BY <1>0, <3>3
    <3> QED BY <2>2, <3>2, <3>3, <3>4
  <2> QED BY <2>1, <2>2
<1>6. Agreed' = Agreed /\ CutRule' = CutRule /\ PlanSlots' = PlanSlots
  BY <1>1 DEF Agreed, CutRule, SegmentTime, PlanSlots
<1>7. DOMAIN segments' = 0 .. film.dur
      /\ \A i \in 0 .. film.dur : segments'[i] = IF i = ffmpeg.n THEN <<ffmpeg.at, end>> ELSE segments[i]
  BY <1>0, <1>1
<1>8. ASSUME Agreed
      PROVE  /\ CutBy(cuts, CutRule) /\ SegmentsMatch'
             /\ ffmpeg'.on = TRUE => ffmpeg'.n + 1 \in PlanSlots /\ ffmpeg'.at = cuts[ffmpeg'.n + 1]
  <2>1. /\ CutBy(cuts, CutRule) /\ SegmentsMatch
        /\ ffmpeg.n + 1 \in PlanSlots /\ ffmpeg.at = cuts[ffmpeg.n + 1]
    BY <1>1, <1>2, <1>8 DEF HPInv
  <2>2. ffmpeg.n + 1 \in 1 .. Len(cuts) - 1 /\ (ffmpeg.n + 1) + 1 = ffmpeg.n + 2
    BY <1>0, <1>4, <2>1 DEF PlanSlots
  <2>3. end = cuts[ffmpeg.n + 2]  BY <2>1, <2>2 DEF CutBy
  <2> HIDE DEF end
  <2>4. SegmentsMatch'
    <3> SUFFICES ASSUME NEW i \in DOMAIN segments', segments'[i] # NoFile
                 PROVE  i + 1 \in PlanSlots /\ segments'[i] = <<cuts[i + 1], cuts[i + 2]>>
      BY <1>1, <1>6 DEF SegmentsMatch, WrittenSegments, NoFile
    <3>1. CASE i = ffmpeg.n  BY <1>7, <2>1, <2>3, <3>1
    <3>2. CASE i # ffmpeg.n
      <4>1. i \in DOMAIN segments /\ segments[i] # NoFile /\ segments'[i] = segments[i]
        BY <1>0, <1>7, <3>2
      <4> QED BY <2>1, <4>1 DEF SegmentsMatch, WrittenSegments
    <3> QED BY <3>1, <3>2
  <2>5. ASSUME ffmpeg'.on = TRUE PROVE ffmpeg'.n + 1 \in PlanSlots /\ ffmpeg'.at = cuts[ffmpeg'.n + 1]
    <3>1. ffmpeg'.at = end /\ ffmpeg'.n + 1 = ffmpeg.n + 2 /\ end # film.dur  BY <1>0, <1>5, <2>5
    <3>2. ffmpeg.n + 2 # Len(cuts)  BY <1>4, <2>3, <3>1
    <3>3. ffmpeg.n + 2 \in 1 .. Len(cuts) - 1  BY <1>0, <1>4, <2>2, <3>2
    <3> QED BY <2>3, <3>1, <3>3 DEF PlanSlots
  <2> QED BY <2>1, <2>4, <2>5
<1> HIDE DEF end
<1>9. /\ film' \in FilmKinds /\ (enc \in Encoders \cup {"cpu"})' /\ (fallbacks \in Nat)'
      /\ cuts' # <<>> /\ Spans(cuts', film'.dur) /\ film' = film /\ cuts' = cuts
  BY <1>0, <1>1, <1>2 DEF HPInv
<1>10. /\ (ffmpeg \in [on: BOOLEAN, first: Nat, at: Nat, n: Nat])'
       /\ (ffmpeg.first <= ffmpeg.n)' /\ (ffmpeg.at <= film.dur)' /\ (DOMAIN segments = 0 .. film.dur)'
  BY <1>5, <1>7, <1>9
<1>11. (ffmpeg.on = TRUE => cuts # <<>> /\ ffmpeg.first + 1 \in PlanSlots /\ ffmpeg.at < film.dur)'
  BY <1>2, <1>5, <1>6, <1>9
<1>12. (Agreed => /\ cuts # <<>> => CutBy(cuts, CutRule)
                  /\ SegmentsMatch
                  /\ ffmpeg.on = TRUE => ffmpeg.n + 1 \in PlanSlots /\ ffmpeg.at = cuts[ffmpeg.n + 1])'
  BY <1>6, <1>8, <1>9
<1> QED BY <1>9, <1>10, <1>11, <1>12 DEF HPInv

\* Every step keeps plan and segments together.
LEMMA HPSteps == ASSUME HPInv, [HPNext]_hpVars PROVE HPInv'
<1>1. CASE UNCHANGED hpVars
  <2>1. UNCHANGED <<film, enc, cuts, ffmpeg, segments, seeks, fallbacks>>  BY <1>1 DEF hpVars
  <2>2. Agreed' = Agreed /\ CutRule' = CutRule /\ PlanSlots' = PlanSlots /\ SegmentsMatch' = SegmentsMatch
    BY <2>1 DEF Agreed, CutRule, SegmentTime, PlanSlots, SegmentsMatch, WrittenSegments
  <2> QED BY <2>1, <2>2 DEF HPInv
<1>2. CASE Prepare  BY <1>2, HPPrepared
<1>3. CASE FallBack  BY <1>3, HPFellBack
<1>4. CASE WriteSegment  BY <1>4, HPWrote
<1>5. ASSUME NEW t \in 0 .. film.dur, Seek(t) PROVE HPInv'  BY <1>5, HPSought
<1> QED BY <1>1, <1>2, <1>3, <1>4, <1>5 DEF HPNext

\* A session in order promises what it should.
LEMMA HPInvIsSafe == HPInv => PlanSafe
<1> SUFFICES ASSUME HPInv PROVE PlanSafe  OBVIOUS
<1>0. film \in FilmKinds /\ film.dur \in Nat \ {0}  BY DEF HPInv, FilmKinds
<1>1. HPTypeOK  BY <1>0 DEF HPInv, HPTypeOK, FilmKinds
<1>2. SlotsCover
  <2> SUFFICES ASSUME cuts # <<>>
               PROVE  /\ cuts[1] = 0 /\ cuts[Len(cuts)] = film.dur
                      /\ \A i \in PlanSlots : cuts[i] < cuts[i + 1]
                      /\ \A t \in 0 .. film.dur - 1 :
                           cuts[IndexForMS(t) + 1] <= t /\ t < cuts[IndexForMS(t) + 2]
    BY DEF SlotsCover
  <2>1. Spans(cuts, film.dur)  BY DEF HPInv
  <2>2. /\ cuts[1] = 0 /\ cuts[Len(cuts)] = film.dur
        /\ \A i \in PlanSlots : cuts[i] < cuts[i + 1]
    BY <2>1 DEF Spans, PlanSlots
  <2>3. ASSUME NEW t \in 0 .. film.dur - 1
        PROVE  cuts[IndexForMS(t) + 1] <= t /\ t < cuts[IndexForMS(t) + 2]
    <3>1. t \in 0 .. film.dur /\ t < film.dur  BY <1>0
    <3> QED BY <1>0, <2>1, <3>1, SlotFound
  <2> QED BY <2>2, <2>3
<1>3. Agreed => SegmentsMatch  BY DEF HPInv
<1> QED BY <1>1, <1>2, <1>3 DEF PlanSafe

\* The playlist is the whole title, and where plan and encoder agree every
\* segment on disk is the playlist's, for every title and in whatever order
\* runs and seeks wrote them (prepareVOD, KeyframePlan, IndexForMS).
THEOREM PlaylistIsTrue == HPSpec => []PlanSafe
<1>1. HPInit => HPInv  BY HPStarts
<1>2. HPInv /\ [HPNext]_hpVars => HPInv'  BY HPSteps
<1>3. HPInv => PlanSafe  BY HPInvIsSafe
<1> QED BY <1>1, <1>2, <1>3, PTL DEF HPSpec

=============================================================================
