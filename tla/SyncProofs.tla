------------------------------ MODULE SyncProofs ------------------------------
(* Of the two ticketing caches: that they keep their types, and that what  *)
(* a sync will not ask for again is in the cache, for any number of        *)
(* records, stages and syncs, overlapping and failing in any order.        *)
EXTENDS Caches, WellFoundedInduction, TLAPS

(* A set of times has a greatest one.                                      *)
LEMMA Greatest ==
  ASSUME NEW n \in Nat, NEW S \in SUBSET (0 .. n), S # {}
  PROVE  \E m \in S : \A x \in S : m >= x
<1> DEFINE T == {n - x : x \in S}
           R == OpToRel(<, Nat)
<1>1. T \subseteq Nat
  OBVIOUS
<1>2. PICK x0 \in S : TRUE
  OBVIOUS
<1>3. n - x0 \in T
  BY <1>2
<1>4. PICK y \in T : \A z \in T : ~ (<<z, y>> \in R)
  <2> HIDE DEF T, R
  <2>1. IsWellFoundedOn(R, Nat)
    BY NatLessThanWellFounded DEF R
  <2> QED BY <1>1, <1>3, <2>1, WFMin
<1>5. \A z \in T : ~(z < y)
  BY <1>1, <1>4 DEF OpToRel
<1>6. PICK m \in S : y = n - m
  BY <1>4
<1>7. ASSUME NEW x \in S
      PROVE  m >= x
  <2>1. ~(n - x < n - m)
    BY <1>5, <1>6
  <2> QED BY <2>1
<1> QED BY <1>7

----------------------------------------------------------------------------
(* ServiceNow: types. *)

LEMMA RestingTyped == Resting \in Sync /\ Nothing \in [Record -> 0 .. MaxVersion]
BY ServiceNowAssumption DEF Resting, Nothing, Sync, NoTime, Moment, Time, NoCursor

LEMMA OpenTyped ==
  ASSUME NEW left \in SUBSET StageIds, NEW failed \in BOOLEAN
  PROVE  [Resting EXCEPT !.step = "open", !.left = left, !.failed = failed] \in Sync
BY RestingTyped DEF Sync

LEMMA AfterTyped ==
  ASSUME NEW c \in Moment \cup {NoCursor}
  PROVE  After(c) \in Moment
BY ServiceNowAssumption DEF After, Moment, NoTime, NoCursor

LEMMA StoreTyped ==
  ASSUME ServiceNowTypeOK, NEW p \in Syncers, NEW R, Store(p, R)
  PROVE  /\ cached' \in [Record -> 0 .. MaxVersion]
         /\ cachedSince' \in [Record -> {NoTime} \cup Time]
<1>1. sync[p].got \in [Record -> 0 .. MaxVersion]
  BY DEF ServiceNowTypeOK, Sync
<1> QED BY <1>1 DEF Store, ServiceNowTypeOK

LEMMA ReleaseTyped ==
  ASSUME ServiceNowTypeOK, NEW p \in Syncers, Release(p)
  PROVE  writer' \in Syncers \cup {Nobody}
BY DEF ServiceNowTypeOK, Release

LEMMA DisturbsTyped ==
  ASSUME ServiceNowTypeOK, Disturbs
  PROVE  events' \in 0 .. MaxEvents
BY ServiceNowAssumption DEF ServiceNowTypeOK, Disturbs

(* A sync after a page, m the greatest sys_updated_on it has seen.         *)
PageOf(p, R, m) ==
  [sync[p] EXCEPT
     !.todo = sync[p].todo \ R,
     !.got = [r \in Record |-> IF r \in Answered(p, R) THEN source[r].ver ELSE sync[p].got[r]],
     !.maximum = m]

(* That time exists.                                                       *)
LEMMA PageReadMaximum ==
  ASSUME ServiceNowTypeOK, NEW p \in Syncers, NEW R \in SUBSET Record, PageRead(p, R)
  PROVE  \E m \in {NoTime} \cup Time :
           /\ m = sync[p].maximum \/ \E r \in R : m = source[r].at
           /\ sync' = [sync EXCEPT ![p] = PageOf(p, R, m)]
<1> DEFINE hits == Answered(p, R)
           S == {sync[p].maximum} \cup {source[r].at : r \in hits}
<1>1. sync[p].maximum \in {NoTime} \cup Time /\ \A r \in Record : source[r].at \in {NoTime} \cup Time
  BY DEF ServiceNowTypeOK, Sync
<1>2. hits \subseteq R /\ hits \subseteq Record
  BY DEF Answered
<1>3. {NoTime} \cup Time = 0 .. LastTick
  BY ServiceNowAssumption DEF NoTime, Time
<1>4. S \in SUBSET (0 .. LastTick) /\ S # {}
  BY <1>1, <1>2, <1>3
<1>5. PICK m \in S : \A x \in S : m >= x
  <2> HIDE DEF S
  <2> QED BY <1>4, Greatest, ServiceNowAssumption
<1> DEFINE g == CHOOSE x \in S : \A r \in hits : x >= source[r].at /\ x >= sync[p].maximum
<1>6. \A r \in hits : m >= source[r].at /\ m >= sync[p].maximum
  BY <1>5
<1>7. g \in S
  BY <1>5, <1>6
<1>8. g = sync[p].maximum \/ \E r \in R : g = source[r].at
  <2> HIDE DEF g
  <2> QED BY <1>2, <1>7
<1>9. g \in {NoTime} \cup Time
  <2> HIDE DEF g
  <2> QED BY <1>3, <1>4, <1>7
<1>10. sync' = [sync EXCEPT ![p] = PageOf(p, R, g)]
  BY DEF PageRead, ServiceNowTypeOK, PageOf
<1> HIDE DEF g
<1> QED BY <1>8, <1>9, <1>10

LEMMA SyncTyped ==
  ASSUME ServiceNowTypeOK, NEW p \in Syncers, NEW s \in Sync, sync' = [sync EXCEPT ![p] = s]
  PROVE  sync' \in [Syncers -> Sync]
BY DEF ServiceNowTypeOK

LEMMA StageOverTyped ==
  ASSUME ServiceNowTypeOK, NEW p \in Syncers, NEW failed \in BOOLEAN,
         sync' = [sync EXCEPT ![p] = StageOver(@, failed)]
  PROVE  sync' \in [Syncers -> Sync]
<1>1. sync[p].left \ {sync[p].stage} \in SUBSET StageIds
  BY DEF ServiceNowTypeOK, Sync
<1>2. StageOver(sync[p], failed) \in Sync
  BY <1>1, OpenTyped DEF StageOver
<1>3. sync' = [sync EXCEPT ![p] = StageOver(sync[p], failed)]
  OBVIOUS
<1> QED BY <1>2, <1>3, SyncTyped

LEMMA CursorAfterTyped ==
  ASSUME ServiceNowTypeOK, NEW p \in Syncers, sync[p].step = "read"
  PROVE  CursorAfter(p) \in Moment \cup {NoCursor} \/ sync[p].stage = 0
<1>1. sync[p] \in Sync /\ clock \in Time /\ cursor \in [StageIds -> Moment \cup {NoCursor}]
  BY DEF ServiceNowTypeOK
<1>2. /\ sync[p].maximum \in {NoTime} \cup Time
      /\ sync[p].stage \in {0} \cup StageIds
  BY <1>1 DEF Sync
<1>3. ConnectorNow \in Moment
  BY <1>1, ServiceNowAssumption DEF ConnectorNow, Moment, Time
<1>4. Time \subseteq Moment
  BY ServiceNowAssumption DEF Time, Moment
<1> QED BY <1>1, <1>2, <1>3, <1>4 DEF CursorAfter

LEMMA ServiceNowTypeStep ==
  ASSUME ServiceNowTypeOK, [ServiceNowNext]_snVars
  PROVE  ServiceNowTypeOK'
<1>1. CASE UNCHANGED snVars
  BY <1>1 DEF ServiceNowTypeOK, snVars
<1>2. ASSUME NEW r \in Record, SourceChanges(r)
      PROVE  ServiceNowTypeOK'
  <2>1. [ver |-> source[r].ver + 1, at |-> clock]
          \in [ver : 0 .. MaxVersion, at : {NoTime} \cup Time]
    BY <1>2, ServiceNowAssumption DEF ServiceNowTypeOK, SourceChanges
  <2>2. source' = [source EXCEPT ![r] = [ver |-> source[r].ver + 1, at |-> clock]]
    BY <1>2 DEF SourceChanges
  <2>3. source' \in [Record -> [ver : 0 .. MaxVersion, at : {NoTime} \cup Time]]
    BY <2>1, <2>2 DEF ServiceNowTypeOK
  <2> QED BY <1>2, <2>3 DEF ServiceNowTypeOK, SourceChanges
<1>3. CASE Tick
  <2>1. clock' \in Time
    BY <1>3, ServiceNowAssumption DEF ServiceNowTypeOK, Tick, Time
  <2> QED BY <1>3, <2>1 DEF ServiceNowTypeOK, Tick
<1>4. ASSUME NEW caps \in SUBSET Capability, Select(caps)
      PROVE  ServiceNowTypeOK'
  BY <1>4, DisturbsTyped DEF ServiceNowTypeOK, Select
<1>5. CASE ReconcileJob
  BY <1>5 DEF ServiceNowTypeOK, ReconcileJob
<1>6. ASSUME NEW p \in Syncers, Start(p)
      PROVE  ServiceNowTypeOK'
  <2>1. events' \in 0 .. MaxEvents
    BY <1>6, DisturbsTyped DEF ServiceNowTypeOK, Start
  <2>2. sync' \in [Syncers -> Sync] /\ attention' \in BOOLEAN
    <3>1. [Resting EXCEPT !.step = "open", !.left = SelectedStages] \in Sync
      BY RestingTyped DEF Sync, SelectedStages
    <3>2. CASE SelectedStages # {}
      BY <1>6, <3>1, <3>2 DEF ServiceNowTypeOK, Start
    <3>3. CASE SelectedStages = {}
      BY <1>6, <3>3 DEF ServiceNowTypeOK, Start
    <3> QED BY <3>2, <3>3
  <2> QED BY <1>6, <2>1, <2>2 DEF ServiceNowTypeOK, Start
<1>7. ASSUME NEW p \in Syncers, NEW k \in StageIds, OpenStage(p, k)
      PROVE  ServiceNowTypeOK'
  <2> DEFINE opened == [sync[p] EXCEPT !.step = "read", !.stage = k, !.seen = cursor[k],
                                       !.opened = clock, !.since = After(cursor[k]),
                                       !.todo = Listed(k)]
  <2>1. cursor[k] \in Moment \cup {NoCursor} /\ clock \in Time /\ sync[p] \in Sync
    BY DEF ServiceNowTypeOK
  <2>2. After(cursor[k]) \in Moment /\ Listed(k) \in SUBSET Record
    BY <2>1, AfterTyped DEF Listed
  <2>3. opened \in Sync
    BY <2>1, <2>2 DEF Sync
  <2>4. sync' = [sync EXCEPT ![p] = opened]
    BY <1>7 DEF OpenStage
  <2>5. sync' \in [Syncers -> Sync]
    BY <2>3, <2>4, SyncTyped
  <2> QED BY <1>7, <2>5 DEF ServiceNowTypeOK, OpenStage
<1>8. ASSUME NEW p \in Syncers, NEW R \in SUBSET Record, PageRead(p, R)
      PROVE  ServiceNowTypeOK'
  <2>1. PICK m \in {NoTime} \cup Time :
          /\ m = sync[p].maximum \/ \E r \in R : m = source[r].at
          /\ sync' = [sync EXCEPT ![p] = PageOf(p, R, m)]
    BY <1>8, PageReadMaximum
  <2>2. /\ sync[p] \in Sync
        /\ \A r \in Record : source[r].ver \in 0 .. MaxVersion
    BY DEF ServiceNowTypeOK
  <2>3. /\ sync[p].todo \ R \in SUBSET Record
        /\ [r \in Record |-> IF r \in Answered(p, R) THEN source[r].ver ELSE sync[p].got[r]]
             \in [Record -> 0 .. MaxVersion]
    BY <2>2 DEF Sync
  <2>4. PageOf(p, R, m) \in Sync
    BY <2>2, <2>3 DEF Sync, PageOf
  <2>5. sync' \in [Syncers -> Sync]
    BY <2>1, <2>4, SyncTyped
  <2> QED BY <1>8, <2>5 DEF ServiceNowTypeOK, PageRead
<1>9. ASSUME NEW p \in Syncers, StageCommits(p)
      PROVE  ServiceNowTypeOK'
  <2>1. sync[p] \in Sync /\ sync[p].failed \in BOOLEAN
    BY DEF ServiceNowTypeOK, Sync
  <2>2. sync' \in [Syncers -> Sync]
    BY <1>9, <2>1, StageOverTyped DEF StageCommits
  <2>3. cursor' \in [StageIds -> Moment \cup {NoCursor}]
    <3>1. cursor' = [cursor EXCEPT ![sync[p].stage] = CursorAfter(p)]
      BY <1>9 DEF StageCommits
    <3>2. CASE CursorAfter(p) \in Moment \cup {NoCursor}
      BY <3>1, <3>2 DEF ServiceNowTypeOK
    <3>3. CASE sync[p].stage = 0
      <4>1. sync[p].stage \notin StageIds
        BY <3>3 DEF StageIds
      <4>2. cursor' = cursor
        BY <3>1, <4>1 DEF ServiceNowTypeOK
      <4> QED BY <4>2 DEF ServiceNowTypeOK
    <3> QED BY <1>9, <3>2, <3>3, CursorAfterTyped DEF StageCommits
  <2> QED BY <1>9, <2>2, <2>3, StoreTyped, ReleaseTyped DEF ServiceNowTypeOK, StageCommits
<1>10. ASSUME NEW p \in Syncers, NEW R \in SUBSET Record, StageFails(p, R)
       PROVE  ServiceNowTypeOK'
  <2>1. sync' \in [Syncers -> Sync]
    BY <1>10, StageOverTyped DEF StageFails
  <2>2. cursor' \in [StageIds -> Moment \cup {NoCursor}]
    BY <1>10 DEF ServiceNowTypeOK, StageFails, Moment
  <2> QED BY <1>10, <2>1, <2>2, StoreTyped, ReleaseTyped, DisturbsTyped
       DEF ServiceNowTypeOK, StageFails, RequestFails
<1>11. ASSUME NEW p \in Syncers, Finish(p)
       PROVE  ServiceNowTypeOK'
  <2>1. sync[p].failed \in BOOLEAN
    BY DEF ServiceNowTypeOK, Sync
  <2> QED BY <1>11, <2>1, RestingTyped DEF ServiceNowTypeOK, Finish
<1>12. ASSUME NEW p \in Syncers, Aborts(p)
       PROVE  ServiceNowTypeOK'
  <2>1. sync' \in [Syncers -> Sync] /\ attention' \in BOOLEAN
    BY <1>12, RestingTyped DEF ServiceNowTypeOK, Aborts
  <2> QED BY <1>12, <2>1, ReleaseTyped, DisturbsTyped DEF ServiceNowTypeOK, Aborts
<1>13. CASE Restarts
  <2>1. sync' \in [Syncers -> Sync]
    BY <1>13, RestingTyped DEF Restarts
  <2> QED BY <1>13, <2>1, DisturbsTyped DEF ServiceNowTypeOK, Restarts
<1>14. CASE Test
  BY <1>14, DisturbsTyped DEF ServiceNowTypeOK, Test
<1>15. CASE ServiceNowNext
  BY <1>2, <1>3, <1>4, <1>5, <1>6, <1>7, <1>8, <1>9, <1>10, <1>11, <1>12, <1>13, <1>14, <1>15
     DEF ServiceNowNext, SyncStep
<1> QED BY <1>1, <1>15

LEMMA ServiceNowTypeInit == ServiceNowInit => ServiceNowTypeOK
<1>1. 1 \in Time /\ 0 \in 0 .. MaxVersion /\ 0 \in 0 .. MaxEvents
  BY ServiceNowAssumption DEF Time
<1>2. ASSUME ServiceNowInit
      PROVE  job \in BOOLEAN
  BY <1>2 DEF ServiceNowInit
<1>3. ASSUME ServiceNowInit
      PROVE  /\ source \in [Record -> [ver : 0 .. MaxVersion, at : {NoTime} \cup Time]]
             /\ cursor \in [StageIds -> Moment \cup {NoCursor}]
             /\ cachedSince \in [Record -> {NoTime} \cup Time]
  BY <1>1, <1>3 DEF ServiceNowInit
<1> QED BY <1>1, <1>2, <1>3, RestingTyped DEF ServiceNowInit, ServiceNowTypeOK

(* Every variable of the ServiceNow cache keeps its type:                  *)
(* application/services/servicenow.py.                                     *)
THEOREM ServiceNowTypeCorrect == ServiceNowSpec => []ServiceNowTypeOK
BY ServiceNowTypeInit, ServiceNowTypeStep, PTL DEF ServiceNowSpec

----------------------------------------------------------------------------
(* ServiceNow: nothing is missed. *)

(* What a stage in progress knows.  Its time is limited, and it asks from  *)
(* so long before it began that what others store meanwhile does not       *)
(* matter; what it has read of a record that has not changed since it      *)
(* began is the last version; what it does not ask for is in the cache;    *)
(* what it has read all of, it has or does not ask for.                    *)
InTime(s) ==
  /\ clock \in s.opened .. (s.opened + StageLimit)
  /\ s.since = NoTime \/ s.since + StageLimit <= s.opened
  /\ s.maximum <= clock
Fresh(s, r) ==
  s.got[r] > 0 /\ source[r].at < s.opened => s.got[r] = source[r].ver
Behind(s, r) == Due(r, s.since) => cached[r] = source[r].ver
Complete(s, r) ==
  r \notin s.todo /\ Due(r, s.opened) => s.got[r] = source[r].ver \/ source[r].at < s.since

Reading(s) ==
  /\ InTime(s)
  /\ \A r \in Record : Fresh(s, r)
  /\ \A r \in Record : StageOf[r] = s.stage => Behind(s, r) /\ Complete(s, r)
Sound(p) ==
  IF sync[p].step = "read" THEN Reading(sync[p])
  ELSE sync[p].got = Nothing /\ sync[p].maximum = NoTime

(* No time is in the future, but for the lead of the connector's clock.    *)
TimesPast ==
  /\ \A r \in Record : source[r].at <= clock
  /\ \A r \in Record : cached[r] = 0 <=> cachedSince[r] = NoTime
  /\ \A k \in StageIds : cursor[k] <= clock + Lead

SyncInv == ServiceNowTypeOK /\ TimesPast /\ NothingMissed /\ \A p \in Syncers : Sound(p)

LEMMA Numbers ==
  ASSUME ServiceNowTypeOK
  PROVE  /\ clock \in Nat /\ clock >= 1 /\ LastTick \in Nat
         /\ Overlap \in Nat /\ StageLimit \in Nat /\ Lead \in Nat
         /\ \A r \in Record : source[r].ver \in Nat /\ source[r].at \in Nat /\ cached[r] \in Nat
         /\ \A k \in StageIds : cursor[k] \in Int
         /\ \A r \in Record : StageOf[r] \in StageIds
         /\ \A r \in Record : StageOf[r] = Journal => Subject[r] \in Record
BY ServiceNowAssumption DEF ServiceNowTypeOK, Time, Moment, NoTime, NoCursor, StageIds

LEMMA SyncNumbers ==
  ASSUME NEW s \in Sync
  PROVE  /\ s.since \in Nat /\ s.opened \in Nat /\ s.maximum \in Nat
         /\ \A r \in Record : s.got[r] \in Nat
BY ServiceNowAssumption DEF Sync, Moment, Time, NoTime

(* Storing rows makes nothing due that has changed before now.             *)
LEMMA DueBefore ==
  ASSUME ServiceNowTypeOK, NEW p \in Syncers, NEW R \in SUBSET Record, Store(p, R),
         UNCHANGED <<clock, source>>, NEW r \in Record, NEW t \in Int, t <= clock,
         Due(r, t)'
  PROVE  Due(r, t)
<1>1. source[r].ver > 0 /\ source[r].at < t
  BY DEF Due
<1>2. ASSUME StageOf[r] = Journal
      PROVE  cachedSince[Subject[r]] \in 1 .. source[r].at
  <2>1. Subject[r] \in Record
    BY <1>2, Numbers
  <2>2. cachedSince'[Subject[r]] \in 1 .. source[r].at
    BY <1>2 DEF Due
  <2>3. cachedSince'[Subject[r]] \in {clock, cachedSince[Subject[r]]}
    BY <2>1 DEF Store
  <2>4. ~(clock \in 1 .. source[r].at)
    BY <1>1, Numbers
  <2> QED BY <2>2, <2>3, <2>4
<1> QED BY <1>1, <1>2 DEF Due

(* The rows a stage stores are the last versions of what has not changed   *)
(* for as long as a stage may take.                                        *)
LEMMA StoreKeeps ==
  ASSUME ServiceNowTypeOK, NEW p \in Syncers, sync[p].step = "read", Sound(p),
         NEW R \in SUBSET Got(p), Store(p, R), UNCHANGED <<clock, source>>,
         NEW r \in Record, NEW t \in Int, t + StageLimit <= clock, Due(r, t)',
         Due(r, t) => cached[r] = source[r].ver
  PROVE  cached'[r] = source'[r].ver
<1>1. R \in SUBSET Record
  BY DEF Got
<1>2. t <= clock
  BY Numbers
<1>3. Due(r, t)
  BY <1>1, <1>2, DueBefore
<1>4. CASE r \notin R
  BY <1>3, <1>4 DEF Store
<1>5. CASE r \in R
  <2>1. sync[p].got[r] > 0
    BY <1>5 DEF Got
  <2>2. InTime(sync[p]) /\ Fresh(sync[p], r)
    BY DEF Sound, Reading
  <2>3. source[r].at < sync[p].opened
    <3>1. source[r].at < t
      BY <1>3 DEF Due
    <3>2. sync[p] \in Sync
      BY DEF ServiceNowTypeOK
    <3> QED BY <2>2, <3>1, <3>2, Numbers, SyncNumbers DEF InTime
  <2>4. sync[p].got[r] = source[r].ver
    BY <2>1, <2>2, <2>3 DEF Fresh
  <2> QED BY <1>5, <2>4 DEF Store
<1> QED BY <1>4, <1>5

(* A sync that does nothing while another one stores remains sound.        *)
LEMMA OthersSound ==
  ASSUME ServiceNowTypeOK, NEW p \in Syncers, sync[p].step = "read", Sound(p),
         NEW R \in SUBSET Got(p), Store(p, R), UNCHANGED <<clock, source>>,
         NEW q \in Syncers, Sound(q), sync'[q] = sync[q]
  PROVE  Sound(q)'
<1>1. CASE sync[q].step # "read"
  BY <1>1 DEF Sound
<1>2. CASE sync[q].step = "read"
  <2> DEFINE s == sync[q]
  <2>0. s \in Sync /\ R \in SUBSET Record
    BY DEF ServiceNowTypeOK, Got
  <2>1. Reading(s)
    BY <1>2 DEF Sound
  <2>2. InTime(s)' /\ \A r \in Record : Fresh(s, r)'
    BY <2>1 DEF Reading, InTime, Fresh
  <2>3. ASSUME NEW r \in Record, StageOf[r] = s.stage
        PROVE  Behind(s, r)' /\ Complete(s, r)'
    <3>1. Behind(s, r) /\ Complete(s, r) /\ InTime(s)
      BY <2>1, <2>3 DEF Reading
    <3>2. ASSUME Due(r, s.since)'
          PROVE  cached'[r] = source'[r].ver
      <4>1. s.since # NoTime
        BY <3>2, Numbers DEF Due, NoTime
      <4>2. s.since + StageLimit <= clock /\ s.since \in Int
        BY <2>0, <3>1, <4>1, Numbers, SyncNumbers DEF InTime
      <4> QED BY <3>1, <3>2, <4>2, StoreKeeps DEF Behind
    <3>3. ASSUME Due(r, s.opened)'
          PROVE  Due(r, s.opened)
      <4>1. s.opened \in Int /\ s.opened <= clock
        BY <2>0, <3>1, Numbers, SyncNumbers DEF InTime
      <4> QED BY <2>0, <3>3, <4>1, DueBefore
    <3> QED BY <3>1, <3>2, <3>3 DEF Behind, Complete
  <2> QED BY <1>2, <2>2, <2>3 DEF Sound, Reading
<1> QED BY <1>1, <1>2

(* Where only the syncs change, and only to one that is not in a stage.    *)
LEMMA RestsSound ==
  ASSUME SyncInv, UNCHANGED <<clock, source, cached, cachedSince, cursor>>,
         ServiceNowTypeOK',
         \A q \in Syncers : \/ sync'[q] = sync[q]
                            \/ /\ sync'[q].step # "read"
                               /\ sync'[q].got = Nothing /\ sync'[q].maximum = NoTime
  PROVE  SyncInv'
<1>1. TimesPast' /\ NothingMissed'
  BY DEF SyncInv, TimesPast, NothingMissed, Due
<1>2. ASSUME NEW q \in Syncers
      PROVE  Sound(q)'
  <2>1. CASE sync'[q] = sync[q]
    <3>1. Sound(q)
      BY DEF SyncInv
    <3> QED BY <2>1, <3>1 DEF Sound, Reading, InTime, Fresh, Behind, Complete, Due
  <2>2. CASE sync'[q].step # "read" /\ sync'[q].got = Nothing /\ sync'[q].maximum = NoTime
    BY <2>2 DEF Sound, Nothing, NoTime
  <2> QED BY <2>1, <2>2
<1> QED BY <1>1, <1>2 DEF SyncInv

LEMMA StageOverRests ==
  ASSUME NEW x, NEW failed
  PROVE  /\ StageOver(x, failed).step # "read"
         /\ StageOver(x, failed).got = Nothing /\ StageOver(x, failed).maximum = NoTime
BY DEF StageOver, Resting

(* A record changes: it is not due, neither behind a cursor nor in a stage. *)
LEMMA SourceChangesSound ==
  ASSUME SyncInv, ServiceNowTypeOK', NEW x \in Record, SourceChanges(x)
  PROVE  SyncInv'
<1>1. /\ source' = [source EXCEPT ![x] = [ver |-> source[x].ver + 1, at |-> clock]]
      /\ UNCHANGED <<clock, cached, cachedSince, cursor, sync>>
  BY DEF SourceChanges
<1>2. ServiceNowTypeOK
  BY DEF SyncInv
<1>3. source'[x].at = clock /\ \A r \in Record : r # x => source'[r] = source[r]
  BY <1>1, <1>2 DEF ServiceNowTypeOK
<1>4. TimesPast'
  BY <1>1, <1>2, <1>3, Numbers DEF SyncInv, TimesPast
<1>5. ASSUME NEW t \in Int, t <= clock
      PROVE  ~Due(x, t)'
  BY <1>1, <1>3, <1>5, Numbers, <1>2 DEF Due
<1>6. ASSUME NEW r \in Record, r # x, NEW t, Due(r, t)'
      PROVE  Due(r, t)
  BY <1>1, <1>3, <1>6 DEF Due
<1>7. NothingMissed'
  <2>1. ASSUME NEW r \in Record, Due(r, cursor[StageOf[r]] - Overlap)'
        PROVE  cached'[r] = source'[r].ver
    <3> DEFINE t == cursor[StageOf[r]] - Overlap
    <3>1. t \in Int /\ t <= clock
      BY <1>2, Numbers, OverlapSuffices DEF SyncInv, TimesPast
    <3>2. Due(r, t)'
      BY <2>1, <1>1
    <3>3. r # x
      BY <1>5, <2>1, <3>1, <1>1
    <3>4. Due(r, t)
      BY <1>1, <1>3, <2>1, <3>3 DEF Due
    <3> QED BY <1>1, <1>3, <3>3, <3>4 DEF SyncInv, NothingMissed
  <2> QED BY <2>1 DEF NothingMissed
<1>8. ASSUME NEW q \in Syncers
      PROVE  Sound(q)'
  <2>1. CASE sync[q].step # "read"
    BY <1>1, <2>1 DEF SyncInv, Sound, Nothing, NoTime
  <2>2. CASE sync[q].step = "read"
    <3> DEFINE s == sync[q]
    <3>1. Reading(s) /\ s \in Sync
      BY <1>2, <2>2 DEF SyncInv, Sound, ServiceNowTypeOK
    <3>2. /\ s.opened \in Int /\ s.opened <= clock
          /\ s.since \in Int /\ s.since <= clock
      BY <1>2, <3>1, Numbers, SyncNumbers DEF Reading, InTime, NoTime
    <3>3. InTime(s)'
      BY <1>1, <3>1 DEF Reading, InTime
    <3>4. ASSUME NEW r \in Record
          PROVE  Fresh(s, r)'
      <4>1. CASE r = x
        BY <1>1, <1>3, <3>2, <4>1, <1>2, Numbers DEF Fresh
      <4>2. CASE r # x
        BY <1>1, <1>3, <3>1, <4>2 DEF Reading, Fresh
      <4> QED BY <4>1, <4>2
    <3>5. ASSUME NEW r \in Record, StageOf[r] = s.stage
          PROVE  Behind(s, r)' /\ Complete(s, r)'
      <4>1. CASE r = x
        <5>1. ~Due(r, s.since)' /\ ~Due(r, s.opened)'
          BY <1>1, <1>3, <1>2, <3>2, <4>1, Numbers DEF Due
        <5> QED BY <5>1 DEF Behind, Complete
      <4>2. CASE r # x
        BY <1>1, <1>3, <3>1, <3>5, <4>2 DEF Reading, Behind, Complete, Due
      <4> QED BY <4>1, <4>2
    <3>6. sync' = sync
      BY <1>1
    <3> QED BY <2>2, <3>3, <3>4, <3>5, <3>6 DEF Sound, Reading
  <2> QED BY <2>1, <2>2
<1> QED BY <1>4, <1>7, <1>8 DEF SyncInv

LEMMA TickSound ==
  ASSUME SyncInv, ServiceNowTypeOK', Tick
  PROVE  SyncInv'
<1>1. clock' = clock + 1 /\ UNCHANGED <<source, cached, cachedSince, cursor, sync>>
  BY DEF Tick
<1>2. ServiceNowTypeOK
  BY DEF SyncInv
<1>3. TimesPast'
  BY <1>1, <1>2, Numbers DEF SyncInv, TimesPast
<1>4. NothingMissed'
  BY <1>1 DEF SyncInv, NothingMissed, Due
<1>5. ASSUME NEW q \in Syncers
      PROVE  Sound(q)'
  <2>1. CASE sync[q].step # "read"
    BY <1>1, <2>1 DEF SyncInv, Sound
  <2>2. CASE sync[q].step = "read"
    <3> DEFINE s == sync[q]
    <3>1. Reading(s) /\ s \in Sync
      BY <1>2, <2>2 DEF SyncInv, Sound, ServiceNowTypeOK
    <3>2. clock < s.opened + StageLimit
      BY <2>2 DEF Tick
    <3>3. InTime(s)'
      BY <1>1, <1>2, <3>1, <3>2, Numbers, SyncNumbers DEF Reading, InTime
    <3>4. \A r \in Record : Fresh(s, r)' /\ (StageOf[r] = s.stage => Behind(s, r)' /\ Complete(s, r)')
      BY <1>1, <3>1 DEF Reading, Fresh, Behind, Complete, Due
    <3>5. sync' = sync
      BY <1>1
    <3> QED BY <2>2, <3>3, <3>4, <3>5 DEF Sound, Reading
  <2> QED BY <2>1, <2>2
<1> QED BY <1>3, <1>4, <1>5 DEF SyncInv

(* A stage begins: what it will not ask for is behind its cursor, and of   *)
(* what it will not list, nothing is due.                                  *)
LEMMA OpenStageSound ==
  ASSUME SyncInv, ServiceNowTypeOK', NEW p \in Syncers, NEW k \in StageIds, OpenStage(p, k)
  PROVE  SyncInv'
<1>0. ServiceNowTypeOK
  BY DEF SyncInv
<1>1. UNCHANGED <<clock, source, cached, cachedSince, cursor>>
  BY DEF OpenStage
<1>2. TimesPast' /\ NothingMissed'
  BY <1>1 DEF SyncInv, TimesPast, NothingMissed, Due
<1>3. ASSUME NEW q \in Syncers, q # p
      PROVE  Sound(q)'
  <2>1. sync'[q] = sync[q] /\ Sound(q)
    BY <1>0, <1>3 DEF OpenStage, SyncInv, ServiceNowTypeOK
  <2> QED BY <1>1, <2>1 DEF Sound, Reading, InTime, Fresh, Behind, Complete, Due
<1>4. Sound(p)'
  <2> DEFINE s == [sync[p] EXCEPT !.step = "read", !.stage = k, !.seen = cursor[k],
                                  !.opened = clock, !.since = After(cursor[k]),
                                  !.todo = Listed(k)]
  <2>1. sync'[p] = s
    BY <1>0 DEF OpenStage, ServiceNowTypeOK
  <2>2. sync[p] \in Sync /\ sync[p].got = Nothing /\ sync[p].maximum = NoTime
    BY <1>0 DEF OpenStage, SyncInv, Sound, ServiceNowTypeOK
  <2>3. /\ s.step = "read" /\ s.stage = k /\ s.opened = clock /\ s.since = After(cursor[k])
        /\ s.todo = Listed(k) /\ s.got = Nothing /\ s.maximum = NoTime
    BY <2>2 DEF Sync
  <2> HIDE DEF s
  <2>4. cursor[k] \in Int /\ cursor[k] <= clock + Lead
    BY <1>0, Numbers DEF SyncInv, TimesPast
  <2>5. InTime(s)
    BY <1>0, <2>3, <2>4, Numbers, OverlapSuffices DEF InTime, After, NoTime
  <2>6. \A r \in Record : Fresh(s, r)
    BY <2>3 DEF Fresh, Nothing
  <2>7. ASSUME NEW r \in Record, StageOf[r] = k, Due(r, s.since)
        PROVE  cached[r] = source[r].ver
    <3>1. cursor[k] > Overlap
      BY <1>0, <2>3, <2>7, Numbers DEF Due, After, NoTime
    <3>2. Due(r, cursor[k] - Overlap)
      BY <1>0, <2>3, <2>4, <2>7, <3>1, Numbers DEF After
    <3> QED BY <2>7, <3>2 DEF SyncInv, NothingMissed
  <2>8. ASSUME NEW r \in Record, StageOf[r] = k, r \notin s.todo
        PROVE  ~Due(r, s.opened)
    <3>1. k = Journal /\ ~(cached[Subject[r]] > 0)
      BY <2>3, <2>8 DEF Listed
    <3>2. Subject[r] \in Record
      BY <1>0, <2>8, <3>1, Numbers
    <3>3. cachedSince[Subject[r]] = NoTime
      BY <1>0, <3>1, <3>2, Numbers DEF SyncInv, TimesPast
    <3> QED BY <1>0, <2>8, <3>1, <3>3, Numbers DEF Due, NoTime
  <2>9. Reading(s)
    BY <2>3, <2>5, <2>6, <2>7, <2>8 DEF Reading, Behind, Complete
  <2> QED BY <1>1, <2>1, <2>3, <2>9 DEF Sound, Reading, InTime, Fresh, Behind, Complete, Due
<1> QED BY <1>2, <1>3, <1>4 DEF SyncInv

(* A page: of the records asked about it has those updated since, at their *)
(* last version.                                                           *)
LEMMA PageReadSound ==
  ASSUME SyncInv, ServiceNowTypeOK', NEW p \in Syncers, NEW R \in SUBSET Record, PageRead(p, R)
  PROVE  SyncInv'
<1>0. ServiceNowTypeOK
  BY DEF SyncInv
<1>1. UNCHANGED <<clock, source, cached, cachedSince, cursor>>
  BY DEF PageRead
<1>2. TimesPast' /\ NothingMissed'
  BY <1>1 DEF SyncInv, TimesPast, NothingMissed, Due
<1>3. ASSUME NEW q \in Syncers, q # p
      PROVE  Sound(q)'
  <2>1. sync'[q] = sync[q] /\ Sound(q)
    BY <1>0, <1>3 DEF PageRead, SyncInv, ServiceNowTypeOK
  <2> QED BY <1>1, <2>1 DEF Sound, Reading, InTime, Fresh, Behind, Complete, Due
<1>4. Sound(p)'
  <2>1. PICK m \in {NoTime} \cup Time :
          /\ m = sync[p].maximum \/ \E r \in R : m = source[r].at
          /\ sync' = [sync EXCEPT ![p] = PageOf(p, R, m)]
    BY <1>0, PageReadMaximum
  <2> DEFINE o == sync[p]
             s == PageOf(p, R, m)
  <2>2. sync'[p] = s /\ o \in Sync /\ Reading(o)
    BY <1>0, <2>1 DEF PageRead, ServiceNowTypeOK, SyncInv, Sound
  <2>3. /\ s.step = "read" /\ s.stage = o.stage /\ s.opened = o.opened /\ s.since = o.since
        /\ s.todo = o.todo \ R /\ s.maximum = m
        /\ \A r \in Record : s.got[r] = IF r \in Answered(p, R) THEN source[r].ver ELSE o.got[r]
    BY <2>2 DEF Sync, PageOf, PageRead
  <2> HIDE DEF s, o
  <2>4. InTime(s)
    <3>1. m <= clock
      <4>1. o.maximum <= clock
        BY <2>2 DEF Reading, InTime
      <4>2. \A r \in R : source[r].at <= clock
        BY DEF SyncInv, TimesPast
      <4> QED BY <2>1, <4>1, <4>2 DEF o
    <3> QED BY <2>2, <2>3, <3>1 DEF Reading, InTime
  <2>5. \A r \in Record : Fresh(s, r)
    BY <2>2, <2>3 DEF Fresh, Reading
  <2>6. ASSUME NEW r \in Record, StageOf[r] = s.stage
        PROVE  Behind(s, r) /\ Complete(s, r)
    <3>1. Behind(o, r) /\ Complete(o, r)
      BY <2>2, <2>3, <2>6 DEF Reading
    <3>2. CASE r \in R
      <4>1. Due(r, s.opened) => r \in Answered(p, R) \/ source[r].at < s.since
        <5>1. o.since \in Int /\ source[r].at \in Int
          BY <1>0, <2>2, Numbers, SyncNumbers
        <5> QED BY <2>3, <3>2, <5>1 DEF Due, Answered, o
      <4> QED BY <2>3, <3>1, <4>1 DEF Behind, Complete
    <3>3. CASE r \notin R
      <4>1. r \notin Answered(p, R)
        BY <3>3 DEF Answered
      <4> QED BY <2>3, <3>1, <3>3, <4>1 DEF Behind, Complete
    <3> QED BY <3>2, <3>3
  <2>7. Reading(s)
    BY <2>4, <2>5, <2>6 DEF Reading
  <2> QED BY <1>1, <2>2, <2>3, <2>7 DEF Sound, Reading, InTime, Fresh, Behind, Complete, Due
<1> QED BY <1>2, <1>3, <1>4 DEF SyncInv

(* What a stage stores, whatever part of it, leaves all syncs sound.       *)
LEMMA StoreSound ==
  ASSUME SyncInv, ServiceNowTypeOK', NEW p \in Syncers, sync[p].step = "read",
         NEW R \in SUBSET Got(p), Store(p, R), UNCHANGED <<clock, source>>,
         NEW failed \in BOOLEAN, sync' = [sync EXCEPT ![p] = StageOver(@, failed)]
  PROVE  /\ \A r \in Record : source'[r].at <= clock' /\ (cached'[r] = 0 <=> cachedSince'[r] = NoTime)
         /\ \A q \in Syncers : Sound(q)'
<1>0. ServiceNowTypeOK /\ Sound(p) /\ R \in SUBSET Record
  BY DEF SyncInv, Got
<1>1. ASSUME NEW r \in Record
      PROVE  source'[r].at <= clock' /\ (cached'[r] = 0 <=> cachedSince'[r] = NoTime)
  <2>1. source[r].at <= clock /\ (cached[r] = 0 <=> cachedSince[r] = NoTime)
    BY DEF SyncInv, TimesPast
  <2>2. CASE r \in R
    <3>1. sync[p].got[r] > 0 /\ sync[p].got[r] \in Int
      BY <1>0, <2>2, SyncNumbers DEF Got, ServiceNowTypeOK
    <3>2. cached'[r] = sync[p].got[r]
      BY <2>2 DEF Store
    <3>3. cachedSince'[r] = IF cached[r] = 0 THEN clock ELSE cachedSince[r]
      BY <2>2 DEF Store
    <3> QED BY <1>0, <2>1, <3>1, <3>2, <3>3, Numbers DEF NoTime
  <2>3. CASE r \notin R
    BY <2>1, <2>3 DEF Store
  <2> QED BY <2>1, <2>2, <2>3
<1>2. ASSUME NEW q \in Syncers
      PROVE  Sound(q)'
  <2>1. CASE q = p
    <3>1. sync'[p] = StageOver(sync[p], failed)
      BY <1>0 DEF ServiceNowTypeOK
    <3> QED BY <2>1, <3>1, StageOverRests DEF Sound, Nothing, NoTime
  <2>2. CASE q # p
    <3>1. sync'[q] = sync[q] /\ Sound(q)
      BY <1>0, <2>2 DEF ServiceNowTypeOK, SyncInv
    <3> QED BY <1>0, <3>1, OthersSound
  <2> QED BY <2>1, <2>2
<1> QED BY <1>1, <1>2

LEMMA StageFailsSound ==
  ASSUME SyncInv, ServiceNowTypeOK', NEW p \in Syncers, NEW R \in SUBSET Record, StageFails(p, R)
  PROVE  SyncInv'
<1>0. ServiceNowTypeOK /\ R \in SUBSET Got(p)
  BY DEF SyncInv, StageFails, StoredBefore
<1>1. /\ sync[p].step = "read" /\ Store(p, R) /\ UNCHANGED <<clock, source>>
      /\ sync' = [sync EXCEPT ![p] = StageOver(@, TRUE)]
  BY DEF StageFails, RequestFails
<1>2. \A k \in StageIds : cursor'[k] = cursor[k] \/ cursor'[k] = NoTime
  BY <1>0 DEF StageFails, ServiceNowTypeOK
<1>3. TimesPast' /\ \A q \in Syncers : Sound(q)'
  <2>1. \A k \in StageIds : cursor'[k] <= clock' + Lead
    BY <1>0, <1>1, <1>2, Numbers DEF SyncInv, TimesPast, NoTime
  <2> QED BY <1>0, <1>1, <2>1, StoreSound DEF TimesPast
<1>4. ASSUME NEW r \in Record, Due(r, cursor[StageOf[r]] - Overlap)'
      PROVE  cached'[r] = source'[r].ver
  <2>1. StageOf[r] \in StageIds
    BY <1>0, Numbers
  <2>2. cursor'[StageOf[r]] # NoTime
    BY <1>0, <1>1, <1>4, Numbers DEF Due, NoTime
  <2>3. cursor'[StageOf[r]] = cursor[StageOf[r]]
    BY <1>2, <2>1, <2>2
  <2> DEFINE t == cursor[StageOf[r]] - Overlap
  <2>4. t \in Int /\ t + StageLimit <= clock
    BY <1>0, Numbers, OverlapSuffices DEF SyncInv, TimesPast
  <2>5. Due(r, t) => cached[r] = source[r].ver
    BY DEF SyncInv, NothingMissed
  <2>6. Sound(p)
    BY DEF SyncInv
  <2> QED BY <1>0, <1>1, <1>4, <2>3, <2>4, <2>5, <2>6, StoreKeeps
<1> QED BY <1>3, <1>4 DEF SyncInv, NothingMissed

(* A commit: the new cursor, less the overlap, is of before the stage      *)
(* began, and what has not changed since then it has read.                 *)
LEMMA StageCommitsSound ==
  ASSUME SyncInv, ServiceNowTypeOK', NEW p \in Syncers, StageCommits(p)
  PROVE  SyncInv'
<1> DEFINE s == sync[p]
<1>0. ServiceNowTypeOK /\ Sound(p) /\ s \in Sync /\ s.failed \in BOOLEAN
  BY DEF SyncInv, ServiceNowTypeOK, Sync
<1>1. /\ s.step = "read" /\ s.todo = {}
      /\ Store(p, Got(p)) /\ UNCHANGED <<clock, source>>
      /\ sync' = [sync EXCEPT ![p] = StageOver(@, s.failed)]
      /\ cursor' = [cursor EXCEPT ![s.stage] = CursorAfter(p)]
  BY DEF StageCommits
<1>2. Reading(s)
  BY <1>0, <1>1 DEF Sound
<1>3. /\ \A k \in StageIds : k # s.stage => cursor'[k] = cursor[k]
      /\ s.stage \in StageIds => cursor'[s.stage] = CursorAfter(p)
  BY <1>0, <1>1 DEF ServiceNowTypeOK
<1>4. s.stage \in StageIds => CursorAfter(p) <= clock + Lead
  BY <1>0, <1>2, Numbers, SyncNumbers
     DEF Reading, InTime, CursorAfter, ConnectorNow, SyncInv, TimesPast
<1>5. TimesPast' /\ \A q \in Syncers : Sound(q)'
  <2>1. \A k \in StageIds : cursor'[k] <= clock' + Lead
    BY <1>1, <1>3, <1>4 DEF SyncInv, TimesPast
  <2> QED BY <1>0, <1>1, <2>1, StoreSound DEF TimesPast
<1>6. ASSUME NEW r \in Record, Due(r, cursor[StageOf[r]] - Overlap)'
      PROVE  cached'[r] = source'[r].ver
  <2>1. StageOf[r] \in StageIds
    BY <1>0, Numbers
  <2>2. CASE StageOf[r] # s.stage
    <3> DEFINE t == cursor[StageOf[r]] - Overlap
    <3>1. cursor'[StageOf[r]] = cursor[StageOf[r]]
      BY <1>3, <2>1, <2>2
    <3>2. t \in Int /\ t + StageLimit <= clock
      BY <1>0, Numbers, OverlapSuffices DEF SyncInv, TimesPast
    <3>3. Due(r, t) => cached[r] = source[r].ver
      BY DEF SyncInv, NothingMissed
    <3> QED BY <1>0, <1>1, <1>6, <3>1, <3>2, <3>3, StoreKeeps
  <2>3. CASE StageOf[r] = s.stage
    <3> DEFINE t == cursor'[StageOf[r]] - Overlap
    <3>1. cursor'[StageOf[r]] \in Int /\ cursor'[StageOf[r]] <= clock + Lead
      BY <1>3, <1>4, <2>1, <2>3 DEF ServiceNowTypeOK, Moment, NoTime, NoCursor, Time
    <3>2. t <= clock /\ t <= s.opened
      BY <1>0, <1>2, <3>1, Numbers, SyncNumbers, OverlapSuffices DEF Reading, InTime
    <3>3. Got(p) \in SUBSET Record /\ t \in Int
      BY <3>1, <1>0, Numbers DEF Got
    <3>4. Due(r, t)
      <4> HIDE DEF t
      <4> QED BY <1>0, <1>1, <1>6, <3>2, <3>3, DueBefore DEF t
    <3>5. Due(r, s.opened)
      BY <1>0, <3>2, <3>4, <3>1, Numbers, SyncNumbers DEF Due
    <3>6. s.got[r] = source[r].ver \/ source[r].at < s.since
      BY <1>1, <1>2, <2>3, <3>5 DEF Reading, Complete
    <3>7. CASE r \in Got(p)
      <4>1. s.got[r] > 0
        BY <3>7 DEF Got
      <4>2. s.got[r] = source[r].ver
        BY <1>2, <3>5, <4>1 DEF Reading, Fresh, Due
      <4> QED BY <1>1, <3>7, <4>2 DEF Store
    <3>8. CASE r \notin Got(p)
      <4>1. s.got[r] # source[r].ver
        BY <3>5, <3>8 DEF Got, Due
      <4>2. Due(r, s.since)
        BY <3>5, <3>6, <4>1 DEF Due
      <4>3. cached[r] = source[r].ver
        BY <1>2, <2>3, <4>2 DEF Reading, Behind
      <4> QED BY <1>1, <3>8, <4>3 DEF Store
    <3> QED BY <3>7, <3>8
  <2> QED BY <2>2, <2>3
<1> QED BY <1>5, <1>6 DEF SyncInv, NothingMissed

LEMMA SyncInvStep ==
  ASSUME SyncInv, [ServiceNowNext]_snVars
  PROVE  SyncInv'
<1>0. ServiceNowTypeOK /\ ServiceNowTypeOK'
  BY ServiceNowTypeStep DEF SyncInv
<1>1. CASE UNCHANGED <<clock, source, cached, cachedSince, cursor, sync>>
  BY <1>0, <1>1, RestsSound
<1>2. CASE UNCHANGED snVars
  BY <1>1, <1>2 DEF snVars
<1>3. ASSUME NEW r \in Record, SourceChanges(r)
      PROVE  SyncInv'
  BY <1>0, <1>3, SourceChangesSound
<1>4. CASE Tick
  BY <1>0, <1>4, TickSound
<1>5. ASSUME NEW caps \in SUBSET Capability, Select(caps)
      PROVE  SyncInv'
  BY <1>1, <1>5 DEF Select
<1>6. CASE ReconcileJob
  BY <1>1, <1>6 DEF ReconcileJob
<1>7. ASSUME NEW p \in Syncers, Start(p)
      PROVE  SyncInv'
  <2> DEFINE new == [Resting EXCEPT !.step = "open", !.left = SelectedStages]
  <2>1. new.step # "read" /\ new.got = Nothing /\ new.maximum = NoTime
    BY DEF Resting
  <2>2. sync' = sync \/ sync' = [sync EXCEPT ![p] = new]
    BY <1>7 DEF Start
  <2>3. \A q \in Syncers : sync'[q] = sync[q] \/ sync'[q] = new
    BY <1>0, <2>2 DEF ServiceNowTypeOK
  <2> HIDE DEF new
  <2> QED BY <1>0, <1>7, <2>1, <2>3, RestsSound DEF Start
<1>8. ASSUME NEW p \in Syncers, NEW k \in StageIds, OpenStage(p, k)
      PROVE  SyncInv'
  BY <1>0, <1>8, OpenStageSound
<1>9. ASSUME NEW p \in Syncers, NEW R \in SUBSET Record, PageRead(p, R)
      PROVE  SyncInv'
  BY <1>0, <1>9, PageReadSound
<1>10. ASSUME NEW p \in Syncers, StageCommits(p)
       PROVE  SyncInv'
  BY <1>0, <1>10, StageCommitsSound
<1>11. ASSUME NEW p \in Syncers, NEW R \in SUBSET Record, StageFails(p, R)
       PROVE  SyncInv'
  BY <1>0, <1>11, StageFailsSound
<1>12. Resting.step # "read" /\ Resting.got = Nothing /\ Resting.maximum = NoTime
  BY DEF Resting
<1>13. ASSUME NEW p \in Syncers, Finish(p)
       PROVE  SyncInv'
  <2>1. \A q \in Syncers : sync'[q] = sync[q] \/ sync'[q] = Resting
    BY <1>0, <1>13 DEF Finish, ServiceNowTypeOK
  <2> QED BY <1>0, <1>12, <1>13, <2>1, RestsSound DEF Finish
<1>14. ASSUME NEW p \in Syncers, Aborts(p)
       PROVE  SyncInv'
  <2>1. \A q \in Syncers : sync'[q] = sync[q] \/ sync'[q] = Resting
    BY <1>0, <1>14 DEF Aborts, ServiceNowTypeOK
  <2> QED BY <1>0, <1>12, <1>14, <2>1, RestsSound DEF Aborts
<1>15. CASE Restarts
  <2>1. \A q \in Syncers : sync'[q] = Resting
    BY <1>15 DEF Restarts
  <2> QED BY <1>0, <1>12, <1>15, <2>1, RestsSound DEF Restarts
<1>16. CASE Test
  BY <1>1, <1>16 DEF Test
<1>17. CASE ServiceNowNext
  BY <1>3, <1>4, <1>5, <1>6, <1>7, <1>8, <1>9, <1>10, <1>11, <1>13, <1>14, <1>15, <1>16, <1>17
     DEF ServiceNowNext, SyncStep
<1> QED BY <1>2, <1>17

(* A row whose last change is stamped before the cursor of its stage less  *)
(* the overlap, the time the next sync asks from, is in the cache with its *)
(* last version; a journal entry, if its incident was in the cache when it *)
(* was written.  For any number of records, stages and syncs:              *)
(* servicenow.py, the cursors and the overlap of synchronize.  This rests  *)
(* on OverlapSuffices: how far the connector's clock is ahead and how long *)
(* a stage takes do not together exceed the overlap.  The code bounds      *)
(* neither: a stage makes a request, with its retries, for every incident  *)
(* in the cache.                                                           *)
THEOREM NothingIsMissed == ServiceNowSpec => []NothingMissed
<1>1. ServiceNowInit => SyncInv
  <2> SUFFICES ASSUME ServiceNowInit
               PROVE  SyncInv
    OBVIOUS
  <2>1. ServiceNowTypeOK
    BY ServiceNowTypeInit
  <2>2. TimesPast
    BY <2>1, Numbers DEF ServiceNowInit, TimesPast, Nothing, NoTime, NoCursor
  <2>3. NothingMissed
    BY <2>1, Numbers DEF ServiceNowInit, NothingMissed, Due, NoTime
  <2>4. \A p \in Syncers : Sound(p)
    BY DEF ServiceNowInit, Sound, Resting
  <2> QED BY <2>1, <2>2, <2>3, <2>4 DEF SyncInv
<1>2. SyncInv => NothingMissed
  BY DEF SyncInv
<1> QED BY <1>1, <1>2, SyncInvStep, PTL DEF ServiceNowSpec

----------------------------------------------------------------------------
(* Zammad: types. *)

LEMMA AtRestTyped == AtRest \in Run /\ 0 \in Revision /\ Never \in {Never} \cup Instant
<1>1. 0 \in Revision
  BY DEF Revision
<1>2. [x \in Ticket |-> 0] \in [Ticket -> Revision]
  BY <1>1
<1> QED BY <1>1, <1>2 DEF AtRest, Run

LEMMA NoLookupTyped == NoLookup \in Lookup
BY AtRestTyped DEF NoLookup, Lookup

LEMMA TimeTyped == {Never} \cup Instant = 0 .. LastTime
BY ZammadAssumption DEF Never, Instant

LEMMA OccursTyped ==
  ASSUME ZammadTypeOK, Occurs
  PROVE  occasions' \in 0 .. MaxOccasions
BY ZammadAssumption DEF ZammadTypeOK, Occurs

LEMMA FromTyped ==
  ASSUME NEW c \in {Never} \cup Instant
  PROVE  /\ From(c) \in {Never} \cup Instant
         /\ From(c) = Never \/ From(c) + Margin <= c
<1>1. c \in Nat /\ c <= LastTime /\ Margin \in Nat
  BY ZammadAssumption, TimeTyped
<1> QED BY <1>1, TimeTyped, ZammadAssumption DEF From, Never

LEMMA RunTyped ==
  ASSUME ZammadTypeOK, NEW p \in Runners, NEW s \in Run, run' = [run EXCEPT ![p] = s]
  PROVE  run' \in [Runners -> Run]
BY DEF ZammadTypeOK

LEMMA StoredTyped ==
  ASSUME NEW v \in Revision
  PROVE  Stored(v) \in [ver : Revision, shown : BOOLEAN]
BY DEF Stored

(* A sync after a page, m the greatest updated_at it has seen.             *)
PageFound(p, R, m) ==
  [run[p] EXCEPT
     !.todo = run[p].todo \ R,
     !.step = IF run[p].todo = R THEN "store" ELSE "list",
     !.rest = run[p].rest \cup Admitted(Returned(p, R)),
     !.got = [x \in Ticket |-> IF x \in Admitted(Returned(p, R)) THEN ticket[x].ver
                               ELSE run[p].got[x]],
     !.maximum = m]

LEMMA PageListedMaximum ==
  ASSUME ZammadTypeOK, NEW p \in Runners, NEW R \in SUBSET Ticket, PageListed(p, R)
  PROVE  \E m \in {Never} \cup Instant :
           /\ m = run[p].maximum \/ \E x \in R : m = ticket[x].at
           /\ run' = [run EXCEPT ![p] = PageFound(p, R, m)]
<1> DEFINE hits == Returned(p, R)
           S == {run[p].maximum} \cup {ticket[x].at : x \in hits}
<1>1. /\ run[p].maximum \in {Never} \cup Instant
      /\ \A x \in Ticket : ticket[x].at \in {Never} \cup Instant
  BY DEF ZammadTypeOK, Run
<1>2. hits \subseteq R /\ hits \subseteq Ticket
  BY DEF Returned
<1>3. S \in SUBSET (0 .. LastTime) /\ S # {}
  BY <1>1, <1>2, TimeTyped
<1>4. PICK m \in S : \A y \in S : m >= y
  <2> HIDE DEF S
  <2> QED BY <1>3, Greatest, ZammadAssumption
<1> DEFINE g == CHOOSE n \in S : n >= run[p].maximum /\ \A x \in hits : n >= ticket[x].at
<1>5. m >= run[p].maximum /\ \A x \in hits : m >= ticket[x].at
  BY <1>4
<1>6. g \in S
  BY <1>4, <1>5
<1>7. g = run[p].maximum \/ \E x \in R : g = ticket[x].at
  <2> HIDE DEF g
  <2> QED BY <1>2, <1>6
<1>8. g \in {Never} \cup Instant
  <2> HIDE DEF g
  <2> QED BY <1>3, <1>6, TimeTyped
<1>9. run' = [run EXCEPT ![p] = PageFound(p, R, g)]
  BY DEF PageListed, ZammadTypeOK, PageFound
<1> HIDE DEF g
<1> QED BY <1>7, <1>8, <1>9

LEMMA ReconciledTyped ==
  ASSUME ZammadTypeOK, NEW p \in Runners
  PROVE  Reconciled(p) \in [Ticket -> [ver : Revision, shown : BOOLEAN]]
<1>1. \A x \in Ticket : run[p].got[x] \in Revision
  BY DEF ZammadTypeOK, Run
<1>2. \A x \in Ticket : [held[x] EXCEPT !.shown = FALSE] \in [ver : Revision, shown : BOOLEAN]
  BY DEF ZammadTypeOK
<1> QED BY <1>1, <1>2, StoredTyped DEF Reconciled, ZammadTypeOK

LEMMA ZammadTypeStep ==
  ASSUME ZammadTypeOK, [ZammadNext]_zmVars
  PROVE  ZammadTypeOK'
<1>1. CASE UNCHANGED zmVars
  BY <1>1 DEF ZammadTypeOK, zmVars
<1>2. ASSUME NEW x \in Ticket, NEW is \in Standing, TicketChanges(x, is)
      PROVE  ZammadTypeOK'
  <2>1. ticket[x].ver \in Nat /\ MaxRevision[x] \in Nat
    BY ZammadAssumption DEF ZammadTypeOK, Revision
  <2>2. ticket[x].ver + 1 \in Revision
    BY <1>2, <2>1 DEF TicketChanges, Revision
  <2>3. [ver |-> ticket[x].ver + 1, at |-> zclock, is |-> is]
          \in [ver : Revision, at : {Never} \cup Instant, is : Standing]
    BY <2>2 DEF ZammadTypeOK
  <2>4. ticket' = [ticket EXCEPT ![x] = [ver |-> ticket[x].ver + 1, at |-> zclock, is |-> is]]
    BY <1>2 DEF TicketChanges
  <2>5. ticket' \in [Ticket -> [ver : Revision, at : {Never} \cup Instant, is : Standing]]
    BY <2>3, <2>4 DEF ZammadTypeOK
  <2> QED BY <1>2, <2>5 DEF ZammadTypeOK, TicketChanges
<1>3. ASSUME NEW x \in Ticket, NEW is \in Standing, TicketLeaves(x, is)
      PROVE  ZammadTypeOK'
  <2>1. ticket' \in [Ticket -> [ver : Revision, at : {Never} \cup Instant, is : Standing]]
    BY <1>3 DEF ZammadTypeOK, TicketLeaves
  <2> QED BY <1>3, <2>1 DEF ZammadTypeOK, TicketLeaves
<1>4. CASE TimePasses
  <2>1. zclock' \in Instant
    BY <1>4, ZammadAssumption DEF ZammadTypeOK, TimePasses, Instant
  <2> QED BY <1>4, <2>1 DEF ZammadTypeOK, TimePasses
<1>5. CASE Switch
  BY <1>5, OccursTyped DEF ZammadTypeOK, Switch
<1>6. ASSUME NEW p \in Runners, NEW full \in BOOLEAN, RunBegins(p, full)
      PROVE  ZammadTypeOK'
  <2> DEFINE new == [AtRest EXCEPT !.step = "list", !.full = full, !.seen = zcursor,
                       !.begun = zclock, !.since = IF full THEN Never ELSE From(zcursor),
                       !.todo = Ticket]
  <2>1. /\ zcursor \in {Never} \cup Instant /\ zclock \in {Never} \cup Instant
        /\ (IF full THEN Never ELSE From(zcursor)) \in {Never} \cup Instant
    BY FromTyped DEF ZammadTypeOK
  <2>2. new \in Run
    BY <2>1, AtRestTyped DEF Run
  <2>3. run' \in [Runners -> Run]
    BY <1>6, <2>2, RunTyped DEF RunBegins
  <2>4. occasions' \in 0 .. MaxOccasions
    BY <1>6, OccursTyped DEF RunBegins, ZammadTypeOK
  <2> QED BY <1>6, <2>3, <2>4 DEF ZammadTypeOK, RunBegins
<1>7. ASSUME NEW p \in Runners, NEW R \in SUBSET Ticket, PageListed(p, R)
      PROVE  ZammadTypeOK'
  <2>1. PICK m \in {Never} \cup Instant :
          /\ m = run[p].maximum \/ \E x \in R : m = ticket[x].at
          /\ run' = [run EXCEPT ![p] = PageFound(p, R, m)]
    BY <1>7, PageListedMaximum
  <2>2. run[p] \in Run /\ \A x \in Ticket : ticket[x].ver \in Revision
    BY DEF ZammadTypeOK
  <2>3. Admitted(Returned(p, R)) \subseteq Ticket
    BY DEF Admitted, Returned
  <2>4. /\ run[p].todo \ R \in SUBSET Ticket
        /\ run[p].rest \cup Admitted(Returned(p, R)) \in SUBSET Ticket
        /\ [x \in Ticket |-> IF x \in Admitted(Returned(p, R)) THEN ticket[x].ver
                             ELSE run[p].got[x]] \in [Ticket -> Revision]
    BY <2>2, <2>3 DEF Run
  <2>5. PageFound(p, R, m) \in Run
    BY <2>2, <2>4 DEF Run, PageFound
  <2>6. run' \in [Runners -> Run]
    BY <2>1, <2>5, RunTyped
  <2> QED BY <1>7, <2>6 DEF ZammadTypeOK, PageListed
<1>8. ASSUME NEW p \in Runners, NEW x \in Ticket, Upserts(p, x)
      PROVE  ZammadTypeOK'
  <2>1. run[p] \in Run /\ run[p].got[x] \in Revision
    BY DEF ZammadTypeOK, Run
  <2>2. held' \in [Ticket -> [ver : Revision, shown : BOOLEAN]]
    BY <1>8, <2>1, StoredTyped DEF ZammadTypeOK, Upserts
  <2>3. [run[p] EXCEPT !.rest = run[p].rest \ {x}] \in Run
    BY <2>1 DEF Run
  <2>4. run' = [run EXCEPT ![p] = [run[p] EXCEPT !.rest = run[p].rest \ {x}]]
    BY <1>8 DEF Upserts
  <2>5. run' \in [Runners -> Run]
    BY <2>3, <2>4, RunTyped
  <2> QED BY <1>8, <2>2, <2>5 DEF ZammadTypeOK, Upserts
<1>9. ASSUME NEW p \in Runners, RunCompletes(p)
      PROVE  ZammadTypeOK'
  <2>1. run[p] \in Run /\ run[p].full \in BOOLEAN
    BY DEF ZammadTypeOK, Run
  <2>2. zcursor' \in {Never} \cup Instant
    BY <1>9, <2>1 DEF ZammadTypeOK, RunCompletes, CursorMoved, Run
  <2>3. run' \in [Runners -> Run]
    BY <1>9, AtRestTyped, RunTyped DEF RunCompletes
  <2> QED BY <1>9, <2>1, <2>2, <2>3, ReconciledTyped DEF ZammadTypeOK, RunCompletes
<1>10. ASSUME NEW p \in Runners, RunFails(p)
       PROVE  ZammadTypeOK'
  <2>1. run' \in [Runners -> Run]
    BY <1>10, AtRestTyped, RunTyped DEF RunFails
  <2> QED BY <1>10, <2>1, OccursTyped DEF ZammadTypeOK, RunFails, RequestBreaks
<1>11. ASSUME NEW x \in Ticket, LookupBegins(x)
       PROVE  ZammadTypeOK'
  <2>1. held[x] \in [ver : Revision, shown : BOOLEAN] /\ zclock \in {Never} \cup Instant
    BY DEF ZammadTypeOK
  <2>2. lookup' \in Lookup
    BY <1>11, <2>1, AtRestTyped DEF LookupBegins, Lookup
  <2> QED BY <1>11, <2>2, OccursTyped DEF ZammadTypeOK, LookupBegins
<1>12. CASE LookupReads
  <2>1. lookup \in Lookup /\ lookup.of \in Ticket
    BY <1>12 DEF ZammadTypeOK, LookupReads
  <2>2. ticket[lookup.of].ver \in Revision
    BY <2>1 DEF ZammadTypeOK
  <2>3. lookup' \in Lookup
    BY <1>12, <2>1, <2>2 DEF LookupReads, Lookup
  <2> QED BY <1>12, <2>3 DEF ZammadTypeOK, LookupReads
<1>13. CASE LookupStores
  <2>1. \A x \in Ticket : Merged(held[x]) \in [ver : Revision, shown : BOOLEAN]
    BY DEF ZammadTypeOK, Lookup, Merged
  <2>2. held' = [held EXCEPT ![lookup.of] = Merged(held[lookup.of])]
    BY <1>13 DEF LookupStores
  <2>3. held' \in [Ticket -> [ver : Revision, shown : BOOLEAN]]
    BY <2>1, <2>2 DEF ZammadTypeOK
  <2> QED BY <1>13, <2>3, NoLookupTyped DEF ZammadTypeOK, LookupStores
<1>14. CASE LookupFails
  <2>1. lookup' \in Lookup
    BY <1>14, NoLookupTyped DEF LookupFails
  <2> QED BY <1>14, <2>1 DEF ZammadTypeOK, LookupFails
<1>15. CASE Crashes
  BY <1>15, AtRestTyped, NoLookupTyped, OccursTyped DEF ZammadTypeOK, Crashes
<1>16. CASE ZammadNext
  BY <1>2, <1>3, <1>4, <1>5, <1>6, <1>7, <1>8, <1>9, <1>10, <1>11, <1>12, <1>13, <1>14,
     <1>15, <1>16 DEF ZammadNext, RunStep
<1> QED BY <1>1, <1>16

LEMMA ZammadTypeInit == ZammadInit => ZammadTypeOK
<1>1. 1 \in Instant /\ 0 \in 0 .. MaxOccasions
  BY ZammadAssumption DEF Instant
<1>2. NoLookup \in Lookup
  BY NoLookupTyped
<1>3. ASSUME ZammadInit
      PROVE  /\ ticket \in [Ticket -> [ver : Revision, at : {Never} \cup Instant, is : Standing]]
             /\ held \in [Ticket -> [ver : Revision, shown : BOOLEAN]]
  BY <1>3, AtRestTyped DEF ZammadInit, Standing
<1> QED BY <1>1, <1>2, <1>3, AtRestTyped DEF ZammadInit, ZammadTypeOK

(* The write lock: a sync takes it as a stage begins and lets go of it with *)
(* the stage, however that ends.                                            *)
LEMMA WriterReadsStep ==
  ASSUME ServiceNowTypeOK, WriterReads, [ServiceNowNext]_snVars
  PROVE  WriterReads'
<1>0. Nobody \notin Syncers /\ writer \in Syncers \cup {Nobody}
  BY ServiceNowAssumption DEF ServiceNowTypeOK
<1> DEFINE Let(p) == /\ \A q \in Syncers : q # p => sync'[q] = sync[q]
                     /\ writer' = IF writer = p THEN Nobody ELSE writer
<1>1. ASSUME NEW p \in Syncers, Let(p)
      PROVE  WriterReads'
  BY <1>0, <1>1 DEF WriterReads
<1>2. CASE UNCHANGED <<sync, writer>>
  BY <1>2 DEF WriterReads
<1>3. CASE UNCHANGED snVars
  BY <1>2, <1>3 DEF snVars
<1>4. ASSUME NEW r \in Record, SourceChanges(r)
      PROVE  WriterReads'
  BY <1>2, <1>4 DEF SourceChanges
<1>5. ASSUME NEW caps \in SUBSET Capability, Select(caps)
      PROVE  WriterReads'
  BY <1>2, <1>5 DEF Select
<1>6. CASE Tick \/ ReconcileJob \/ Test
  BY <1>2, <1>6 DEF Tick, ReconcileJob, Test
<1>7. ASSUME NEW p \in Syncers, Start(p)
      PROVE  WriterReads'
  BY <1>0, <1>7 DEF Start, WriterReads, ServiceNowTypeOK
<1>8. ASSUME NEW p \in Syncers, NEW k \in StageIds, OpenStage(p, k)
      PROVE  WriterReads'
  <2>1. sync[p] \in Sync /\ sync \in [Syncers -> Sync]
    BY DEF ServiceNowTypeOK
  <2>2. sync'[p].step = "read" /\ \A q \in Syncers : q # p => sync'[q] = sync[q]
    BY <1>8, <2>1 DEF OpenStage, Sync
  <2> QED BY <1>0, <1>8, <2>2 DEF OpenStage, WriterReads
<1>9. ASSUME NEW p \in Syncers, NEW R \in SUBSET Record, PageRead(p, R)
      PROVE  WriterReads'
  <2>1. PICK m \in {NoTime} \cup Time : sync' = [sync EXCEPT ![p] = PageOf(p, R, m)]
    BY <1>9, PageReadMaximum
  <2>2. PageOf(p, R, m).step = sync[p].step /\ sync[p].step = "read"
    BY <1>9 DEF PageOf, PageRead, ServiceNowTypeOK, Sync
  <2>3. writer' = writer /\ \A q \in Syncers : sync'[q].step = sync[q].step
    BY <1>9, <2>1, <2>2 DEF PageRead, ServiceNowTypeOK
  <2> QED BY <1>0, <2>3 DEF WriterReads
<1>10. ASSUME NEW p \in Syncers, StageCommits(p)
       PROVE  WriterReads'
  BY <1>1, <1>10 DEF StageCommits, Release, ServiceNowTypeOK
<1>11. ASSUME NEW p \in Syncers, NEW R \in SUBSET Record, StageFails(p, R)
       PROVE  WriterReads'
  BY <1>1, <1>11 DEF StageFails, Release, ServiceNowTypeOK
<1>12. ASSUME NEW p \in Syncers, Finish(p)
       PROVE  WriterReads'
  BY <1>0, <1>12 DEF Finish, WriterReads, ServiceNowTypeOK
<1>13. ASSUME NEW p \in Syncers, Aborts(p)
       PROVE  WriterReads'
  BY <1>1, <1>13 DEF Aborts, Release, ServiceNowTypeOK
<1>14. CASE Restarts
  BY <1>14 DEF Restarts, WriterReads
<1>15. CASE ServiceNowNext
  BY <1>4, <1>5, <1>6, <1>7, <1>8, <1>9, <1>10, <1>11, <1>12, <1>13, <1>14, <1>15
     DEF ServiceNowNext, SyncStep
<1> QED BY <1>3, <1>15

(* Every variable of the two caches keeps its type, and no sync that is    *)
(* between its stages, or over, holds SQLite's lock: what commits, rolls   *)
(* back or dies must let go of it, in servicenow.py and in zammad.py.      *)
THEOREM CachesTypeCorrect == CachesSpec => []CachesTypeOK
<1>1. CachesInit => CachesTypeOK
  BY ServiceNowTypeInit, ZammadTypeInit
     DEF CachesInit, CachesTypeOK, WriterReads, ServiceNowInit
<1>2. ASSUME CachesTypeOK, [CachesNext]_<<snVars, zmVars>>
      PROVE  CachesTypeOK'
  <2>1. [ServiceNowNext]_snVars /\ [ZammadNext]_zmVars
    BY <1>2 DEF CachesNext
  <2> QED BY <1>2, <2>1, ServiceNowTypeStep, ZammadTypeStep, WriterReadsStep DEF CachesTypeOK
<1> QED BY <1>1, <1>2, PTL DEF CachesSpec

----------------------------------------------------------------------------
(* Zammad: no ticket is missed. *)

(* What a sync knows of a ticket.  A version it holds is the last one,     *)
(* unless the ticket changed after the sync began; a ticket it need not    *)
(* list again it has, or did not ask for; one it did not ask for, and one  *)
(* it has stored under the cursor it will set, are in the cache.           *)
OnTime(s) ==
  /\ s.begun <= zclock
  /\ s.step # "idle" => zclock <= s.begun + RunLimit
  /\ s.since = Never \/ s.since + Margin <= s.begun
  /\ s.maximum <= zclock
  /\ s.full => s.since = Never
  /\ s.step = "store" => s.todo = {}
Current(s, x) ==
  (x \in s.rest \/ s.got[x] > 0) /\ ticket[x].at < s.begun => s.got[x] = ticket[x].ver
Accounted(s, x) ==
  x \notin s.todo /\ ticket[x].is = "open" /\ ticket[x].at < s.begun
    => s.got[x] = ticket[x].ver \/ ticket[x].at <= s.since
Older(s, x) ==
  ticket[x].is = "open" /\ ticket[x].at <= s.since => held[x] = Stored(ticket[x].ver)
Written(s, x) ==
  s.got[x] > 0 /\ x \notin s.rest =>
    /\ s.step = "store"
    /\ ticket[x].is = "open" /\ ticket[x].at + Margin <= s.maximum
       => held[x] = Stored(ticket[x].ver)
Knows(s) ==
  OnTime(s) /\ \A x \in Ticket : Current(s, x) /\ Accounted(s, x) /\ Older(s, x) /\ Written(s, x)

(* The same of the lookup in progress.                                     *)
LookupKnows ==
  lookup # NoLookup =>
    /\ zclock \in lookup.begun .. (lookup.begun + RunLimit)
    /\ lookup.ver = 0 \/ (ticket[lookup.of].at < lookup.begun
                           => lookup.ver = ticket[lookup.of].ver)

(* No time is in the future.                                               *)
TicketsPast ==
  /\ \A x \in Ticket : ticket[x].at <= zclock
  /\ \A x \in Ticket : ticket[x].is = "open" => ticket[x].ver > 0 /\ ticket[x].at > 0
  /\ zcursor <= zclock

TicketInv ==
  /\ ZammadTypeOK
  /\ TicketsPast
  /\ TicketsNotMissed
  /\ LookupKnows
  /\ \A p \in Runners : Knows(run[p])

LEMMA ZammadNumbers ==
  ASSUME ZammadTypeOK
  PROVE  /\ zclock \in Nat /\ zclock >= 1 /\ zcursor \in Nat /\ lookup.begun \in Nat
         /\ Margin \in Nat /\ RunLimit \in Nat /\ RunLimit < Margin
         /\ \A x \in Ticket : ticket[x].at \in Nat /\ ticket[x].ver \in Nat
BY ZammadAssumption, MarginSuffices DEF ZammadTypeOK, Lookup, Instant, Never, Revision

LEMMA RunNumbers ==
  ASSUME NEW s \in Run
  PROVE  /\ s.seen \in Nat /\ s.since \in Nat /\ s.begun \in Nat /\ s.maximum \in Nat
         /\ \A x \in Ticket : s.got[x] \in Nat
BY ZammadAssumption DEF Run, Instant, Never, Revision

LEMMA IdleKnows ==
  ASSUME ZammadTypeOK, TicketsPast
  PROVE  Knows(AtRest)
<1>1. AtRest \in Run
  BY AtRestTyped
<1> QED BY <1>1, ZammadNumbers
     DEF Knows, OnTime, Current, Accounted, Older, Written, AtRest, TicketsPast, Never

(* What is written over a ticket that has not changed for Margin is its    *)
(* last version.                                                           *)
Keeps(x) ==
  ticket[x].is = "open" /\ ticket[x].at + Margin <= zclock /\ held[x] = Stored(ticket[x].ver)
    => held'[x] = Stored(ticket[x].ver)

(* A sync that does not move while others write.                           *)
LEMMA OthersKnow ==
  ASSUME TicketInv, UNCHANGED <<zclock, ticket>>, \A x \in Ticket : Keeps(x),
         NEW q \in Runners, run'[q] = run[q]
  PROVE  Knows(run[q])'
<1> DEFINE s == run[q]
<1>1. Knows(s) /\ s \in Run /\ ZammadTypeOK
  BY DEF TicketInv, ZammadTypeOK
<1>2. OnTime(s)'
  BY <1>1 DEF Knows, OnTime
<1>3. ASSUME NEW x \in Ticket
      PROVE  (Current(s, x) /\ Accounted(s, x) /\ Older(s, x) /\ Written(s, x))'
  <2>1. Current(s, x) /\ Accounted(s, x) /\ Older(s, x) /\ Written(s, x) /\ OnTime(s)
    BY <1>1 DEF Knows
  <2>2. Keeps(x) /\ (ticket[x].is = "open" => ticket[x].at > 0)
    BY DEF TicketInv, TicketsPast
  <2>3. Current(s, x)' /\ Accounted(s, x)'
    BY <2>1 DEF Current, Accounted
  <2>4. ticket[x].is = "open" /\ ticket[x].at <= s.since => ticket[x].at + Margin <= zclock
    BY <1>1, <2>1, <2>2, ZammadNumbers, RunNumbers DEF OnTime, Never
  <2>5. Older(s, x)'
    BY <2>1, <2>2, <2>4 DEF Older, Keeps
  <2>6. ticket[x].at + Margin <= s.maximum => ticket[x].at + Margin <= zclock
    BY <1>1, <2>1, ZammadNumbers, RunNumbers DEF OnTime
  <2>7. Written(s, x)'
    BY <2>1, <2>2, <2>6 DEF Written, Keeps
  <2> QED BY <2>3, <2>5, <2>7
<1> QED BY <1>2, <1>3 DEF Knows

(* Writing leaves what the cursor is past as it was.                       *)
LEMMA NotMissedKept ==
  ASSUME TicketInv, UNCHANGED <<zclock, ticket, zcursor>>, \A x \in Ticket : Keeps(x)
  PROVE  TicketsPast' /\ TicketsNotMissed'
<1>1. TicketsPast' /\ ZammadTypeOK
  BY DEF TicketInv, TicketsPast
<1>2. ASSUME NEW x \in Ticket, ticket[x].is = "open", ticket[x].at + Margin <= zcursor
      PROVE  held'[x] = Stored(ticket[x].ver)
  <2>1. ticket[x].at + Margin <= zclock
    BY <1>1, <1>2, ZammadNumbers DEF TicketInv, TicketsPast
  <2>2. held[x] = Stored(ticket[x].ver)
    BY <1>2 DEF TicketInv, TicketsNotMissed
  <2> QED BY <1>2, <2>1, <2>2 DEF Keeps
<1> QED BY <1>1, <1>2 DEF TicketsNotMissed

(* A step that only takes syncs to rest, or does not move them.            *)
LEMMA QuietSound ==
  ASSUME TicketInv, ZammadTypeOK', UNCHANGED <<zclock, ticket, zcursor, held>>, LookupKnows',
         \A q \in Runners : run'[q] = run[q] \/ run'[q] = AtRest
  PROVE  TicketInv'
<1>1. \A x \in Ticket : Keeps(x)
  BY DEF Keeps
<1>2. TicketsPast' /\ TicketsNotMissed'
  BY <1>1, NotMissedKept
<1>3. ASSUME NEW q \in Runners
      PROVE  Knows(run[q])'
  <2>1. CASE run'[q] = run[q]
    BY <1>1, <2>1, OthersKnow
  <2>2. CASE run'[q] = AtRest
    <3>1. Knows(AtRest)
      BY IdleKnows DEF TicketInv
    <3>2. Knows(AtRest)'
      BY <3>1 DEF Knows, OnTime, Current, Accounted, Older, Written
    <3> QED BY <2>2, <3>2 DEF Knows, OnTime, Current, Accounted, Older, Written
  <2> QED BY <2>1, <2>2
<1> QED BY <1>2, <1>3 DEF TicketInv

(* A change at Zammad is of now: no sync and no lookup began after it.     *)
LEMMA TicketChangesSound ==
  ASSUME TicketInv, ZammadTypeOK', NEW x \in Ticket, NEW is \in Standing, TicketChanges(x, is)
  PROVE  TicketInv'
<1>0. ZammadTypeOK
  BY DEF TicketInv
<1>1. /\ UNCHANGED <<zclock, held, zcursor, run, lookup>>
      /\ ticket'[x] = [ver |-> ticket[x].ver + 1, at |-> zclock, is |-> is]
      /\ \A y \in Ticket : y # x => ticket'[y] = ticket[y]
  BY <1>0 DEF TicketChanges, ZammadTypeOK
<1>2. /\ ticket'[x].at = zclock /\ ticket'[x].ver = ticket[x].ver + 1
  BY <1>1
<1>3. TicketsPast'
  BY <1>0, <1>1, <1>2, ZammadNumbers DEF TicketInv, TicketsPast
<1>4. TicketsNotMissed'
  <2>1. ~(ticket'[x].at + Margin <= zcursor)
    BY <1>0, <1>2, ZammadNumbers DEF TicketInv, TicketsPast
  <2> QED BY <1>1, <2>1 DEF TicketInv, TicketsNotMissed
<1>5. LookupKnows'
  <2> SUFFICES ASSUME lookup # NoLookup
               PROVE  LookupKnows'
    BY <1>1 DEF LookupKnows
  <2>1. CASE lookup.of = x
    BY <1>0, <1>1, <1>2, <2>1, ZammadNumbers DEF TicketInv, LookupKnows
  <2>2. CASE lookup.of # x
    <3>1. lookup.of \in Ticket => ticket'[lookup.of] = ticket[lookup.of]
      BY <1>1, <2>2
    <3>2. lookup.of \notin Ticket => ticket'[lookup.of] = ticket[lookup.of]
      BY <1>0 DEF TicketChanges, ZammadTypeOK
    <3> QED BY <1>1, <3>1, <3>2 DEF TicketInv, LookupKnows
  <2> QED BY <2>1, <2>2
<1>6. ASSUME NEW q \in Runners
      PROVE  Knows(run[q])'
  <2> DEFINE s == run[q]
  <2>1. Knows(s) /\ s \in Run /\ run'[q] = s
    BY <1>0, <1>1 DEF TicketInv, ZammadTypeOK
  <2> HIDE DEF s
  <2>2. OnTime(s)'
    BY <1>1, <2>1 DEF Knows, OnTime, s
  <2>3. ASSUME NEW y \in Ticket
        PROVE  (Current(s, y) /\ Accounted(s, y) /\ Older(s, y) /\ Written(s, y))'
    <3>1. CASE y # x
      BY <1>1, <2>1, <3>1 DEF Knows, Current, Accounted, Older, Written, s
    <3>2. CASE y = x
      <4>1. ~(ticket'[x].at < s.begun)
        BY <1>0, <1>2, <2>1, ZammadNumbers, RunNumbers DEF Knows, OnTime
      <4>2. ~(ticket'[x].at <= s.since)
        BY <1>0, <1>2, <2>1, ZammadNumbers, RunNumbers DEF Knows, OnTime, Never
      <4>3. ~(ticket'[x].at + Margin <= s.maximum)
        BY <1>0, <1>2, <2>1, ZammadNumbers, RunNumbers DEF Knows, OnTime
      <4> QED BY <1>1, <2>1, <3>2, <4>1, <4>2, <4>3
           DEF Knows, Current, Accounted, Older, Written, s
    <3> QED BY <3>1, <3>2
  <2> QED BY <2>2, <2>3 DEF Knows, s
<1> QED BY <1>3, <1>4, <1>5, <1>6 DEF TicketInv

LEMMA TicketLeavesSound ==
  ASSUME TicketInv, ZammadTypeOK', NEW x \in Ticket, NEW is \in Standing, TicketLeaves(x, is)
  PROVE  TicketInv'
<1>0. ZammadTypeOK
  BY DEF TicketInv
<1>1. /\ UNCHANGED <<zclock, held, zcursor, run, lookup>>
      /\ \A y \in Ticket : /\ ticket'[y].ver = ticket[y].ver
                           /\ ticket'[y].at = ticket[y].at
                           /\ ticket'[y].is = "open" => ticket[y].is = "open"
  <2>1. ticket' = [ticket EXCEPT ![x].is = is] /\ is # "open"
    BY DEF TicketLeaves
  <2> QED BY <1>0, <2>1 DEF TicketLeaves, ZammadTypeOK
<1>2. TicketsPast' /\ TicketsNotMissed'
  BY <1>1 DEF TicketInv, TicketsPast, TicketsNotMissed
<1>3. LookupKnows'
  <2>1. lookup.of \notin Ticket => ticket'[lookup.of] = ticket[lookup.of]
    BY <1>0 DEF TicketLeaves, ZammadTypeOK
  <2> QED BY <1>1, <2>1 DEF TicketInv, LookupKnows
<1>4. ASSUME NEW q \in Runners
      PROVE  Knows(run[q])'
  <2>1. Knows(run[q]) /\ run'[q] = run[q]
    BY <1>1 DEF TicketInv
  <2>2. OnTime(run[q])'
    BY <1>1, <2>1 DEF Knows, OnTime
  <2> QED BY <1>1, <2>1, <2>2 DEF Knows, Current, Accounted, Older, Written
<1> QED BY <1>2, <1>3, <1>4 DEF TicketInv

LEMMA TimePassesSound ==
  ASSUME TicketInv, ZammadTypeOK', TimePasses
  PROVE  TicketInv'
<1>0. ZammadTypeOK
  BY DEF TicketInv
<1>1. zclock' = zclock + 1 /\ UNCHANGED <<ticket, held, zcursor, run, lookup>>
  BY DEF TimePasses
<1>2. TicketsPast' /\ TicketsNotMissed'
  BY <1>0, <1>1, ZammadNumbers DEF TicketInv, TicketsPast, TicketsNotMissed
<1>3. LookupKnows'
  BY <1>0, <1>1, ZammadNumbers DEF TicketInv, LookupKnows, TimePasses
<1>4. ASSUME NEW q \in Runners
      PROVE  Knows(run[q])'
  <2>1. Knows(run[q]) /\ run[q] \in Run /\ run'[q] = run[q]
    BY <1>0, <1>1 DEF TicketInv, ZammadTypeOK
  <2>2. run[q].step # "idle" => zclock < run[q].begun + RunLimit
    BY DEF TimePasses
  <2>3. OnTime(run[q])'
    BY <1>0, <1>1, <2>1, <2>2, ZammadNumbers, RunNumbers DEF Knows, OnTime
  <2> QED BY <1>1, <2>1, <2>3 DEF Knows, Current, Accounted, Older, Written
<1> QED BY <1>2, <1>3, <1>4 DEF TicketInv

(* A sync begins: what it will not ask for is in the cache.                *)
LEMMA RunBeginsSound ==
  ASSUME TicketInv, ZammadTypeOK', NEW p \in Runners, NEW full \in BOOLEAN, RunBegins(p, full)
  PROVE  TicketInv'
<1>0. ZammadTypeOK
  BY DEF TicketInv
<1>1. UNCHANGED <<zclock, ticket, held, zcursor, lookup>>
  BY DEF RunBegins
<1>2. \A x \in Ticket : Keeps(x)
  BY <1>1 DEF Keeps
<1>3. TicketsPast' /\ TicketsNotMissed' /\ LookupKnows'
  BY <1>1, <1>2, NotMissedKept DEF TicketInv, LookupKnows
<1> DEFINE t == IF full THEN Never ELSE From(zcursor)
           s == [AtRest EXCEPT !.step = "list", !.full = full, !.seen = zcursor,
                   !.begun = zclock, !.since = t, !.todo = Ticket]
<1>4. run' = [run EXCEPT ![p] = s]
  BY DEF RunBegins
<1>5. t = Never \/ t + Margin <= zcursor
  BY <1>0, FromTyped DEF ZammadTypeOK
<1>6. Knows(s)
  <2>1. /\ s.step = "list" /\ s.full = full /\ s.begun = zclock /\ s.since = t
        /\ s.todo = Ticket /\ s.rest = {} /\ s.maximum = Never
        /\ \A x \in Ticket : s.got[x] = 0
    BY DEF AtRest
  <2>2. t \in Nat
    BY <1>0, FromTyped, TimeTyped, ZammadAssumption DEF ZammadTypeOK
  <2>3. OnTime(s)
    <3>1. full => t = Never
      OBVIOUS
    <3>2. t + Margin <= zcursor => t + Margin <= zclock
      BY <1>0, <2>2, ZammadNumbers DEF TicketInv, TicketsPast
    <3> HIDE DEF s, t
    <3> QED BY <1>0, <1>5, <2>1, <2>2, <3>1, <3>2, ZammadNumbers DEF OnTime, Never
  <2> HIDE DEF s, t
  <2>4. ASSUME NEW x \in Ticket
        PROVE  Current(s, x) /\ Accounted(s, x) /\ Older(s, x) /\ Written(s, x)
    <3>1. Current(s, x) /\ Accounted(s, x) /\ Written(s, x)
      BY <2>1, <2>4 DEF Current, Accounted, Written
    <3>2. ASSUME ticket[x].is = "open", ticket[x].at <= t
          PROVE  held[x] = Stored(ticket[x].ver)
      <4>1. ticket[x].at > 0
        BY <3>2 DEF TicketInv, TicketsPast
      <4>2. ticket[x].at + Margin <= zcursor
        BY <1>0, <1>5, <2>2, <3>2, <4>1, ZammadNumbers DEF Never
      <4> QED BY <3>2, <4>2 DEF TicketInv, TicketsNotMissed
    <3> QED BY <2>1, <3>1, <3>2 DEF Older
  <2> QED BY <2>3, <2>4 DEF Knows
<1>7. ASSUME NEW q \in Runners
      PROVE  Knows(run[q])'
  <2>1. CASE q = p
    <3>1. run'[p] = s
      BY <1>0, <1>4 DEF ZammadTypeOK
    <3> HIDE DEF s
    <3> QED BY <1>1, <1>6, <2>1, <3>1 DEF Knows, OnTime, Current, Accounted, Older, Written
  <2>2. CASE q # p
    <3>1. run'[q] = run[q]
      BY <1>0, <1>4, <2>2 DEF ZammadTypeOK
    <3> QED BY <1>1, <1>2, <3>1, OthersKnow
  <2> QED BY <2>1, <2>2
<1> QED BY <1>3, <1>7 DEF TicketInv

(* A page: of the tickets asked about it has those updated since.          *)
LEMMA PageListedSound ==
  ASSUME TicketInv, ZammadTypeOK', NEW p \in Runners, NEW R \in SUBSET Ticket, PageListed(p, R)
  PROVE  TicketInv'
<1>0. ZammadTypeOK
  BY DEF TicketInv
<1>1. UNCHANGED <<zclock, ticket, held, zcursor, lookup>>
  BY DEF PageListed
<1>2. \A x \in Ticket : Keeps(x)
  BY <1>1 DEF Keeps
<1>3. TicketsPast' /\ TicketsNotMissed' /\ LookupKnows'
  BY <1>1, <1>2, NotMissedKept DEF TicketInv, LookupKnows
<1>4. PICK m \in {Never} \cup Instant :
        /\ m = run[p].maximum \/ \E x \in R : m = ticket[x].at
        /\ run' = [run EXCEPT ![p] = PageFound(p, R, m)]
  BY <1>0, PageListedMaximum
<1> DEFINE o == run[p]
           s == PageFound(p, R, m)
           kept == Admitted(Returned(p, R))
<1>5. o \in Run /\ Knows(o) /\ o.step = "list" /\ R \subseteq o.todo
  BY <1>0 DEF TicketInv, ZammadTypeOK, PageListed
<1>6. /\ s.step = (IF o.todo = R THEN "store" ELSE "list") /\ s.full = o.full
      /\ s.begun = o.begun /\ s.since = o.since /\ s.todo = o.todo \ R
      /\ s.rest = o.rest \cup kept /\ s.maximum = m
      /\ \A x \in Ticket : s.got[x] = IF x \in kept THEN ticket[x].ver ELSE o.got[x]
  BY <1>5 DEF PageFound, Run
<1>7. \A x \in Ticket :
        x \in kept <=> x \in R /\ ticket[x].is = "open" /\ ticket[x].at > o.since
  BY DEF Admitted, Returned, Listable
<1>8. Knows(s)
  <2> HIDE DEF s, o, kept
  <2>1. OnTime(s)
    <3>1. m <= zclock
      <4>1. o.maximum <= zclock
        BY <1>5 DEF Knows, OnTime
      <4>2. \A x \in R : ticket[x].at <= zclock
        BY DEF TicketInv, TicketsPast
      <4> QED BY <1>4, <4>1, <4>2 DEF o
    <3> QED BY <1>5, <1>6, <3>1 DEF Knows, OnTime
  <2>2. ASSUME NEW x \in Ticket
        PROVE  Current(s, x) /\ Accounted(s, x) /\ Older(s, x) /\ Written(s, x)
    <3>1. Current(o, x) /\ Accounted(o, x) /\ Older(o, x) /\ Written(o, x)
      BY <1>5 DEF Knows
    <3>2. Current(s, x)
      BY <1>6, <3>1 DEF Current
    <3>3. Older(s, x)
      BY <1>6, <3>1 DEF Older
    <3>4. Written(s, x)
      BY <1>5, <1>6, <3>1 DEF Written
    <3>5. CASE x \in kept
      BY <1>6, <3>2, <3>3, <3>4, <3>5 DEF Accounted
    <3>6. CASE x \notin kept /\ x \in R
      <4>1. ticket[x].is = "open" => ticket[x].at <= s.since
        BY <1>0, <1>5, <1>6, <1>7, <3>6, ZammadNumbers, RunNumbers
      <4> QED BY <3>2, <3>3, <3>4, <4>1 DEF Accounted
    <3>7. CASE x \notin R
      <4>1. x \notin kept
        BY <1>7, <3>7
      <4>2. Accounted(s, x)
        BY <1>6, <3>1, <3>7, <4>1 DEF Accounted
      <4> QED BY <3>2, <3>3, <3>4, <4>2
    <3> QED BY <3>5, <3>6, <3>7
  <2> QED BY <2>1, <2>2 DEF Knows
<1>9. ASSUME NEW q \in Runners
      PROVE  Knows(run[q])'
  <2>1. CASE q = p
    <3>1. run'[p] = s
      BY <1>0, <1>4 DEF ZammadTypeOK
    <3> HIDE DEF s
    <3> QED BY <1>1, <1>8, <2>1, <3>1 DEF Knows, OnTime, Current, Accounted, Older, Written
  <2>2. CASE q # p
    <3>1. run'[q] = run[q]
      BY <1>0, <1>4, <2>2 DEF ZammadTypeOK
    <3> QED BY <1>1, <1>2, <3>1, OthersKnow
  <2> QED BY <2>1, <2>2
<1> QED BY <1>3, <1>9 DEF TicketInv

(* A ticket is stored: the version is the last one if the ticket did not   *)
(* change since the sync began, which is before the cursor it will set.    *)
LEMMA UpsertsSound ==
  ASSUME TicketInv, ZammadTypeOK', NEW p \in Runners, NEW x \in Ticket, Upserts(p, x)
  PROVE  TicketInv'
<1> DEFINE o == run[p]
           s == [o EXCEPT !.rest = o.rest \ {x}]
<1>0. ZammadTypeOK /\ o \in Run /\ Knows(o) /\ o.step = "store" /\ x \in o.rest
  BY DEF TicketInv, ZammadTypeOK, Upserts
<1>1. UNCHANGED <<zclock, ticket, zcursor, lookup>> /\ run' = [run EXCEPT ![p] = s]
  BY DEF Upserts
<1>2. \A y \in Ticket : held'[y] = IF y = x THEN Stored(o.got[x]) ELSE held[y]
  BY <1>0 DEF Upserts, ZammadTypeOK
<1>3. ticket[x].at + Margin <= zclock => o.got[x] = ticket[x].ver
  <2>1. OnTime(o) /\ Current(o, x)
    BY <1>0 DEF Knows
  <2>2. ticket[x].at + Margin <= zclock => ticket[x].at < o.begun
    BY <1>0, <2>1, ZammadNumbers, RunNumbers DEF OnTime
  <2> QED BY <1>0, <2>1, <2>2 DEF Current
<1>4. \A y \in Ticket : Keeps(y)
  BY <1>2, <1>3 DEF Keeps
<1>5. TicketsPast' /\ TicketsNotMissed' /\ LookupKnows'
  BY <1>1, <1>4, NotMissedKept DEF TicketInv, LookupKnows
<1>6. /\ s.step = "store" /\ s.full = o.full /\ s.begun = o.begun /\ s.since = o.since
      /\ s.todo = o.todo /\ s.rest = o.rest \ {x} /\ s.got = o.got /\ s.maximum = o.maximum
  BY <1>0 DEF Run
<1>7. ASSUME NEW q \in Runners
      PROVE  Knows(run[q])'
  <2>1. CASE q # p
    <3>1. run'[q] = run[q]
      BY <1>0, <1>1, <2>1 DEF ZammadTypeOK
    <3> QED BY <1>1, <1>4, <3>1, OthersKnow
  <2>2. CASE q = p
    <3>1. run'[p] = s
      BY <1>0, <1>1 DEF ZammadTypeOK
    <3>2. ASSUME NEW y \in Ticket
          PROVE  (Current(run[p], y) /\ Accounted(run[p], y) /\ Older(run[p], y)
                  /\ Written(run[p], y))'
      <4> HIDE DEF s
      <4>1. Current(o, y) /\ Accounted(o, y) /\ Older(o, y) /\ Written(o, y) /\ OnTime(o)
        BY <1>0 DEF Knows
      <4>2. Keeps(y) /\ (ticket[y].is = "open" => ticket[y].at > 0)
        BY <1>4 DEF TicketInv, TicketsPast
      <4>3. Current(run[p], y)' /\ Accounted(run[p], y)'
        BY <1>1, <1>6, <3>1, <4>1 DEF Current, Accounted, o
      <4>4. ticket[y].is = "open" /\ ticket[y].at <= o.since => ticket[y].at + Margin <= zclock
        BY <1>0, <4>1, <4>2, ZammadNumbers, RunNumbers DEF OnTime, Never
      <4>5. Older(run[p], y)'
        BY <1>1, <1>6, <3>1, <4>1, <4>2, <4>4 DEF Older, Keeps
      <4>6. ticket[y].at + Margin <= o.maximum => ticket[y].at + Margin <= zclock
        BY <1>0, <4>1, ZammadNumbers, RunNumbers DEF OnTime
      <4>7. Written(run[p], y)'
        <5>1. CASE y = x
          <6>1. ticket[x].at + Margin <= o.maximum => held'[x] = Stored(ticket[x].ver)
            BY <1>2, <1>3, <4>6, <5>1
          <6> QED BY <1>1, <1>6, <3>1, <5>1, <6>1 DEF Written
        <5>2. CASE y # x
          BY <1>1, <1>6, <3>1, <4>1, <4>2, <4>6, <5>2 DEF Written, Keeps
        <5> QED BY <5>1, <5>2
      <4> QED BY <4>3, <4>5, <4>7
    <3>3. OnTime(run[p])'
      <4> HIDE DEF s
      <4> QED BY <1>0, <1>1, <1>6, <3>1 DEF Knows, OnTime
    <3> QED BY <2>2, <3>2, <3>3 DEF Knows
  <2> QED BY <2>1, <2>2
<1> QED BY <1>5, <1>7 DEF TicketInv

(* A sync ends: what its cursor is past it stores now, has stored, or did  *)
(* not ask for; what it marks deleted was not there when it began.         *)
LEMMA RunCompletesSound ==
  ASSUME TicketInv, ZammadTypeOK', NEW p \in Runners, RunCompletes(p)
  PROVE  TicketInv'
<1> DEFINE o == run[p]
<1>0. ZammadTypeOK /\ o \in Run /\ Knows(o) /\ OnTime(o) /\ o.step = "store" /\ o.todo = {}
  BY DEF TicketInv, ZammadTypeOK, RunCompletes, Knows, OnTime
<1>1. /\ UNCHANGED <<zclock, ticket, lookup>>
      /\ run' = [run EXCEPT ![p] = AtRest]
      /\ zcursor' = zcursor \/ zcursor' = o.maximum
  BY DEF RunCompletes, CursorMoved
<1>2. \A x \in Ticket :
        held'[x] = IF x \in o.rest THEN Stored(o.got[x])
                   ELSE IF o.full /\ o.got[x] = 0 THEN [held[x] EXCEPT !.shown = FALSE]
                   ELSE held[x]
  BY DEF RunCompletes, Reconciled
<1>3. ASSUME NEW x \in Ticket, ticket[x].is = "open", ticket[x].at + Margin <= zclock
      PROVE  held'[x] = held[x] \/ held'[x] = Stored(ticket[x].ver)
  <2>1. Current(o, x) /\ Accounted(o, x)
    BY <1>0 DEF Knows
  <2>2. ticket[x].at < o.begun
    BY <1>0, <1>3, ZammadNumbers, RunNumbers DEF OnTime
  <2>3. x \in o.rest => o.got[x] = ticket[x].ver
    BY <2>1, <2>2 DEF Current
  <2>4. o.full => o.got[x] # 0
    <3>1. ticket[x].ver > 0 /\ ticket[x].at > 0
      BY <1>3 DEF TicketInv, TicketsPast
    <3>2. o.got[x] = ticket[x].ver \/ ticket[x].at <= o.since
      BY <1>0, <1>3, <2>1, <2>2 DEF Accounted
    <3> QED BY <1>0, <3>1, <3>2, ZammadNumbers DEF OnTime, Never
  <2> QED BY <1>2, <2>3, <2>4
<1>4. \A x \in Ticket : Keeps(x)
  BY <1>3 DEF Keeps
<1>5. TicketsPast' /\ LookupKnows'
  BY <1>0, <1>1 DEF TicketInv, TicketsPast, LookupKnows, OnTime
<1>6. ASSUME NEW x \in Ticket, ticket[x].is = "open", ticket[x].at + Margin <= zcursor'
      PROVE  held'[x] = Stored(ticket[x].ver)
  <2>1. Current(o, x) /\ Accounted(o, x) /\ Older(o, x) /\ Written(o, x)
    BY <1>0 DEF Knows
  <2>2. ticket[x].at + Margin <= zclock
    <3>1. zcursor <= zclock /\ o.maximum <= zclock
      BY <1>0 DEF TicketInv, TicketsPast, OnTime
    <3> QED BY <1>0, <1>1, <1>6, <3>1, ZammadNumbers, RunNumbers
  <2>3. held'[x] = held[x] \/ held'[x] = Stored(ticket[x].ver)
    BY <1>3, <1>6, <2>2
  <2>4. CASE zcursor' = zcursor
    <3>1. held[x] = Stored(ticket[x].ver)
      BY <1>6, <2>4 DEF TicketInv, TicketsNotMissed
    <3> QED BY <2>3, <3>1
  <2>5. CASE zcursor' = o.maximum
    <3>1. ticket[x].at < o.begun
      BY <1>0, <2>2, ZammadNumbers, RunNumbers DEF OnTime
    <3>2. o.got[x] = ticket[x].ver \/ ticket[x].at <= o.since
      BY <1>0, <1>6, <2>1, <3>1 DEF Accounted
    <3>3. CASE x \in o.rest
      BY <1>2, <2>1, <3>1, <3>3 DEF Current
    <3>4. CASE x \notin o.rest /\ ticket[x].at <= o.since
      BY <1>6, <2>1, <2>3, <3>4 DEF Older
    <3>5. CASE x \notin o.rest /\ o.got[x] = ticket[x].ver
      <4>1. o.got[x] > 0
        BY <1>6, <3>5 DEF TicketInv, TicketsPast
      <4> QED BY <1>6, <2>1, <2>3, <2>5, <3>5, <4>1 DEF Written
    <3> QED BY <3>2, <3>3, <3>4, <3>5
  <2> QED BY <1>1, <2>4, <2>5
<1>7. TicketsNotMissed'
  BY <1>1, <1>6 DEF TicketsNotMissed
<1>8. ASSUME NEW q \in Runners
      PROVE  Knows(run[q])'
  <2>1. CASE q # p
    <3>1. run'[q] = run[q]
      BY <1>0, <1>1, <2>1 DEF ZammadTypeOK
    <3> QED BY <1>1, <1>4, <3>1, OthersKnow
  <2>2. CASE q = p
    <3>1. run'[p] = AtRest
      BY <1>0, <1>1 DEF ZammadTypeOK
    <3>2. ASSUME ZammadTypeOK', TicketsPast'
          PROVE  Knows(AtRest)'
      BY <3>2, AtRestTyped, ZammadNumbers, <1>1, <1>0
         DEF Knows, OnTime, Current, Accounted, Older, Written, AtRest, TicketsPast, Never
    <3> QED BY <1>5, <2>2, <3>1, <3>2 DEF Knows, OnTime, Current, Accounted, Older, Written
  <2> QED BY <2>1, <2>2
<1> QED BY <1>5, <1>7, <1>8 DEF TicketInv

LEMMA LookupStoresSound ==
  ASSUME TicketInv, ZammadTypeOK', LookupStores
  PROVE  TicketInv'
<1>0. ZammadTypeOK /\ LookupKnows /\ lookup # NoLookup
  BY DEF TicketInv, LookupStores
<1>1. /\ UNCHANGED <<zclock, ticket, zcursor, run>> /\ lookup' = NoLookup
      /\ held' = [held EXCEPT ![lookup.of] = Merged(held[lookup.of])] /\ lookup.ver # 0
  BY DEF LookupStores
<1>2. ASSUME NEW x \in Ticket
      PROVE  Keeps(x)
  <2>1. CASE x # lookup.of
    BY <1>0, <1>1, <2>1 DEF Keeps, ZammadTypeOK
  <2>2. CASE x = lookup.of
    <3>1. held'[x] = Merged(held[x])
      BY <1>0, <1>1, <2>2 DEF ZammadTypeOK
    <3>2. ticket[x].at + Margin <= zclock => lookup.ver = ticket[x].ver
      BY <1>0, <1>1, <2>2, ZammadNumbers DEF LookupKnows
    <3>3. Merged(Stored(lookup.ver)) = Stored(lookup.ver)
      <4>1. (Stored(lookup.ver).shown \/ ~lookup.seen.shown) = TRUE
        BY DEF Stored
      <4>2. (IF lookup.ver = lookup.seen.ver THEN Stored(lookup.ver).ver ELSE lookup.ver)
              = lookup.ver
        BY DEF Stored
      <4> QED BY <4>1, <4>2, Zenon DEF Merged, Stored
    <3> QED BY <3>1, <3>2, <3>3 DEF Keeps
  <2> QED BY <2>1, <2>2
<1>3. TicketsPast' /\ TicketsNotMissed' /\ LookupKnows'
  BY <1>1, <1>2, NotMissedKept DEF TicketInv, LookupKnows
<1>4. \A q \in Runners : Knows(run[q])'
  BY <1>1, <1>2, OthersKnow
<1> QED BY <1>3, <1>4 DEF TicketInv

LEMMA TicketInvStep ==
  ASSUME TicketInv, [ZammadNext]_zmVars
  PROVE  TicketInv'
<1>0. ZammadTypeOK /\ ZammadTypeOK'
  BY ZammadTypeStep DEF TicketInv
<1>1. CASE UNCHANGED <<zclock, ticket, held, zcursor, run, lookup>>
  BY <1>0, <1>1, QuietSound DEF TicketInv, LookupKnows
<1>2. CASE UNCHANGED zmVars
  BY <1>1, <1>2 DEF zmVars
<1>3. ASSUME NEW x \in Ticket, NEW is \in Standing, TicketChanges(x, is)
      PROVE  TicketInv'
  BY <1>0, <1>3, TicketChangesSound
<1>4. ASSUME NEW x \in Ticket, NEW is \in Standing, TicketLeaves(x, is)
      PROVE  TicketInv'
  BY <1>0, <1>4, TicketLeavesSound
<1>5. CASE TimePasses
  BY <1>0, <1>5, TimePassesSound
<1>6. CASE Switch
  BY <1>1, <1>6 DEF Switch
<1>7. ASSUME NEW p \in Runners, NEW full \in BOOLEAN, RunBegins(p, full)
      PROVE  TicketInv'
  BY <1>0, <1>7, RunBeginsSound
<1>8. ASSUME NEW p \in Runners, NEW R \in SUBSET Ticket, PageListed(p, R)
      PROVE  TicketInv'
  BY <1>0, <1>8, PageListedSound
<1>9. ASSUME NEW p \in Runners, NEW x \in Ticket, Upserts(p, x)
      PROVE  TicketInv'
  BY <1>0, <1>9, UpsertsSound
<1>10. ASSUME NEW p \in Runners, RunCompletes(p)
       PROVE  TicketInv'
  BY <1>0, <1>10, RunCompletesSound
<1>11. ASSUME NEW p \in Runners, RunFails(p)
       PROVE  TicketInv'
  <2>1. \A q \in Runners : run'[q] = run[q] \/ run'[q] = AtRest
    BY <1>0, <1>11 DEF RunFails, ZammadTypeOK
  <2>2. UNCHANGED <<zclock, ticket, zcursor, held, lookup>>
    BY <1>11 DEF RunFails
  <2> QED BY <1>0, <2>1, <2>2, QuietSound DEF TicketInv, LookupKnows
<1>12. ASSUME NEW x \in Ticket, LookupBegins(x)
       PROVE  TicketInv'
  <2>1. UNCHANGED <<zclock, ticket, zcursor, held, run>>
    BY <1>12 DEF LookupBegins
  <2>2. lookup'.begun = zclock /\ lookup'.ver = 0
    BY <1>12 DEF LookupBegins
  <2>3. LookupKnows'
    <3>1. zclock' = zclock /\ zclock \in zclock .. (zclock + RunLimit)
      BY <1>0, <2>1, ZammadNumbers
    <3> QED BY <2>2, <3>1 DEF LookupKnows
  <2> QED BY <1>0, <2>1, <2>3, QuietSound
<1>13. CASE LookupReads
  <2>1. UNCHANGED <<zclock, ticket, zcursor, held, run>> /\ lookup # NoLookup
    BY <1>13, ZammadAssumption DEF LookupReads, NoLookup
  <2>2. /\ lookup'.of = lookup.of /\ lookup'.begun = lookup.begun
        /\ lookup'.ver = ticket[lookup.of].ver
    BY <1>0, <1>13 DEF LookupReads, ZammadTypeOK, Lookup
  <2>3. LookupKnows'
    BY <2>1, <2>2 DEF TicketInv, LookupKnows
  <2> QED BY <1>0, <2>1, <2>3, QuietSound
<1>14. CASE LookupStores
  BY <1>0, <1>14, LookupStoresSound
<1>15. CASE LookupFails
  BY <1>0, <1>15, QuietSound DEF LookupFails, LookupKnows
<1>16. CASE Crashes
  <2>1. UNCHANGED <<zclock, ticket, zcursor, held>> /\ \A q \in Runners : run'[q] = AtRest
    BY <1>16 DEF Crashes
  <2>2. LookupKnows'
    BY <1>16 DEF Crashes, LookupKnows
  <2> QED BY <1>0, <2>1, <2>2, QuietSound
<1>17. CASE ZammadNext
  BY <1>3, <1>4, <1>5, <1>6, <1>7, <1>8, <1>9, <1>10, <1>11, <1>12, <1>13, <1>14, <1>15,
     <1>16, <1>17 DEF ZammadNext, RunStep
<1> QED BY <1>2, <1>17

(* An open ticket whose updated_at is Margin or more before the cursor is  *)
(* in the cache, shown, with the very version it has at Zammad, for any    *)
(* number of tickets and of syncs, lookups and full reconciliations at     *)
(* once: zammad.py, the cursor and the overlap of synchronize.  This rests *)
(* on MarginSuffices: no sync and no lookup takes as long as the overlap   *)
(* of two minutes.  The code does not bound a sync so: it may list 5000    *)
(* tickets and asks for the articles of each.                              *)
THEOREM NoTicketIsMissed == ZammadSpec => []TicketsNotMissed
<1>1. ZammadInit => TicketInv
  <2> SUFFICES ASSUME ZammadInit
               PROVE  TicketInv
    OBVIOUS
  <2>1. ZammadTypeOK
    BY ZammadTypeInit
  <2>2. TicketsPast
    BY <2>1, ZammadNumbers DEF ZammadInit, TicketsPast, Never
  <2>3. TicketsNotMissed /\ LookupKnows
    BY DEF ZammadInit, TicketsNotMissed, LookupKnows
  <2>4. \A p \in Runners : Knows(run[p])
    BY <2>1, <2>2, IdleKnows DEF ZammadInit
  <2> QED BY <2>1, <2>2, <2>3, <2>4 DEF TicketInv
<1>2. TicketInv => TicketsNotMissed
  BY DEF TicketInv
<1> QED BY <1>1, <1>2, TicketInvStep, PTL DEF ZammadSpec

(* Neither cache misses anything: the invariants of the two, of the        *)
(* specification whose behaviours are those of the one or of the other.    *)
THEOREM CachesMissNothing == CachesSpec => [](NothingMissed /\ TicketsNotMissed)
<1>1. CachesInit => ServiceNowInit /\ ZammadInit
  BY DEF CachesInit
<1>2. [CachesNext]_<<snVars, zmVars>> => [ServiceNowNext]_snVars /\ [ZammadNext]_zmVars
  BY DEF CachesNext
<1> QED BY <1>1, <1>2, NothingIsMissed, NoTicketIsMissed, PTL
     DEF CachesSpec, ServiceNowSpec, ZammadSpec

=============================================================================
