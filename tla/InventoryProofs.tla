---------------------------- MODULE InventoryProofs ----------------------------
(* That nothing in the inventory refers to an asset that is not there, that *)
(* imports are whole but for malformed rows, and that CMDB rows which      *)
(* declare one identity are of one asset, for any files, targets and       *)
(* identities.                                                             *)
EXTENDS Inventory, FiniteSetTheorems, SequenceTheorems, TLAPS

----------------------------------------------------------------------------
Rows(v) == {v} \X CmdbRow

(* The versions uploaded are the first ones.                               *)
Numbered ==
  \E k \in 0 .. MaxUploads : \A v \in VersionId : upload[v].is # "none" <=> v <= k

(* The import that holds the lock, and the version it may replace.         *)
Locked ==
  /\ Unlocked <=> importing.version = None
  /\ ~Unlocked => upload[importing.version].is = "uploaded"
  /\ current # None => upload[current].is # "none"

Types == InventoryTyped /\ Numbered /\ Locked

(* What the import does not touch refers to the assets that were there     *)
(* when it began, which are those a failure leaves.                        *)
Below(o, n) == observed[o].asset <= n /\ link[o] <= n

References(n) ==
  /\ \A o \in Observation : decided[o].asset <= n
  /\ \A t \in Target : service[t] <= n
  /\ \A d \in depends : d.from <= n /\ d.on <= n
  /\ deciding.to.asset <= n

RolledBack ==
  ~Unlocked =>
    /\ importing.base <= assets
    /\ \A o \in Observation \ Rows(importing.version) : Below(o, importing.base)
    /\ References(importing.base)

Existing == (\A o \in Observation : Below(o, assets)) /\ References(assets) /\ RolledBack

LEMMA Bounds == MaxUploads \in Nat /\ MaxScrapes \in Nat /\ MaxDecisions \in Nat /\ MaxFailures \in Nat
BY InventoryAssumption

LEMMA Files ==
  /\ CmdbFile \subseteq Seq(CmdbRow)
  /\ \A file \in CmdbFile : \A m, n \in 1 .. Len(file) : file[m] = file[n] => m = n
<1>1. CmdbFile \subseteq Seq(CmdbRow)
  BY InventoryAssumption
<1>2. \A file \in CmdbFile : \A m, n \in DOMAIN file : file[m] = file[n] => m = n
  BY InventoryAssumption
<1>3. \A file \in CmdbFile : DOMAIN file = 1 .. Len(file)
  BY <1>1, LenProperties
<1> QED BY <1>1, <1>2, <1>3

LEMMA Kinds ==
  /\ None = 0 /\ None \notin VersionId /\ VersionId \subseteq Nat
  /\ Imported \subseteq Observation /\ Target \subseteq Observation
  /\ \A o \in Imported : o \notin Target
  /\ \A v \in VersionId, r \in CmdbRow : <<v, r>> \in Imported
  /\ \A v \in VersionId : Rows(v) \subseteq Imported
  /\ Rows(None) \cap Imported = {}
  /\ \A o \in Imported : \E v \in VersionId : o \in Rows(v)
<1>1. None = 0 /\ None \notin VersionId /\ VersionId \subseteq Nat
  BY Bounds DEF None, VersionId
<1>2. \A o \in Imported : o \notin Target
  BY InventoryAssumption DEF Imported, VersionId
<1>3. Imported \subseteq Observation /\ Target \subseteq Observation
  BY DEF Observation
<1>4. /\ \A v \in VersionId, r \in CmdbRow : <<v, r>> \in Imported
      /\ \A v \in VersionId : Rows(v) \subseteq Imported
  BY DEF Imported, Rows
<1>5. Rows(None) \cap Imported = {}
  BY <1>1 DEF Imported, Rows
<1>6. \A o \in Imported : \E v \in VersionId : o \in Rows(v)
  BY DEF Imported, Rows
<1> QED BY <1>1, <1>2, <1>3, <1>4, <1>5, <1>6

LEMMA One == ASSUME NEW S, Cardinality(S) = 1 PROVE (CHOOSE a \in S : TRUE) \in S
<1>1. S # {}
  BY FS_EmptySet
<1> QED BY <1>1

LEMMA FirstTyped ==
  /\ Nowhere \in Whereabouts /\ Undecided \in [made : BOOLEAN, asset : Nat]
  /\ NoImport \in [version : VersionId \cup {None}, rest : Seq(CmdbRow), base : Nat]
  /\ NoDecision \in [of : SUBSET Observation, loaded : Whereabouts, to : Whereabouts]
  /\ Nowhere.asset = 0 /\ Nowhere.is = "none" /\ ~Undecided.made /\ Undecided.asset = 0
  /\ NoImport.version = None /\ NoDecision.of = {} /\ NoDecision.to = Nowhere
BY EmptySeq DEF Nowhere, Undecided, NoImport, NoDecision, None, Whereabouts

LEMMA InitTypes == InventoryInit => Types
<1> SUFFICES ASSUME InventoryInit PROVE Types
  OBVIOUS
<1>1. upload \in [VersionId -> [file : CmdbFile \cup {<<>>},
                                is : {"none", "uploaded", "imported", "superseded"}]]
  BY DEF InventoryInit
<1>2. /\ current \in VersionId \cup {None} /\ assets \in Nat /\ link \in [Observation -> Nat]
      /\ service \in [Target -> Nat] /\ scraped \subseteq Target /\ scrapes \in 0 .. MaxScrapes
      /\ depends \subseteq [of : Observation, from : Nat, on : Nat]
      /\ decisions \in 0 .. MaxDecisions /\ failures \in 0 .. MaxFailures
  BY Bounds DEF InventoryInit, None
<1>3. /\ observed \in [Observation -> Whereabouts]
      /\ decided \in [Observation -> [made : BOOLEAN, asset : Nat]]
      /\ importing \in [version : VersionId \cup {None}, rest : Seq(CmdbRow), base : Nat]
      /\ deciding \in [of : SUBSET Observation, loaded : Whereabouts, to : Whereabouts]
  BY FirstTyped DEF InventoryInit
<1>4. Numbered
  <2>1. 0 \in 0 .. MaxUploads /\ \A v \in VersionId : upload[v].is = "none" /\ ~(v <= 0)
    BY Bounds DEF InventoryInit, VersionId
  <2> QED BY <2>1 DEF Numbered
<1>5. Locked
  BY FirstTyped DEF InventoryInit, Locked, Unlocked
<1> QED BY <1>1, <1>2, <1>3, <1>4, <1>5 DEF Types, InventoryTyped

(* The next version's number is free.                                      *)
LEMMA NextVersion ==
  ASSUME Types, 1 + Cardinality({w \in VersionId : upload[w].is # "none"}) <= MaxUploads
  PROVE  LET v == 1 + Cardinality({w \in VersionId : upload[w].is # "none"})
         IN v \in VersionId /\ upload[v].is = "none"
            /\ \A w \in VersionId : upload[w].is # "none" <=> w <= v - 1
<1>1. PICK k \in 0 .. MaxUploads : \A w \in VersionId : upload[w].is # "none" <=> w <= k
  BY DEF Types, Numbered
<1> DEFINE numbered == {w \in VersionId : upload[w].is # "none"}
           v == 1 + Cardinality(numbered)
<1>2. numbered = 1 .. k
  BY <1>1, Bounds DEF VersionId
<1>3. v <= MaxUploads
  OBVIOUS
<1> HIDE DEF numbered
<1>4. Cardinality(1 .. k) = k
  BY <1>1, FS_Interval
<1>5. Cardinality(numbered) = k /\ k \in Nat
  BY <1>2, <1>4, Bounds
<1>6. v = k + 1
  BY <1>5
<1>7. v \in VersionId /\ upload[v].is = "none"
  BY <1>1, <1>3, <1>6, Bounds DEF VersionId
<1>8. \A w \in VersionId : upload[w].is # "none" <=> w <= v - 1
  BY <1>1, <1>6
<1> USE DEF numbered
<1> QED BY <1>7, <1>8

----------------------------------------------------------------------------
(* Files.                                                                  *)
LEMMA UploadStep ==
  ASSUME Types, Existing, NEW file \in CmdbFile, Upload(file)
  PROVE  Types' /\ Existing'
<1> DEFINE v == 1 + Cardinality({w \in VersionId : upload[w].is # "none"})
<1>1. /\ v \in VersionId /\ upload[v].is = "none"
      /\ \A w \in VersionId : upload[w].is # "none" <=> w <= v - 1
  BY NextVersion DEF Upload
<1>2. /\ Unlocked /\ upload' = [upload EXCEPT ![v] = [file |-> file, is |-> "uploaded"]]
      /\ UNCHANGED <<current, assets, observed, link, decided, service, depends, importing,
                     scraped, deciding, scrapes, decisions, failures>>
  BY DEF Upload
<1> HIDE DEF v
<1>3. InventoryTyped'
  BY <1>1, <1>2 DEF Types, InventoryTyped
<1>4. Numbered'
  <2>1. \A w \in VersionId : upload'[w].is # "none" <=> w <= v
    BY <1>1, <1>2, Kinds DEF Types, InventoryTyped
  <2>2. v \in 0 .. MaxUploads
    BY <1>1 DEF VersionId
  <2> QED BY <2>1, <2>2 DEF Numbered
<1>5. Locked'
  BY <1>2 DEF Types, Locked, Unlocked
<1>6. Existing'
  BY <1>2 DEF Existing, Below, References, RolledBack, Unlocked
<1> QED BY <1>3, <1>4, <1>5, <1>6 DEF Types

LEMMA BeginStep ==
  ASSUME Types, Existing, NEW v \in VersionId, BeginImport(v)
  PROVE  Types' /\ Existing'
<1>1. /\ Unlocked /\ upload[v].is = "uploaded"
      /\ importing' = [version |-> v, rest |-> upload[v].file, base |-> assets]
      /\ UNCHANGED <<upload, current, assets, observed, link, decided, service, depends, scraped,
                     deciding, scrapes, decisions, failures>>
  BY DEF BeginImport
<1>2. upload[v].file \in Seq(CmdbRow)
  BY Files, EmptySeq DEF Types, InventoryTyped
<1>3. InventoryTyped'
  BY <1>1, <1>2 DEF Types, InventoryTyped
<1>4. Numbered'
  BY <1>1 DEF Types, Numbered
<1>5. Locked'
  <2>1. importing'.version = v /\ v # None
    BY <1>1, Kinds
  <2>2. ~Unlocked'
    BY <2>1, FirstTyped DEF Unlocked
  <2> QED BY <1>1, <2>1, <2>2 DEF Types, Locked
<1>6. Existing'
  <2>1. (\A o \in Observation : Below(o, assets)) /\ References(assets) /\ assets \in Nat
    BY DEF Existing, Types, InventoryTyped
  <2>2. importing'.base = assets /\ assets' = assets
    BY <1>1
  <2>3. \A o \in Observation : Below(o, assets)' /\ Below(o, importing.base)'
    BY <1>1, <2>1, <2>2 DEF Below
  <2>4. References(assets)' /\ References(importing.base)'
    BY <1>1, <2>1, <2>2 DEF References
  <2> QED BY <2>1, <2>2, <2>3, <2>4 DEF Existing, RolledBack
<1> QED BY <1>3, <1>4, <1>5, <1>6 DEF Types

(* What a row is correlated with is one of the assets.                     *)
LEMMA MatchesExist ==
  ASSUME Types, Existing, NEW I
  PROVE  Matches(I) \subseteq 1 .. assets /\ IsFiniteSet(Matches(I)) /\ assets \in Nat
<1>1. assets \in Nat /\ link \in [Observation -> Nat] /\ \A o \in Observation : link[o] <= assets
  BY DEF Types, InventoryTyped, Existing, Below
<1>2. Matches(I) \subseteq 1 .. assets
  BY <1>1, Kinds DEF Matches, Sharing
<1>3. IsFiniteSet(1 .. assets)
  BY <1>1, FS_Interval
<1> QED BY <1>1, <1>2, <1>3, FS_Subset

(* The outcome of a row: the one asset it matches, or a new one.           *)
Ingests(o, a, status) ==
  /\ observed' = [observed EXCEPT ![o] = [asset |-> a, is |-> status]]
  /\ link' = [link EXCEPT ![o] = a]
  /\ \/ Matches(IdentitiesOf(o)) = {a} /\ assets' = assets /\ status = "observed"
     \/ /\ a = assets + 1 /\ assets' = assets + 1
        /\ status = IF Matches(IdentitiesOf(o)) = {} THEN "observed" ELSE "ambiguous"

LEMMA IngestOutcome ==
  ASSUME Types, Existing, Ingest
  PROVE  LET o == <<importing.version, Head(importing.rest)>>
         IN \E a \in 1 .. assets', status \in {"observed", "ambiguous"} : Ingests(o, a, status)
<1> DEFINE o == <<importing.version, Head(importing.rest)>>
           I == IdentitiesOf(o)
           unique == Cardinality(Matches(I)) = 1 /\ \A a \in Matches(I) : ~Clashes(a, I)
           asset == IF unique THEN CHOOSE a \in Matches(I) : TRUE ELSE assets + 1
           status == IF unique \/ Matches(I) = {} THEN "observed" ELSE "ambiguous"
<1>1. /\ assets' = IF unique THEN assets ELSE assets + 1
      /\ observed' = [observed EXCEPT ![o] = [asset |-> asset, is |-> status]]
      /\ link' = [link EXCEPT ![o] = asset]
  BY DEF Ingest
<1>2. Matches(I) \subseteq 1 .. assets /\ IsFiniteSet(Matches(I)) /\ assets \in Nat
  BY MatchesExist
<1>3. unique => Matches(I) = {asset}
  <2>1. ASSUME unique PROVE Matches(I) = {asset}
    <3>1. PICK a : Matches(I) = {a}
      BY <1>2, <2>1, FS_Singleton
    <3>2. asset = a
      BY <2>1, <3>1
    <3> QED BY <3>1, <3>2
  <2> QED BY <2>1
<1>4. status \in {"observed", "ambiguous"}
  OBVIOUS
<1>5. ~unique => asset = assets + 1
  OBVIOUS
<1>6. status = IF unique \/ Matches(I) = {} THEN "observed" ELSE "ambiguous"
  OBVIOUS
<1> HIDE DEF asset, status, unique
<1>7. asset \in 1 .. assets'
  BY <1>1, <1>2, <1>3, <1>5
<1>8. Ingests(o, asset, status)
  BY <1>1, <1>3, <1>5, <1>6 DEF Ingests
<1> QED BY <1>4, <1>7, <1>8

LEMMA IngestStep ==
  ASSUME Types, Existing, Ingest
  PROVE  Types' /\ Existing'
<1> DEFINE o == <<importing.version, Head(importing.rest)>>
<1>1. PICK a \in 1 .. assets', status \in {"observed", "ambiguous"} : Ingests(o, a, status)
  BY IngestOutcome
<1>2. /\ ~Unlocked /\ importing.rest # <<>>
      /\ importing' = [importing EXCEPT !.rest = Tail(importing.rest)]
      /\ UNCHANGED <<upload, current, decided, service, depends, scraped, deciding, scrapes,
                     decisions, failures>>
  BY DEF Ingest
<1>3. /\ importing.rest \in Seq(CmdbRow) /\ importing.version \in VersionId
      /\ importing.base \in Nat /\ assets \in Nat
  BY <1>2 DEF Types, Locked, InventoryTyped
<1>4. Head(importing.rest) \in CmdbRow /\ Tail(importing.rest) \in Seq(CmdbRow)
  BY <1>2, <1>3, HeadTailProperties
<1>5. o \in Observation /\ o \in Rows(importing.version)
  BY <1>3, <1>4, Kinds DEF Rows
<1>6. assets' \in Nat /\ assets <= assets'
  BY <1>1, <1>3 DEF Ingests
<1>7. a \in Nat /\ [asset |-> a, is |-> status] \in Whereabouts
  BY <1>1 DEF Whereabouts
<1> HIDE DEF o
<1>8. observed' \in [Observation -> Whereabouts] /\ link' \in [Observation -> Nat]
  BY <1>1, <1>7 DEF Ingests, Types, InventoryTyped
<1>9. /\ importing' \in [version : VersionId \cup {None}, rest : Seq(CmdbRow), base : Nat]
      /\ importing'.version = importing.version /\ importing'.base = importing.base
  BY <1>2, <1>4 DEF Types, InventoryTyped
<1>10. InventoryTyped'
  BY <1>2, <1>6, <1>8, <1>9 DEF Types, InventoryTyped
<1>11. ~Unlocked'
  BY <1>3, <1>9, Kinds, FirstTyped DEF Unlocked
<1>12. Numbered' /\ Locked'
  BY <1>2, <1>3, <1>9, <1>11, Kinds DEF Types, Numbered, Locked
<1>13. observed'[o].asset = a /\ link'[o] = a
  BY <1>1, <1>5 DEF Ingests, Types, InventoryTyped
<1>14. \A p \in Observation : p # o => observed'[p] = observed[p] /\ link'[p] = link[p]
  BY <1>1 DEF Ingests, Types, InventoryTyped
<1>15. \A p \in Observation : Below(p, assets)'
  <2>1. ASSUME NEW p \in Observation PROVE Below(p, assets)'
    <3>1. Below(p, assets) /\ observed[p].asset \in Nat /\ link[p] \in Nat
      BY DEF Existing, Types, InventoryTyped, Whereabouts
    <3> QED BY <1>1, <1>3, <1>6, <1>13, <1>14, <3>1 DEF Below
  <2> QED BY <2>1
<1>16. References(assets)'
  BY <1>2, <1>3, <1>6 DEF Existing, References, Types, InventoryTyped, Whereabouts
<1>17. RolledBack'
  <2>1. /\ importing.base <= assets /\ References(importing.base)
        /\ \A p \in Observation \ Rows(importing.version) : Below(p, importing.base)
    BY <1>2 DEF Existing, RolledBack
  <2>2. References(importing.base)'
    BY <1>2, <1>9, <2>1 DEF References
  <2>3. \A p \in Observation \ Rows(importing'.version) : Below(p, importing.base)'
    BY <1>5, <1>9, <1>14, <2>1 DEF Below
  <2> QED BY <1>3, <1>6, <1>9, <2>1, <2>2, <2>3 DEF RolledBack
<1> QED BY <1>10, <1>12, <1>15, <1>16, <1>17 DEF Types, Existing

(* The dependencies found are between assets.                              *)
LEMMA HostsExist ==
  ASSUME Types, Existing
  PROVE  \A d \in HostedRows : d \in [of : Observation, from : Nat, on : Nat]
                               /\ d.from <= assets /\ d.on <= assets
<1>1. /\ assets \in Nat /\ link \in [Observation -> Nat] /\ observed \in [Observation -> Whereabouts]
      /\ \A o \in Observation : observed[o].asset <= assets /\ link[o] <= assets
  BY DEF Types, InventoryTyped, Existing, Below
<1>2. \A o \in Imported : HostsOf(o) \subseteq 0 .. assets
  BY <1>1, Kinds DEF HostsOf, Whereabouts
<1> SUFFICES ASSUME NEW o \in Imported, Cardinality(HostsOf(o)) = 1
             PROVE  LET d == [of |-> o, from |-> observed[o].asset, on |-> CHOOSE a \in HostsOf(o) : TRUE]
                    IN d \in [of : Observation, from : Nat, on : Nat]
                       /\ d.from <= assets /\ d.on <= assets
  BY DEF HostedRows
<1> DEFINE on == CHOOSE a \in HostsOf(o) : TRUE
<1>3. on \in 0 .. assets
  BY <1>2, One
<1> HIDE DEF on
<1>4. o \in Observation /\ observed[o].asset \in Nat /\ observed[o].asset <= assets
  BY <1>1, Kinds DEF Whereabouts
<1>5. [of |-> o, from |-> observed[o].asset, on |-> on] \in [of : Observation, from : Nat, on : Nat]
  BY <1>1, <1>3, <1>4
<1> USE DEF on
<1> QED BY <1>1, <1>3, <1>4, <1>5

(* The versions after an import has been committed.                        *)
LEMMA TakeOver ==
  ASSUME Types, ~Unlocked, TakesOver
  PROVE  /\ upload' \in [VersionId -> [file : CmdbFile \cup {<<>>},
                                       is : {"none", "uploaded", "imported", "superseded"}]]
         /\ current' \in VersionId \cup {None} /\ importing' = NoImport
         /\ Unlocked' /\ Numbered' /\ Locked'
         /\ importing.version \in VersionId /\ upload'[importing.version].is = "imported"
         /\ \A v \in VersionId :
              /\ upload'[v].file = upload[v].file
              /\ upload'[v].is \in {"none", "uploaded"} =>
                   upload[v].is \in {"none", "uploaded"} /\ v # importing.version
              /\ upload'[v].is \in {"imported", "superseded"} =>
                   upload[v].is \in {"imported", "superseded"} \/ v = importing.version \/ v = current
<1>1. importing' = NoImport /\ current' = importing.version
  BY DEF TakesOver
<1>2. importing.version \in VersionId /\ upload[importing.version].is = "uploaded"
  BY DEF Types, Locked, InventoryTyped
<1>3. upload' = [v \in VersionId |->
         IF v = importing.version THEN [upload[v] EXCEPT !.is = "imported"]
         ELSE IF v = current THEN [upload[v] EXCEPT !.is = "superseded"]
         ELSE upload[v]]
  BY DEF TakesOver
<1>4. upload' \in [VersionId -> [file : CmdbFile \cup {<<>>},
                                 is : {"none", "uploaded", "imported", "superseded"}]]
  BY <1>3 DEF Types, InventoryTyped
<1>5. Numbered'
  <2>1. PICK k \in 0 .. MaxUploads : \A v \in VersionId : upload[v].is # "none" <=> v <= k
    BY DEF Types, Numbered
  <2>2. current \in VersionId => upload[current].is # "none"
    BY Kinds DEF Types, Locked
  <2>3. \A v \in VersionId : upload'[v].is # "none" <=> upload[v].is # "none"
    BY <1>2, <1>3, <2>2 DEF Types, InventoryTyped
  <2> QED BY <2>1, <2>3 DEF Numbered
<1>6. Unlocked'
  BY <1>1 DEF Unlocked
<1>7. upload'[importing.version].is = "imported"
  BY <1>2, <1>3 DEF Types, InventoryTyped
<1>8. Locked'
  BY <1>1, <1>6, <1>7, FirstTyped DEF Locked
<1>9. \A v \in VersionId : upload'[v].file = upload[v].file
  BY <1>3 DEF Types, InventoryTyped
<1>10. \A v \in VersionId :
         /\ upload'[v].is \in {"none", "uploaded"} =>
              upload[v].is \in {"none", "uploaded"} /\ v # importing.version
         /\ upload'[v].is \in {"imported", "superseded"} =>
              upload[v].is \in {"imported", "superseded"} \/ v = importing.version \/ v = current
  BY <1>2, <1>3 DEF Types, InventoryTyped
<1> QED BY <1>1, <1>2, <1>4, <1>5, <1>6, <1>7, <1>8, <1>9, <1>10

LEMMA CommitStep ==
  ASSUME Types, Existing, CommitImport
  PROVE  Types' /\ Existing'
<1>1. /\ ~Unlocked /\ TakesOver
      /\ depends' \subseteq depends \cup HostedRows
      /\ UNCHANGED <<assets, observed, link, decided, service, scraped, deciding, scrapes, decisions,
                     failures>>
  BY DEF CommitImport
<1>2. depends' \subseteq [of : Observation, from : Nat, on : Nat]
  BY <1>1, HostsExist DEF Types, InventoryTyped
<1>3. InventoryTyped'
  BY <1>1, <1>2, TakeOver, FirstTyped DEF Types, InventoryTyped
<1>4. RolledBack'
  BY <1>1, TakeOver DEF RolledBack
<1>5. References(assets)'
  BY <1>1, HostsExist DEF Existing, References
<1>6. \A o \in Observation : Below(o, assets)'
  BY <1>1 DEF Existing, Below
<1> QED BY <1>1, <1>3, <1>4, <1>5, <1>6, TakeOver DEF Types, Existing

LEMMA BreakStep ==
  ASSUME Types, Existing, ImportBreaksOff
  PROVE  Types' /\ Existing'
<1> DEFINE o == <<importing.version, Head(importing.rest)>>
           bare == [asset |-> None, is |-> "observed"]
<1>1. /\ ~Unlocked /\ TakesOver /\ importing.rest # <<>>
      /\ observed' = [observed EXCEPT ![o] = bare]
      /\ UNCHANGED <<assets, link, decided, service, depends, scraped, deciding, scrapes, decisions,
                     failures>>
  BY DEF ImportBreaksOff
<1>2. bare \in Whereabouts /\ bare.asset = 0
  BY Kinds DEF Whereabouts
<1> HIDE DEF o, bare
<1>3. observed' \in [Observation -> Whereabouts]
  BY <1>1, <1>2 DEF Types, InventoryTyped
<1>4. InventoryTyped'
  BY <1>1, <1>3, TakeOver, FirstTyped DEF Types, InventoryTyped
<1>5. RolledBack'
  BY <1>1, TakeOver DEF RolledBack
<1>6. References(assets)'
  BY <1>1 DEF Existing, References
<1>7. \A p \in Observation : Below(p, assets)'
  <2>1. ASSUME NEW p \in Observation PROVE Below(p, assets)'
    <3>1. Below(p, assets) /\ assets \in Nat
      BY DEF Existing, Types, InventoryTyped
    <3>2. observed'[p] = IF p = o THEN bare ELSE observed[p]
      BY <1>1 DEF Types, InventoryTyped
    <3> QED BY <1>1, <1>2, <3>1, <3>2 DEF Below
  <2> QED BY <2>1
<1> QED BY <1>1, <1>4, <1>5, <1>6, <1>7, TakeOver DEF Types, Existing

LEMMA FailStep ==
  ASSUME Types, Existing, ImportFails
  PROVE  Types' /\ Existing'
<1>1. /\ ~Unlocked /\ importing' = NoImport /\ assets' = importing.base
      /\ failures < MaxFailures /\ failures' = failures + 1
      /\ observed' = [o \in Observation |->
           IF o \in Rows(importing.version) THEN Nowhere ELSE observed[o]]
      /\ link' = [o \in Observation |-> IF o \in Rows(importing.version) THEN None ELSE link[o]]
      /\ UNCHANGED <<upload, current, decided, service, depends, scraped, deciding, scrapes,
                     decisions>>
  BY DEF ImportFails, Rows
<1>2. importing.base \in Nat /\ None \in Nat
  BY Kinds DEF Types, InventoryTyped
<1>3. InventoryTyped'
  <2>1. observed' \in [Observation -> Whereabouts] /\ link' \in [Observation -> Nat]
    BY <1>1, <1>2, FirstTyped DEF Types, InventoryTyped
  <2>2. failures' \in 0 .. MaxFailures /\ assets' \in Nat
    BY <1>1, <1>2, Bounds DEF Types, InventoryTyped
  <2>3. importing' \in [version : VersionId \cup {None}, rest : Seq(CmdbRow), base : Nat]
    BY <1>1, FirstTyped
  <2> QED BY <1>1, <2>1, <2>2, <2>3 DEF Types, InventoryTyped
<1>4. Unlocked'
  BY <1>1 DEF Unlocked
<1>5. Numbered' /\ Locked'
  BY <1>1, <1>4, FirstTyped DEF Types, Numbered, Locked
<1>6. RolledBack'
  BY <1>4 DEF RolledBack
<1>7. /\ References(importing.base)
      /\ \A o \in Observation \ Rows(importing.version) : Below(o, importing.base)
  BY <1>1 DEF Existing, RolledBack
<1>8. References(assets)'
  BY <1>1, <1>7 DEF References
<1>9. \A o \in Observation : Below(o, assets)'
  BY <1>1, <1>2, <1>7, FirstTyped, Kinds DEF Below
<1> QED BY <1>3, <1>5, <1>6, <1>8, <1>9 DEF Types, Existing

(* Targets and decisions.                                                  *)
LEMMA CorrelatedExist ==
  ASSUME Types, Existing, NEW t \in Target
  PROVE  /\ Correlated(t) \in Whereabouts /\ Correlated(t).asset <= assets
         /\ Correlated(t).asset \in Nat
<1>1. /\ assets \in Nat /\ link \in [Observation -> Nat] /\ Target \subseteq Observation
      /\ decided \in [Observation -> [made : BOOLEAN, asset : Nat]]
      /\ \A o \in Observation : link[o] <= assets /\ decided[o].asset <= assets
  BY Kinds DEF Types, InventoryTyped, Existing, Below, References
<1>2. Contenders(t) \subseteq 0 .. assets
  <2>1. \A kind : Hits(t, kind) \subseteq 0 .. assets
    BY <1>1, Kinds DEF Hits, Sharing
  <2> QED BY <2>1 DEF Contenders
<1>3. Cardinality(Contenders(t)) = 1 => (CHOOSE a \in Contenders(t) : TRUE) \in 0 .. assets
  BY <1>2, One
<1> DEFINE chosen == CHOOSE a \in Contenders(t) : TRUE
<1>4. CASE decided[t].made
  BY <1>1, <1>4 DEF Correlated, Whereabouts
<1>5. CASE ~decided[t].made /\ Cardinality(Contenders(t)) = 1
  <2>1. Correlated(t) = [asset |-> chosen, is |-> "observed"]
    BY <1>5 DEF Correlated
  <2>2. chosen \in 0 .. assets
    BY <1>3, <1>5
  <2> HIDE DEF chosen
  <2> QED BY <1>1, <2>1, <2>2 DEF Whereabouts
<1>6. CASE ~decided[t].made /\ Cardinality(Contenders(t)) # 1
  <2>1. Correlated(t) = [asset |-> None, is |-> IF Contenders(t) = {} THEN "unmatched" ELSE "ambiguous"]
    BY <1>6 DEF Correlated
  <2> QED BY <1>1, <2>1, Kinds DEF Whereabouts
<1> QED BY <1>4, <1>5, <1>6

LEMMA ScanStep ==
  ASSUME Types, Existing, ScanTargets
  PROVE  Types' /\ Existing'
<1>1. /\ Unlocked
      /\ observed' = [o \in Observation |-> IF o \in scraped THEN Correlated(o) ELSE observed[o]]
      /\ link' = [o \in Observation |-> IF o \in scraped THEN Correlated(o).asset ELSE link[o]]
      /\ service' = [t \in Target |-> IF t \in scraped /\ Correlated(t).asset # None
                                      THEN Correlated(t).asset ELSE service[t]]
      /\ depends' = depends \cup
           {[of |-> t, from |-> Correlated(t).asset, on |-> None] :
              t \in {t \in scraped : Correlated(t).asset # None}}
      /\ UNCHANGED <<upload, current, assets, decided, importing, scraped, deciding, scrapes,
                     decisions, failures>>
  BY DEF ScanTargets
<1>2. \A t \in scraped : /\ t \in Target /\ t \in Observation
                         /\ Correlated(t) \in Whereabouts /\ Correlated(t).asset <= assets
                         /\ Correlated(t).asset \in Nat
  BY CorrelatedExist, Kinds DEF Types, InventoryTyped
<1>3. /\ observed' \in [Observation -> Whereabouts] /\ link' \in [Observation -> Nat]
      /\ service' \in [Target -> Nat]
  BY <1>1, <1>2 DEF Types, InventoryTyped
<1>4. depends' \subseteq [of : Observation, from : Nat, on : Nat]
  BY <1>1, <1>2, Kinds DEF Types, InventoryTyped
<1>5. InventoryTyped'
  BY <1>1, <1>3, <1>4 DEF Types, InventoryTyped
<1>6. Unlocked'
  BY <1>1 DEF Unlocked
<1>7. Numbered' /\ Locked'
  BY <1>1 DEF Types, Numbered, Locked, Unlocked
<1>8. RolledBack'
  BY <1>6 DEF RolledBack
<1>9. \A o \in Observation : Below(o, assets)'
  <2>1. \A o \in Observation : observed'[o].asset <= assets /\ link'[o] <= assets
    BY <1>1, <1>2 DEF Existing, Below
  <2> QED BY <1>1, <2>1 DEF Below
<1>10. References(assets)'
  <2>1. assets \in Nat /\ \A d \in depends' : d.from <= assets /\ d.on <= assets
    BY <1>1, <1>2, Kinds DEF Existing, References, Types, InventoryTyped
  <2>2. \A t \in Target : service'[t] <= assets
    BY <1>1, <1>2 DEF Existing, References
  <2> QED BY <1>1, <2>1, <2>2 DEF Existing, References
<1> QED BY <1>5, <1>7, <1>8, <1>9, <1>10 DEF Types, Existing

LEMMA ScrapeStep ==
  ASSUME Types, Existing, NEW T \in SUBSET Target, Scrape(T)
  PROVE  Types' /\ Existing'
<1>1. /\ scrapes < MaxScrapes /\ scrapes' = scrapes + 1 /\ scraped' = T
      /\ UNCHANGED <<upload, current, assets, observed, link, decided, service, depends, importing,
                     deciding, decisions, failures>>
  BY DEF Scrape
<1>2. InventoryTyped'
  BY <1>1, Bounds DEF Types, InventoryTyped
<1>3. Numbered' /\ Locked'
  BY <1>1 DEF Types, Numbered, Locked, Unlocked
<1>4. Existing'
  BY <1>1 DEF Existing, Below, References, RolledBack, Unlocked
<1> QED BY <1>2, <1>3, <1>4 DEF Types

LEMMA DecideStep ==
  ASSUME Types, Existing, NEW o \in Observation, NEW asset, Decide(o, asset)
  PROVE  Types' /\ Existing'
<1> DEFINE to == [asset |-> asset, is |-> IF asset # None THEN "observed" ELSE "unmatched"]
<1>1. /\ decisions < MaxDecisions /\ decisions' = decisions + 1 /\ asset \in 0 .. assets
      /\ ~Unlocked => asset <= importing.base
      /\ deciding' = [of |-> {o}, loaded |-> observed[o], to |-> to]
      /\ UNCHANGED <<upload, current, assets, observed, link, decided, service, depends, importing,
                     scraped, scrapes, failures>>
  BY DEF Decide
<1>2. to \in Whereabouts /\ to.asset = asset /\ assets \in Nat
  BY <1>1 DEF Types, InventoryTyped, Whereabouts
<1> HIDE DEF to
<1>3. deciding' \in [of : SUBSET Observation, loaded : Whereabouts, to : Whereabouts]
      /\ deciding'.to = to
  BY <1>1, <1>2 DEF Types, InventoryTyped
<1>4. InventoryTyped'
  BY <1>1, <1>3, Bounds DEF Types, InventoryTyped
<1>5. Numbered' /\ Locked'
  BY <1>1 DEF Types, Numbered, Locked, Unlocked
<1>6. \A p \in Observation : Below(p, assets)'
  BY <1>1 DEF Existing, Below
<1>7. References(assets)'
  BY <1>1, <1>2, <1>3 DEF Existing, References
<1>8. RolledBack'
  BY <1>1, <1>2, <1>3 DEF Existing, Below, References, RolledBack, Unlocked
<1> QED BY <1>4, <1>5, <1>6, <1>7, <1>8 DEF Types, Existing

LEMMA StoreStep ==
  ASSUME Types, Existing, NEW o \in Observation, StoreDecision(o)
  PROVE  Types' /\ Existing'
<1> DEFINE to == deciding.to
           now == [asset |-> IF to.asset # deciding.loaded.asset THEN to.asset ELSE observed[o].asset,
                   is |-> IF to.is # deciding.loaded.is THEN to.is ELSE observed[o].is]
           made == [made |-> TRUE, asset |-> to.asset]
<1>1. /\ Unlocked /\ deciding' = NoDecision
      /\ decided' = [decided EXCEPT ![o] = made]
      /\ link' = [link EXCEPT ![o] = to.asset]
      /\ observed' = [observed EXCEPT ![o] = now]
      /\ UNCHANGED <<upload, current, assets, service, depends, importing, scraped, scrapes,
                     decisions, failures>>
  BY DEF StoreDecision
<1>2. /\ to \in Whereabouts /\ observed[o] \in Whereabouts /\ assets \in Nat
      /\ to.asset <= assets /\ observed[o].asset <= assets
  BY DEF Types, InventoryTyped, Existing, Below, References
<1>3. now \in Whereabouts /\ now.asset <= assets /\ made.asset = to.asset
      /\ to.asset \in Nat /\ made \in [made : BOOLEAN, asset : Nat]
  BY <1>2 DEF Whereabouts
<1> HIDE DEF now, made, to
<1>4. InventoryTyped'
  BY <1>1, <1>3, FirstTyped DEF Types, InventoryTyped
<1>5. Unlocked'
  BY <1>1 DEF Unlocked
<1>6. Numbered' /\ Locked'
  BY <1>1 DEF Types, Numbered, Locked, Unlocked
<1>7. RolledBack'
  BY <1>5 DEF RolledBack
<1>8. /\ observed'[o] = now /\ link'[o] = to.asset /\ decided'[o] = made
      /\ \A p \in Observation : p # o => /\ observed'[p] = observed[p] /\ link'[p] = link[p]
                                         /\ decided'[p] = decided[p]
  BY <1>1 DEF Types, InventoryTyped
<1>9. \A p \in Observation : Below(p, assets)'
  BY <1>1, <1>2, <1>3, <1>8 DEF Existing, Below, to
<1>10. References(assets)'
  BY <1>1, <1>2, <1>3, <1>8, FirstTyped DEF Existing, References, to
<1> QED BY <1>4, <1>6, <1>7, <1>9, <1>10 DEF Types, Existing

----------------------------------------------------------------------------
(* One asset for an identity.  An import may end as if it had never begun, *)
(* so the rows it does not touch agree by themselves.                      *)
Calm(S) == \A o \in S : observed[o].is # "ambiguous" /\ ~decided[o].made

Agree(S) ==
  \A o, p \in S :
    link[o] # None /\ link[p] # None /\ IdentitiesOf(o) \cap IdentitiesOf(p) # {}
      => link[o] = link[p]

Settled == Imported \ Rows(importing.version)

(* A row that is not imported yet, and that nobody decides about.          *)
Blank(o) == observed[o] = Nowhere /\ link[o] = None

Fresh ==
  \A v \in VersionId : upload[v].is \in {"none", "uploaded"} =>
    \A o \in Rows(v) : /\ ~decided[o].made /\ o \notin deciding.of
                       /\ v # importing.version => Blank(o)

Ahead ==
  \A n \in 1 .. Len(importing.rest) :
    /\ Blank(<<importing.version, importing.rest[n]>>)
    /\ \A m \in 1 .. Len(importing.rest) : importing.rest[m] = importing.rest[n] => m = n

Consistent == (Calm(Imported) => Agree(Imported)) /\ (Calm(Settled) => Agree(Settled))

Steady == Consistent /\ Fresh /\ Ahead

LEMMA Refolds ==
  /\ Undisputed <=> Calm(Imported)
  /\ OneAssetPerIdentity <=> (Calm(Imported) => Agree(Imported))
BY DEF Undisputed, OneAssetPerIdentity, Calm, Agree

(* Without an import all rows are settled.                                 *)
LEMMA Quiet ==
  ASSUME Types, Unlocked
  PROVE  Settled = Imported /\ importing.rest = <<>> /\ Len(importing.rest) = 0
<1>1. importing.version = None /\ importing.rest = <<>>
  BY DEF Unlocked, NoImport
<1>2. Settled = Imported
  BY <1>1, Kinds DEF Settled
<1> QED BY <1>1, <1>2

LEMMA InitSteady == InventoryInit => Steady
<1> SUFFICES ASSUME InventoryInit PROVE Steady
  OBVIOUS
<1>1. \A o \in Observation : Blank(o) /\ decided[o] = Undecided
  BY DEF InventoryInit, Blank
<1>2. Agree(Imported) /\ Agree(Settled)
  BY <1>1, Kinds DEF Agree, Settled, Blank
<1>3. Fresh
  BY <1>1, FirstTyped, Kinds DEF InventoryInit, Fresh
<1>4. Ahead
  BY DEF InventoryInit, NoImport, Ahead
<1> QED BY <1>2, <1>3, <1>4 DEF Steady, Consistent

(* What does not touch rows, imports or decisions.                         *)
LEMMA RowsAlone ==
  ASSUME Types, Steady, UNCHANGED <<upload, importing, decided>>,
         \A o \in Imported : observed'[o] = observed[o] /\ link'[o] = link[o],
         deciding'.of \subseteq deciding.of
  PROVE  Steady'
<1>1. UNCHANGED Settled /\ Settled \subseteq Imported
  BY DEF Settled
<1>2. \A o \in Imported : Blank(o) => Blank(o)'
  BY DEF Blank
<1>3. /\ \A o \in Imported : decided'[o] = decided[o] /\ observed'[o] = observed[o]
                             /\ link'[o] = link[o]
  OBVIOUS
<1>4. Calm(Imported)' => Calm(Imported)
  BY <1>1, <1>3 DEF Calm
<1>5. Agree(Imported) => Agree(Imported)'
  BY <1>3 DEF Agree, IdentitiesOf
<1>6. Agree(Settled) => Agree(Settled)'
  BY <1>1, <1>3 DEF Agree, IdentitiesOf
<1>7. Calm(Settled)' => Calm(Settled)
  BY <1>1, <1>3 DEF Calm
<1>8. Consistent'
  BY <1>4, <1>5, <1>6, <1>7 DEF Steady, Consistent
<1>9. Fresh'
  BY <1>2, <1>3, Kinds DEF Steady, Fresh
<1>10. Ahead'
  <2>1. \A n \in 1 .. Len(importing.rest) : <<importing.version, importing.rest[n]>> \in Imported
    <3>1. CASE Unlocked
      BY <3>1, Quiet
    <3>2. CASE ~Unlocked
      <4>1. importing.version \in VersionId /\ importing.rest \in Seq(CmdbRow)
        BY <3>2 DEF Types, Locked, InventoryTyped
      <4>2. \A n \in 1 .. Len(importing.rest) : importing.rest[n] \in CmdbRow
        BY <4>1, ElementOfSeq
      <4> QED BY <4>1, <4>2, Kinds
    <3> QED BY <3>1, <3>2
  <2> QED BY <1>2, <2>1 DEF Steady, Ahead
<1> QED BY <1>8, <1>9, <1>10 DEF Steady

LEMMA UploadSteady ==
  ASSUME Types, Steady, NEW file \in CmdbFile, Upload(file)
  PROVE  Steady'
<1> DEFINE v == 1 + Cardinality({w \in VersionId : upload[w].is # "none"})
<1>1. /\ v \in VersionId /\ upload[v].is = "none"
  BY NextVersion DEF Upload
<1>2. /\ upload' = [upload EXCEPT ![v] = [file |-> file, is |-> "uploaded"]]
      /\ UNCHANGED <<observed, link, decided, importing, deciding>>
  BY DEF Upload
<1> HIDE DEF v
<1>3. \A o : Blank(o) => Blank(o)'
  BY <1>2 DEF Blank
<1>4. Consistent'
  BY <1>2 DEF Steady, Consistent, Calm, Agree, Settled, IdentitiesOf
<1>5. \A w \in VersionId : upload'[w].is \in {"none", "uploaded"} => upload[w].is \in {"none", "uploaded"}
  BY <1>1, <1>2 DEF Types, InventoryTyped
<1>6. Fresh'
  BY <1>2, <1>3, <1>5 DEF Steady, Fresh
<1>7. Ahead'
  BY <1>2, <1>3 DEF Steady, Ahead
<1> QED BY <1>4, <1>6, <1>7 DEF Steady

LEMMA BeginSteady ==
  ASSUME Types, Steady, NEW v \in VersionId, BeginImport(v)
  PROVE  Steady'
<1>1. /\ Unlocked /\ upload[v].is = "uploaded"
      /\ importing' = [version |-> v, rest |-> upload[v].file, base |-> assets]
      /\ UNCHANGED <<upload, observed, link, decided, deciding>>
  BY DEF BeginImport
<1>2. importing.version = None /\ importing'.version = v /\ importing'.rest = upload[v].file
  BY <1>1, FirstTyped DEF Unlocked
<1>3. \A o \in Rows(v) : Blank(o) /\ ~decided[o].made
  BY <1>1, <1>2, Kinds DEF Steady, Fresh
<1>4. \A o : Blank(o) <=> Blank(o)'
  BY <1>1 DEF Blank
<1>5. Consistent'
  <2>1. (Calm(Imported) => Agree(Imported))'
    BY <1>1 DEF Steady, Consistent, Calm, Agree, IdentitiesOf
  <2>2. Settled' = Imported \ Rows(v)
    BY <1>2 DEF Settled
  <2>3. ASSUME Calm(Imported \ Rows(v)) PROVE Calm(Imported)
    BY <1>3, <2>3, FirstTyped DEF Calm, Blank
  <2>4. Calm(Imported \ Rows(v)) => Agree(Imported \ Rows(v))
    BY <2>3 DEF Steady, Consistent, Agree
  <2>5. (Calm(Settled) => Agree(Settled))'
    BY <1>1, <2>2, <2>4 DEF Calm, Agree, IdentitiesOf
  <2> QED BY <2>1, <2>5 DEF Consistent
<1>6. Fresh'
  BY <1>1, <1>2, <1>4, Kinds DEF Steady, Fresh
<1>7. Ahead'
  <2>1. upload[v].file \in CmdbFile \cup {<<>>}
    BY DEF Types, InventoryTyped
  <2>2. \A n \in 1 .. Len(upload[v].file) : upload[v].file[n] \in CmdbRow
    BY <2>1, Files, ElementOfSeq
  <2>3. \A m, n \in 1 .. Len(upload[v].file) : upload[v].file[m] = upload[v].file[n] => m = n
    BY <2>1, Files
  <2>4. \A n \in 1 .. Len(upload[v].file) : Blank(<<v, upload[v].file[n]>>)
    BY <1>3, <2>2 DEF Rows
  <2> QED BY <1>2, <1>4, <2>3, <2>4 DEF Ahead
<1> QED BY <1>5, <1>6, <1>7 DEF Steady

(* A row without identities agrees with all others.                        *)
LEMMA CommitSteady ==
  ASSUME Types, Steady, CommitImport \/ ImportBreaksOff
  PROVE  Steady'
<1>1. /\ ~Unlocked /\ TakesOver
      /\ UNCHANGED <<link, decided, deciding>>
  BY DEF CommitImport, ImportBreaksOff
<1>2. importing.version \in VersionId /\ importing' = NoImport
  BY <1>1, TakeOver
<1>3. \A v \in VersionId : upload'[v].is \in {"none", "uploaded"} =>
                             upload[v].is \in {"none", "uploaded"} /\ v # importing.version
  BY <1>1, TakeOver
<1>4. \A p \in Imported : /\ p \notin Rows(importing.version) => observed'[p] = observed[p]
                          /\ observed'[p].is # "ambiguous" => observed[p].is # "ambiguous"
  <2>1. CASE CommitImport
    BY <2>1 DEF CommitImport
  <2>2. CASE ImportBreaksOff
    <3> DEFINE o == <<importing.version, Head(importing.rest)>>
    <3>1. /\ observed' = [observed EXCEPT ![o] = [asset |-> None, is |-> "observed"]]
          /\ importing.rest # <<>> /\ importing.rest \in Seq(CmdbRow)
      BY <2>2 DEF ImportBreaksOff, Types, InventoryTyped
    <3>2. /\ Head(importing.rest) \in CmdbRow /\ Head(importing.rest) = importing.rest[1]
          /\ 1 \in 1 .. Len(importing.rest)
      BY <3>1, HeadTailProperties
    <3>3. o \in Rows(importing.version) /\ o \in Observation
      BY <1>2, <3>2, Kinds DEF Rows
    <3>4. observed[o] = Nowhere
      BY <3>2 DEF Steady, Ahead, Blank
    <3> HIDE DEF o
    <3>5. \A p \in Observation : p # o => observed'[p] = observed[p]
      BY <3>1 DEF Types, InventoryTyped
    <3> QED BY <3>3, <3>4, <3>5, FirstTyped, Kinds
  <2> QED BY <1>1, <2>1, <2>2
<1>5. Consistent'
  <2>1. Calm(Imported)' => Calm(Imported)
    BY <1>1, <1>4 DEF Calm
  <2>2. Agree(Imported) => Agree(Imported)'
    BY <1>1 DEF Agree, IdentitiesOf
  <2>3. Settled' = Imported
    BY <1>2, FirstTyped, Kinds DEF Settled
  <2> QED BY <2>1, <2>2, <2>3 DEF Steady, Consistent
<1>6. Fresh'
  <2> SUFFICES ASSUME NEW v \in VersionId, upload'[v].is \in {"none", "uploaded"}, NEW p \in Rows(v)
               PROVE  ~decided[p].made /\ p \notin deciding.of /\ Blank(p)'
    BY <1>1 DEF Fresh
  <2>1. upload[v].is \in {"none", "uploaded"} /\ v # importing.version
    BY <1>3
  <2>2. ~decided[p].made /\ p \notin deciding.of /\ Blank(p)
    BY <2>1 DEF Steady, Fresh
  <2>3. p \in Imported /\ p \notin Rows(importing.version)
    BY <2>1, Kinds DEF Rows
  <2> QED BY <1>1, <1>4, <2>2, <2>3 DEF Blank
<1>7. Ahead'
  BY <1>2 DEF Ahead, NoImport
<1> QED BY <1>5, <1>6, <1>7 DEF Steady

LEMMA FailSteady ==
  ASSUME Types, Steady, ImportFails
  PROVE  Steady'
<1>1. /\ ~Unlocked /\ importing' = NoImport
      /\ observed' = [o \in Observation |->
           IF o \in Rows(importing.version) THEN Nowhere ELSE observed[o]]
      /\ link' = [o \in Observation |-> IF o \in Rows(importing.version) THEN None ELSE link[o]]
      /\ UNCHANGED <<upload, decided, deciding>>
  BY DEF ImportFails, Rows
<1>2. importing.version \in VersionId
  BY <1>1 DEF Types, Locked, InventoryTyped
<1>3. \A o \in Rows(importing.version) : o \in Observation /\ Blank(o)'
  BY <1>1, <1>2, Kinds DEF Blank
<1>4. \A o \in Observation \ Rows(importing.version) : observed'[o] = observed[o] /\ link'[o] = link[o]
  BY <1>1
<1>5. \A o \in Observation : Blank(o) => Blank(o)'
  BY <1>3, <1>4 DEF Blank
<1>6. Consistent'
  <2>1. Settled' = Imported /\ Settled \subseteq Imported
    BY <1>1, FirstTyped, Kinds DEF Settled
  <2>2. ASSUME Calm(Imported)' PROVE Calm(Settled)
    BY <1>1, <1>4, <2>2, Kinds DEF Calm, Settled
  <2>3. ASSUME Agree(Settled) PROVE Agree(Imported)'
    <3>1. \A o \in Imported : link'[o] # None => o \in Settled /\ link'[o] = link[o]
      BY <1>3, <1>4, Kinds DEF Settled, Blank
    <3> QED BY <2>3, <3>1 DEF Agree, IdentitiesOf
  <2>4. (Calm(Imported) => Agree(Imported))'
    BY <2>2, <2>3 DEF Steady, Consistent
  <2> QED BY <2>1, <2>4 DEF Consistent
<1>7. Fresh'
  <2> SUFFICES ASSUME NEW v \in VersionId, upload[v].is \in {"none", "uploaded"}, NEW o \in Rows(v)
               PROVE  ~decided[o].made /\ o \notin deciding.of /\ Blank(o)'
    BY <1>1 DEF Fresh
  <2>1. ~decided[o].made /\ o \notin deciding.of
    BY DEF Steady, Fresh
  <2>2. o \in Observation
    BY Kinds
  <2>3. Blank(o)'
    BY <1>3, <1>5, <2>2 DEF Steady, Fresh
  <2> QED BY <2>1, <2>3
<1>8. Ahead'
  BY <1>1 DEF Ahead, NoImport
<1> QED BY <1>6, <1>7, <1>8 DEF Steady

LEMMA DecideSteady ==
  ASSUME Types, Steady, NEW o \in Observation, NEW asset, Decide(o, asset)
  PROVE  Steady'
<1>1. /\ observed[o] # Nowhere
      /\ ~Unlocked => o \notin Rows(importing.version)
      /\ deciding'.of = {o}
      /\ UNCHANGED <<upload, observed, link, decided, importing>>
  BY DEF Decide, Rows
<1>2. \A p : Blank(p) <=> Blank(p)'
  BY <1>1 DEF Blank
<1>3. Consistent'
  BY <1>1 DEF Steady, Consistent, Calm, Agree, Settled, IdentitiesOf
<1>4. \A v \in VersionId : upload[v].is \in {"none", "uploaded"} => o \notin Rows(v)
  BY <1>1, Kinds DEF Steady, Fresh, Blank, Types, Locked
<1>5. Fresh'
  BY <1>1, <1>2, <1>4 DEF Steady, Fresh
<1>6. Ahead'
  BY <1>1, <1>2 DEF Steady, Ahead
<1> QED BY <1>3, <1>5, <1>6 DEF Steady

LEMMA StoreSteady ==
  ASSUME Types, Steady, NEW o \in Observation, StoreDecision(o)
  PROVE  Steady'
<1>1. /\ Unlocked /\ deciding.of = {o} /\ deciding' = NoDecision
      /\ decided'[o].made
      /\ \A p \in Observation : p # o => /\ observed'[p] = observed[p] /\ link'[p] = link[p]
                                         /\ decided'[p] = decided[p]
      /\ UNCHANGED <<upload, importing>>
  BY DEF StoreDecision, Types, InventoryTyped
<1>2. Settled = Imported /\ Settled' = Imported /\ Len(importing.rest) = 0
  BY <1>1, Quiet DEF Settled
<1>3. Consistent'
  <2>1. CASE o \in Imported
    <3>1. ~Calm(Imported)'
      BY <1>1, <2>1 DEF Calm
    <3> QED BY <1>2, <3>1 DEF Consistent
  <2>2. CASE o \notin Imported
    <3>1. \A p \in Imported : /\ observed'[p] = observed[p] /\ link'[p] = link[p]
                              /\ decided'[p] = decided[p]
      BY <1>1, <2>2, Kinds
    <3>2. (Calm(Imported) => Agree(Imported))'
      BY <3>1 DEF Steady, Consistent, Calm, Agree, IdentitiesOf
    <3> QED BY <1>2, <3>2 DEF Consistent
  <2> QED BY <2>1, <2>2
<1>4. \A v \in VersionId : upload[v].is \in {"none", "uploaded"} => o \notin Rows(v)
  BY <1>1 DEF Steady, Fresh
<1>5. Fresh'
  <2> SUFFICES ASSUME NEW v \in VersionId, upload[v].is \in {"none", "uploaded"}, NEW p \in Rows(v)
               PROVE  /\ ~decided'[p].made /\ p \notin deciding'.of
                      /\ v # importing.version => Blank(p)'
    BY <1>1 DEF Fresh
  <2>1. p # o /\ p \in Observation
    BY <1>4, Kinds
  <2>2. ~decided[p].made /\ (v # importing.version => Blank(p))
    BY DEF Steady, Fresh
  <2>3. p \notin deciding'.of
    BY <1>1, FirstTyped
  <2> QED BY <1>1, <2>1, <2>2, <2>3 DEF Blank
<1>6. Ahead'
  BY <1>1, <1>2 DEF Ahead
<1> QED BY <1>3, <1>5, <1>6 DEF Steady

LEMMA TargetsSteady ==
  ASSUME Types, Steady, ScanTargets \/ \E T \in SUBSET Target : Scrape(T)
  PROVE  Steady'
<1>1. CASE ScanTargets
  <2>1. /\ UNCHANGED <<upload, importing, decided, deciding>>
        /\ observed' = [o \in Observation |-> IF o \in scraped THEN Correlated(o) ELSE observed[o]]
        /\ link' = [o \in Observation |-> IF o \in scraped THEN Correlated(o).asset ELSE link[o]]
    BY <1>1 DEF ScanTargets
  <2>2. \A o \in Imported : o \in Observation /\ o \notin scraped
    BY Kinds DEF Types, InventoryTyped
  <2>3. \A o \in Imported : observed'[o] = observed[o] /\ link'[o] = link[o]
    BY <2>1, <2>2
  <2> QED BY <2>1, <2>3, RowsAlone
<1>2. ASSUME NEW T, Scrape(T) PROVE Steady'
  <2>1. UNCHANGED <<upload, importing, decided, deciding, observed, link>>
    BY <1>2 DEF Scrape
  <2> QED BY <2>1, RowsAlone
<1> QED BY <1>1, <1>2

(* A row that is calm after it has been imported has the asset of all rows *)
(* it shares an identity with, or none had one.                            *)
LEMMA IngestSteady ==
  ASSUME Types, Existing, Steady, Ingest
  PROVE  Steady'
<1> DEFINE o == <<importing.version, Head(importing.rest)>>
           tail == Tail(importing.rest)
<1>1. PICK a \in 1 .. assets', status \in {"observed", "ambiguous"} : Ingests(o, a, status)
  BY IngestOutcome
<1>2. /\ ~Unlocked /\ importing.rest # <<>>
      /\ importing' = [importing EXCEPT !.rest = tail]
      /\ UNCHANGED <<upload, decided, deciding>>
  BY DEF Ingest
<1>3. importing.rest \in Seq(CmdbRow) /\ importing.version \in VersionId
  BY <1>2 DEF Types, Locked, InventoryTyped
<1>4. /\ Head(importing.rest) \in CmdbRow /\ Head(importing.rest) = importing.rest[1]
      /\ Len(importing.rest) \in Nat /\ Len(importing.rest) > 0
      /\ Len(tail) = Len(importing.rest) - 1
      /\ \A n \in 1 .. Len(tail) : tail[n] = importing.rest[n + 1]
  BY <1>2, <1>3, HeadTailProperties
<1>5. o \in Imported /\ o \in Observation /\ o \in Rows(importing.version)
  BY <1>3, <1>4, Kinds DEF Rows
<1>6. importing'.version = importing.version /\ importing'.rest = tail
  BY <1>2 DEF Types, InventoryTyped
<1>7. Blank(o)
  BY <1>4 DEF Steady, Ahead
<1>8. \A n \in 1 .. Len(tail) :
        /\ Blank(<<importing.version, tail[n]>>) /\ tail[n] # importing.rest[1] /\ tail[n] \in CmdbRow
        /\ \A m \in 1 .. Len(tail) : tail[m] = tail[n] => m = n
  <2> SUFFICES ASSUME NEW n \in 1 .. Len(tail)
               PROVE  /\ Blank(<<importing.version, tail[n]>>) /\ tail[n] # importing.rest[1]
                      /\ tail[n] \in CmdbRow
                      /\ \A m \in 1 .. Len(tail) : tail[m] = tail[n] => m = n
    OBVIOUS
  <2>1. n + 1 \in 1 .. Len(importing.rest) /\ n + 1 # 1 /\ 1 \in 1 .. Len(importing.rest)
        /\ tail[n] = importing.rest[n + 1]
    BY <1>4
  <2>2. \A m \in 1 .. Len(tail) : /\ m + 1 \in 1 .. Len(importing.rest)
                                  /\ tail[m] = importing.rest[m + 1]
    BY <1>4
  <2>3. importing.rest[n + 1] \in CmdbRow
    BY <1>3, <2>1, ElementOfSeq
  <2>4. /\ Blank(<<importing.version, importing.rest[n + 1]>>)
        /\ \A m \in 1 .. Len(importing.rest) : importing.rest[m] = importing.rest[n + 1] => m = n + 1
    BY <2>1 DEF Steady, Ahead
  <2>5. \A m \in 1 .. Len(tail) : tail[m] = tail[n] => m = n
    <3> SUFFICES ASSUME NEW m \in 1 .. Len(tail), tail[m] = tail[n] PROVE m = n
      OBVIOUS
    <3>1. m + 1 = n + 1
      BY <2>1, <2>2, <2>4
    <3> QED BY <1>4, <3>1
  <2> QED BY <2>1, <2>3, <2>4, <2>5
<1> DEFINE I == IdentitiesOf(o)
<1>9. /\ observed'[o].is = status /\ link'[o] = a
      /\ \A p \in Observation : p # o => observed'[p] = observed[p] /\ link'[p] = link[p]
  BY <1>1, <1>5 DEF Ingests, Types, InventoryTyped
<1>10. \A p \in Imported : link[p] # None /\ IdentitiesOf(p) \cap I # {} => link[p] \in Matches(I)
  BY Kinds DEF Matches, Sharing
<1>11. /\ status = "observed" => Matches(I) \subseteq {a}
       /\ a # None
  BY <1>1, Kinds DEF Ingests
<1>12. \A p \in Observation : p # o /\ Blank(p) => Blank(p)'
  BY <1>9 DEF Blank
<1>13. Settled' = Settled /\ Settled \subseteq Imported /\ o \notin Settled
  BY <1>5, <1>6 DEF Settled
<1> HIDE DEF o, tail, I
<1>14. (Calm(Imported) => Agree(Imported))'
  <2> SUFFICES ASSUME Calm(Imported)' PROVE Agree(Imported)'
    OBVIOUS
  <2>1. status = "observed"
    BY <1>5, <1>9 DEF Calm
  <2>2. Calm(Imported)
    <3> SUFFICES ASSUME NEW p \in Imported
                 PROVE  observed[p].is # "ambiguous" /\ ~decided[p].made
      BY DEF Calm
    <3>1. observed'[p].is # "ambiguous" /\ ~decided[p].made
      BY <1>2 DEF Calm
    <3> QED BY <1>7, <1>9, <3>1, Kinds, FirstTyped DEF Blank
  <2>3. Agree(Imported)
    BY <2>2 DEF Steady, Consistent
  <2>4. \A p \in Imported : p # o /\ link[p] # None /\ IdentitiesOf(p) \cap I # {} => link[p] = a
    BY <1>10, <1>11, <2>1
  <2>5. \A p \in Imported : p # o => link'[p] = link[p]
    BY <1>9, Kinds
  <2>6. \A p \in Imported : p # o /\ link'[p] # None /\ IdentitiesOf(p) \cap I # {} => link'[p] = a
    BY <2>4, <2>5
  <2> SUFFICES ASSUME NEW p \in Imported, NEW q \in Imported, link'[p] # None, link'[q] # None,
                      IdentitiesOf(p) \cap IdentitiesOf(q) # {}
               PROVE  link'[p] = link'[q]
    BY DEF Agree, IdentitiesOf
  <2>7. CASE p = o
    BY <1>9, <2>6, <2>7 DEF I
  <2>8. CASE q = o
    <3>1. IdentitiesOf(p) \cap I # {}
      BY <2>8 DEF I
    <3> QED BY <1>9, <2>6, <2>8, <3>1
  <2>9. CASE p # o /\ q # o
    BY <2>3, <2>5, <2>9 DEF Agree
  <2> QED BY <2>7, <2>8, <2>9
<1>15. (Calm(Settled) => Agree(Settled))'
  <2>1. \A p \in Settled : observed'[p] = observed[p] /\ link'[p] = link[p]
    BY <1>9, <1>13, Kinds
  <2>2. Calm(Settled)' => Calm(Settled)
    BY <1>2, <1>13, <2>1 DEF Calm
  <2>3. Agree(Settled) => Agree(Settled)'
    BY <1>13, <2>1 DEF Agree, IdentitiesOf
  <2> QED BY <2>2, <2>3 DEF Steady, Consistent
<1>16. Fresh'
  <2> SUFFICES ASSUME NEW v \in VersionId, upload[v].is \in {"none", "uploaded"}, NEW p \in Rows(v)
               PROVE  /\ ~decided[p].made /\ p \notin deciding.of
                      /\ v # importing.version => Blank(p)'
    BY <1>2, <1>6 DEF Fresh
  <2>1. /\ ~decided[p].made /\ p \notin deciding.of
        /\ v # importing.version => Blank(p) /\ p # o
    BY <1>5 DEF Steady, Fresh, Rows
  <2>2. p \in Observation
    BY Kinds
  <2> QED BY <1>12, <2>1, <2>2
<1>17. Ahead'
  <2>1. \A n \in 1 .. Len(tail) : /\ observed'[<<importing.version, tail[n]>>] = Nowhere
                                  /\ link'[<<importing.version, tail[n]>>] = None
    BY <1>3, <1>4, <1>8, <1>9, Kinds DEF o, Blank
  <2>2. \A n \in 1 .. Len(tail) : \A m \in 1 .. Len(tail) : tail[m] = tail[n] => m = n
    BY <1>8
  <2> QED BY <1>6, <2>1, <2>2 DEF Ahead, Blank
<1> QED BY <1>14, <1>15, <1>16, <1>17 DEF Steady, Consistent

----------------------------------------------------------------------------
(* Whole imports.  What an import has done is the file up to where it is,  *)
(* and the rest is what it has still to do.                                *)
There(o) == observed[o].is # "none"

Progressing ==
  importing.version # None =>
    LET file == upload[importing.version].file
        done == Len(file) - Len(importing.rest)
    IN /\ done \in Nat
       /\ \A n \in 1 .. Len(importing.rest) : importing.rest[n] = file[done + n]
       /\ \A n \in 1 .. done : There(<<importing.version, file[n]>>)

Reaching(v) ==
  \A n \in 1 .. Len(upload[v].file) :
    There(<<v, upload[v].file[n]>>) \/ \E m \in 1 .. (n - 1) : upload[v].file[m] \in Malformed

Reached == \A v \in VersionId : upload[v].is \in {"imported", "superseded"} => Reaching(v)

Decided == deciding.of # {} => deciding.to.is # "none"

(* The current version has been imported.                                  *)
Current == current # None => upload[current].is \in {"imported", "superseded"}

Whole == Progressing /\ Reached /\ Decided /\ Current

LEMMA FilesTyped ==
  ASSUME Types, NEW v \in VersionId
  PROVE  /\ upload[v].file \in Seq(CmdbRow) /\ Len(upload[v].file) \in Nat
         /\ DOMAIN upload[v].file = 1 .. Len(upload[v].file)
         /\ \A n \in 1 .. Len(upload[v].file) : upload[v].file[n] \in CmdbRow
                                               /\ <<v, upload[v].file[n]>> \in Imported
<1>1. upload[v].file \in Seq(CmdbRow)
  BY Files, EmptySeq DEF Types, InventoryTyped
<1>2. \A n \in 1 .. Len(upload[v].file) : upload[v].file[n] \in CmdbRow
  BY <1>1, ElementOfSeq
<1> QED BY <1>1, <1>2, LenProperties, Kinds

LEMMA InitWhole == InventoryInit => Whole
BY FirstTyped, Kinds DEF InventoryInit, Whole, Progressing, Reached, Decided, Current

(* What leaves versions, imports and the presence of rows alone.           *)
LEMMA WholeKept ==
  ASSUME Types, Whole, UNCHANGED <<upload, importing, current>>, Decided',
         \A o \in Imported : There(o) => There(o)'
  PROVE  Whole'
<1>1. ASSUME NEW v \in VersionId, Reaching(v) PROVE Reaching(v)'
  BY <1>1, FilesTyped DEF Reaching
<1>2. Reached'
  BY <1>1 DEF Whole, Reached
<1>3. Progressing'
  <2> SUFFICES ASSUME importing.version # None PROVE Progressing'
    BY DEF Progressing
  <2>1. importing.version \in VersionId
    BY DEF Types, InventoryTyped
  <2> DEFINE file == upload[importing.version].file
             done == Len(file) - Len(importing.rest)
  <2>2. /\ done \in Nat
        /\ \A n \in 1 .. Len(importing.rest) : importing.rest[n] = file[done + n]
        /\ \A n \in 1 .. done : There(<<importing.version, file[n]>>)
    BY DEF Whole, Progressing
  <2>3. importing.rest \in Seq(CmdbRow) /\ Len(importing.rest) \in Nat /\ Len(file) \in Nat
    BY <2>1, FilesTyped, LenProperties DEF Types, InventoryTyped
  <2>4. \A n \in 1 .. done : n \in 1 .. Len(file)
    BY <2>2, <2>3
  <2>5. \A n \in 1 .. done : There(<<importing.version, file[n]>>)'
    BY <2>1, <2>2, <2>4, FilesTyped
  <2> QED BY <2>2, <2>5 DEF Progressing
<1> QED BY <1>2, <1>3 DEF Whole, Current

LEMMA UploadWhole ==
  ASSUME Types, Whole, NEW file \in CmdbFile, Upload(file)
  PROVE  Whole'
<1> DEFINE v == 1 + Cardinality({w \in VersionId : upload[w].is # "none"})
<1>1. v \in VersionId /\ upload[v].is = "none"
  BY NextVersion DEF Upload
<1>2. /\ upload' = [upload EXCEPT ![v] = [file |-> file, is |-> "uploaded"]]
      /\ Unlocked /\ UNCHANGED <<observed, importing, deciding, current>>
  BY DEF Upload
<1> HIDE DEF v
<1>3. \A w \in VersionId : upload'[w].is \in {"imported", "superseded"} => upload'[w] = upload[w]
  BY <1>1, <1>2 DEF Types, InventoryTyped
<1>4. Reached'
  BY <1>2, <1>3 DEF Whole, Reached, Reaching, There
<1>5. Progressing' /\ Decided'
  BY <1>2, FirstTyped DEF Whole, Progressing, Decided, Unlocked
<1>6. Current'
  <2>1. current \in VersionId \cup {None}
    BY DEF Types, InventoryTyped
  <2>2. current # None => current # v
    BY <1>1 DEF Whole, Current
  <2> QED BY <1>1, <1>2, <2>1, <2>2 DEF Whole, Current, Types, InventoryTyped
<1> QED BY <1>4, <1>5, <1>6 DEF Whole

LEMMA BeginWhole ==
  ASSUME Types, Whole, NEW v \in VersionId, BeginImport(v)
  PROVE  Whole'
<1>1. /\ importing' = [version |-> v, rest |-> upload[v].file, base |-> assets]
      /\ UNCHANGED <<upload, observed, deciding, current>>
  BY DEF BeginImport
<1>2. Reached' /\ Decided' /\ Current'
  BY <1>1 DEF Whole, Reached, Reaching, There, Decided, Current
<1>3. Progressing'
  <2>1. importing'.version = v /\ importing'.rest = upload[v].file /\ Len(upload[v].file) \in Nat
    BY <1>1, FilesTyped
  <2> QED BY <1>1, <2>1 DEF Progressing
<1> QED BY <1>2, <1>3 DEF Whole

(* The row that an import is at.                                           *)
LEMMA Midway ==
  ASSUME Types, Whole, ~Unlocked
  PROVE  LET file == upload[importing.version].file
             done == Len(file) - Len(importing.rest)
         IN /\ importing.version \in VersionId
            /\ done \in Nat /\ Len(file) \in Nat /\ Len(importing.rest) \in Nat
            /\ \A n \in 1 .. Len(importing.rest) : importing.rest[n] = file[done + n]
            /\ \A n \in 1 .. done : There(<<importing.version, file[n]>>)
            /\ importing.rest = <<>> => done = Len(file)
            /\ importing.rest # <<>> =>
                 /\ done + 1 \in 1 .. Len(file) /\ Head(importing.rest) = file[done + 1]
                 /\ <<importing.version, Head(importing.rest)>> \in Imported
                 /\ Tail(importing.rest) \in Seq(CmdbRow)
                 /\ Len(Tail(importing.rest)) = Len(importing.rest) - 1
                 /\ \A n \in 1 .. Len(Tail(importing.rest)) : Tail(importing.rest)[n] = file[done + 1 + n]
<1> DEFINE file == upload[importing.version].file
           done == Len(file) - Len(importing.rest)
<1>1. importing.version \in VersionId /\ importing.version # None /\ importing.rest \in Seq(CmdbRow)
  BY Kinds DEF Types, Locked, InventoryTyped
<1>2. Len(file) \in Nat /\ Len(importing.rest) \in Nat
  BY <1>1, FilesTyped, LenProperties
<1>3. /\ done \in Nat
      /\ \A n \in 1 .. Len(importing.rest) : importing.rest[n] = file[done + n]
      /\ \A n \in 1 .. done : There(<<importing.version, file[n]>>)
  BY <1>1 DEF Whole, Progressing
<1>4. /\ importing.rest = <<>> => Len(importing.rest) = 0
      /\ done = Len(file) - Len(importing.rest)
  OBVIOUS
<1> HIDE DEF file, done
<1>5. ASSUME importing.rest # <<>>
      PROVE  /\ done + 1 \in 1 .. Len(file) /\ Head(importing.rest) = file[done + 1]
             /\ <<importing.version, Head(importing.rest)>> \in Imported
             /\ Tail(importing.rest) \in Seq(CmdbRow)
             /\ Len(Tail(importing.rest)) = Len(importing.rest) - 1
             /\ \A n \in 1 .. Len(Tail(importing.rest)) : Tail(importing.rest)[n] = file[done + 1 + n]
  <2>1. /\ Head(importing.rest) \in CmdbRow /\ Head(importing.rest) = importing.rest[1]
        /\ Len(importing.rest) > 0 /\ Tail(importing.rest) \in Seq(CmdbRow)
        /\ Len(Tail(importing.rest)) = Len(importing.rest) - 1
        /\ \A n \in 1 .. Len(Tail(importing.rest)) : Tail(importing.rest)[n] = importing.rest[n + 1]
    BY <1>1, <1>2, <1>5, HeadTailProperties
  <2>2. 1 \in 1 .. Len(importing.rest) /\ done + 1 \in 1 .. Len(file)
    BY <1>2, <1>3, <1>4, <2>1
  <2>3. Head(importing.rest) = file[done + 1]
    BY <1>3, <2>1, <2>2
  <2>4. \A n \in 1 .. Len(Tail(importing.rest)) : Tail(importing.rest)[n] = file[done + 1 + n]
    <3> SUFFICES ASSUME NEW n \in 1 .. Len(Tail(importing.rest))
                 PROVE  Tail(importing.rest)[n] = file[done + 1 + n]
      OBVIOUS
    <3>1. n + 1 \in 1 .. Len(importing.rest) /\ done + (n + 1) = done + 1 + n
      BY <1>2, <1>3, <2>1
    <3>2. importing.rest[n + 1] = file[done + (n + 1)]
      BY <1>3, <3>1
    <3> QED BY <2>1, <3>1, <3>2
  <2> QED BY <1>1, <2>1, <2>2, <2>3, <2>4, Kinds
<1>6. importing.rest = <<>> => done = Len(file)
  BY <1>2, <1>4
<1> USE DEF file, done
<1> QED BY <1>1, <1>2, <1>3, <1>5, <1>6

LEMMA IngestWhole ==
  ASSUME Types, Existing, Whole, Ingest
  PROVE  Whole'
<1> DEFINE o == <<importing.version, Head(importing.rest)>>
           file == upload[importing.version].file
           done == Len(file) - Len(importing.rest)
<1>1. PICK a \in 1 .. assets', status \in {"observed", "ambiguous"} : Ingests(o, a, status)
  BY IngestOutcome
<1>2. /\ ~Unlocked /\ importing.rest # <<>>
      /\ importing' = [importing EXCEPT !.rest = Tail(importing.rest)]
      /\ UNCHANGED <<upload, current, deciding>>
  BY DEF Ingest
<1>3. importing'.version = importing.version /\ importing'.rest = Tail(importing.rest)
  BY <1>2 DEF Types, InventoryTyped
<1>4. /\ importing.version \in VersionId
      /\ done \in Nat /\ Len(file) \in Nat /\ Len(importing.rest) \in Nat
      /\ \A n \in 1 .. done : There(<<importing.version, file[n]>>)
      /\ done + 1 \in 1 .. Len(file) /\ Head(importing.rest) = file[done + 1] /\ o \in Imported
      /\ Len(Tail(importing.rest)) = Len(importing.rest) - 1
      /\ \A n \in 1 .. Len(Tail(importing.rest)) : Tail(importing.rest)[n] = file[done + 1 + n]
  BY <1>2, Midway
<1> HIDE DEF o
<1>5. observed' = [observed EXCEPT ![o] = [asset |-> a, is |-> status]]
  BY <1>1 DEF Ingests
<1>6. \A p \in Imported : There(p) \/ p = o => There(p)'
  BY <1>1, <1>4, <1>5, Kinds DEF There, Types, InventoryTyped
<1>7. ASSUME NEW v \in VersionId, Reaching(v) PROVE Reaching(v)'
  BY <1>2, <1>6, <1>7, FilesTyped DEF Reaching
<1>8. Reached'
  BY <1>2, <1>7 DEF Whole, Reached
<1>9. Progressing'
  <2> DEFINE short == Len(Tail(importing.rest))
  <2>a. /\ short = Len(importing.rest) - 1 /\ done = Len(file) - Len(importing.rest)
        /\ done \in Nat /\ Len(file) \in Nat /\ Len(importing.rest) \in Nat
    BY <1>4
  <2> HIDE DEF short, done, file
  <2>b. Len(file) - short = done + 1 /\ done + 1 \in Nat
    BY <2>a
  <2> USE DEF short, file
  <2>1. Len(file) - Len(Tail(importing.rest)) = done + 1 /\ done + 1 \in Nat
    BY <2>b, Zenon
  <2>2. \A n \in 1 .. (done + 1) : There(<<importing.version, file[n]>>)'
    <3> SUFFICES ASSUME NEW n \in 1 .. (done + 1) PROVE There(<<importing.version, file[n]>>)'
      OBVIOUS
    <3>1. n \in 1 .. Len(file) /\ (n \in 1 .. done \/ n = done + 1)
      BY <1>4
    <3>2. <<importing.version, file[n]>> \in Imported
      BY <1>4, <3>1, FilesTyped
    <3>3. There(<<importing.version, file[n]>>) \/ <<importing.version, file[n]>> = o
      BY <1>4, <3>1 DEF o
    <3> QED BY <1>3, <1>2, <1>6, <3>2, <3>3
  <2> QED BY <1>2, <1>3, <1>4, <2>1, <2>2 DEF Progressing
<1>10. Decided' /\ Current'
  BY <1>2 DEF Whole, Decided, Current
<1> QED BY <1>8, <1>9, <1>10 DEF Whole

(* An import that ends has reached the end of its file, or a malformed row.*)
LEMMA CommitWhole ==
  ASSUME Types, Whole, CommitImport \/ ImportBreaksOff
  PROVE  Whole'
<1>1. ~Unlocked /\ TakesOver /\ UNCHANGED deciding
  BY DEF CommitImport, ImportBreaksOff
<1>a. importing.version \in VersionId
  BY <1>1, TakeOver
<1>b. PICK w \in VersionId : w = importing.version
  BY <1>a
<1>c. PICK file : file = upload[w].file
  OBVIOUS
<1>d. PICK done : done = Len(file) - Len(importing.rest)
  OBVIOUS
<1>2. /\ importing' = NoImport /\ upload'[w].is = "imported"
      /\ \A v \in VersionId :
           /\ upload'[v].file = upload[v].file
           /\ upload'[v].is \in {"imported", "superseded"} =>
                upload[v].is \in {"imported", "superseded"} \/ v = w \/ v = current
  BY <1>1, <1>b, TakeOver
<1>3. \A p \in Imported : There(p) => There(p)'
  <2>1. CASE CommitImport
    BY <2>1 DEF CommitImport, There
  <2>2. CASE ImportBreaksOff
    BY <2>2, Kinds DEF ImportBreaksOff, There, Types, InventoryTyped
  <2> QED BY <2>1, <2>2
<1>4. Reaching(w)'
  <2>1. upload'[w].file = file
    BY <1>2, <1>c
  <2>2. /\ done \in Nat /\ Len(file) \in Nat /\ Len(importing.rest) \in Nat
        /\ \A n \in 1 .. done : There(<<w, file[n]>>)
        /\ importing.rest = <<>> => done = Len(file)
        /\ importing.rest # <<>> =>
             /\ done + 1 \in 1 .. Len(file) /\ Head(importing.rest) = file[done + 1]
             /\ <<w, Head(importing.rest)>> \in Imported
    BY <1>1, <1>b, <1>c, <1>d, Midway
  <2>3. \A n \in 1 .. done : observed'[<<w, file[n]>>].is # "none"
    <3>1. \A n \in 1 .. done : n \in 1 .. Len(file)
      BY <2>2
    <3>2. \A n \in 1 .. done : <<w, file[n]>> \in Imported
      BY <1>c, <3>1, FilesTyped
    <3> QED BY <1>3, <2>2, <3>2 DEF There
  <2> SUFFICES \A n \in 1 .. Len(file) :
                 observed'[<<w, file[n]>>].is # "none" \/ \E m \in 1 .. (n - 1) : file[m] \in Malformed
    BY <2>1 DEF Reaching, There
  <2>4. CASE CommitImport
    <3>1. importing.rest = <<>>
      BY <2>4 DEF CommitImport
    <3> QED BY <2>2, <2>3, <3>1
  <2>5. CASE ImportBreaksOff
    <3>1. /\ importing.rest # <<>> /\ Head(importing.rest) \in Malformed
          /\ observed' = [observed EXCEPT ![<<w, Head(importing.rest)>>] =
                                            [asset |-> None, is |-> "observed"]]
      BY <1>b, <2>5 DEF ImportBreaksOff
    <3>2. file[done + 1] \in Malformed
      BY <2>2, <3>1
    <3>3. observed'[<<w, file[done + 1]>>].is # "none"
      <4>1. <<w, file[done + 1]>> \in Observation /\ file[done + 1] = Head(importing.rest)
        BY <2>2, <3>1, Kinds
      <4> QED BY <3>1, <4>1 DEF Types, InventoryTyped
    <3>4. \A n \in 1 .. Len(file) : n \in 1 .. done \/ n = done + 1 \/ done + 1 \in 1 .. (n - 1)
      BY <2>2
    <3> QED BY <2>3, <3>2, <3>3, <3>4
  <2> QED BY <2>4, <2>5
<1>5. ASSUME NEW v \in VersionId, v # w, upload'[v].is \in {"imported", "superseded"}
      PROVE  Reaching(v)'
  <2>1. upload[v].is \in {"imported", "superseded"}
    BY <1>2, <1>5, Kinds DEF Whole, Current
  <2>2. Reaching(v) /\ upload'[v].file = upload[v].file
    BY <1>2, <2>1 DEF Whole, Reached
  <2> QED BY <1>3, <2>2, FilesTyped DEF Reaching
<1>6. Reached'
  BY <1>4, <1>5 DEF Reached
<1>7. Progressing' /\ Decided'
  BY <1>1, <1>2, FirstTyped DEF Whole, Progressing, Decided
<1>8. Current'
  BY <1>1, <1>2, <1>b DEF TakesOver, Current
<1> QED BY <1>6, <1>7, <1>8 DEF Whole

LEMMA FailWhole ==
  ASSUME Types, Whole, ImportFails
  PROVE  Whole'
<1>1. /\ ~Unlocked /\ importing' = NoImport
      /\ observed' = [o \in Observation |->
           IF o \in Rows(importing.version) THEN Nowhere ELSE observed[o]]
      /\ UNCHANGED <<upload, current, deciding>>
  BY DEF ImportFails, Rows
<1>2. upload[importing.version].is = "uploaded"
  BY <1>1 DEF Types, Locked
<1>3. ASSUME NEW v \in VersionId, upload[v].is \in {"imported", "superseded"} PROVE Reaching(v)'
  <2>1. v # importing.version /\ Reaching(v)
    BY <1>2, <1>3 DEF Whole, Reached
  <2>2. \A n \in 1 .. Len(upload[v].file) :
          /\ <<v, upload[v].file[n]>> \in Observation
          /\ <<v, upload[v].file[n]>> \notin Rows(importing.version)
    BY <2>1, FilesTyped, Kinds DEF Rows
  <2> QED BY <1>1, <2>1, <2>2 DEF Reaching, There
<1>4. Reached'
  BY <1>1, <1>3 DEF Reached
<1>5. Progressing' /\ Decided' /\ Current'
  BY <1>1, FirstTyped DEF Whole, Progressing, Decided, Current
<1> QED BY <1>4, <1>5 DEF Whole

LEMMA OthersWhole ==
  ASSUME Types, Whole,
         \/ ScanTargets \/ \E T \in SUBSET Target : Scrape(T)
         \/ \E o \in Observation : StoreDecision(o)
         \/ \E o \in Observation : \E asset : Decide(o, asset)
  PROVE  Whole'
<1>1. CASE ScanTargets
  <2>1. /\ UNCHANGED <<upload, importing, current, deciding>>
        /\ observed' = [o \in Observation |-> IF o \in scraped THEN Correlated(o) ELSE observed[o]]
    BY <1>1 DEF ScanTargets
  <2>2. \A o \in Imported : o \in Observation /\ o \notin scraped
    BY Kinds DEF Types, InventoryTyped
  <2>3. \A o \in Imported : There(o) => There(o)'
    BY <2>1, <2>2 DEF There
  <2>4. Decided'
    BY <2>1 DEF Whole, Decided
  <2> QED BY <2>1, <2>3, <2>4, WholeKept
<1>2. ASSUME NEW T, Scrape(T) PROVE Whole'
  <2>1. UNCHANGED <<upload, importing, current, deciding, observed>>
    BY <1>2 DEF Scrape
  <2>2. Decided' /\ \A o \in Imported : There(o) => There(o)'
    BY <2>1 DEF Whole, Decided, There
  <2> QED BY <2>1, <2>2, WholeKept
<1>3. ASSUME NEW o \in Observation, StoreDecision(o) PROVE Whole'
  <2> DEFINE is == IF deciding.to.is # deciding.loaded.is THEN deciding.to.is ELSE observed[o].is
             asset == IF deciding.to.asset # deciding.loaded.asset THEN deciding.to.asset
                      ELSE observed[o].asset
  <2>1. /\ deciding.of = {o} /\ deciding' = NoDecision
        /\ observed' = [observed EXCEPT ![o] = [asset |-> asset, is |-> is]]
        /\ UNCHANGED <<upload, importing, current>>
    BY <1>3 DEF StoreDecision
  <2>2. deciding.to.is # "none"
    BY <2>1 DEF Whole, Decided
  <2>3. observed[o].is # "none" => is # "none"
    BY <2>2
  <2> HIDE DEF is, asset
  <2>4. \A p \in Imported : There(p) => There(p)'
    BY <2>1, <2>3, Kinds DEF There, Types, InventoryTyped
  <2>5. Decided'
    BY <2>1, FirstTyped DEF Decided
  <2> QED BY <2>1, <2>4, <2>5, WholeKept
<1>4. ASSUME NEW o \in Observation, NEW asset, Decide(o, asset) PROVE Whole'
  <2>1. /\ UNCHANGED <<upload, importing, current, observed>>
        /\ deciding'.to.is = IF asset # None THEN "observed" ELSE "unmatched"
    BY <1>4 DEF Decide
  <2>2. Decided' /\ \A p \in Imported : There(p) => There(p)'
    BY <2>1 DEF Decided, There
  <2> QED BY <2>1, <2>2, WholeKept
<1> QED BY <1>1, <1>2, <1>3, <1>4

----------------------------------------------------------------------------
Inv == Types /\ Existing /\ Steady /\ Whole

LEMMA InitInv == InventoryInit => Inv
<1> SUFFICES ASSUME InventoryInit PROVE Inv
  OBVIOUS
<1>1. Existing
  <2>1. \A o \in Observation : observed[o] = Nowhere /\ link[o] = None /\ decided[o] = Undecided
    BY DEF InventoryInit
  <2>2. /\ assets = 0 /\ \A t \in Target : service[t] = None
        /\ depends = {} /\ deciding = NoDecision /\ Unlocked
    BY DEF InventoryInit, Unlocked
  <2> QED BY <2>1, <2>2, FirstTyped, Kinds DEF Existing, Below, References, RolledBack
<1> QED BY <1>1, InitTypes, InitSteady, InitWhole DEF Inv

LEMMA StepInv == Inv /\ [InventoryNext]_ivVars => Inv'
<1> SUFFICES ASSUME Inv, [InventoryNext]_ivVars PROVE Inv'
  OBVIOUS
<1>1. Types /\ Existing /\ Steady /\ Whole
  BY DEF Inv
<1>2. ASSUME NEW file \in CmdbFile, Upload(file) PROVE Inv'
  BY <1>1, <1>2, UploadStep, UploadSteady, UploadWhole DEF Inv
<1>3. ASSUME NEW v \in VersionId, BeginImport(v) PROVE Inv'
  BY <1>1, <1>3, BeginStep, BeginSteady, BeginWhole DEF Inv
<1>4. CASE Ingest
  BY <1>1, <1>4, IngestStep, IngestSteady, IngestWhole DEF Inv
<1>5. CASE CommitImport \/ ImportBreaksOff
  BY <1>1, <1>5, CommitStep, BreakStep, CommitSteady, CommitWhole DEF Inv
<1>6. CASE ImportFails
  BY <1>1, <1>6, FailStep, FailSteady, FailWhole DEF Inv
<1>7. CASE ScanTargets \/ \E T \in SUBSET Target : Scrape(T)
  BY <1>1, <1>7, ScanStep, ScrapeStep, TargetsSteady, OthersWhole DEF Inv
<1>8. ASSUME NEW o \in Observation, NEW asset, Decide(o, asset) PROVE Inv'
  BY <1>1, <1>8, DecideStep, DecideSteady, OthersWhole DEF Inv
<1>9. ASSUME NEW o \in Observation, StoreDecision(o) PROVE Inv'
  BY <1>1, <1>9, StoreStep, StoreSteady, OthersWhole DEF Inv
<1>10. CASE UNCHANGED ivVars
  <2>1. Types'
    BY <1>1, <1>10 DEF ivVars, Types, InventoryTyped, Numbered, Locked, Unlocked
  <2>2. Existing'
    BY <1>1, <1>10 DEF ivVars, Existing, Below, References, RolledBack, Unlocked
  <2>3. Steady'
    BY <1>1, <1>10, RowsAlone DEF ivVars
  <2>4. Whole'
    BY <1>1, <1>10 DEF ivVars, Whole, Progressing, Reached, Reaching, There, Decided, Current
  <2> QED BY <2>1, <2>2, <2>3, <2>4 DEF Inv
<1> QED BY <1>2, <1>3, <1>4, <1>5, <1>6, <1>7, <1>8, <1>9, <1>10 DEF InventoryNext, Importing

(* The types of the inventory, and that no observation, identity, service, *)
(* dependency or decision refers to an asset that is not there: what an    *)
(* import that is rolled back takes with it nothing else refers to, and    *)
(* what one that breaks off refers to stays with it.                       *)
THEOREM TypeCorrect == InventorySpec => []InventoryTypeOK
<1>1. InventoryInit => Inv
  BY InitInv
<1>2. Inv /\ [InventoryNext]_ivVars => Inv'
  BY StepInv
<1>3. Inv => InventoryTypeOK
  BY DEF Inv, Types, Existing, Below, References, AssetsExist, InventoryTypeOK
<1> QED BY <1>1, <1>2, <1>3, PTL DEF InventorySpec

(* A version that was ever imported has all rows of its file observed, or  *)
(* all up to a malformed one; of the others, apart from the import under   *)
(* way, there is no row: only a malformed row leaves half an import.       *)
THEOREM ImportsAreWhole == InventorySpec => []ImportsWhole
<1>1. InventoryInit => Inv
  BY InitInv
<1>2. Inv /\ [InventoryNext]_ivVars => Inv'
  BY StepInv
<1>3. Inv => ImportsWhole
  <2> SUFFICES ASSUME Inv, NEW v \in VersionId
               PROVE  /\ upload[v].is \in {"imported", "superseded"} =>
                           \A n \in DOMAIN upload[v].file :
                             \/ observed[<<v, upload[v].file[n]>>].is # "none"
                             \/ \E m \in 1 .. (n - 1) : upload[v].file[m] \in Malformed
                      /\ upload[v].is \in {"none", "uploaded"} /\ v # importing.version =>
                           \A r \in CmdbRow : observed[<<v, r>>].is = "none"
    BY DEF ImportsWhole
  <2>1. upload[v].is \in {"imported", "superseded"} => Reaching(v)
    BY DEF Inv, Whole, Reached
  <2>2. DOMAIN upload[v].file = 1 .. Len(upload[v].file)
    BY FilesTyped DEF Inv
  <2>3. \A r \in CmdbRow : <<v, r>> \in Rows(v)
    BY DEF Rows
  <2> QED BY <2>1, <2>2, <2>3, FirstTyped DEF Inv, Steady, Fresh, Blank, Reaching, There
<1> QED BY <1>1, <1>2, <1>3, PTL DEF InventorySpec

(* Without ambiguous evidence and without decisions all rows that declare  *)
(* an identity are of one asset, over any number of versions, scans and    *)
(* failed or broken imports.                                               *)
THEOREM OneAsset == InventorySpec => []OneAssetPerIdentity
<1>1. InventoryInit => Inv
  BY InitInv
<1>2. Inv /\ [InventoryNext]_ivVars => Inv'
  BY StepInv
<1>3. Inv => OneAssetPerIdentity
  BY Refolds DEF Inv, Steady, Consistent
<1> QED BY <1>1, <1>2, <1>3, PTL DEF InventorySpec

=============================================================================
