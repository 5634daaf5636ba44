------------------------------- MODULE Inventory -------------------------------
(***************************************************************************)
(* The connector's inventory: application/services/inventory.py with what  *)
(* fills it, the import of CMDB files (cmdb.py) and the scan of Prometheus *)
(* targets (prometheus.py), and the decisions of administrators on both.   *)
(*                                                                         *)
(* Every row imported and every target scanned is an observation with its  *)
(* identities; correlation links them to an asset.  An import and the      *)
(* stores of a scan hold SQLite's write lock from their first change to    *)
(* their commit; an import is several steps here, as each of its rows is   *)
(* correlated with what the rows before it left.  An import that meets a   *)
(* malformed row is committed as far as it came.  A decision reads the     *)
(* observation before its own transaction.                                 *)
(*                                                                         *)
(* Identities are normalised: the parsing of files, URLs and labels, the   *)
(* descriptive fields of an asset, and the conflicts listed for review are *)
(* left out, and so are retired and deleted datasets, whose observations   *)
(* stay as they are.  One dataset.                                         *)
(***************************************************************************)
EXTENDS Integers, FiniteSets, Sequences

CONSTANTS
  CmdbRow,          \* valid rows of CMDB files, each at most once in a file
  Malformed,        \* the rows with an alias that urlparse refuses, like web[01
  CmdbFile,         \* the contents of files: sequences of rows
  Declares,         \* the identities of each row's fields
  HostedOn,         \* the reference of each row to its host, or Unhosted
  Unhosted,
  Target,           \* active targets Prometheus may list
  Exposes,          \* the identities of each target
  MaxUploads,       \* bound: versions of the dataset
  MaxScrapes,       \* bound: changes of what Prometheus scrapes
  MaxDecisions,     \* bound: decisions
  MaxFailures       \* bound: imports rolled back

(* In the order of IDENTITY_PRIORITY.                                      *)
Priority == <<"cloud_instance_id", "serial_number", "asset_tag", "cmdb_id", "fqdn", "alias",
              "hostname", "ip_address">>
Kind == {Priority[n] : n \in DOMAIN Priority}
Fqdn == CHOOSE n \in DOMAIN Priority : Priority[n] = "fqdn"

ASSUME InventoryAssumption ==
  /\ CmdbFile \subseteq Seq(CmdbRow)
  /\ Malformed \subseteq CmdbRow
  /\ \A file \in CmdbFile : \A m, n \in DOMAIN file : file[m] = file[n] => m = n
  /\ \A r \in CmdbRow : \A id \in Declares[r] : id.kind \in Kind
  /\ \A t \in Target : \A id \in Exposes[t] : id.kind \in Kind \ {"alias", "cmdb_id"}
  /\ Target \cap ((1 .. MaxUploads) \X CmdbRow) = {}
  /\ {MaxUploads, MaxScrapes, MaxDecisions, MaxFailures} \subseteq Nat

VARIABLES
  upload,        \* the versions of the dataset
  current,       \* current_version_id, 0 without one
  assets,        \* the assets are 1 .. assets
  observed,      \* the asset and the status of each observation
  link,          \* the asset of each observation's identities
  decided,       \* the last manual decision on each observation
  service,       \* the asset of each target's service row
  depends,       \* the dependency rows
  importing,     \* the import that holds the write lock
  scraped,       \* what Prometheus lists
  deciding,      \* a decision between its read and its transaction
  scrapes, decisions, failures    \* how much of the bounds is used

ivVars == <<upload, current, assets, observed, link, decided, service, depends, importing,
            scraped, deciding, scrapes, decisions, failures>>

----------------------------------------------------------------------------
None == 0
VersionId == 1 .. MaxUploads
Imported == VersionId \X CmdbRow
Observation == Imported \cup Target
Asset == 1 .. MaxUploads * Cardinality(CmdbRow)

Whereabouts == [asset : Nat, is : {"none", "observed", "ambiguous", "unmatched"}]
Nowhere == [asset |-> None, is |-> "none"]
Undecided == [made |-> FALSE, asset |-> None]
NoImport == [version |-> None, rest |-> <<>>, base |-> 0]
NoDecision == [of |-> {}, loaded |-> Nowhere, to |-> Nowhere]

(* A malformed row has fields, but no identities were stored for it.       *)
IdentitiesOf(o) ==
  IF o \in Target THEN Exposes[o]
  ELSE IF o[2] \in Malformed THEN {} ELSE Declares[o[2]]

(* The assets that the identities of the observations O share one with I.  *)
Sharing(O, I) == {link[o] : o \in {o \in O : link[o] # None /\ IdentitiesOf(o) \cap I # {}}}

(* What the identities linked to an asset say of a kind.                   *)
ValuesOf(a, kind) ==
  {id.value : id \in {id \in UNION {IdentitiesOf(o) : o \in {o \in Observation : link[o] = a}} :
                        id.kind = kind}}

(* Mutant: evidence is only looked for in the version that is imported.    *)
MatchesOfVersion(I) == Sharing({importing.version} \X CmdbRow, I)

(* _find_asset: the one asset that shares an identity, of whatever source, *)
(* unless it has other values of a kind.                                   *)
Matches(I) == Sharing(Observation, I)
Clashes(a, I) ==
  \E id \in I : ValuesOf(a, id.kind) # {} /\ id.value \notin ValuesOf(a, id.kind)

(* correlate_prometheus: the assets of CMDB identities of one kind; an     *)
(* alias may be any of the target's values.                                *)
Hits(t, kind) ==
  LET values == {id.value : id \in {id \in Exposes[t] : kind \in {"alias", id.kind}}}
  IN Sharing(Imported, [kind : {kind}, value : values])

(* The kinds from the strongest down to the first that has a hit, and at   *)
(* least down to the FQDN.                                                 *)
Considered(t, n) ==
  n <= Fqdn \/ \A m \in 1 .. (n - 1) : Hits(t, Priority[m]) = {}
Contenders(t) == UNION {Hits(t, Priority[n]) : n \in {n \in DOMAIN Priority : Considered(t, n)}}

Unlocked == importing = NoImport

----------------------------------------------------------------------------
InventoryInit ==
  /\ upload = [v \in VersionId |-> [file |-> <<>>, is |-> "none"]]
  /\ current = None
  /\ assets = 0
  /\ observed = [o \in Observation |-> Nowhere]
  /\ link = [o \in Observation |-> None]
  /\ decided = [o \in Observation |-> Undecided]
  /\ service = [t \in Target |-> None]
  /\ depends = {}
  /\ importing = NoImport
  /\ scraped \in SUBSET Target
  /\ deciding = NoDecision
  /\ scrapes = 0
  /\ decisions = 0
  /\ failures = 0

(* A file is uploaded as the next version.                                 *)
Upload(file) ==
  LET v == 1 + Cardinality({w \in VersionId : upload[w].is # "none"})
  IN /\ Unlocked
     /\ v <= MaxUploads
     /\ upload' = [upload EXCEPT ![v] = [file |-> file, is |-> "uploaded"]]
     /\ UNCHANGED <<current, assets, observed, link, decided, service, depends, importing,
                    scraped, deciding, scrapes, decisions, failures>>

(* import_version, to the flush of its records: the version becomes the    *)
(* current one.  (A version imported before is refused by its status, or   *)
(* by its records, which are there already.)                               *)
BeginImport(v) ==
  /\ Unlocked
  /\ upload[v].is = "uploaded"
  /\ importing' = [version |-> v, rest |-> upload[v].file, base |-> assets]
  /\ UNCHANGED <<upload, current, assets, observed, link, decided, service, depends, scraped, deciding,
                 scrapes, decisions, failures>>

(* ingest_cmdb_record: the row is an observation of the asset it matches,  *)
(* or of a new one.                                                        *)
Ingest ==
  LET o == <<importing.version, Head(importing.rest)>>
      I == IdentitiesOf(o)
      unique == Cardinality(Matches(I)) = 1 /\ \A a \in Matches(I) : ~Clashes(a, I)
      asset == IF unique THEN CHOOSE a \in Matches(I) : TRUE ELSE assets + 1
  IN /\ ~Unlocked
     /\ importing.rest # <<>>
     /\ Head(importing.rest) \notin Malformed
     /\ assets' = IF unique THEN assets ELSE assets + 1
     /\ observed' = [observed EXCEPT ![o] = [asset |-> asset,
                       is |-> IF unique \/ Matches(I) = {} THEN "observed" ELSE "ambiguous"]]
     /\ link' = [link EXCEPT ![o] = asset]
     /\ importing' = [importing EXCEPT !.rest = Tail(@)]
     /\ UNCHANGED <<upload, current, decided, service, depends, scraped, deciding, scrapes,
                    decisions, failures>>

(* reconcile_cmdb_relationships: the rows, of whatever version, whose      *)
(* reference to a host is of one asset.                                    *)
NamedBy(o, reference) ==
  \E id \in IdentitiesOf(o) : id.value = reference
                            /\ id.kind \in {"cmdb_id", "hostname", "fqdn", "alias"}
KeyedBy(o, reference) == [kind |-> "cmdb_id", value |-> reference] \in Declares[o[2]]
HostsOf(o) ==
  LET reference == HostedOn[o[2]]
  IN ({link[p] : p \in {p \in Observation : NamedBy(p, reference)}}
        \cup {observed[p].asset : p \in {p \in Imported : KeyedBy(p, reference)}}) \ {None}
HostedRows ==
  {[of |-> o, from |-> observed[o].asset, on |-> CHOOSE a \in HostsOf(o) : TRUE] :
     o \in {o \in Imported : /\ observed[o].asset # None
                            /\ HostedOn[o[2]] # Unhosted
                            /\ Cardinality(HostsOf(o)) = 1}}

(* What an import is committed with: its version replaces the current one. *)
TakesOver ==
  /\ upload' = [v \in VersionId |->
       IF v = importing.version THEN [upload[v] EXCEPT !.is = "imported"]
       ELSE IF v = current THEN [upload[v] EXCEPT !.is = "superseded"]
       ELSE upload[v]]
  /\ current' = importing.version
  /\ importing' = NoImport

(* The end of import_version: a dependency row is found again by its       *)
(* observation and its asset.                                              *)
CommitImport ==
  /\ ~Unlocked
  /\ importing.rest = <<>>
  /\ TakesOver
  /\ depends' = {d \in depends : \A e \in HostedRows : d.of = e.of /\ d.from = e.from => d = e}
                \cup HostedRows
  /\ UNCHANGED <<assets, observed, link, decided, service, scraped, deciding, scrapes, decisions,
                 failures>>

(* A malformed row ends the import with an exception, after its bare       *)
(* observation has been added.  import_version does not roll back, and the *)
(* endpoint's handler records the failure in the same session: what there  *)
(* is of the import is committed, as the current version.                  *)
ImportBreaksOff ==
  /\ ~Unlocked
  /\ importing.rest # <<>>
  /\ Head(importing.rest) \in Malformed
  /\ TakesOver
  /\ observed' = [observed EXCEPT ![<<importing.version, Head(importing.rest)>>] =
                    [asset |-> None, is |-> "observed"]]
  /\ UNCHANGED <<assets, link, decided, service, depends, scraped, deciding, scrapes, decisions,
                 failures>>

(* Mutant: the identities are stored in a transaction of their own.        *)
ImportFailsHalf ==
  /\ ~Unlocked
  /\ failures < MaxFailures
  /\ failures' = failures + 1
  /\ assets' = importing.base
  /\ observed' = [o \in Observation |->
       IF o \in {importing.version} \X CmdbRow THEN Nowhere ELSE observed[o]]
  /\ importing' = NoImport
  /\ UNCHANGED <<upload, current, link, decided, service, depends, scraped, deciding, scrapes,
                 decisions>>

(* Mutant: whatever fails, the handler commits what there is.              *)
ImportFailsKept ==
  /\ ~Unlocked
  /\ failures < MaxFailures
  /\ failures' = failures + 1
  /\ TakesOver
  /\ UNCHANGED <<assets, observed, link, decided, service, depends, scraped, deciding, scrapes,
                 decisions>>

(* A flush or the commit fails, or the process ends: the session cannot    *)
(* commit any more, and nothing of the import remains.                     *)
ImportFails ==
  /\ ~Unlocked
  /\ failures < MaxFailures
  /\ failures' = failures + 1
  /\ assets' = importing.base
  /\ observed' = [o \in Observation |->
       IF o \in {importing.version} \X CmdbRow THEN Nowhere ELSE observed[o]]
  /\ link' = [o \in Observation |->
       IF o \in {importing.version} \X CmdbRow THEN None ELSE link[o]]
  /\ importing' = NoImport
  /\ UNCHANGED <<upload, current, decided, service, depends, scraped, deciding, scrapes,
                 decisions>>

Importing == Ingest \/ CommitImport \/ ImportBreaksOff

----------------------------------------------------------------------------
Scrape(T) ==
  /\ scrapes < MaxScrapes
  /\ scrapes' = scrapes + 1
  /\ scraped' = T
  /\ UNCHANGED <<upload, current, assets, observed, link, decided, service, depends, importing,
                 deciding, decisions, failures>>

(* Mutant: a scan goes by the identities, whatever was decided.            *)
CorrelatedAnew(t) ==
  IF Cardinality(Contenders(t)) = 1
  THEN [asset |-> CHOOSE a \in Contenders(t) : TRUE, is |-> "observed"]
  ELSE [asset |-> None, is |-> IF Contenders(t) = {} THEN "unmatched" ELSE "ambiguous"]

(* What a scan makes of a target: the last decision counts, then what the  *)
(* identities of CMDB rows say.                                            *)
Correlated(t) ==
  CASE decided[t].made ->
         [asset |-> decided[t].asset,
          is |-> IF decided[t].asset # None THEN "observed" ELSE "unmatched"]
    [] ~decided[t].made /\ Cardinality(Contenders(t)) = 1 ->
         [asset |-> CHOOSE a \in Contenders(t) : TRUE, is |-> "observed"]
    [] OTHER ->
         [asset |-> None, is |-> IF Contenders(t) = {} THEN "unmatched" ELSE "ambiguous"]

(* PrometheusService.scan, once it has the targets, with                   *)
(* sync_prometheus_topology.  CMDB identities are not changed by it, so    *)
(* the targets do not depend on each other.  A scan that fails stores its  *)
(* error only.                                                             *)
ScanTargets ==
  /\ Unlocked
  /\ observed' = [o \in Observation |-> IF o \in scraped THEN Correlated(o) ELSE observed[o]]
  /\ link' = [o \in Observation |-> IF o \in scraped THEN Correlated(o).asset ELSE link[o]]
  /\ service' = [t \in Target |-> IF t \in scraped /\ Correlated(t).asset # None
                                  THEN Correlated(t).asset ELSE service[t]]
  /\ depends' = depends \cup
       {[of |-> t, from |-> Correlated(t).asset, on |-> None] :
          t \in {t \in scraped : Correlated(t).asset # None}}
  /\ UNCHANGED <<upload, current, assets, decided, importing, scraped, deciding, scrapes,
                 decisions, failures>>

----------------------------------------------------------------------------
(* manual_decision: the observation and the asset are read ...             *)
Decide(o, asset) ==
  /\ decisions < MaxDecisions
  /\ decisions' = decisions + 1
  /\ deciding = NoDecision
  /\ observed[o] # Nowhere
  /\ ~Unlocked => o \notin {importing.version} \X CmdbRow /\ asset <= importing.base
  /\ asset \in 0 .. assets
  /\ deciding' = [of |-> {o}, loaded |-> observed[o],
                  to |-> [asset |-> asset,
                          is |-> IF asset # None THEN "observed" ELSE "unmatched"]]
  /\ UNCHANGED <<upload, current, assets, observed, link, decided, service, depends, importing,
                 scraped, scrapes, failures>>

(* ... and a column of the observation is written if the decision differs  *)
(* from what was read.                                                     *)
StoreDecision(o) ==
  /\ Unlocked
  /\ deciding.of = {o}
  /\ decided' = [decided EXCEPT ![o] = [made |-> TRUE, asset |-> deciding.to.asset]]
  /\ link' = [link EXCEPT ![o] = deciding.to.asset]
  /\ observed' = [observed EXCEPT ![o] =
       [asset |-> IF deciding.to.asset # deciding.loaded.asset THEN deciding.to.asset ELSE @.asset,
        is |-> IF deciding.to.is # deciding.loaded.is THEN deciding.to.is ELSE @.is]]
  /\ deciding' = NoDecision
  /\ UNCHANGED <<upload, current, assets, service, depends, importing, scraped, scrapes,
                 decisions, failures>>

----------------------------------------------------------------------------
InventoryNext ==
  \/ \E file \in CmdbFile : Upload(file)
  \/ \E v \in VersionId : BeginImport(v)
  \/ Importing
  \/ ImportFails
  \/ \E T \in SUBSET Target : Scrape(T)
  \/ ScanTargets
  \/ \E o \in Observation, asset \in Asset \cup {None} : Decide(o, asset)
  \/ \E o \in Observation : StoreDecision(o)

InventorySpec == InventoryInit /\ [][InventoryNext]_ivVars

----------------------------------------------------------------------------
InventoryTyped ==
  /\ upload \in [VersionId -> [file : CmdbFile \cup {<<>>},
                             is : {"none", "uploaded", "imported", "superseded"}]]
  /\ current \in VersionId \cup {None}
  /\ assets \in Nat
  /\ observed \in [Observation -> Whereabouts]
  /\ link \in [Observation -> Nat]
  /\ decided \in [Observation -> [made : BOOLEAN, asset : Nat]]
  /\ service \in [Target -> Nat]
  /\ depends \subseteq [of : Observation, from : Nat, on : Nat]
  /\ importing \in [version : VersionId \cup {None}, rest : Seq(CmdbRow), base : Nat]
  /\ scraped \subseteq Target
  /\ deciding \in [of : SUBSET Observation, loaded : Whereabouts, to : Whereabouts]
  /\ scrapes \in 0 .. MaxScrapes
  /\ decisions \in 0 .. MaxDecisions
  /\ failures \in 0 .. MaxFailures

(* Nothing refers to an asset that is not there: the assets of an import   *)
(* that was rolled back went with all that referred to them, those of one  *)
(* that broke off stayed.                                                  *)
AssetsExist ==
  /\ \A o \in Observation : /\ observed[o].asset <= assets /\ link[o] <= assets
                            /\ decided[o].asset <= assets
  /\ \A t \in Target : service[t] <= assets
  /\ \A d \in depends : d.from <= assets /\ d.on <= assets
  /\ deciding.to.asset <= assets

InventoryTypeOK == InventoryTyped /\ AssetsExist

(* docs/inventory.md: replacement creates a new version, prior provenance  *)
(* remains.  A version that was ever imported has all rows of its file     *)
(* observed, unless a malformed one broke the import off, and then all     *)
(* rows before that one; of any other version there is nothing.            *)
ImportsWhole ==
  \A v \in VersionId :
    /\ upload[v].is \in {"imported", "superseded"} =>
         \A n \in DOMAIN upload[v].file :
           \/ observed[<<v, upload[v].file[n]>>].is # "none"
           \/ \E m \in 1 .. (n - 1) : upload[v].file[m] \in Malformed
    /\ upload[v].is \in {"none", "uploaded"} /\ v # importing.version =>
         \A r \in CmdbRow : observed[<<v, r>>].is = "none"

(* As long as no import met ambiguous evidence and nobody decided, all     *)
(* rows that ever declared an identity are of one asset, though exporters  *)
(* may have linked it to others.                                           *)
Undisputed ==
  \A o \in Imported : observed[o].is # "ambiguous" /\ ~decided[o].made
OneAssetPerIdentity ==
  Undisputed =>
    \A o, p \in Imported :
      link[o] # None /\ link[p] # None /\ IdentitiesOf(o) \cap IdentitiesOf(p) # {}
        => link[o] = link[p]

(* Imports and decisions under way end, and the job scans.                 *)
InventoryFairness ==
  /\ WF_ivVars(ScanTargets)
  /\ WF_ivVars(Importing)
  /\ WF_ivVars(\E o \in Observation : StoreDecision(o))

InventoryFairSpec == InventorySpec /\ InventoryFairness

(* docs/inventory.md: manual decisions persist and take precedence on      *)
(* later scans.  A target that stays scraped has in the end what was       *)
(* decided last, with its identities and its service, though the decision  *)
(* raced a scan or an import.                                              *)
DecisionsPrevail ==
  \A t \in Target :
    <>[](decided[t].made /\ t \in scraped)
      => <>[](/\ observed[t] = Correlated(t)
              /\ link[t] = decided[t].asset
              /\ decided[t].asset # None => service[t] = decided[t].asset)
=============================================================================
