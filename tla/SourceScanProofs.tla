--------------------------- MODULE SourceScanProofs ---------------------------
(* That the scans of a source exclude each other and that nothing is left  *)
(* of a deleted one, for any number of scans, files and changes.           *)
EXTENDS SourceScan, TLAPS

PCs == {"idle", "entered", "marked", "started", "hashing", "reconciled", "completed",
        "failing", "failed", "ending"}

LEMMA FreshTyped == \A c \in Configuration : Fresh(c) \in Scan
BY DEF Fresh, Scan, Unscanned, NotRead

LEMMA VersionNatural == Version \subseteq Nat
<1> SUFFICES ASSUME NEW f \in File
             PROVE  0 .. MaxContents[f] \subseteq Nat
  BY DEF Version
<1> QED OBVIOUS

LEMMA NoScanTyped == NoScan \in Scan
BY FreshTyped, ScanAssumption DEF NoScan

LEMMA GoesTyped ==
  ASSUME scan \in [Scanners -> Scan], NEW p \in Scanners, NEW pc \in PCs, Goes(p, pc)
  PROVE  scan' \in [Scanners -> Scan]
<1>1. [scan[p] EXCEPT !.pc = pc] \in Scan
  BY DEF Scan, PCs
<1> QED BY <1>1 DEF Goes

LEMMA EndsTyped ==
  ASSUME scan \in [Scanners -> Scan], NEW p \in Scanners, Ends(p)
  PROVE  scan' \in [Scanners -> Scan]
BY NoScanTyped DEF Ends

LEMMA BoundsTyped ==
  ASSUME ScanTypeOK
  PROVE  /\ Asked => requests' \in 0 .. MaxRequests
         /\ Broken => breaks' \in 0 .. MaxBreaks
BY ScanAssumption DEF ScanTypeOK, Asked, Broken

(* What makes the invariant inductive: a history row that says "running"   *)
(* is counted for the scan that has still to complete it.                  *)
Counted == \A p \in Scanners : scan[p].recorded => Active(p) /\ (row.there => open > 0)

Inv == ScanTypeOK /\ Counted /\ ScansExclude /\ DeletedLeavesNothing

----------------------------------------------------------------------------
(* The steps of a scan, with the variables they leave alone.               *)
LEMMA TypeOfScans ==
  ASSUME Inv, NEW p \in Scanners,
         \/ Enter(p) \/ Advances(p) \/ ScanFails(p) \/ SessionBreaks(p)
  PROVE  ScanTypeOK'
<1> USE DEF Inv, ScanTypeOK
<1>1. CASE Enter(p)
  <2>1. row.config \in Configuration
    BY DEF Row
  <2>2. Fresh(row.config) \in Scan
    BY <2>1, FreshTyped
  <2>3. [Fresh(row.config) EXCEPT !.pc = "entered"] \in Scan
    BY <2>2 DEF Scan
  <2>4. scan' \in [Scanners -> Scan]
    BY <1>1, <2>3 DEF Enter
  <2>5. requests' \in 0 .. MaxRequests
    BY <1>1, BoundsTyped DEF Enter
  <2> QED BY <1>1, <2>4, <2>5 DEF Enter
<1>2. CASE MarkBusy(p)
  <2>1. row' \in Row
    BY <1>2 DEF MarkBusy, Row
  <2> QED BY <1>2, <2>1, GoesTyped DEF MarkBusy, PCs
<1>3. CASE StartHistory(p)
  <2>1. [scan[p] EXCEPT !.pc = "started", !.recorded = TRUE] \in Scan
    BY DEF Scan
  <2>2. scan' = [scan EXCEPT ![p] = [scan[p] EXCEPT !.pc = "started", !.recorded = TRUE]]
    BY <1>3 DEF StartHistory
  <2> QED BY <1>3, <2>1, <2>2 DEF StartHistory
<1>4. CASE Walk(p)
  <2>1. {f \in Picks[scan[p].config] : Present(f)} \subseteq File
    BY ScanAssumption DEF Scan
  <2>2. [scan[p] EXCEPT !.pc = "hashing",
                        !.todo = {f \in Picks[scan[p].config] : Present(f)}] \in Scan
    BY <2>1 DEF Scan
  <2>3. scan' = [scan EXCEPT ![p] = [scan[p] EXCEPT !.pc = "hashing",
                               !.todo = {f \in Picks[scan[p].config] : Present(f)}]]
    BY <1>4 DEF Walk
  <2> QED BY <1>4, <2>2, <2>3 DEF Walk
<1>5. ASSUME NEW f \in File, HashFile(p, f)
      PROVE  ScanTypeOK'
  <2> DEFINE s == scan[p]
             v == IF Readable(f) THEN disk[f].ver ELSE NotRead
  <2>1. v \in Version \cup {NotRead} /\ (s.unread \/ ~Readable(f)) \in BOOLEAN
    BY DEF OnDisk, Readable, Scan
  <2>2. [s.found EXCEPT ![f] = v] \in [File -> Version \cup {NotRead}]
    BY <2>1 DEF Scan
  <2>3. scan'[p] = [s EXCEPT !.todo = s.todo \ {f}, !.found = [s.found EXCEPT ![f] = v],
                            !.unread = (s.unread \/ ~Readable(f))]
    BY <1>5 DEF HashFile
  <2> DEFINE found == [s.found EXCEPT ![f] = v]
             unread == s.unread \/ ~Readable(f)
  <2>4. scan'[p] \in Scan
    <3>1. found \in [File -> Version \cup {NotRead}] /\ unread \in BOOLEAN
      BY <2>1, <2>2
    <3>2. s \in Scan /\ scan'[p] = [s EXCEPT !.todo = s.todo \ {f}, !.found = found,
                                            !.unread = unread]
      BY <2>3
    <3> HIDE DEF found, unread, s
    <3> QED BY <3>1, <3>2 DEF Scan
  <2>5. scan' \in [Scanners -> Scan]
    BY <1>5, <2>4 DEF HashFile
  <2> QED BY <1>5, <2>5 DEF HashFile
<1>6. CASE Reconcile(p)
  <2>1. ASSUME NEW f \in File
        PROVE  doc'[f] \in [ver : Version, state : {"none", "active", "missing"}]
    <3>1. scan[p].found[f] # NotRead => scan[p].found[f] \in Version
      BY DEF Scan
    <3> QED BY <1>6, <3>1 DEF Reconcile
  <2>2. [scan[p] EXCEPT !.pc = "reconciled", !.found = Unscanned] \in Scan
    BY DEF Scan, Unscanned, NotRead
  <2>3. scan' = [scan EXCEPT ![p] = [scan[p] EXCEPT !.pc = "reconciled", !.found = Unscanned]]
    BY <1>6 DEF Reconcile
  <2> QED BY <1>6, <2>1, <2>2, <2>3 DEF Reconcile
<1>7. CASE CloseHistory(p)
  <2>1. open' \in Nat
    BY <1>7 DEF CloseHistory, Counted, Stores
  <2> DEFINE pc == IF scan[p].pc = "reconciled" THEN "completed" ELSE "failed"
  <2>2. [scan[p] EXCEPT !.pc = pc, !.recorded = FALSE] \in Scan
    BY DEF Scan
  <2>3. scan' = [scan EXCEPT ![p] = [scan[p] EXCEPT !.pc = pc, !.recorded = FALSE]]
    BY <1>7 DEF CloseHistory
  <2> QED BY <1>7, <2>1, <2>2, <2>3 DEF CloseHistory
<1>8. CASE ReportHealth(p)
  <2>1. row' \in Row
    BY <1>8 DEF ReportHealth, Row, Health
  <2> QED BY <1>8, <2>1, GoesTyped DEF ReportHealth, PCs
<1>9. CASE Leave(p)
  <2>1. row' \in Row
    BY <1>9 DEF Leave, Row
  <2> QED BY <1>9, <2>1, EndsTyped DEF Leave
<1>10. CASE SourceGone(p)
  BY <1>10, EndsTyped DEF SourceGone
<1>11. CASE ScanFails(p)
  <2>1. scan' \in [Scanners -> Scan]
    BY <1>11, GoesTyped DEF ScanFails, PCs
  <2>2. breaks' \in 0 .. MaxBreaks
    BY <1>11, BoundsTyped DEF ScanFails
  <2> QED BY <1>11, <2>1, <2>2 DEF ScanFails
<1>12. CASE SessionBreaks(p)
  <2>1. breaks' \in 0 .. MaxBreaks
    BY <1>12, BoundsTyped DEF SessionBreaks
  <2> QED BY <1>12, <2>1, EndsTyped DEF SessionBreaks
<1> HIDE DEF ScanTypeOK
<1> QED
  BY <1>1, <1>2, <1>3, <1>4, <1>5, <1>6, <1>7, <1>8, <1>9, <1>10, <1>11, <1>12 DEF Advances

(* The directory, the requests and a restart.                              *)
LEMMA TypeOfOthers ==
  ASSUME Inv,
         \/ \E f \in File, is \in {"readable", "unreadable", "gone"} : DiskChanges(f, is)
         \/ \E c \in Configuration, on \in BOOLEAN : Update(c, on)
         \/ UpdateHealth \/ ReconcileSource \/ UpdateBreaks \/ RemoveJob \/ Delete
         \/ \E health \in {"healthy", "unhealthy"} : Validate(health)
         \/ Restart
  PROVE  ScanTypeOK'
<1> USE DEF Inv, ScanTypeOK
<1>1. ASSUME NEW f \in File, NEW is \in {"readable", "unreadable", "gone"}, DiskChanges(f, is)
      PROVE  ScanTypeOK'
  <2>1. disk[f].ver + 1 \in Version
    <3>1. disk[f].ver \in Nat
      <4>1. disk[f].ver \in Version
        BY DEF OnDisk
      <4> QED BY <4>1, VersionNatural
    <3>2. MaxContents[f] \in Nat /\ disk[f].ver < MaxContents[f]
      BY <1>1, ScanAssumption DEF DiskChanges
    <3>3. disk[f].ver + 1 \in 0 .. MaxContents[f]
      BY <3>1, <3>2
    <3> QED BY <3>3 DEF Version
  <2>2. [ver |-> disk[f].ver + 1, is |-> is] \in OnDisk
    BY <2>1 DEF OnDisk
  <2> QED BY <1>1, <2>2 DEF DiskChanges
<1>2. ASSUME NEW c \in Configuration, NEW on \in BOOLEAN, Update(c, on)
      PROVE  ScanTypeOK'
  <2>1. row' \in Row
    BY <1>2 DEF Update, Row
  <2> QED BY <1>2, <2>1, BoundsTyped DEF Update
<1>3. CASE UpdateHealth
  <2>1. row' \in Row
    BY <1>3 DEF UpdateHealth, Row, Health
  <2> QED BY <1>3, <2>1 DEF UpdateHealth
<1>4. CASE ReconcileSource
  BY <1>4 DEF ReconcileSource, Row
<1>5. CASE UpdateBreaks
  BY <1>5, BoundsTyped DEF UpdateBreaks
<1>6. CASE RemoveJob
  BY <1>6, BoundsTyped DEF RemoveJob
<1>7. CASE Delete
  <2>1. row' \in Row
    BY <1>7 DEF Delete, Row
  <2>2. NoDocuments \in [File -> [ver : Version, state : {"none", "active", "missing"}]]
    <3>1. \A f \in File : 0 \in Version
      BY ScanAssumption DEF Version
    <3> QED BY <3>1 DEF NoDocuments
  <2> QED BY <1>7, <2>1, <2>2 DEF Delete
<1>8. ASSUME NEW health \in {"healthy", "unhealthy"}, Validate(health)
      PROVE  ScanTypeOK'
  <2>1. row' \in Row
    BY <1>8 DEF Validate, Row, Health
  <2> QED BY <1>8, <2>1, BoundsTyped DEF Validate
<1>9. CASE Restart
  <2>1. row' \in Row /\ timer' \in BOOLEAN
    BY <1>9 DEF Restart, Row
  <2>2. scan' \in [Scanners -> Scan]
    BY <1>9, NoScanTyped DEF Restart
  <2> QED BY <1>9, <2>1, <2>2, BoundsTyped DEF Restart
<1> HIDE DEF ScanTypeOK
<1> QED BY <1>1, <1>2, <1>3, <1>4, <1>5, <1>6, <1>7, <1>8, <1>9

LEMMA TypeStep ==
  ASSUME Inv, [ScanNext]_scVars
  PROVE  ScanTypeOK'
<1>1. CASE UNCHANGED scVars
  BY <1>1 DEF Inv, ScanTypeOK, scVars
<1>2. CASE ScanNext
  BY <1>2, TypeOfScans, TypeOfOthers DEF ScanNext
<1> QED BY <1>1, <1>2

----------------------------------------------------------------------------
LEMMA Alone ==
  ASSUME Inv, NEW p \in Scanners, Active(p)
  PROVE  guarded /\ \A q \in Scanners \ {p} : ~Active(q) /\ ~scan[q].recorded
BY DEF Inv, ScansExclude, Counted

(* A step of the scan under way, which stores nothing of a deleted source. *)
LEMMA Under ==
  ASSUME Inv, NEW p \in Scanners, Active(p),
         \A q \in Scanners \ {p} : scan'[q] = scan[q],
         guarded' = guarded, row'.there = row.there,
         scan'[p].recorded => scan'[p].pc # "idle" /\ (row.there => open' > 0),
         ~row.there => doc' = doc /\ open' = open
  PROVE  (Counted /\ ScansExclude /\ DeletedLeavesNothing)'
<1>1. guarded /\ \A q \in Scanners \ {p} : ~Active(q) /\ ~scan[q].recorded
  BY Alone
<1>2. \A q \in Scanners \ {p} : ~Active(q)' /\ ~scan'[q].recorded
  BY <1>1 DEF Active, At
<1>3. Counted'
  BY <1>2 DEF Counted, Active, At
<1>4. ScansExclude'
  BY <1>1, <1>2 DEF ScansExclude
<1>5. DeletedLeavesNothing'
  BY DEF Inv, DeletedLeavesNothing
<1> QED BY <1>3, <1>4, <1>5

LEMMA RestOfScans ==
  ASSUME Inv, NEW p \in Scanners,
         \/ Enter(p) \/ Advances(p) \/ ScanFails(p) \/ SessionBreaks(p)
  PROVE  (Counted /\ ScansExclude /\ DeletedLeavesNothing)'
<1>0. scan \in [Scanners -> Scan] /\ row \in Row
  BY DEF Inv, ScanTypeOK
<1>1. CASE Enter(p)
  <2>1. \A q \in Scanners : ~Active(q) /\ ~scan[q].recorded
    BY <1>1 DEF Enter, Inv, ScansExclude, Counted
  <2>2. ~scan'[p].recorded /\ \A q \in Scanners \ {p} : scan'[q] = scan[q]
    BY <1>0, <1>1 DEF Enter, Fresh
  <2>3. Counted'
    BY <2>1, <2>2 DEF Counted
  <2>4. ScansExclude'
    BY <1>1, <2>1, <2>2 DEF Enter, ScansExclude, Active, At
  <2> QED BY <1>1, <2>3, <2>4 DEF Enter, Inv, DeletedLeavesNothing
<1>2. CASE MarkBusy(p)
  <2>1. /\ Active(p) /\ \A q \in Scanners \ {p} : scan'[q] = scan[q]
        /\ scan'[p].recorded = scan[p].recorded /\ scan'[p].pc # "idle"
        /\ row'.there = row.there
    BY <1>0, <1>2 DEF MarkBusy, Stores, Active, At, Goes, Row, Scan
  <2> QED BY <1>2, <2>1, Under DEF MarkBusy, Inv, Counted
<1>3. CASE StartHistory(p)
  <2>1. /\ Active(p) /\ \A q \in Scanners \ {p} : scan'[q] = scan[q]
        /\ scan'[p].pc # "idle" /\ row.there
    BY <1>0, <1>3 DEF StartHistory, Stores, Active, At, Scan
  <2>2. open' > 0
    BY <1>3 DEF StartHistory, Inv, ScanTypeOK
  <2> QED BY <1>3, <2>1, <2>2, Under DEF StartHistory
<1>4. CASE Walk(p) \/ \E f \in File : HashFile(p, f)
  <2>1. CASE Walk(p)
    <3>1. /\ Active(p) /\ \A q \in Scanners \ {p} : scan'[q] = scan[q]
          /\ scan'[p].recorded = scan[p].recorded /\ scan'[p].pc # "idle"
          /\ UNCHANGED <<row, guarded, open, doc>>
      BY <1>0, <2>1 DEF Walk, Active, At, Scan
    <3> QED BY <3>1, Under DEF Inv, Counted
  <2>2. ASSUME NEW f \in File, HashFile(p, f)
        PROVE  (Counted /\ ScansExclude /\ DeletedLeavesNothing)'
    <3> DEFINE found == [scan[p].found EXCEPT ![f] = IF Readable(f) THEN disk[f].ver ELSE NotRead]
               unread == scan[p].unread \/ ~Readable(f)
    <3>1. scan' = [scan EXCEPT ![p] = [scan[p] EXCEPT !.todo = scan[p].todo \ {f},
                                                      !.found = found, !.unread = unread]]
      BY <2>2 DEF HashFile
    <3> HIDE DEF found, unread
    <3>2. /\ \A q \in Scanners \ {p} : scan'[q] = scan[q]
          /\ scan'[p].recorded = scan[p].recorded /\ scan'[p].pc = scan[p].pc
      BY <1>0, <3>1 DEF Scan
    <3>3. Active(p) /\ UNCHANGED <<row, guarded, open, doc>>
      BY <2>2 DEF HashFile, Active, At
    <3> QED BY <3>2, <3>3, Under DEF Inv, Counted, Active, At
  <2> QED BY <1>4, <2>1, <2>2
<1>5. CASE Reconcile(p)
  <2>1. /\ Active(p) /\ \A q \in Scanners \ {p} : scan'[q] = scan[q] /\ row.there
        /\ scan'[p].recorded = scan[p].recorded /\ scan'[p].pc # "idle" /\ row.there
        /\ UNCHANGED <<row, guarded, open>>
    BY <1>0, <1>5 DEF Reconcile, Stores, Active, At, Scan
  <2> QED BY <2>1, Under DEF Inv, Counted
<1>6. CASE CloseHistory(p)
  <2>1. /\ Active(p) /\ \A q \in Scanners \ {p} : scan'[q] = scan[q]
        /\ ~scan'[p].recorded /\ row.there
        /\ UNCHANGED <<row, guarded>>
    BY <1>0, <1>6 DEF CloseHistory, Stores, Active, At, Scan
  <2> QED BY <2>1, Under
<1>7. CASE ReportHealth(p)
  <2>1. /\ Active(p) /\ \A q \in Scanners \ {p} : scan'[q] = scan[q]
        /\ scan'[p].recorded = scan[p].recorded /\ scan'[p].pc # "idle"
        /\ row'.there = row.there
    BY <1>0, <1>7 DEF ReportHealth, Stores, Active, At, Goes, Row, Scan
  <2> QED BY <1>7, <2>1, Under DEF ReportHealth, Inv, Counted
<1>8. CASE Leave(p)
  <2>1. /\ Active(p) /\ \A q \in Scanners \ {p} : scan'[q] = scan[q]
        /\ scan'[p].pc = "idle" /\ ~scan'[p].recorded
        /\ row'.there = row.there /\ ~row'.busy /\ UNCHANGED <<doc, open>>
    BY <1>0, <1>8 DEF Leave, Stores, Active, At, Ends, NoScan, Fresh, Row
  <2>2. \A q \in Scanners : ~Active(q)' /\ ~scan'[q].recorded
    BY <2>1, Alone DEF Active, At
  <2>3. Counted' /\ ScansExclude'
    BY <2>1, <2>2 DEF Counted, ScansExclude
  <2> QED BY <2>1, <2>3 DEF Inv, DeletedLeavesNothing
<1>9. CASE SourceGone(p) \/ SessionBreaks(p)
  <2>1. /\ Active(p) /\ \A q \in Scanners \ {p} : scan'[q] = scan[q]
        /\ ~scan'[p].recorded /\ UNCHANGED <<row, guarded, doc, open>>
    BY <1>0, <1>9 DEF SourceGone, SessionBreaks, Ends, NoScan, Fresh
  <2> QED BY <2>1, Under
<1>10. CASE ScanFails(p)
  <2>1. /\ Active(p) /\ \A q \in Scanners \ {p} : scan'[q] = scan[q]
        /\ scan'[p].recorded = scan[p].recorded /\ scan'[p].pc # "idle"
        /\ UNCHANGED <<row, guarded, doc, open>>
    BY <1>0, <1>10 DEF ScanFails, Active, At, Goes, Scan
  <2> QED BY <2>1, Under DEF Inv, Counted
<1> QED
  BY <1>1, <1>2, <1>3, <1>4, <1>5, <1>6, <1>7, <1>8, <1>9, <1>10 DEF Advances

(* The directory and the requests do not touch the scans; a restart ends   *)
(* them, and with a source all that belongs to it goes.                    *)
LEMMA RestOfOthers ==
  ASSUME Inv,
         \/ \E f \in File, is \in {"readable", "unreadable", "gone"} : DiskChanges(f, is)
         \/ \E c \in Configuration, on \in BOOLEAN : Update(c, on)
         \/ UpdateHealth \/ ReconcileSource \/ UpdateBreaks \/ RemoveJob \/ Delete
         \/ \E health \in {"healthy", "unhealthy"} : Validate(health)
         \/ Restart
  PROVE  (Counted /\ ScansExclude /\ DeletedLeavesNothing)'
<1>0. row \in Row
  BY DEF Inv, ScanTypeOK
<1>1. ASSUME UNCHANGED <<scan, guarded, doc, open>>, row'.there = row.there, row'.busy = row.busy
      PROVE  (Counted /\ ScansExclude /\ DeletedLeavesNothing)'
  BY <1>1 DEF Inv, Counted, ScansExclude, DeletedLeavesNothing, Active, At
<1>2. CASE Delete
  <2>1. UNCHANGED <<scan, guarded>> /\ ~row'.there /\ doc' = NoDocuments /\ open' = 0
    BY <1>0, <1>2 DEF Delete, Row
  <2> QED BY <2>1 DEF Inv, Counted, ScansExclude, DeletedLeavesNothing, Active, At, NoDocuments
<1>3. CASE Restart
  <2>1. \A q \in Scanners : ~Active(q)' /\ ~scan'[q].recorded
    BY <1>3 DEF Restart, NoScan, Fresh, Active, At
  <2>2. ~row'.busy /\ row'.there = row.there /\ UNCHANGED <<doc, open>>
    BY <1>0, <1>3 DEF Restart, Row
  <2>3. Counted' /\ ScansExclude'
    BY <2>1, <2>2 DEF Counted, ScansExclude
  <2> QED BY <2>2, <2>3 DEF Inv, DeletedLeavesNothing
<1>4. ASSUME NEW c \in Configuration, NEW on \in BOOLEAN, Update(c, on)
      PROVE  (Counted /\ ScansExclude /\ DeletedLeavesNothing)'
  BY <1>0, <1>1, <1>4 DEF Update, Row
<1>5. ASSUME NEW health \in {"healthy", "unhealthy"}, Validate(health)
      PROVE  (Counted /\ ScansExclude /\ DeletedLeavesNothing)'
  BY <1>0, <1>1, <1>5 DEF Validate, Row
<1>6. CASE UpdateHealth
  BY <1>0, <1>1, <1>6 DEF UpdateHealth, Row
<1>7. CASE ReconcileSource \/ UpdateBreaks \/ RemoveJob
  BY <1>1, <1>7 DEF ReconcileSource, UpdateBreaks, RemoveJob
<1>8. ASSUME NEW f \in File, NEW is \in {"readable", "unreadable", "gone"}, DiskChanges(f, is)
      PROVE  (Counted /\ ScansExclude /\ DeletedLeavesNothing)'
  BY <1>1, <1>8 DEF DiskChanges
<1> QED BY <1>2, <1>3, <1>4, <1>5, <1>6, <1>7, <1>8

LEMMA Inductive == ScanSpec => []Inv
<1>1. ScanInit => Inv
  <2> SUFFICES ASSUME ScanInit
               PROVE  Inv
    OBVIOUS
  <2>1. disk \in [File -> OnDisk] /\ NoDocuments \in [File -> [ver : Version,
                                                  state : {"none", "active", "missing"}]]
    <3>1. \A f \in File : 0 \in Version
      BY ScanAssumption DEF Version
    <3> QED BY <3>1 DEF ScanInit, OnDisk, NoDocuments
  <2>2. row \in Row /\ ~row.busy /\ row.there
    BY DEF ScanInit, Row, Health
  <2>3. scan \in [Scanners -> Scan] /\ \A q \in Scanners : ~Active(q) /\ ~scan[q].recorded
    BY NoScanTyped DEF ScanInit, Active, At, NoScan, Fresh
  <2>4. requests \in 0 .. MaxRequests /\ breaks \in 0 .. MaxBreaks
    BY ScanAssumption DEF ScanInit
  <2>5. ScanTypeOK
    BY <2>1, <2>2, <2>3, <2>4 DEF ScanInit, ScanTypeOK, Row
  <2> QED BY <2>2, <2>3, <2>5 DEF Inv, Counted, ScansExclude, DeletedLeavesNothing
<1>2. Inv /\ UNCHANGED scVars => Inv'
  BY DEF Inv, scVars, ScanTypeOK, Counted, ScansExclude, DeletedLeavesNothing, Active, At
<1>3. Inv /\ ScanNext => Inv'
  BY TypeStep, RestOfScans, RestOfOthers DEF ScanNext, Inv
<1> QED BY <1>1, <1>2, <1>3, PTL DEF ScanSpec

(* Every variable of the source scans keeps its type, the count of running *)
(* history rows included: it is never completed below zero.                *)
THEOREM TypeCorrect == ScanSpec => []ScanTypeOK
<1>1. Inv => ScanTypeOK
  BY DEF Inv
<1> QED BY <1>1, Inductive, PTL

(* SourceScanGuard (sources.py:25): scans of one source never overlap, for *)
(* any number of manual and scheduled scans, failures and restarts.        *)
THEOREM ScansNeverOverlap == ScanSpec => []ScansExclude
<1>1. Inv => ScansExclude
  BY DEF Inv
<1> QED BY <1>1, Inductive, PTL

(* Nothing is stored for a deleted source (repositories/sources.py:59),    *)
(* wherever a scan of it was when it was deleted.                          *)
THEOREM NothingLeft == ScanSpec => []DeletedLeavesNothing
<1>1. Inv => DeletedLeavesNothing
  BY DEF Inv
<1> QED BY <1>1, Inductive, PTL
=============================================================================
