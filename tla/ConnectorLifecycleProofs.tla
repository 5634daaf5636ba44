---------------------- MODULE ConnectorLifecycleProofs ----------------------
(***************************************************************************)
(* What TLC checks for two requests and two registrations, proved for every *)
(* set of requests and every bound: typing, the chain of heartbeats, and    *)
(* that neither a success nor a credential outlives its registration.       *)
(***************************************************************************)
EXTENDS ConnectorLifecycle, TLAPS

----------------------------------------------------------------------------
(* The operators on rows stay within their types. *)

LEMMA DeriveType ==
  ASSUME NEW c \in BOOLEAN, NEW s \in Status, NEW l \in Success, NEW f \in BOOLEAN
  PROVE  Derive(c, s, l, f) \in Status
<1>1. l.age \in 0 .. 2
  BY DEF Success
<1> QED
  BY <1>1 DEF Derive, Status

LEMMA BlankType == Blank \in Row /\ Never \in Success
  BY ConstantsAssumption DEF Blank, Never, Row, Success, Status, None, Credentials

LEMMA IdleTypes == NoAttempt \in Attempt /\ NoRequest \in Request
  BY BlankType, ConstantsAssumption
  DEF NoAttempt, NoRequest, Attempt, Request, AttemptSteps, RequestSteps, Status

LEMMA ReportedType == ASSUME NEW r \in Row PROVE Reported(r) \in Status
  BY DeriveType DEF Reported, Row

LEMMA SettledType ==
  ASSUME NEW r \in Row
  PROVE  /\ Settled(r) \in Row
         /\ Settled(r).creds = r.creds
         /\ Settled(r).last = r.last
  BY ReportedType DEF Settled, Row

LEMMA StoredType ==
  ASSUME row \in Row, NEW s \in Row
  PROVE  /\ Stored(s) \in Row
         /\ Stored(s).creds = row.creds
         /\ Stored(s).last = row.last
  BY ReportedType DEF Stored, Row

LEMMA LoadedType ==
  ASSUME row \in Row, NEW s \in Row
  PROVE  /\ Loaded(s) \in Row
         /\ Loaded(s).last \in {s.last, row.last}
  BY StoredType DEF Loaded

LEMMA AgedType ==
  ASSUME NEW r \in Row
  PROVE  /\ Aged(r) \in Row
         /\ Aged(r).creds = r.creds
         /\ Aged(r).last.epoch = r.last.epoch
         /\ Aged(r).last = Never <=> r.last = Never
<1>1. r.last \in Success
  BY DEF Row
<1>2. /\ Older(r.last) \in Success
      /\ Older(r.last).epoch = r.last.epoch
      /\ Older(r.last) = Never <=> r.last = Never
  <2>1. CASE r.last = Never \/ r.last.age = 2
    BY <1>1, <2>1 DEF Older
  <2>2. CASE r.last # Never /\ r.last.age # 2
    <3>1. r.last.age \in 0 .. 1
      BY <1>1, <2>2 DEF Success
    <3>2. r.last.age + 1 \in 0 .. 2 /\ r.last.age + 1 # 0
      BY <3>1
    <3>3. Older(r.last) = [r.last EXCEPT !.age = r.last.age + 1]
      BY <2>2 DEF Older
    <3>4. Older(r.last) \in Success /\ Older(r.last).epoch = r.last.epoch
      BY <1>1, <3>2, <3>3 DEF Success
    <3>5. Older(r.last).age = r.last.age + 1
      BY <1>1, <3>3 DEF Success
    <3> QED
      BY <2>2, <3>2, <3>4, <3>5 DEF Never
  <2> QED
    BY <2>1, <2>2
<1>3. Aged(r) = [r EXCEPT !.last = Older(r.last)]
  BY DEF Aged
<1> QED
  BY <1>2, <1>3 DEF Row

----------------------------------------------------------------------------
(* Every reachable state is well typed: the status column never leaves the  *)
(* documented labels, the clock of a success never passes its last class.   *)
THEOREM TypeCorrect == Spec => []TypeOK
<1>1. Init => TypeOK
  <2> SUFFICES ASSUME Init
               PROVE  TypeOK
    OBVIOUS
  <2>1. req \in [Requests -> Request] /\ hb \in Attempt /\ row \in Row
    BY IdleTypes, BlankType DEF Init
  <2>2. begun \in 0 .. MaxRegistrations /\ disturbances \in 0 .. MaxDisturbances
    BY ConstantsAssumption DEF Init
  <2> QED
    BY <2>1, <2>2 DEF Init, TypeOK, Jobs
<1>2. TypeOK /\ [Next]_vars => TypeOK'
  <2> SUFFICES ASSUME TypeOK, [Next]_vars
               PROVE  TypeOK'
    OBVIOUS
  <2> USE ConstantsAssumption, BlankType, IdleTypes
  <2>a. ASSUME NEW r \in Requests
        PROVE  req[r] \in Request /\ req[r].snap \in Row /\ req[r].prev \in Status
    BY DEF TypeOK, Request
  <2>b. /\ row \in Row /\ hb.snap \in Row
        /\ row.creds \in Credentials \cup {None}
        /\ row.last \in Success
        /\ hb.snap.creds \in Credentials \cup {None}
        /\ begun \in 0 .. MaxRegistrations
    BY DEF TypeOK, Row, Attempt
  <2>c. Settled(row) \in Row /\ Reported(row) \in Status
    BY <2>b, SettledType, ReportedType
  <2>d. ASSUME Disturb
        PROVE  disturbances' \in 0 .. MaxDisturbances
    BY <2>d DEF Disturb, TypeOK
  <2>1. CASE Start
    BY <2>1, <2>c DEF Start, TypeOK, Jobs
  <2>2. CASE Crash
    <3>1. req' \in [Requests -> Request]
      BY <2>2 DEF Crash
    <3> QED
      BY <2>2, <2>d, <3>1 DEF Crash, TypeOK, Jobs
  <2>3. CASE Elapse
    <3>1. Aged(row) \in Row /\ Aged(hb.snap) \in Row
      BY <2>b, AgedType
    <3>2. ASSUME NEW r \in Requests
          PROVE  [req[r] EXCEPT !.snap = Aged(req[r].snap)] \in Request
      BY <2>a, AgedType DEF Request
    <3>3. hb' \in Attempt
      BY <2>3, <3>1 DEF Elapse, TypeOK, Attempt
    <3>4. req' = [r \in Requests |-> [req[r] EXCEPT !.snap = Aged(req[r].snap)]]
      BY <2>3 DEF Elapse
    <3>5. req' \in [Requests -> Request]
      BY <3>2, <3>4
    <3> QED
      BY <2>3, <3>1, <3>3, <3>5 DEF Elapse, TypeOK
  <2>4. CASE JobStarts
    <3>1. hb' \in Attempt
      BY <2>4 DEF JobStarts, Attempt, AttemptSteps
    <3> QED
      BY <2>4, <3>1 DEF JobStarts, TypeOK, Jobs
  <2>5. CASE JobSkipped
    BY <2>5, <2>d DEF JobSkipped, TypeOK, Jobs
  <2>6. CASE AttemptStep
    <3>a. [NoAttempt EXCEPT !.pc = "reschedule"] \in Attempt
      BY DEF Attempt, AttemptSteps
    <3>b. /\ Stored(hb.snap) \in Row
          /\ Loaded(hb.snap) \in Row
      BY <2>b, StoredType, LoadedType
    <3>c. ASSUME NEW s \in Status
          PROVE  Column(Stored(hb.snap).status, Loaded(hb.snap).status, s) \in Status
      BY <3>b DEF Column, Row
    <3>1. CASE AttemptLoads
      BY <3>1, <2>c DEF AttemptLoads, TypeOK, Attempt, AttemptSteps
    <3>2. CASE AttemptAccepted
      <4>1. Column(Stored(hb.snap).status, Loaded(hb.snap).status, "connected") \in Status
        BY <3>c DEF Status
      <4>2. Column(Stored(hb.snap).failed, Loaded(hb.snap).failed, FALSE) \in BOOLEAN
        BY <3>b DEF Column, Row
      <4>3. [age |-> 0, by |-> hb.snap.creds, epoch |-> begun] \in Success
        BY <2>b DEF Success
      <4>4. row' \in Row
        BY <3>2, <3>b, <4>1, <4>2, <4>3 DEF AttemptAccepted, Row
      <4> QED
        BY <3>2, <3>a, <4>4 DEF AttemptAccepted, TypeOK
    <3>3. ASSUME NEW auth \in BOOLEAN, AttemptFailed(auth)
          PROVE  TypeOK'
      <4> DEFINE hint == IF auth THEN "authentication_failed" ELSE Loaded(hb.snap).status
      <4> DEFINE new == Derive(TRUE, hint, Loaded(hb.snap).last, TRUE)
      <4>1. hint \in Status /\ Loaded(hb.snap).last \in Success
        BY <3>b DEF Row, Status
      <4>2. new \in Status
        BY <4>1, DeriveType
      <4>3. row' = [Stored(hb.snap) EXCEPT
                      !.status = Column(@, Loaded(hb.snap).status, new),
                      !.failed = TRUE]
        BY <3>3 DEF AttemptFailed
      <4> HIDE DEF new
      <4>4. row' \in Row
        BY <3>b, <3>c, <4>2, <4>3 DEF Row
      <4> QED
        BY <3>3, <2>d, <3>a, <4>4 DEF AttemptFailed, TypeOK
    <3>4. CASE AttemptBroke
      BY <3>4, <2>d, <3>a DEF AttemptBroke, TypeOK
    <3>5. CASE AttemptReschedules
      BY <3>5 DEF AttemptReschedules, TypeOK, Attempt, AttemptSteps, Jobs
    <3>6. CASE AttemptEnds
      BY <3>6, <2>c DEF AttemptEnds, TypeOK
    <3>7. CASE AttemptLost
      BY <3>7, <2>d DEF AttemptLost, TypeOK
    <3> QED
      BY <2>6, <3>1, <3>2, <3>3, <3>4, <3>5, <3>6, <3>7 DEF AttemptStep
  <2>7. ASSUME NEW r \in Requests, RequestStep(r)
        PROVE  TypeOK'
    <3>a. /\ Stored(req[r].snap) \in Row
          /\ Loaded(req[r].snap) \in Row
      BY <2>a, <2>b, StoredType, LoadedType
    <3>b. ASSUME NEW q \in Request
          PROVE  [req EXCEPT ![r] = q] \in [Requests -> Request]
      BY DEF TypeOK
    <3>c. ASSUME NEW pc \in RequestSteps
          PROVE  [req EXCEPT ![r].pc = pc] \in [Requests -> Request]
      BY <2>a DEF TypeOK, Request
    <3>d. [req EXCEPT ![r] = NoRequest] \in [Requests -> Request]
      BY <3>b
    <3>1. CASE RegisterBegins(r)
      <4>1. row' \in Row /\ begun' \in 0 .. MaxRegistrations
        BY <3>1, <2>b DEF RegisterBegins, Row, Status
      <4>2. [pc |-> "requested", snap |-> row', prev |-> Reported(row), no |-> begun']
              \in Request
        BY <2>c, <4>1 DEF Request, RequestSteps
      <4>3. req' \in [Requests -> Request]
        BY <3>1, <3>b, <4>2 DEF RegisterBegins
      <4> QED
        BY <3>1, <4>1, <4>3 DEF RegisterBegins, TypeOK
    <3>2. CASE RegisterAccepted(r)
      <4>1. req[r].no \in Credentials \cup {None}
        BY <2>a DEF Request, Credentials, None
      <4>2. row' \in Row
        BY <3>2, <3>a, <4>1 DEF RegisterAccepted, Row, Column, Status
      <4>3. [req[r] EXCEPT !.pc = "schedule", !.snap = row'] \in Request
        BY <2>a, <4>2 DEF Request, RequestSteps
      <4>4. req' = [req EXCEPT ![r] = [req[r] EXCEPT !.pc = "schedule", !.snap = row']]
        BY <3>2, <2>a DEF RegisterAccepted, TypeOK, Request
      <4>5. retired' \subseteq Credentials
        BY <3>2, <2>b DEF RegisterAccepted, TypeOK
      <4>6. req' \in [Requests -> Request]
        BY <3>b, <4>3, <4>4
      <4> QED
        BY <3>2, <4>2, <4>5, <4>6 DEF RegisterAccepted, TypeOK
    <3>3. CASE RegisterRefused(r)
      <4>1. row' \in Row
        BY <3>3, <2>a, <3>a DEF RegisterRefused, Row, Column
      <4> QED
        BY <3>3, <3>d, <4>1 DEF RegisterRefused, TypeOK
    <3>4. CASE RegisterSchedules(r)
      BY <3>4, <2>c, <3>c DEF RegisterSchedules, TypeOK, Jobs, RequestSteps
    <3>5. CASE RegisterReturns(r)
      BY <3>5, <3>a, <3>d DEF RegisterReturns, TypeOK
    <3>6. CASE UnregisterBegins(r)
      BY <3>6, <2>c, <3>c DEF UnregisterBegins, TypeOK, Jobs, RequestSteps
    <3>7. CASE UnregisterClears(r)
      <4>1. retired' \subseteq Credentials
        BY <3>7, <2>b DEF UnregisterClears, TypeOK
      <4> QED
        BY <3>7, <3>d, <4>1 DEF UnregisterClears, TypeOK
    <3>8. CASE RetryChecks(r)
      BY <3>8, <2>c, <3>c DEF RetryChecks, TypeOK, RequestSteps
    <3>9. CASE RetryRuns(r)
      <4>1. hb' \in Attempt /\ job' \in Jobs
        BY <3>9 DEF RetryRuns, TypeOK, Attempt, AttemptSteps, Jobs
      <4> QED
        BY <3>9, <3>d, <4>1 DEF RetryRuns, TypeOK
    <3> QED
      BY <2>7, <3>1, <3>2, <3>3, <3>4, <3>5, <3>6, <3>7, <3>8, <3>9 DEF RequestStep
  <2>8. CASE PollReads
    BY <2>8, <2>c DEF PollReads, TypeOK
  <2>9. CASE PollStores
    <3>1. row' \in Row
      BY <2>9 DEF PollStores, TypeOK, Row
    <3> QED
      BY <2>9, <3>1 DEF PollStores, TypeOK
  <2>10. CASE UNCHANGED vars
    BY <2>10 DEF vars, TypeOK
  <2> QED
    BY <2>1, <2>2, <2>3, <2>4, <2>5, <2>6, <2>7, <2>8, <2>9, <2>10 DEF Next
<1> QED
  BY <1>1, <1>2, PTL DEF Spec

----------------------------------------------------------------------------
(* The chain of one-shot jobs is never broken while the database serves the *)
(* attempt, for any number of requests registering, removing and retrying   *)
(* at once.  HeartbeatChain is inductive: whatever takes the job out of the *)
(* scheduler leaves an attempt, a request or a removal that answers for it. *)
THEOREM ChainKept == Spec => []HeartbeatChain
<1>1. Init => HeartbeatChain
  BY DEF Init, HeartbeatChain, HeartbeatLost
<1>2. TypeOK /\ HeartbeatChain /\ [Next]_vars => HeartbeatChain'
  <2> SUFFICES ASSUME TypeOK, HeartbeatChain, [Next]_vars
               PROVE  HeartbeatChain'
    OBVIOUS
  <2> USE DEF HeartbeatChain, HeartbeatLost
  <2>a. row \in Row /\ hb.snap \in Row
        /\ \A r \in Requests : req[r] \in Request /\ req[r].snap \in Row
    BY DEF TypeOK, Attempt, Request
  <2>b. /\ Settled(row).creds = row.creds
        /\ Stored(hb.snap).creds = row.creds
        /\ \A r \in Requests : Stored(req[r].snap).creds = row.creds
    BY <2>a, SettledType, StoredType
  <2>c. Stored(hb.snap) \in Row /\ \A r \in Requests : Stored(req[r].snap) \in Row
    BY <2>a, StoredType
  <2>1. CASE Start
    BY <2>1, <2>b DEF Start
  <2>2. CASE Crash
    BY <2>2 DEF Crash
  <2>3. CASE Elapse
    <3>1. row'.creds = row.creds /\ hb'.pc = hb.pc
      BY <2>3, <2>a, AgedType DEF Elapse, TypeOK, Attempt
    <3>2. \A r \in Requests : req'[r].pc = req[r].pc
      BY <2>3, <2>a DEF Elapse, Request
    <3> QED
      BY <2>3, <3>1, <3>2 DEF Elapse
  <2>4. CASE JobStarts
    BY <2>4 DEF JobStarts, NoAttempt
  <2>5. CASE JobSkipped
    <3>1. hb.pc \in AttemptSteps
      BY DEF TypeOK, Attempt
    <3> QED
      BY <2>5, <3>1 DEF JobSkipped, AttemptSteps
  <2>6. CASE AttemptStep
    <3>1. CASE AttemptLoads
      BY <3>1, <2>b DEF AttemptLoads
    <3>2. CASE AttemptAccepted
      BY <3>2 DEF AttemptAccepted, NoAttempt
    <3>3. ASSUME NEW auth \in BOOLEAN, AttemptFailed(auth)
          PROVE  HeartbeatChain'
      BY <3>3 DEF AttemptFailed, NoAttempt
    <3>4. CASE AttemptBroke
      BY <3>4 DEF AttemptBroke, NoAttempt
    <3>5. CASE AttemptReschedules
      BY <3>5 DEF AttemptReschedules
    <3>6. CASE AttemptEnds
      BY <3>6, <2>b DEF AttemptEnds, NoAttempt
    <3>7. CASE AttemptLost
      BY <3>7 DEF AttemptLost
    <3> QED
      BY <2>6, <3>1, <3>2, <3>3, <3>4, <3>5, <3>6, <3>7 DEF AttemptStep
  <2>7. ASSUME NEW r \in Requests, RequestStep(r)
        PROVE  HeartbeatChain'
    <3>a. req \in [Requests -> Request]
      BY DEF TypeOK
    <3>1. CASE RegisterBegins(r)
      <4>1. row'.creds = row.creds
        BY <3>1, <2>a DEF RegisterBegins, Row
      <4> QED
        BY <3>1, <3>a, <4>1 DEF RegisterBegins
    <3>2. CASE RegisterAccepted(r)
      <4>1. req'[r].pc = "schedule"
        BY <3>2, <3>a DEF RegisterAccepted, Request
      <4> QED
        BY <4>1
    <3>3. CASE RegisterRefused(r)
      <4>1. row'.creds = row.creds
        BY <3>3, <2>b, <2>c DEF RegisterRefused, Row
      <4> QED
        BY <3>3, <3>a, <4>1 DEF RegisterRefused
    <3>4. CASE RegisterSchedules(r)
      BY <3>4 DEF RegisterSchedules
    <3>5. CASE RegisterReturns(r)
      BY <3>5, <2>b, <3>a DEF RegisterReturns
    <3>6. CASE UnregisterBegins(r)
      <4>1. req'[r].pc = "removing"
        BY <3>6, <3>a DEF UnregisterBegins, Request
      <4> QED
        BY <4>1
    <3>7. CASE UnregisterClears(r)
      BY <3>7 DEF UnregisterClears, Blank
    <3>8. CASE RetryChecks(r)
      <4>1. \A q \in Requests : req'[q].pc \in {"schedule", "removing"} <=>
                                req[q].pc \in {"schedule", "removing"}
        BY <3>8, <3>a DEF RetryChecks, Request
      <4> QED
        BY <3>8, <2>b, <4>1 DEF RetryChecks
    <3>9. CASE RetryRuns(r)
      <4>1. \A q \in Requests : req'[q].pc \in {"schedule", "removing"} <=>
                                req[q].pc \in {"schedule", "removing"}
        BY <3>9, <3>a DEF RetryRuns, Request, NoRequest
      <4> QED
        BY <3>9, <4>1 DEF RetryRuns, NoAttempt
    <3> QED
      BY <2>7, <3>1, <3>2, <3>3, <3>4, <3>5, <3>6, <3>7, <3>8, <3>9 DEF RequestStep
  <2>8. CASE PollReads
    BY <2>8 DEF PollReads
  <2>9. CASE PollStores
    BY <2>9, <2>a DEF PollStores, Row
  <2>10. CASE UNCHANGED vars
    BY <2>10 DEF vars
  <2> QED
    BY <2>1, <2>2, <2>3, <2>4, <2>5, <2>6, <2>7, <2>8, <2>9, <2>10 DEF Next
<1> QED
  BY <1>1, <1>2, TypeCorrect, PTL DEF Spec

----------------------------------------------------------------------------
(* The strengthening under which neither a success nor a credential         *)
(* outlives its registration.                                               *)
LEMMA RegistrationInvKept == Spec => []RegistrationInv
<1>1. Init => RegistrationInv
  BY ConstantsAssumption DEF Init, RegistrationInv, Since, Blank, NoRequest, None
<1>2. TypeOK /\ RegistrationInv /\ [Next]_vars => RegistrationInv'
  <2> SUFFICES ASSUME TypeOK, RegistrationInv, [Next]_vars
               PROVE  RegistrationInv'
    OBVIOUS
  <2> DEFINE Numbered(r) ==
               req[r].pc = "requested" =>
                 /\ req[r].no \in 1 .. begun
                 /\ req[r].no \notin retired \cup {row.creds}
                 /\ req[r].snap.last = Never => Since(req[r].no)
                 /\ \A q \in Requests \ {r} :
                      req[q].pc = "requested" => req[q].no # req[r].no
  <2>a. /\ row \in Row /\ hb.snap \in Row
        /\ \A r \in Requests : req[r] \in Request /\ req[r].snap \in Row
        /\ begun \in 0 .. MaxRegistrations /\ begun \in Nat
        /\ row.creds \in Nat /\ row.last.epoch \in Nat
        /\ req \in [Requests -> Request]
    BY ConstantsAssumption
    DEF TypeOK, Attempt, Request, Row, Success, Credentials, None
  <2>b. /\ Settled(row).creds = row.creds /\ Settled(row).last = row.last
        /\ Stored(hb.snap).creds = row.creds /\ Stored(hb.snap).last = row.last
        /\ Stored(hb.snap) \in Row
        /\ \A r \in Requests : /\ Stored(req[r].snap) \in Row
                               /\ Stored(req[r].snap).creds = row.creds
                               /\ Stored(req[r].snap).last = row.last
    BY <2>a, SettledType, StoredType
  <2>d. {row.creds} \ {None} \subseteq 1 .. begun
    <3>1. row.creds # 0 => row.creds \in 1 .. begun
      BY <2>a DEF RegistrationInv
    <3> QED
      BY <3>1 DEF None
  (* Steps that leave numbers, credentials and successes as they are. *)
  <2>c. ASSUME row'.creds = row.creds, row'.last = row.last,
               UNCHANGED <<begun, retired>>,
               \A r \in Requests : req'[r].pc = "requested" => req'[r] = req[r]
        PROVE  RegistrationInv'
    BY <2>c DEF RegistrationInv, Since
  <2>1. CASE Start
    BY <2>1, <2>b, <2>c DEF Start
  <2>2. CASE Crash
    BY <2>2, <2>c DEF Crash, NoRequest
  <2>3. CASE Elapse
    <3>1. /\ row'.creds = row.creds
          /\ row'.last.epoch = row.last.epoch
          /\ row'.last = Never <=> row.last = Never
      BY <2>3, <2>a, AgedType DEF Elapse
    <3>2. ASSUME NEW r \in Requests
          PROVE  /\ req'[r].pc = req[r].pc
                 /\ req'[r].no = req[r].no
                 /\ req'[r].snap.last = Never <=> req[r].snap.last = Never
      BY <2>3, <2>a, AgedType DEF Elapse, Request
    <3>3. ASSUME NEW n
          PROVE  Since(n)' <=> Since(n)
      BY <3>1 DEF Since
    <3>4. /\ row'.creds <= begun' /\ retired' \subseteq 1 .. begun'
          /\ row'.creds # None => Since(row.creds)'
          /\ row'.creds \notin retired'
      BY <2>3, <3>1 DEF Elapse, RegistrationInv, Since
    <3>5. ASSUME NEW r \in Requests PROVE Numbered(r)'
      <4>1. UNCHANGED <<begun, retired>> /\ row'.creds = row.creds
        BY <2>3, <3>1 DEF Elapse
      <4>2. Numbered(r)
        BY DEF RegistrationInv
      <4> QED
        BY <3>1, <3>2, <4>1, <4>2 DEF Since
    <3> QED
      BY <3>4, <3>5 DEF RegistrationInv
  <2>4. CASE JobStarts
    BY <2>4, <2>c DEF JobStarts
  <2>5. CASE JobSkipped
    BY <2>5, <2>c DEF JobSkipped
  <2>6. CASE AttemptStep
    <3>1. CASE AttemptLoads
      BY <3>1, <2>b, <2>c DEF AttemptLoads
    <3>2. CASE AttemptAccepted
      (* The success it stores is younger than every request begun. *)
      <4>1. row'.creds = row.creds /\ row'.last.epoch = begun
        BY <3>2, <2>a, <2>b DEF AttemptAccepted, Row
      <4> QED
        BY <3>2, <2>a, <4>1 DEF AttemptAccepted, RegistrationInv, Since
    <3>3. ASSUME NEW auth \in BOOLEAN, AttemptFailed(auth)
          PROVE  RegistrationInv'
      <4>1. row'.creds = row.creds /\ row'.last = row.last
        BY <3>3, <2>a, <2>b DEF AttemptFailed, Row
      <4> QED
        BY <3>3, <2>c, <4>1 DEF AttemptFailed
    <3>4. CASE AttemptBroke
      BY <3>4, <2>c DEF AttemptBroke
    <3>5. CASE AttemptReschedules
      BY <3>5, <2>c DEF AttemptReschedules
    <3>6. CASE AttemptEnds
      BY <3>6, <2>b, <2>c DEF AttemptEnds
    <3>7. CASE AttemptLost
      BY <3>7, <2>c DEF AttemptLost
    <3> QED
      BY <2>6, <3>1, <3>2, <3>3, <3>4, <3>5, <3>6, <3>7 DEF AttemptStep
  <2>7. ASSUME NEW r \in Requests, RequestStep(r)
        PROVE  RegistrationInv'
    <3>a. ASSUME \A q \in Requests \ {r} : req'[q] = req[q],
                 req'[r].pc # "requested"
          PROVE  \A q \in Requests : req'[q].pc = "requested" => req'[q] = req[q]
      BY <3>a
    <3>1. CASE RegisterBegins(r)
      <4>1. /\ begun' = begun + 1
            /\ row'.creds = row.creds /\ row'.last = row.last
            /\ retired' = retired
            /\ \A q \in Requests \ {r} : req'[q] = req[q]
            /\ req'[r].pc = "requested" /\ req'[r].no = begun + 1
            /\ req'[r].snap.last = row.last
        BY <3>1, <2>a DEF RegisterBegins, Row
      <4>2. row'.creds # begun + 1 /\ begun + 1 \notin retired
        BY <4>1, <2>a DEF RegistrationInv
      <4>3. \A q \in Requests \ {r} :
              req[q].pc = "requested" => req[q].no # begun + 1
        BY <2>a DEF RegistrationInv
      <4>4. row'.creds # None => Since(row.creds)'
        BY <4>1 DEF RegistrationInv, Since
      <4>5. ASSUME NEW q \in Requests PROVE Numbered(q)'
        BY <2>a, <4>1, <4>2, <4>3 DEF RegistrationInv, Since
      <4> QED
        BY <2>a, <4>1, <4>4, <4>5 DEF RegistrationInv
    <3>2. CASE RegisterAccepted(r)
      <4> DEFINE loaded == Loaded(req[r].snap)
      <4>1. /\ row'.creds = req[r].no
            /\ row'.last = IF Never = loaded.last THEN row.last ELSE Never
            /\ begun' = begun
            /\ retired' = retired \cup ({row.creds} \ {None})
        BY <3>2, <2>b DEF RegisterAccepted, Column
      <4>2. /\ req'[r].pc = "schedule"
            /\ \A q \in Requests \ {r} : req'[q] = req[q]
        BY <3>2, <2>a DEF RegisterAccepted, Request
      <4>3. Numbered(r) /\ req[r].pc = "requested"
        BY <3>2 DEF RegistrationInv, RegisterAccepted
      (* A success that survives was not in the loaded object, so it was    *)
      (* stored after the request began.                                    *)
      <4>4. row'.last = Never \/ (row'.last = row.last /\ row.last.epoch >= req[r].no)
        <5>1. CASE loaded.last # Never
          BY <4>1, <5>1
        <5>2. CASE loaded.last = Never
          <6>1. CASE Reported(req[r].snap) = req[r].snap.status
            BY <4>1, <4>3, <5>2, <6>1 DEF Loaded, Since
          <6>2. CASE Reported(req[r].snap) # req[r].snap.status
            BY <2>b, <4>1, <5>2, <6>2 DEF Loaded
          <6> QED
            BY <6>1, <6>2
        <5> QED
          BY <5>1, <5>2
      <4>5. row'.creds # None => Since(row.creds)'
        BY <4>1, <4>4 DEF Since
      <4>6. retired' \subseteq 1 .. begun' /\ row'.creds \notin retired'
        <5>1. {row.creds} \ {None} \subseteq 1 .. begun
          BY <2>d
        <5>2. req[r].no \notin retired \cup {row.creds}
          BY <4>3
        <5> QED
          BY <4>1, <5>1, <5>2 DEF RegistrationInv
      <4>7. ASSUME NEW q \in Requests PROVE Numbered(q)'
        <5>1. CASE q = r
          BY <4>2, <5>1
        <5>2. CASE q # r
          BY <2>a, <4>1, <4>2, <4>3, <4>4, <5>2 DEF RegistrationInv, Since
        <5> QED
          BY <5>1, <5>2
      <4> QED
        BY <2>a, <4>1, <4>3, <4>5, <4>6, <4>7 DEF RegistrationInv
    <3>3. CASE RegisterRefused(r)
      <4>1. row'.creds = row.creds /\ row'.last = row.last
        BY <3>3, <2>b DEF RegisterRefused, Row
      <4> QED
        BY <3>3, <2>a, <2>c, <3>a, <4>1 DEF RegisterRefused, NoRequest
    <3>4. CASE RegisterSchedules(r)
      BY <3>4, <2>a, <2>b, <2>c, <3>a DEF RegisterSchedules, Request
    <3>5. CASE RegisterReturns(r)
      BY <3>5, <2>a, <2>b, <2>c, <3>a DEF RegisterReturns, NoRequest
    <3>6. CASE UnregisterBegins(r)
      BY <3>6, <2>a, <2>b, <2>c, <3>a DEF UnregisterBegins, Request
    <3>7. CASE UnregisterClears(r)
      <4>1. /\ row'.creds = None /\ row'.last = Never /\ begun' = begun
            /\ retired' = retired \cup ({row.creds} \ {None})
            /\ req'[r].pc = "idle"
            /\ \A q \in Requests \ {r} : req'[q] = req[q]
        BY <3>7, <2>a DEF UnregisterClears, Blank, NoRequest
      <4>2. retired' \subseteq 1 .. begun /\ None \notin retired'
        <5>1. retired' \subseteq 1 .. begun
          BY <2>d, <4>1 DEF RegistrationInv
        <5> QED
          BY <5>1 DEF None
      <4>3. ASSUME NEW q \in Requests PROVE Numbered(q)'
        <5>1. CASE q = r
          BY <4>1, <5>1
        <5>2. CASE q # r
          BY <2>a, <4>1, <5>2 DEF RegistrationInv, Since, None
        <5> QED
          BY <5>1, <5>2
      <4> QED
        BY <2>a, <4>1, <4>2, <4>3 DEF RegistrationInv, None
    <3>8. CASE RetryChecks(r)
      BY <3>8, <2>a, <2>b, <2>c, <3>a DEF RetryChecks, Request
    <3>9. CASE RetryRuns(r)
      BY <3>9, <2>a, <2>c, <3>a DEF RetryRuns, NoRequest
    <3> QED
      BY <2>7, <3>1, <3>2, <3>3, <3>4, <3>5, <3>6, <3>7, <3>8, <3>9 DEF RequestStep
  <2>8. CASE PollReads
    BY <2>8, <2>c DEF PollReads
  <2>9. CASE PollStores
    <3>1. row'.creds = row.creds /\ row'.last = row.last
      BY <2>9, <2>a DEF PollStores, Row
    <3> QED
      BY <2>9, <2>c, <3>1 DEF PollStores
  <2>10. CASE UNCHANGED vars
    BY <2>10, <2>c DEF vars
  <2> QED
    BY <2>1, <2>2, <2>3, <2>4, <2>5, <2>6, <2>7, <2>8, <2>9, <2>10 DEF Next
<1> QED
  BY <1>1, <1>2, TypeCorrect, PTL DEF Spec

(* A success stored before a registration request began never vouches for   *)
(* the credentials it obtained.                                             *)
THEOREM SuccessNotInherited == Spec => []NoInheritedSuccess
<1>1. TypeOK /\ RegistrationInv => NoInheritedSuccess
  BY DEF RegistrationInv, NoInheritedSuccess, Since
<1> QED
  BY <1>1, TypeCorrect, RegistrationInvKept, PTL

(* No session that loaded a removed or replaced registration brings it back. *)
THEOREM CredentialsStayRemoved == Spec => []RemovedCredentialsStayRemoved
<1>1. RegistrationInv => RemovedCredentialsStayRemoved
  BY DEF RegistrationInv, RemovedCredentialsStayRemoved
<1> QED
  BY <1>1, RegistrationInvKept, PTL

=============================================================================
