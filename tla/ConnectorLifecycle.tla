------------------------- MODULE ConnectorLifecycle -------------------------
(***************************************************************************)
(* Registration, heartbeat delivery and connection state of one connector: *)
(* application/services/saas.py, the heartbeat part of                     *)
(* infrastructure/scheduling.py, the product-settings part of              *)
(* repositories/operations.py and domain/services/connector_status.py.     *)
(*                                                                         *)
(* Everything runs in one asyncio process; an action is the code between   *)
(* two awaits that matter.  All actors share one row (ProductSettingsModel *)
(* id 1) through sessions of their own.  A session is opened with          *)
(* expire_on_commit=False, so an object it has loaded keeps its old values *)
(* ("snap") until an explicit refresh, and an UPDATE writes only the       *)
(* columns whose new value differs from the loaded one.                    *)
(***************************************************************************)
EXTENDS Naturals

CONSTANTS
  Requests,          \* API requests that can be in progress at once
  MaxRegistrations,  \* bound: registration requests begun
  MaxDisturbances,   \* bound: crashes, failed attempts and storage faults
  StorageFaults      \* whether the database may stall or fail a heartbeat

ASSUME ConstantsAssumption ==
  /\ MaxRegistrations \in Nat
  /\ MaxDisturbances \in Nat
  /\ StorageFaults \in BOOLEAN

VARIABLES
  row,           \* the product_settings row as committed
  job,           \* the one-shot "heartbeat" job in the scheduler's memory
  hb,            \* the attempt that holds _heartbeat_lock, and its session
  req,           \* each API request and its session
  poll,          \* a read of the settings about to store a derived status
  up,            \* whether the process runs
  begun,         \* how many registration requests have begun
  retired,       \* history: credentials that were replaced or removed
  faulted,       \* history: a storage fault hit the heartbeat
  disturbances   \* how much of MaxDisturbances is used

vars == <<row, job, hb, req, poll, up, begun, retired, faulted, disturbances>>

----------------------------------------------------------------------------
(* Values.  Credentials are named by the registration request that obtained *)
(* them; None is a null connector_id and secret.                            *)

None == 0
Credentials == 1 .. MaxRegistrations

Status == {"unregistered", "registering", "awaiting_first_heartbeat",
           "connected", "degraded", "out_of_sync", "reconnecting",
           "disconnected", "authentication_failed"}

(* last_heartbeat_at: its age in units of 1.5 intervals (2 is three or more *)
(* intervals), the credentials whose heartbeat wrote it, and how many       *)
(* registration requests had begun by then.  The last two are history.      *)
Success == [age : 0 .. 2, by : Credentials \cup {None}, epoch : 0 .. MaxRegistrations]
Never == [age |-> 0, by |-> None, epoch |-> 0]

(* failed is heartbeat_failure_count > 0: no rule of the connection state   *)
(* tells two positive counts apart.                                         *)
Row == [creds : Credentials \cup {None}, status : Status, last : Success,
        failed : BOOLEAN]
Blank == [creds |-> None, status |-> "unregistered", last |-> Never,
          failed |-> FALSE]

Jobs == {"none", "soon", "later"}
AttemptSteps == {"idle", "load", "inflight", "reschedule", "storing"}
RequestSteps == {"idle", "requested", "schedule", "return", "removing",
                 "retrying"}
Attempt == [pc : AttemptSteps, snap : Row]
Request == [pc : RequestSteps, snap : Row, prev : Status, no : 0 .. MaxRegistrations]
NoAttempt == [pc |-> "idle", snap |-> Blank]
NoRequest == [pc |-> "idle", snap |-> Blank, prev |-> "unregistered", no |-> 0]

----------------------------------------------------------------------------
(* Mutant: a healthy connection is labelled with a state of its own. *)
DeriveInSync(hasCredentials, current, last, failed) ==
  IF hasCredentials /\ last # Never /\ last.age = 0 /\ ~failed
    THEN "in_sync" ELSE "unregistered"

(* derive_connection_state, from the columns it is given. *)
Derive(hasCredentials, current, last, failed) ==
  CASE ~hasCredentials -> "unregistered"
    [] hasCredentials /\ current \in {"registering", "authentication_failed"} -> current
    [] OTHER ->
       CASE last = Never -> IF failed THEN "reconnecting" ELSE "awaiting_first_heartbeat"
         [] last # Never /\ last.age = 2 -> "disconnected"
         [] last # Never /\ last.age = 1 -> "out_of_sync"
         [] OTHER -> IF failed THEN "reconnecting" ELSE "connected"

Reported(r) == Derive(r.creds # None, r.status, r.last, r.failed)

(* get_settings in a session that has not loaded the row: the derived       *)
(* status is committed and the object refreshed.                            *)
Settled(r) == [r EXCEPT !.status = Reported(r)]

(* get_settings in a session that holds snap: the status is derived from    *)
(* the loaded values; only if it differs is it committed and the row read   *)
(* again.  Stored is the row after the call, Loaded the session's object.   *)
Stored(snap) == IF Reported(snap) = snap.status
                  THEN row
                  ELSE [row EXCEPT !.status = Reported(snap)]
Loaded(snap) == IF Reported(snap) = snap.status THEN snap ELSE Stored(snap)

(* One column of an UPDATE: written only if it differs from what was loaded. *)
Column(stored, loaded, new) == IF new = loaded THEN stored ELSE new

Older(l) == IF l = Never \/ l.age = 2 THEN l ELSE [l EXCEPT !.age = @ + 1]
Aged(r) == [r EXCEPT !.last = Older(@)]

Disturb == /\ disturbances < MaxDisturbances
           /\ disturbances' = disturbances + 1

----------------------------------------------------------------------------
Init ==
  /\ row = Blank
  /\ job = "none"
  /\ hb = NoAttempt
  /\ req = [r \in Requests |-> NoRequest]
  /\ poll = "idle"
  /\ up = FALSE
  /\ begun = 0
  /\ retired = {}
  /\ faulted = FALSE
  /\ disturbances = 0

(* ConnectorScheduler.start, once per process: credentials bring the        *)
(* heartbeat job back.                                                      *)
Start ==
  /\ ~up
  /\ up' = TRUE
  /\ row' = Settled(row)
  /\ job' = IF row.creds # None THEN "soon" ELSE "none"
  /\ UNCHANGED <<hb, req, poll, begun, retired, faulted, disturbances>>

(* The process ends: the scheduler's jobs, the attempt, and every request   *)
(* are in memory only.                                                      *)
Crash ==
  /\ up
  /\ Disturb
  /\ up' = FALSE
  /\ job' = "none"
  /\ hb' = NoAttempt
  /\ req' = [r \in Requests |-> NoRequest]
  /\ poll' = "idle"
  /\ UNCHANGED <<row, begun, retired, faulted>>

(* Half an interval and more goes by for every timestamp in the row and in  *)
(* the sessions' copies of it.                                              *)
Elapse ==
  /\ row' = Aged(row)
  /\ hb' = [hb EXCEPT !.snap = Aged(@)]
  /\ req' = [r \in Requests |-> [req[r] EXCEPT !.snap = Aged(@)]]
  /\ UNCHANGED <<job, poll, up, begun, retired, faulted, disturbances>>

----------------------------------------------------------------------------
(* The heartbeat attempt. *)

(* The scheduler fires the job: a one-shot job leaves the store when it is  *)
(* due.  A job the attempt itself has just added is due an interval later.  *)
JobStarts ==
  /\ job # "none"
  /\ hb.pc = "idle"
  /\ job' = "none"
  /\ hb' = [NoAttempt EXCEPT !.pc = "load"]
  /\ UNCHANGED <<row, req, poll, up, begun, retired, faulted, disturbances>>

(* The lock is held, so the run is skipped and the job is gone.  That a     *)
(* half-second job comes due while the attempt is still storing its next    *)
(* run time takes a database that stalls.                                   *)
JobSkipped ==
  /\ job = "soon"
  /\ hb.pc # "idle"
  /\ job' = "none"
  /\ IF hb.pc = "storing"
       THEN StorageFaults /\ Disturb /\ faulted' = TRUE
       ELSE UNCHANGED <<faulted, disturbances>>
  /\ UNCHANGED <<row, hb, req, poll, up, begun, retired>>

(* Mutant: an attempt that finds no credentials plans a next one. *)
AttemptLoadsAlways ==
  /\ hb.pc = "load"
  /\ row' = Settled(row)
  /\ hb' = [pc |-> IF row.creds = None THEN "reschedule" ELSE "inflight",
            snap |-> row']
  /\ UNCHANGED <<job, req, poll, up, begun, retired, faulted, disturbances>>

(* The session's first get_settings; send() stops on missing credentials    *)
(* without a next run, and otherwise the heartbeat is on its way.           *)
AttemptLoads ==
  /\ hb.pc = "load"
  /\ row' = Settled(row)
  /\ hb' = IF row.creds = None
             THEN NoAttempt
             ELSE [pc |-> "inflight", snap |-> row']
  /\ UNCHANGED <<job, req, poll, up, begun, retired, faulted, disturbances>>

(* Mutant: the session's whole object is saved, not its changed columns. *)
AttemptAcceptedSavesAll ==
  /\ hb.pc = "inflight"
  /\ row' = [hb.snap EXCEPT
              !.status = "connected", !.failed = FALSE,
              !.last = [age |-> 0, by |-> hb.snap.creds, epoch |-> begun]]
  /\ hb' = [NoAttempt EXCEPT !.pc = "reschedule"]
  /\ UNCHANGED <<job, req, poll, up, begun, retired, faulted, disturbances>>

(* Mutant: the status is left to get_settings. *)
AttemptAcceptedKeepsStatus ==
  /\ hb.pc = "inflight"
  /\ row' = [Stored(hb.snap) EXCEPT
              !.last = [age |-> 0, by |-> hb.snap.creds, epoch |-> begun],
              !.failed = FALSE]
  /\ hb' = [NoAttempt EXCEPT !.pc = "reschedule"]
  /\ UNCHANGED <<job, req, poll, up, begun, retired, faulted, disturbances>>

(* PEKA accepts: heartbeat_succeeded writes what differs from the session's *)
(* copy, and a timestamp always differs.                                    *)
AttemptAccepted ==
  /\ hb.pc = "inflight"
  /\ LET stored == Stored(hb.snap)
         loaded == Loaded(hb.snap)
     IN row' = [stored EXCEPT
                 !.status = Column(@, loaded.status, "connected"),
                 !.last = [age |-> 0, by |-> hb.snap.creds, epoch |-> begun],
                 !.failed = Column(@, loaded.failed, FALSE)]
  /\ hb' = [NoAttempt EXCEPT !.pc = "reschedule"]
  /\ UNCHANGED <<job, req, poll, up, begun, retired, faulted, disturbances>>

(* Mutant: a refused credential ends the chain of attempts. *)
AttemptFailedStops(authenticationFailure) ==
  /\ hb.pc = "inflight"
  /\ Disturb
  /\ row' = [row EXCEPT !.failed = TRUE]
  /\ hb' = IF authenticationFailure THEN NoAttempt
             ELSE [NoAttempt EXCEPT !.pc = "reschedule"]
  /\ UNCHANGED <<job, req, poll, up, begun, retired, faulted>>

(* PEKA refuses the credentials, or cannot be reached: heartbeat_failed. *)
AttemptFailed(authenticationFailure) ==
  /\ hb.pc = "inflight"
  /\ Disturb
  /\ LET stored == Stored(hb.snap)
         loaded == Loaded(hb.snap)
         hint == IF authenticationFailure THEN "authentication_failed"
                                          ELSE loaded.status
     IN row' = [stored EXCEPT
                 !.status = Column(@, loaded.status,
                                   Derive(TRUE, hint, loaded.last, TRUE)),
                 !.failed = TRUE]
  /\ hb' = [NoAttempt EXCEPT !.pc = "reschedule"]
  /\ UNCHANGED <<job, req, poll, up, begun, retired, faulted>>

(* Any other exception inside the try: logged, and tried again in 300 s. *)
AttemptBroke ==
  /\ hb.pc = "inflight"
  /\ Disturb
  /\ hb' = [NoAttempt EXCEPT !.pc = "reschedule"]
  /\ UNCHANGED <<row, job, req, poll, up, begun, retired, faulted>>

(* schedule_heartbeat: the job first, then its time in the row. *)
AttemptReschedules ==
  /\ hb.pc = "reschedule"
  /\ job' = "later"
  /\ hb' = [hb EXCEPT !.pc = "storing"]
  /\ UNCHANGED <<row, req, poll, up, begun, retired, faulted, disturbances>>

AttemptEnds ==
  /\ hb.pc = "storing"
  /\ row' = Settled(row)
  /\ hb' = NoAttempt
  /\ UNCHANGED <<job, req, poll, up, begun, retired, faulted, disturbances>>

(* The database refuses a statement outside the try block, or in one of its *)
(* handlers: the attempt ends without a next run.                           *)
AttemptLost ==
  /\ StorageFaults
  /\ hb.pc \in {"load", "reschedule"}
  /\ Disturb
  /\ hb' = NoAttempt
  /\ faulted' = TRUE
  /\ UNCHANGED <<row, job, req, poll, up, begun, retired>>

----------------------------------------------------------------------------
(* The API requests. *)

(* register(), up to the HTTP call: the previous state is remembered and    *)
(* "registering" committed and read back.                                   *)
RegisterBegins(r) ==
  /\ up
  /\ req[r].pc = "idle"
  /\ begun < MaxRegistrations
  /\ begun' = begun + 1
  /\ row' = [row EXCEPT !.status = "registering"]
  /\ req' = [req EXCEPT ![r] = [pc |-> "requested", snap |-> row',
                                prev |-> Reported(row), no |-> begun']]
  /\ UNCHANGED <<job, hb, poll, up, retired, faulted, disturbances>>

(* Mutant: complete_registration leaves the old success in place. *)
RegisterAcceptedKeepsLast(r) ==
  /\ req[r].pc = "requested"
  /\ row' = [Stored(req[r].snap) EXCEPT
              !.creds = req[r].no, !.status = "awaiting_first_heartbeat",
              !.failed = FALSE]
  /\ req' = [req EXCEPT ![r].pc = "schedule", ![r].snap = row']
  /\ retired' = retired \cup ({row.creds} \ {None})
  /\ UNCHANGED <<job, hb, poll, up, begun, faulted, disturbances>>

(* complete_registration and the refresh after it. *)
RegisterAccepted(r) ==
  /\ req[r].pc = "requested"
  /\ LET stored == Stored(req[r].snap)
         loaded == Loaded(req[r].snap)
     IN row' = [creds |-> req[r].no,
                status |-> Column(stored.status, loaded.status,
                                  "awaiting_first_heartbeat"),
                last |-> Column(stored.last, loaded.last, Never),
                failed |-> Column(stored.failed, loaded.failed, FALSE)]
  /\ req' = [req EXCEPT ![r].pc = "schedule", ![r].snap = row']
  /\ retired' = retired \cup ({row.creds} \ {None})
  /\ UNCHANGED <<job, hb, poll, up, begun, faulted, disturbances>>

(* A refusal, an invalid answer or none at all: registration_failed puts    *)
(* the remembered state back.                                               *)
RegisterRefused(r) ==
  /\ req[r].pc = "requested"
  /\ row' = [Stored(req[r].snap) EXCEPT
              !.status = Column(@, Loaded(req[r].snap).status, req[r].prev)]
  /\ req' = [req EXCEPT ![r] = NoRequest]
  /\ UNCHANGED <<job, hb, poll, up, begun, retired, faulted, disturbances>>

(* schedule_heartbeat(0.5) replaces whatever job there is; its own session  *)
(* settles the row.                                                         *)
RegisterSchedules(r) ==
  /\ req[r].pc = "schedule"
  /\ job' = "soon"
  /\ row' = Settled(row)
  /\ req' = [req EXCEPT ![r].pc = "return"]
  /\ UNCHANGED <<hb, poll, up, begun, retired, faulted, disturbances>>

(* The endpoint's closing get_settings, on the session's copy. *)
RegisterReturns(r) ==
  /\ req[r].pc = "return"
  /\ row' = Stored(req[r].snap)
  /\ req' = [req EXCEPT ![r] = NoRequest]
  /\ UNCHANGED <<job, hb, poll, up, begun, retired, faulted, disturbances>>

(* unregister(): remove_heartbeat, then unregister_local. *)
UnregisterBegins(r) ==
  /\ up
  /\ req[r].pc = "idle"
  /\ job' = "none"
  /\ row' = Settled(row)
  /\ req' = [req EXCEPT ![r].pc = "removing"]
  /\ UNCHANGED <<hb, poll, up, begun, retired, faulted, disturbances>>

UnregisterClears(r) ==
  /\ req[r].pc = "removing"
  /\ row' = Blank
  /\ req' = [req EXCEPT ![r] = NoRequest]
  /\ retired' = retired \cup ({row.creds} \ {None})
  /\ UNCHANGED <<job, hb, poll, up, begun, faulted, disturbances>>

(* Retry now, and a rename: the request checks that it is registered ...    *)
RetryChecks(r) ==
  /\ up
  /\ req[r].pc = "idle"
  /\ row.creds # None
  /\ row' = Settled(row)
  /\ req' = [req EXCEPT ![r].pc = "retrying"]
  /\ UNCHANGED <<job, hb, poll, up, begun, retired, faulted, disturbances>>

(* ... and takes the pending job's place, unless an attempt is active; the  *)
(* read that closes the request is one of the polls.                        *)
RetryRuns(r) ==
  /\ req[r].pc = "retrying"
  /\ req' = [req EXCEPT ![r] = NoRequest]
  /\ IF hb.pc = "idle"
       THEN job' = "none" /\ hb' = [NoAttempt EXCEPT !.pc = "load"]
       ELSE UNCHANGED <<job, hb>>
  /\ UNCHANGED <<row, poll, up, begun, retired, faulted, disturbances>>

(* Any page that shows the status: get_settings loads the row, finds that   *)
(* the derived status differs, and stores it.                               *)
PollReads ==
  /\ up
  /\ poll = "idle"
  /\ Reported(row) # row.status
  /\ poll' = Reported(row)
  /\ UNCHANGED <<row, job, hb, req, up, begun, retired, faulted, disturbances>>

PollStores ==
  /\ poll # "idle"
  /\ row' = [row EXCEPT !.status = poll]
  /\ poll' = "idle"
  /\ UNCHANGED <<job, hb, req, up, begun, retired, faulted, disturbances>>

----------------------------------------------------------------------------
AttemptStep ==
  \/ AttemptLoads \/ AttemptAccepted \/ AttemptBroke \/ AttemptReschedules
  \/ AttemptEnds \/ AttemptLost
  \/ \E auth \in BOOLEAN : AttemptFailed(auth)

RequestStep(r) ==
  \/ RegisterBegins(r) \/ RegisterAccepted(r) \/ RegisterRefused(r)
  \/ RegisterSchedules(r) \/ RegisterReturns(r)
  \/ UnregisterBegins(r) \/ UnregisterClears(r)
  \/ RetryChecks(r) \/ RetryRuns(r)

Next ==
  \/ Start \/ Crash \/ Elapse
  \/ JobStarts \/ JobSkipped
  \/ AttemptStep
  \/ \E r \in Requests : RequestStep(r)
  \/ PollReads \/ PollStores

(* The process is restarted by its supervisor; a due job fires; every step  *)
(* the event loop has already begun is run; an HTTP call ends within its    *)
(* timeout, and what ends the attempt well is always possible (the other    *)
(* outcomes are bounded by MaxDisturbances).                                *)
Fairness ==
  /\ WF_vars(Start)
  /\ WF_vars(JobStarts \/ JobSkipped)
  /\ WF_vars(AttemptLoads \/ AttemptAccepted \/ AttemptReschedules \/ AttemptEnds)
  /\ WF_vars(PollStores)
  /\ \A r \in Requests :
       WF_vars(\/ RegisterAccepted(r) \/ RegisterRefused(r)
               \/ RegisterSchedules(r) \/ RegisterReturns(r)
               \/ UnregisterClears(r) \/ RetryRuns(r))

Spec == Init /\ [][Next]_vars
FairSpec == Spec /\ Fairness

----------------------------------------------------------------------------
(* Properties. *)

TypeOK ==
  /\ row \in Row
  /\ job \in Jobs
  /\ hb \in Attempt
  /\ req \in [Requests -> Request]
  /\ poll \in Status \cup {"idle"}
  /\ up \in BOOLEAN
  /\ begun \in 0 .. MaxRegistrations
  /\ retired \subseteq Credentials
  /\ faulted \in BOOLEAN
  /\ disturbances \in 0 .. MaxDisturbances

(* The connector runs with credentials, and still nothing in the process    *)
(* will ever send its next heartbeat: no job, no attempt that will add one, *)
(* no request about to schedule one or to remove the credentials.           *)
HeartbeatLost ==
  /\ up
  /\ row.creds # None
  /\ job = "none"
  /\ hb.pc \notin {"load", "inflight", "reschedule"}
  /\ \A r \in Requests : req[r].pc \notin {"schedule", "removing"}

(* docs/streams.md:43-46: a heartbeat is one one-shot job whose end adds    *)
(* the next, so losing one loses them all.  Through skipped runs, failures, *)
(* Retry now, registrations and removals in any order, the chain is kept as *)
(* long as the database serves the attempt.                                 *)
HeartbeatChain == ~faulted => ~HeartbeatLost

(* complete_registration forgets the success of the replaced credentials:   *)
(* a success in the row of a registered connector was stored after the      *)
(* registration request that obtained its credentials began, whatever was   *)
(* loaded, refreshed or stored around it.                                   *)
NoInheritedSuccess ==
  row.creds # None /\ row.last # Never => row.last.epoch >= row.creds

(* Sessions that loaded a registration before it was replaced or removed    *)
(* go on storing columns of the row; none of them brings it back.           *)
RemovedCredentialsStayRemoved == row.creds \notin retired

(* Why both hold, as one inductive invariant: what a registration request   *)
(* in progress remembers of the row agrees with the row.  Its number is     *)
(* unused, and a success it did not load is a success stored since.         *)
Since(n) == row.last = Never \/ row.last.epoch >= n

RegistrationInv ==
  /\ row.creds <= begun
  /\ row.creds # None => Since(row.creds)
  /\ retired \subseteq 1 .. begun
  /\ row.creds \notin retired
  /\ \A r \in Requests : req[r].pc = "requested" =>
       /\ req[r].no \in 1 .. begun
       /\ req[r].no \notin retired \cup {row.creds}
       /\ req[r].snap.last = Never => Since(req[r].no)
       /\ \A q \in Requests \ {r} :
            req[q].pc = "requested" => req[q].no # req[r].no

(* README.md:106, "Only an accepted authenticated heartbeat changes the     *)
(* state to Connected": the one it was accepted for.                        *)
ConnectedByOwnCredentials ==
  Reported(row) = "connected" => row.last.by = row.creds

(* Once the disturbances are over, a connector that stays registered is     *)
(* Connected again and again: no interleaving of attempts, registrations,   *)
(* crashes and reads leaves it in a state heartbeats do not lead out of     *)
(* (docs/troubleshooting.md:9, "Recovery is automatic").                    *)
Recovers == <>[](row.creds = None) \/ []<>(Reported(row) = "connected")

(* A connector that stays unregistered comes to rest: a job that an attempt *)
(* in flight added after the removal fires once and is not renewed          *)
(* (README.md:106, "Local unregister stops heartbeats").                    *)
QuietsDown ==
  <>[](row.creds = None) => <>[](job = "none" /\ hb.pc = "idle")

(* Registering is never the last word: not after a crash in the middle of a *)
(* registration, nor after two requests that overlapped.                    *)
RegisteringEnds == []<>(row.status # "registering")

=============================================================================
