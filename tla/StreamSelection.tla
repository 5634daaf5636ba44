--------------------------- MODULE StreamSelection ---------------------------
(***************************************************************************)
(* Which integration serves each stream (ticketing, cmdb, ...):            *)
(* application/services/integrations.py and its endpoints, the saving and  *)
(* deleting of Zammad and ServiceNow configurations, and the               *)
(* synchronization jobs the scheduler derives from them.                   *)
(*                                                                         *)
(* The selection is kept once, in the activation rows; whether an          *)
(* integration is enabled, whether its connection is enabled and whether   *)
(* it has a job are copies of it.  An action is a run of reads of the      *)
(* local database, or a transaction from its first write to its commit:    *)
(* SQLite takes no lock before the first write and ignores FOR UPDATE, so  *)
(* what a request has read may be outdated when it writes.  A unique index *)
(* admits one active row per stream.                                       *)
(***************************************************************************)
EXTENDS Naturals, FiniteSets

CONSTANTS
  Integrations,     \* integrations an installation may have, one per type
  Streams,          \* the streams they serve
  Offers,           \* the streams each integration is a source of
  Zammad,           \* integrations with a Zammad configuration
  ServiceNow,       \* integrations with a ServiceNow configuration
  Requests,         \* API requests that can be in progress at once
  None,             \* no integration, no stream
  MaxChanges,       \* bound: requests that change something, disturbances
  MaxDisturbances   \* bound: requests that break off, restarts

ASSUME SelectionAssumption ==
  /\ Offers \in [Integrations -> SUBSET Streams]
  /\ Zammad \cup ServiceNow \subseteq Integrations
  /\ Zammad \cap ServiceNow = {}
  /\ None \notin Integrations \cup Streams
  /\ MaxChanges \in Nat
  /\ MaxDisturbances \in Nat

(* integration_catalog.py, STREAM_SOURCES: a stream has one source or two.  *)
(* With a third, a selection that has read an outdated source would clear   *)
(* another one without disabling it.                                        *)
ASSUME TwoSources ==
  \A s \in Streams, i, j, k \in Integrations :
    s \in Offers[i] \cap Offers[j] \cap Offers[k] => i = j \/ j = k \/ i = k

VARIABLES
  there,         \* the connector_integrations rows
  enabled,       \* their column "enabled"
  rows,          \* the activation rows, <<integration, stream>>
  active,        \* those that are active
  conn,          \* each connection's configuration: none, "on" or "off"
  job,           \* connections with a synchronization job
  sess,          \* each request and its session
  exposed,       \* history: one of the hazards below has occurred
  changes,       \* how much of MaxChanges is used
  disturbances   \* how much of MaxDisturbances is used

vars == <<there, enabled, rows, active, conn, job, sess, exposed, changes,
          disturbances>>

----------------------------------------------------------------------------
Connections == Zammad \cup ServiceNow
Sources == {p \in Integrations \X Streams : p[2] \in Offers[p[1]]}

Ops == {"read", "select", "enable", "disable", "save", "create", "delete"}
Steps == {"idle", "boot", "check", "fix", "load", "write", "off", "linking",
          "link", "delete", "reconcile"}
Ahead == {"idle", "load", "linking", "reconcile"}

(* A session: its request (of, stream, confirmed), the values it has loaded *)
(* (seen: enabled; sel: selected; on: the requested row is active, or the   *)
(* connection is enabled; current: the stream's source), what bootstrap or  *)
(* reconcile still has to do (todo, fix), where bootstrap leads (next), and *)
(* whether it has changed anything.                                         *)
Session == [pc : Steps, op : Ops, of : Integrations \cup {None},
            stream : Streams \cup {None}, confirmed : BOOLEAN,
            seen : [Integrations -> BOOLEAN], sel : BOOLEAN, on : BOOLEAN,
            current : Integrations \cup {None}, todo : SUBSET Integrations,
            fix : Integrations \cup {None}, next : Ahead, changed : BOOLEAN]
Idle == [pc |-> "idle", op |-> "read", of |-> None, stream |-> None,
         confirmed |-> FALSE, seen |-> [i \in Integrations |-> FALSE],
         sel |-> FALSE, on |-> FALSE, current |-> None, todo |-> {},
         fix |-> None, next |-> "idle", changed |-> FALSE]
Loaded(i, b) == [j \in Integrations |-> j = i /\ b]

Serving(rs, s) == {i \in Integrations : <<i, s>> \in rs}
Among(rs, i) == \E s \in Streams : <<i, s>> \in rs
Selected(i) == Among(active, i)
Unique(rs) == \A p, q \in rs : p[2] = q[2] => p = q   \* uq_stream_activation_one_active
(* Mutant: the column takes the form's word. *)
YesOff(b) == IF b THEN "yes" ELSE "off"
OnOff(b) == IF b THEN "on" ELSE "off"

(* One column of an UPDATE: written only if it differs from what was loaded. *)
Column(stored, loaded, new) == IF new = loaded THEN stored ELSE new

(* _set_connection_enabled(i, val[i]) for the integrations in T: the        *)
(* connection follows, if there is one.  A save has loaded its connection   *)
(* before; everybody else loads it in the transaction.                      *)
Follow(s, T, val) ==
  [c \in Connections |->
     IF \/ c \notin T \/ conn[c] = "none"
        \/ s.op = "save" /\ s.of = c /\ s.on = val[c]
       THEN conn[c] ELSE OnOff(val[c])]
Set(T, val) == [i \in Integrations |-> IF i \in T THEN val[i] ELSE enabled[i]]
Enable(s, T, val) == enabled' = Set(T, val) /\ conn' = Follow(s, T, val)

Goes(r, s) == sess' = [sess EXCEPT ![r] = s]
Ends(r) == Goes(r, Idle)
Begins(r, s) == sess[r].pc = "idle" /\ Goes(r, s)
Change == changes < MaxChanges /\ changes' = changes + 1
Disturb == Change /\ disturbances < MaxDisturbances /\ disturbances' = disturbances + 1

(* The history: a session writes although what it decides on has changed    *)
(* since it loaded it.                                                      *)
Outdated(b) == exposed' = (exposed \/ b)

(* ... or a request breaks off after it has changed something.              *)
Breaks(r) == Ends(r) /\ Outdated(sess[r].changed)

Rest == <<changes, disturbances>>

----------------------------------------------------------------------------
(* A start on the database of a connector at rest: any integrations         *)
(* configured, any of their sources selected.                               *)
Init ==
  /\ there \in SUBSET Integrations
  /\ rows = {p \in Sources : p[1] \in there}
  /\ active \in SUBSET rows
  /\ Unique(active)
  /\ enabled = [i \in Integrations |-> Selected(i)]
  /\ conn = [c \in Connections |-> IF c \in there THEN OnOff(Selected(c)) ELSE "none"]
  /\ job = {c \in Connections : Selected(c)}
  /\ sess = [r \in Requests |-> Idle]
  /\ exposed = FALSE
  /\ changes = 0
  /\ disturbances = 0

----------------------------------------------------------------------------
(* bootstrap_stream_activations, which every request about integrations     *)
(* runs first: rows that are missing are inserted, and an integration whose *)
(* "enabled" is not what the selection says is corrected.                   *)

Missing == {p \in Sources : p[1] \in there} \ rows

(* What set_enabled holds on to while select_source runs: bootstrap finds   *)
(* this object in the session and not the values in the database.           *)
Holds(s, i) == s.op = "enable" /\ s.of = i /\ s.next = "load"
Found(s) == [i \in Integrations |-> IF Holds(s, i) THEN s.seen[i] ELSE enabled[i]]

(* The session after bootstrap; it lets go of all it has loaded but what is *)
(* held.                                                                    *)
Passed(s) ==
  LET jobs == IF s.next = "reconcile" THEN {c \in Connections : conn[c] # "none"} ELSE {}
  IN IF s.next = "idle" \/ (s.next = "reconcile" /\ jobs = {}) THEN Idle
     ELSE [s EXCEPT !.pc = s.next, !.fix = None, !.sel = FALSE, !.todo = jobs,
                 !.seen = [i \in Integrations |-> Holds(s, i) /\ s.seen[i]]]
Corrected(s, T, val) ==
  Passed([s EXCEPT !.changed = TRUE,
                   !.seen = [i \in Integrations |-> IF i \in T THEN val[i] ELSE @[i]],
                   !.on = IF s.op = "save" /\ s.of \in T THEN val[s.of] ELSE @])

BootLoads(r) ==
  /\ sess[r].pc = "boot"
  /\ Missing = {}
  /\ IF there = {}
       THEN Goes(r, Passed(sess[r]))
       ELSE Goes(r, [sess[r] EXCEPT !.pc = "check", !.todo = there,
                                    !.seen = Found(sess[r])])
  /\ UNCHANGED <<there, enabled, rows, active, conn, job, exposed, Rest>>

(* Missing rows: one is active if its integration is enabled and the stream *)
(* has no source yet.  The first insertion begins the transaction, which    *)
(* the corrections then are part of.  What bootstrap reads before that      *)
(* insertion, the integrations and whether a row or a source is there, is   *)
(* one step with it here.                                                   *)
Backfill(N, seen) ==
  LET wanted == {p \in Missing : seen[p[1]] /\ Serving(active, p[2]) = {}}
  IN /\ N \subseteq wanted
     /\ \A p \in wanted : \E q \in N : \A n \in N : n[2] = p[2] <=> n = q

BootInserts(r) ==
  LET s == [sess[r] EXCEPT !.seen = Found(sess[r])]
  IN /\ s.pc = "boot"
     /\ Missing # {}
     /\ \E N \in SUBSET Missing :
          LET val == [i \in Integrations |-> Among(active \cup N, i)]
              T == {i \in there : s.seen[i] # val[i]}
          IN /\ Backfill(N, s.seen)
             /\ active' = active \cup N
             /\ Enable(s, T, val)
             /\ Goes(r, Corrected(s, T, val))
     /\ rows' = rows \cup Missing
     /\ UNCHANGED <<there, job, exposed, Rest>>

(* Mutant: only what is enabled without being selected is corrected. *)
EnabledOnly(s, i) == s.seen[i] /\ ~Selected(i)
Differs(s, i) == s.seen[i] # Selected(i)

(* The comparison of one integration; without a difference nothing is       *)
(* written and the next one is compared.                                    *)
BootChecks(r) ==
  LET s == sess[r]
  IN /\ s.pc = "check"
     /\ \E i \in s.todo :
          Goes(r, IF Differs(s, i)
                    THEN [s EXCEPT !.pc = "fix", !.fix = i, !.sel = Selected(i),
                                   !.todo = @ \ {i}]
                    ELSE IF s.todo = {i} THEN Passed(s)
                    ELSE [s EXCEPT !.todo = @ \ {i}])
     /\ UNCHANGED <<there, enabled, rows, active, conn, job, exposed, Rest>>

(* From the first difference on all is one transaction.  An integration     *)
(* that is gone by then fails it.                                           *)
BootFixes(r) ==
  LET s == sess[r]
      val == [i \in Integrations |-> IF i = s.fix THEN s.sel ELSE Selected(i)]
      T == {s.fix} \cup {i \in s.todo : Differs(s, i)}
  IN /\ s.pc = "fix"
     /\ IF T \subseteq there
          THEN /\ Enable(s, T, val)
               /\ Goes(r, Corrected(s, T, val))
               /\ Outdated(s.sel # Selected(s.fix))
          ELSE /\ Breaks(r)
               /\ UNCHANGED <<enabled, conn>>
     /\ UNCHANGED <<there, rows, active, job, Rest>>

----------------------------------------------------------------------------
(* Requests. *)

(* GET /integrations, /integrations/streams, active_source of a tool.       *)
Reads(r) ==
  /\ Begins(r, [Idle EXCEPT !.pc = "boot"])
  /\ UNCHANGED <<there, enabled, rows, active, conn, job, exposed, Rest>>

(* A read that finds a local dataset imported: its integration is added     *)
(* enabled and without activation rows, which the bootstrap then inserts.   *)
Adopts(r) ==
  /\ Change
  /\ \E i \in Integrations \ (Connections \cup there) :
       /\ there' = there \cup {i}
       /\ enabled' = [enabled EXCEPT ![i] = TRUE]
  /\ Begins(r, [Idle EXCEPT !.pc = "boot", !.changed = TRUE])
  /\ UNCHANGED <<rows, active, conn, job, exposed, disturbances>>

(* POST .../streams/{stream}/select: select_source begins with bootstrap.   *)
SelectBegins(r) ==
  /\ Change
  /\ \E p \in Sources, b \in BOOLEAN :
       /\ p[1] \in there
       /\ Begins(r, [Idle EXCEPT !.pc = "boot", !.op = "select", !.of = p[1],
                                 !.stream = p[2], !.confirmed = b, !.next = "load"])
  /\ UNCHANGED <<there, enabled, rows, active, conn, job, exposed, disturbances>>

(* POST .../enable and .../disable: only for a source of one stream.        *)
SetEnabledBegins(r) ==
  /\ Change
  /\ \E i \in there, s \in Streams, b \in BOOLEAN :
       /\ Offers[i] = {s}
       /\ Begins(r, [Idle EXCEPT
            !.pc = IF b THEN "boot" ELSE "off", !.op = IF b THEN "enable" ELSE "disable",
            !.of = i, !.stream = s, !.next = IF b THEN "load" ELSE "idle",
            !.seen = Loaded(i, enabled[i])])
  /\ UNCHANGED <<there, enabled, rows, active, conn, job, exposed, disturbances>>

(* select_source reads the integration, the requested row and the rows of   *)
(* the stream; another source is only displaced with confirmation.          *)
SelectLoads(r) ==
  LET s == sess[r]
      now == Serving(active, s.stream)
  IN /\ s.pc = "load"
     /\ IF <<s.of, s.stream>> \notin rows \/ (now \ {s.of} # {} /\ ~s.confirmed)
          THEN Ends(r)
          ELSE Goes(r, [s EXCEPT
                 !.pc = "write", !.on = s.of \in now,
                 !.current = IF now = {} THEN None ELSE CHOOSE i \in now : TRUE,
                 !.seen[s.of] = Found(s)[s.of]])
     /\ UNCHANGED <<there, enabled, rows, active, conn, job, exposed, Rest>>

(* Mutant: the endpoint leaves the jobs alone. *)
SettlingUnscheduled(s) == [Idle EXCEPT !.pc = "boot", !.op = s.op, !.of = s.of,
                                       !.changed = TRUE]

(* After a change the endpoint lists the integrations, which runs bootstrap *)
(* again, and reconciles their jobs.                                        *)
Settling(s) == [Idle EXCEPT !.pc = "boot", !.op = s.op, !.of = s.of,
                            !.next = "reconcile", !.changed = TRUE]

(* Mutant: the bulk UPDATE runs even if the stream had no source. *)
ChosenAlways(s) ==
  {p \in active : p[2] # s.stream} \cup {<<s.of, s.stream>>}

(* The bulk UPDATE clears whatever is active in the stream by now; the      *)
(* requested row is written unless it was loaded active.                    *)
Chosen(s) ==
  LET cleared == IF s.current \in {None, s.of} THEN {}
                 ELSE {p \in active : p[2] = s.stream}
  IN (active \ cleared) \cup (IF s.on THEN {} ELSE {<<s.of, s.stream>>})

(* The rest of select_source.  An integration deleted meanwhile, or a       *)
(* second active row in the stream, fails the transaction.                  *)
SelectWrites(r) ==
  LET s == sess[r]
      previous == IF s.current \in there \ {s.of} /\ ~Among(Chosen(s), s.current)
                    THEN {s.current} ELSE {}
      val == [i \in Integrations |-> i = s.of]
  IN /\ s.pc = "write"
     /\ IF <<s.of, s.stream>> \in rows /\ Unique(Chosen(s))
          THEN /\ active' = Chosen(s)
               /\ enabled' = Set({i \in previous \cup {s.of} : ~s.seen[i]}, val)
               /\ conn' = Follow(s, previous \cup {s.of}, val)
               /\ Outdated(\/ s.on # (<<s.of, s.stream>> \in active)
                           \/ s.seen[s.of] # enabled[s.of])
               /\ Goes(r, Settling(s))
          ELSE /\ Breaks(r)
               /\ UNCHANGED <<enabled, active, conn>>
     /\ UNCHANGED <<there, rows, job, Rest>>

(* set_enabled(False): the bulk UPDATE clears every row of the integration. *)
DisableWrites(r) ==
  LET s == sess[r]
      val == [i \in Integrations |-> FALSE]
  IN /\ s.pc = "off"
     /\ IF s.of \in there
          THEN /\ active' = {p \in active : p[1] # s.of}
               /\ enabled' = Set({i \in {s.of} : s.seen[i]}, val)
               /\ conn' = Follow(s, {s.of}, val)
               /\ Outdated(s.seen[s.of] # enabled[s.of])
               /\ Goes(r, Settling(s))
          ELSE /\ Breaks(r)
               /\ UNCHANGED <<enabled, active, conn>>
     /\ UNCHANGED <<there, rows, job, Rest>>

(* A deleted connection comes back under another id; the model reuses its   *)
(* name once no request remembers it.                                       *)
Forgotten(c) == \A q \in Requests :
  c \notin {sess[q].of, sess[q].fix, sess[q].current} \cup sess[q].todo

(* ZammadService.save, to its first commit: the connection takes "enabled"  *)
(* from the form.  For a new one bootstrap_legacy_integrations adds the     *)
(* integration.                                                             *)
ZammadSaves(r) ==
  /\ Change
  /\ \E c \in Zammad, b \in BOOLEAN :
       /\ c \in there \/ Forgotten(c)
       /\ conn' = [conn EXCEPT ![c] = OnOff(b)]
       /\ enabled' = [enabled EXCEPT ![c] = IF c \in there THEN @ ELSE b]
       /\ there' = there \cup {c}
       /\ Begins(r, [Idle EXCEPT !.pc = "boot", !.op = "save", !.of = c, !.on = b,
                                 !.next = "linking", !.changed = TRUE])
  /\ UNCHANGED <<rows, active, job, exposed, disturbances>>

(* ServiceNowService.save of an existing configuration, which it loads      *)
(* together with the integration.                                           *)
ServiceNowSaves(r) ==
  /\ Change
  /\ \E c \in ServiceNow :
       /\ conn[c] # "none"
       /\ Begins(r, [Idle EXCEPT !.pc = "linking", !.op = "save", !.of = c,
                                 !.on = conn[c] = "on", !.seen = Loaded(c, enabled[c])])
  /\ UNCHANGED <<there, enabled, rows, active, conn, job, exposed, disturbances>>

(* IntegrationService.create: a stream that has no source gets this one.    *)
Creates(r) ==
  /\ Change
  /\ \E i \in Integrations \ (Zammad \cup there), b \in BOOLEAN :
       LET own == {i} \X Offers[i]
           taken == IF b THEN {p \in own : Serving(active, p[2]) = {}} ELSE {}
       IN /\ there' = there \cup {i}
          /\ rows' = rows \cup own
          /\ active' = active \cup taken
          /\ enabled' = [enabled EXCEPT ![i] = taken # {}]
          /\ sess[r].pc = "idle"
          /\ Goes(r, IF i \in ServiceNow
                       THEN [Idle EXCEPT !.pc = "linking", !.op = "create", !.of = i,
                                         !.seen = Loaded(i, taken # {}), !.changed = TRUE]
                       ELSE Idle)
  /\ UNCHANGED <<conn, job, exposed, disturbances>>

(* Both saves then read the selection; Zammad's reads its integration here. *)
LinkReads(r) ==
  LET s == sess[r]
  IN /\ s.pc = "linking" /\ s.op = "save"
     /\ IF s.of \in there
          THEN /\ Goes(r, [s EXCEPT !.pc = "link", !.sel = Selected(s.of),
                              !.seen[s.of] = IF s.of \in Zammad THEN enabled[s.of] ELSE @])
               /\ UNCHANGED exposed
          ELSE Breaks(r)
     /\ UNCHANGED <<there, enabled, rows, active, conn, job, Rest>>

(* ... and write what they read to the connection and the integration.      *)
LinkWrites(r) ==
  LET s == sess[r]
      val == [i \in Integrations |-> s.sel]
  IN /\ s.pc = "link"
     /\ IF s.of \in there
          THEN /\ enabled' = Set({i \in {s.of} : s.seen[i] # s.sel}, val)
               /\ conn' = Follow(s, {s.of}, val)
               /\ Outdated(s.sel # Selected(s.of))
               /\ Goes(r, [Idle EXCEPT !.pc = "reconcile", !.op = "save", !.of = s.of,
                                       !.todo = {s.of}, !.changed = TRUE])
          ELSE /\ Breaks(r)
               /\ UNCHANGED <<enabled, conn>>
     /\ UNCHANGED <<there, rows, active, job, Rest>>

(* A new ServiceNow configuration is inserted before the selection is read: *)
(* reading and writing it are one transaction.                              *)
Links(r) ==
  LET s == sess[r]
      i == s.of
  IN /\ s.pc = "linking" /\ s.op = "create"
     /\ conn' = [conn EXCEPT ![i] = OnOff(Selected(i))]
     /\ enabled' = [enabled EXCEPT ![i] = Column(@, s.seen[i], Selected(i))]
     /\ Goes(r, [Idle EXCEPT !.pc = "reconcile", !.op = "save", !.of = i,
                             !.todo = {i}, !.changed = TRUE])
     /\ UNCHANGED <<there, rows, active, job, exposed, Rest>>

(* DELETE of a Zammad configuration: first the job is removed, then the     *)
(* configuration; integration and activation row go with it.                *)
DeleteBegins(r) ==
  /\ Change
  /\ \E c \in Zammad :
       /\ conn[c] # "none"
       /\ job' = job \ {c}
       /\ Begins(r, [Idle EXCEPT !.pc = "delete", !.op = "delete", !.of = c, !.changed = TRUE])
  /\ UNCHANGED <<there, enabled, rows, active, conn, exposed, disturbances>>

DeleteCommits(r) ==
  LET i == sess[r].of
  IN /\ sess[r].pc = "delete"
     /\ there' = there \ {i}
     /\ enabled' = [enabled EXCEPT ![i] = FALSE]
     /\ rows' = {p \in rows : p[1] # i}
     /\ active' = {p \in active : p[1] # i}
     /\ conn' = [conn EXCEPT ![i] = "none"]
     /\ Outdated(i \in job)
     /\ Ends(r)
     /\ UNCHANGED <<job, Rest>>

----------------------------------------------------------------------------
(* Jobs. *)

(* reconcile_zammad and reconcile_servicenow. *)
Scheduled(c) == conn[c] = "on" /\ (c \in ServiceNow => Selected(c))
Reconciles(r) ==
  LET s == sess[r]
  IN /\ s.pc = "reconcile" /\ s.todo # {}
     /\ \E c \in s.todo :
          /\ c \in ServiceNow => s.todo \cap Zammad = {}
          /\ job' = IF Scheduled(c) THEN job \cup {c} ELSE job \ {c}
          /\ Goes(r, IF s.todo = {c} THEN Idle ELSE [s EXCEPT !.todo = @ \ {c}])
     /\ UNCHANGED <<there, enabled, rows, active, conn, exposed, Rest>>

(* A listed integration is deleted before the loop comes to it: its 404     *)
(* ends the request, and what was still to be reconciled is not.            *)
ReconcileStops(r) ==
  LET s == sess[r]
  IN /\ s.pc = "reconcile"
     /\ s.op # "save" /\ \E c \in s.todo \cap Zammad : c \notin there
     /\ Breaks(r)
     /\ UNCHANGED <<there, enabled, rows, active, conn, job, Rest>>

----------------------------------------------------------------------------
(* A request ends with an error, at any point between its transactions.     *)
Fails(r) ==
  /\ sess[r].pc # "idle"
  /\ Disturb
  /\ Breaks(r)
  /\ UNCHANGED <<there, enabled, rows, active, conn, job>>

(* The process is restarted; ConnectorScheduler.start reconciles all jobs.  *)
(* A save or an adoption between its commits stays half done, and so does a *)
(* selection whose bootstrap has committed.                                 *)
Restart ==
  /\ Disturb
  /\ job' = {c \in Connections : Scheduled(c)}
  /\ sess' = [r \in Requests |-> Idle]
  /\ Outdated(\E r \in Requests :
                /\ sess[r].changed
                /\ sess[r].op \in {"read", "save", "create"} \/ sess[r].pc \in {"load", "write"})
  /\ UNCHANGED <<there, enabled, rows, active, conn>>

Boots(r) == BootLoads(r) \/ BootInserts(r) \/ BootChecks(r) \/ BootFixes(r)
Proceeds(r) ==
  \/ Boots(r)
  \/ SelectLoads(r) \/ SelectWrites(r) \/ DisableWrites(r)
  \/ LinkReads(r) \/ LinkWrites(r) \/ Links(r)
  \/ DeleteCommits(r) \/ Reconciles(r) \/ ReconcileStops(r)
Starts(r) ==
  \/ Adopts(r) \/ SelectBegins(r) \/ SetEnabledBegins(r) \/ ZammadSaves(r)
  \/ ServiceNowSaves(r) \/ Creates(r) \/ DeleteBegins(r)

Next ==
  \/ \E r \in Requests : Proceeds(r) \/ Reads(r) \/ Starts(r) \/ Fails(r)
  \/ Restart

(* Every request runs to its end, and somebody keeps asking for the streams *)
(* (the pages, tools and synchronizations all do).                          *)
Fairness == /\ \A r \in Requests : WF_vars(Proceeds(r))
            /\ WF_vars(\E r \in Requests : Reads(r))

Spec == Init /\ [][Next]_vars
FairSpec == Spec /\ Fairness

----------------------------------------------------------------------------
(* Properties. *)

TypeOK ==
  /\ there \subseteq Integrations
  /\ enabled \in [Integrations -> BOOLEAN]
  /\ rows \subseteq Sources
  /\ active \subseteq rows
  /\ conn \in [Connections -> {"none", "on", "off"}]
  /\ job \subseteq Connections
  /\ sess \in [Requests -> Session]
  /\ exposed \in BOOLEAN
  /\ changes \in 0 .. MaxChanges
  /\ disturbances \in 0 .. MaxDisturbances

(* docs/streams.md:8-13, the activation rows are authoritative: when no     *)
(* request is in progress, an integration and its connection are enabled,   *)
(* and a connection has its job, exactly as the selection says, however     *)
(* the requests before were interleaved.  Excepted are histories in which a *)
(* session wrote although what it decides on had changed since it loaded    *)
(* it, or a request broke off after a commit (exposed).                     *)
CopiesAgree ==
  (~exposed /\ \A r \in Requests : sess[r].pc = "idle") =>
    /\ \A i \in there : enabled[i] = Selected(i)
    /\ \A c \in Connections : (conn[c] = "on") = Selected(c) /\ (c \in job) = Selected(c)

(* A stream is taken from its source only by a confirmed selection of       *)
(* another one in this stream, or by disabling or deleting that source:     *)
(* never by an unconfirmed selection, a save, a creation or bootstrap,      *)
(* whatever they read before.                                               *)
Asked(s, i, stream) ==
  \/ s.pc = "write" /\ s.confirmed /\ s.stream = stream /\ s.of # i
  \/ s.pc \in {"off", "delete"} /\ s.of = i
DisplacedWhenAsked ==
  [][\A p \in active \ active' : \E r \in Requests : Asked(sess[r], p[1], p[2])]_vars

(* Whatever happened before, once changes cease the reads that keep coming  *)
(* make every integration enabled exactly if it is selected.                *)
Heals == <>[](\A i \in there : enabled[i] = Selected(i))

(* zammad.py:605, "Connection runtime follows stream selection": once   *)
(* changes cease, the connections are enabled as the selection says.        *)
(* Violated: bootstrap corrects a connection only along with its            *)
(* integration, and a save whose reading of the selection is outdated       *)
(* writes the connection alone; so does a save that breaks off half done.   *)
RuntimeFollowsSelection ==
  <>[](\A c \in Connections : conn[c] # "none" => (conn[c] = "on") = Selected(c))

(* Why no unasked displacement happens, as one inductive invariant: a       *)
(* request about to write has been confirmed if it has seen another source, *)
(* and one that has seen its own row active has seen itself as the source;  *)
(* linking and reconciling are about connections.                           *)
Prepared(s) ==
  /\ s.pc = "write" => /\ s.current \notin {None, s.of} => s.confirmed
                       /\ s.on => s.current = s.of
  /\ s.pc \in {"linking", "link"} \/ s.next = "linking" => s.of \in Connections
  /\ s.pc = "reconcile" => s.todo \subseteq Connections
SelectionInv == TypeOK /\ Unique(active) /\ \A r \in Requests : Prepared(sess[r])

=============================================================================
