--------------------------- MODULE OperationalTools ---------------------------
(***************************************************************************)
(* The requests PEKA makes of the connector's operational tools:           *)
(* application/services/operational_tools.py, the routing of ticketing.py  *)
(* and cmdb_sources.py, and the polling job of scheduling.py.              *)
(*                                                                         *)
(* One worker polls PEKA, claims one request, records that it started,     *)
(* executes the tool and submits the result, once.  A tool reads several   *)
(* sources one after the other, and reads which source a stream has        *)
(* selected each time anew, while an administrator may select another.     *)
(*                                                                         *)
(* The model keeps of a result which sources its data came from: rows,     *)
(* records and what is counted of them.  A CI or an asset that only        *)
(* narrows a search (a ticket's related asset, an identifier) is not data. *)
(* Not modelled: the compatibility branches for a connector that has no    *)
(* source rows at all (_require_source, _legacy_local_allowed), arguments, *)
(* and the assessments computed from the data.  That a connection is       *)
(* enabled while one of its sources is selected is what StreamSelection is *)
(* about.                                                                  *)
(***************************************************************************)
EXTENDS Integers, FiniteSets, Sequences

CONSTANTS
  Request,          \* operational tool requests
  Wanted,           \* bound: the kinds of tools each may be for
  Initially,        \* the selections the connector may start with
  MaxIdentity,      \* bound: registrations
  MaxSwitches,      \* bound: selections
  MaxFaults         \* bound: lost calls, failed writes, crashes

VARIABLES
  rpc,              \* each request at PEKA: its state, tool and who was asked
  answer,           \* each request's result at PEKA
  registered,       \* the connector's registration; 0 without one
  active,           \* the selected source of each stream
  activeSince,      \* history: all <<stream, source>> selected since the claim
  worker,           \* what the worker is doing
  audit,            \* audit events of each request
  switches, faults  \* how much of the bounds is used

otVars == <<rpc, answer, registered, active, activeSince, worker, audit, switches, faults>>

----------------------------------------------------------------------------
NoSource == "none"
Sources == [ticketing |-> {"zammad", "servicenow"}, monitoring |-> {"prometheus"},
            cmdb |-> {"local_cmdb", "servicenow_cmdb"}, logs |-> {"loki"},
            knowledge |-> {"documents"}]
Stream == DOMAIN Sources
Source == {NoSource} \cup UNION {Sources[st] : st \in Stream}
Part == Stream \X (Source \ {NoSource})
Selected(st) == <<st, active[st]>>

Kinds == {"knowledge", "records", "servicenow_ticket", "servicenow_ci",
          "servicenow_ci_tickets", "servicenow_status", "ticket", "count", "summary", "search",
          "details", "relationships", "logs", "utilization", "status", "assess"}

ASSUME OperationalAssumption ==
  /\ Wanted \in [Request -> SUBSET Kinds]
  /\ Initially \subseteq [Stream -> Source]
  /\ \A s \in Initially, st \in Stream : s[st] \in Sources[st] \cup {NoSource}
  /\ MaxIdentity \in Nat \ {0}
  /\ {MaxSwitches, MaxFaults} \subseteq Nat

(* ServiceNow has one connection for its two sources.                      *)
Connection(src) == IF src = "servicenow_cmdb" THEN "servicenow" ELSE src
Enabled(src) == \E st \in Stream : Connection(active[st]) = Connection(src)

(* What the rows of a source bring with them of another one, which nobody  *)
(* asks whether it is selected: an asset of the inventory the health and   *)
(* the times of its Prometheus targets, ServiceNow's tickets the CI of     *)
(* its CMDB cache they are about.                                          *)
Brought(src) ==
  CASE src = "local_cmdb" -> {"prometheus"}
    [] src = "servicenow" -> {"servicenow_cmdb"}
    [] OTHER -> {}

(* The data a stream's source may give; the source itself is among it.     *)
DataOf(st, src) ==
  IF src = NoSource THEN {{}} ELSE {{st} \X ({src} \cup more) : more \in SUBSET Brought(src)}

----------------------------------------------------------------------------
(* The steps of the tools: what each does, for which stream, with which    *)
(* source, and whose errors its caller catches.                            *)
Doing == {"require", "ask", "cis", "describe", "find", "relate", "review", "list", "count",
          "ensure", "route", "select", "adapter", "label", "name", "branch"}
Step == [do : Doing, stream : Stream, source : Source, catches : SUBSET Source]

On(do, st) == [do |-> do, stream |-> st, source |-> NoSource, catches |-> {}]
Of(do, st, src) == [On(do, st) EXCEPT !.source = src]
Catching(errors, steps) == [n \in DOMAIN steps |-> [steps[n] EXCEPT !.catches = errors]]

(* TicketingProviderService: provider(), its method, _with_provider().     *)
Provider == <<On("route", "ticketing"), On("adapter", "ticketing"), On("label", "ticketing")>>

(* search_enabled_records: the active source is read once.                 *)
Records == Catching({"zammad", "servicenow"},
                    <<On("select", "ticketing"), On("adapter", "ticketing")>>)

(* _require_source, and the service it guards.                             *)
Guarded(st, src) == <<Of("require", st, src), Of("ask", st, src)>>

(* An asset of the CMDB, and whether it is one of the inventory.           *)
OfAsset == <<On("find", "cmdb"), On("branch", "cmdb")>>

(* get_asset_status: without logs, or tickets, the status is without them. *)
AssetStatus == OfAsset \o Guarded("monitoring", "prometheus") \o <<On("review", "cmdb")>>
               \o Catching({"loki"}, Guarded("logs", "loki"))
               \o Catching({"zammad"}, Provider)

(* _assess_infrastructure, which asks Loki whether it is selected or not.  *)
Assessment == <<On("list", "cmdb")>>
              \o Catching({"loki"}, <<Of("ask", "logs", "loki")>>) \o Records

(* inventory_summary counts the assets three times.                        *)
Summary == <<On("count", "cmdb"), On("count", "cmdb"), On("count", "cmdb"), On("name", "cmdb")>>

(* servicenow_get_ci_tickets is guarded as a tool of the ticketing stream. *)
CiTickets == <<Of("require", "ticketing", "servicenow"), Of("cis", "ticketing", "servicenow")>>

Steps(tool) ==
  CASE tool = "knowledge" -> Guarded("knowledge", "documents")
    [] tool = "records" -> Records
    [] tool = "servicenow_ticket" -> Guarded("ticketing", "servicenow")
    [] tool = "servicenow_ci" -> Guarded("cmdb", "servicenow_cmdb")
    [] tool = "servicenow_ci_tickets" -> CiTickets
    [] tool = "servicenow_status" -> <<On("describe", "ticketing")>>
    [] tool = "count" -> <<On("count", "cmdb")>>
    [] tool = "ticket" -> <<On("ensure", "ticketing")>> \o Provider
    [] tool = "summary" -> Summary
    [] tool = "search" -> <<On("list", "cmdb"), On("name", "cmdb")>>
    [] tool = "details" -> <<On("find", "cmdb")>>
    [] tool = "relationships" -> <<On("find", "cmdb"), On("relate", "cmdb")>>
    [] tool = "logs" -> OfAsset \o Guarded("logs", "loki")
    [] tool = "utilization" -> OfAsset \o Guarded("monitoring", "prometheus")
    [] tool = "status" -> AssetStatus
    [] tool = "assess" -> Assessment

(* The worker: the request, the registration it loaded, its tool's steps   *)
(* still to do, the ticketing source it was routed to, the result so far.  *)
Result == [ok : BOOLEAN, parts : SUBSET Part, label : Source, tenant : 0 .. MaxIdentity]
Empty == [ok |-> TRUE, parts |-> {}, label |-> NoSource, tenant |-> 0]
Refusal == [ok |-> FALSE, parts |-> {}, label |-> NoSource, tenant |-> 0]
Idle == [pc |-> "idle", as |-> 0, of |-> {}, rest |-> <<>>, route |-> NoSource,
         result |-> Empty]

Worker == [pc : {"idle", "polling", "claimed", "executing", "sent", "unsent"}, as : 0 .. MaxIdentity,
           of : SUBSET Request, rest : Seq(Step), route : Source, result : Result]

TheStep == Head(worker.rest)
Executes(do) == worker.pc = "executing" /\ worker.rest # <<>> /\ TheStep.do = do

Fault == faults < MaxFaults /\ faults' = faults + 1

(* The tool goes on, with more data in its result.                         *)
Proceed(parts) == worker' = [worker EXCEPT !.rest = Tail(@), !.result.parts = @ \cup parts]

(* The exception a step raises: of the ticketing facade it is a ZammadError *)
(* unless ServiceNow is asked; of _require_source a ValueError.            *)
ErrorOf(step) ==
  CASE step.do = "ask" -> step.source
    [] step.do = "adapter" -> worker.route
    [] step.do = "route" -> IF active.ticketing = "servicenow" THEN "servicenow" ELSE "zammad"
    [] step.do \in {"ensure", "label"} -> "zammad"
    [] OTHER -> NoSource

(* A caught exception leaves out its part of the result, any other makes   *)
(* the result a failure.                                                   *)
Raises ==
  IF ErrorOf(TheStep) \in TheStep.catches
  THEN worker' = [worker EXCEPT
         !.rest = IF TheStep.do = "ask" THEN Tail(@) ELSE <<>>,
         !.result.parts = {part \in @ : part[1] # TheStep.stream}]
  ELSE worker' = [worker EXCEPT !.rest = <<>>, !.result = Refusal]

----------------------------------------------------------------------------
OperationalInit ==
  /\ rpc = [r \in Request |-> [state |-> "none", tool |-> "none", of |-> 0]]
  /\ answer = [r \in Request |-> Refusal]
  /\ registered \in 0 .. 1
  /\ active \in Initially
  /\ activeSince = {}
  /\ worker = Idle
  /\ audit = [r \in Request |-> {}]
  /\ switches = 0
  /\ faults = 0

(* PEKA: someone asks, of the connector's current registration.            *)
Asks(r, tool) ==
  /\ rpc[r].state = "none"
  /\ registered > 0
  /\ rpc' = [rpc EXCEPT ![r] = [state |-> "waiting", tool |-> tool, of |-> registered]]
  /\ UNCHANGED <<answer, registered, active, activeSince, worker, audit, switches, faults>>

(* PEKA: the request's deadline passes.                                    *)
Expires(r) ==
  /\ Fault
  /\ rpc[r].state \in {"waiting", "claimed"}
  /\ rpc' = [rpc EXCEPT ![r].state = "expired"]
  /\ UNCHANGED <<answer, registered, active, activeSince, worker, audit, switches>>

(* An administrator selects a source of a stream, or none.                 *)
Selects(st, src) ==
  /\ switches < MaxSwitches
  /\ switches' = switches + 1
  /\ src # active[st]
  /\ active' = [active EXCEPT ![st] = src]
  /\ activeSince' = IF worker.pc = "idle" THEN {} ELSE activeSince \cup {<<st, src>>}
  /\ UNCHANGED <<rpc, answer, registered, worker, audit, faults>>

(* ... or registers the connector anew, or unregisters it.                 *)
Registers(k) ==
  /\ switches < MaxSwitches
  /\ switches' = switches + 1
  /\ k # registered
  /\ registered' = k
  /\ UNCHANGED <<rpc, answer, active, activeSince, worker, audit, faults>>

----------------------------------------------------------------------------
(* The job runs, unless it still does, and loads the registration.         *)
Polls ==
  /\ worker.pc = "idle"
  /\ registered > 0
  /\ worker' = [Idle EXCEPT !.pc = "polling", !.as = registered]
  /\ UNCHANGED <<rpc, answer, registered, active, activeSince, audit, switches, faults>>

Waiting(r) == rpc[r].state = "waiting" /\ rpc[r].of = worker.as

Claims(r) ==
  /\ worker.pc = "polling"
  /\ Waiting(r)
  /\ rpc' = [rpc EXCEPT ![r].state = "claimed"]
  /\ worker' = [worker EXCEPT !.pc = "claimed", !.of = {r}]
  /\ activeSince' = {Selected(st) : st \in Stream}
  /\ UNCHANGED <<answer, registered, active, audit, switches, faults>>

NothingWaits ==
  /\ worker.pc = "polling"
  /\ \A r \in Request : ~Waiting(r)
  /\ worker' = Idle
  /\ UNCHANGED <<rpc, answer, registered, active, activeSince, audit, switches, faults>>

(* The call fails, or its answer is not a request this version knows; PEKA *)
(* may have handed out a request all the same.                             *)
ClaimFails ==
  /\ Fault
  /\ worker.pc = "polling"
  /\ \/ UNCHANGED rpc
     \/ \E r \in Request : Waiting(r) /\ rpc' = [rpc EXCEPT ![r].state = "claimed"]
  /\ worker' = Idle
  /\ UNCHANGED <<answer, registered, active, activeSince, audit, switches>>

(* Mutant: a request of a registration that has been replaced is dropped.  *)
StartsIfRegistered ==
  /\ worker.pc = "claimed"
  /\ audit' = [r \in Request |-> IF r \in worker.of THEN {"started"} ELSE audit[r]]
  /\ worker' = IF worker.as # registered THEN Idle
               ELSE [worker EXCEPT !.pc = "executing",
                                   !.rest = Steps(rpc[CHOOSE r \in worker.of : TRUE].tool)]
  /\ UNCHANGED <<rpc, answer, registered, active, activeSince, switches, faults>>

Starts ==
  /\ worker.pc = "claimed"
  /\ audit' = [r \in Request |-> IF r \in worker.of THEN {"started"} ELSE audit[r]]
  /\ worker' = [worker EXCEPT !.pc = "executing",
                              !.rest = Steps(rpc[CHOOSE r \in worker.of : TRUE].tool)]
  /\ UNCHANGED <<rpc, answer, registered, active, activeSince, switches, faults>>

(* Mutant: the job is lost with the run that broke off.                    *)
BreaksForGood ==
  /\ Fault
  /\ worker.pc # "idle"
  /\ worker' = [Idle EXCEPT !.pc = "sent"]
  /\ UNCHANGED <<rpc, answer, registered, active, activeSince, audit, switches>>

(* The database refuses the record, or the process ends, whatever is going *)
(* on: nobody answers the request any more.                                *)
Breaks ==
  /\ Fault
  /\ worker.pc # "idle"
  /\ worker' = Idle
  /\ UNCHANGED <<rpc, answer, registered, active, activeSince, audit, switches>>

----------------------------------------------------------------------------
ToolVars == <<rpc, answer, registered, active, activeSince, audit, switches, faults>>

(* Mutant: _require_source lets everything pass.                           *)
RequireNothing ==
  /\ Executes("require")
  /\ Proceed({})
  /\ UNCHANGED ToolVars

(* The stream must have this source selected.                              *)
Require ==
  /\ Executes("require")
  /\ IF active[TheStep.stream] = TheStep.source THEN Proceed({}) ELSE Raises
  /\ UNCHANGED ToolVars

(* A service is asked for its data.                                        *)
Asking(src) == Executes("ask") /\ TheStep.source = src
TheirData == {<<TheStep.stream, TheStep.source>>}

(* Mutant: knowledge is searched for the tenant registered by now.         *)
AskCurrentTenant ==
  /\ Asking("documents")
  /\ worker' = [worker EXCEPT !.rest = Tail(@), !.result.parts = @ \cup TheirData,
                              !.result.tenant = registered]
  /\ UNCHANGED ToolVars

(* Knowledge is searched for the tenant loaded.                            *)
AskKnowledge ==
  /\ Asking("documents")
  /\ worker' = [worker EXCEPT !.rest = Tail(@), !.result.parts = @ \cup TheirData,
                              !.result.tenant = worker.as]
  /\ UNCHANGED ToolVars

(* ServiceNow refuses when it is disabled.                                 *)
AskServiceNow ==
  /\ Asking("servicenow") \/ Asking("servicenow_cmdb")
  /\ IF Enabled(TheStep.source) THEN Proceed(TheirData) ELSE Raises
  /\ UNCHANGED ToolVars

(* A CI of the ServiceNow CMDB cache and its tickets, whichever CMDB is    *)
(* selected.                                                               *)
AskCiTickets ==
  /\ Executes("cis")
  /\ IF Enabled(TheStep.source)
     THEN \E rows \in DataOf(TheStep.stream, TheStep.source) : Proceed(rows)
     ELSE Raises
  /\ UNCHANGED ToolVars

(* servicenow_get_status describes the configuration, selected or not.     *)
Describe ==
  /\ Executes("describe")
  /\ Proceed({})
  /\ UNCHANGED ToolVars

(* Prometheus says that it is unavailable when it is disabled, has no      *)
(* target for the asset, or has never scraped it.                          *)
AskPrometheus ==
  /\ Asking("prometheus")
  /\ Proceed({}) \/ (Enabled(TheStep.source) /\ Proceed(TheirData))
  /\ UNCHANGED ToolVars

(* So does Loki, without a stream that is the asset's.                     *)
AskLoki ==
  /\ Asking("loki")
  /\ Proceed({}) \/ (Enabled(TheStep.source) /\ Proceed(TheirData))
  /\ UNCHANGED ToolVars

(* Mutant: no source is a source like any other.                           *)
FromAny(st) == {active[st]}

(* CMDBSourceService counts the rows of the active source, if there is one. *)
FromActive(st) == IF active[st] = NoSource THEN {} ELSE {Selected(st)}

Count ==
  /\ Executes("count")
  /\ Proceed(FromActive(TheStep.stream))
  /\ UNCHANGED ToolVars

(* ... or reads them, with what they bring.                                *)
List ==
  /\ Executes("list")
  /\ \E rows \in DataOf(TheStep.stream, active[TheStep.stream]) : Proceed(rows)
  /\ UNCHANGED ToolVars

(* One asset, or the end: none of that name, or several.                   *)
Find ==
  /\ Executes("find")
  /\ \E rows \in DataOf(TheStep.stream, active[TheStep.stream]) \cup {{}} :
       \/ rows # {} /\ Proceed(rows)
       \/ worker' = [worker EXCEPT !.rest = <<>>, !.result.parts = rows]
  /\ UNCHANGED ToolVars

(* What the inventory has of the asset found before, if it is one of its.  *)
InInventory == <<"cmdb", "local_cmdb">> \in worker.result.parts
InventoryRows == IF InInventory THEN DataOf("cmdb", "local_cmdb") ELSE {{}}

(* asset_relationships asks the source selected by now, the inventory if   *)
(* there is none; neither finds anything for an asset of the other one,    *)
(* and ServiceNow nothing that is not its own.                             *)
Relate ==
  /\ Executes("relate")
  /\ \E rows \in (IF active.cmdb = "servicenow_cmdb" THEN {{}} ELSE InventoryRows) :
       Proceed(rows)
  /\ UNCHANGED ToolVars

(* operational_asset_status and asset_relationships read the inventory     *)
(* again, whatever is selected by now.                                     *)
Review ==
  /\ Executes("review")
  /\ \E rows \in InventoryRows : Proceed(rows)
  /\ UNCHANGED ToolVars

(* A CI of ServiceNow is not in the inventory: its status is its tickets.  *)
Branch ==
  /\ Executes("branch")
  /\ IF InInventory THEN Proceed({})
     ELSE worker' = [worker EXCEPT !.rest =
            IF \E n \in DOMAIN @ : @[n].do = "route" THEN Provider ELSE <<>>]
  /\ UNCHANGED ToolVars

Ensure ==
  /\ Executes("ensure")
  /\ IF active[TheStep.stream] # NoSource THEN Proceed({}) ELSE Raises
  /\ UNCHANGED ToolVars

Route ==
  /\ Executes("route")
  /\ IF active[TheStep.stream] # NoSource
     THEN worker' = [worker EXCEPT !.rest = Tail(@), !.route = active[TheStep.stream]]
     ELSE Raises
  /\ UNCHANGED ToolVars

ReadsOnce ==
  /\ Executes("select")
  /\ worker' = [worker EXCEPT !.rest = Tail(@), !.route = active[TheStep.stream]]
  /\ UNCHANGED ToolVars

(* The adapter of the source chosen before asks whether it is enabled.     *)
AdapterOf(src) ==
  /\ Executes("adapter")
  /\ worker.route = src
  /\ IF Enabled(src) THEN Proceed({<<TheStep.stream, src>>}) ELSE Raises
  /\ UNCHANGED ToolVars

ZammadAdapter == AdapterOf("zammad")
ServiceNowAdapter == AdapterOf("servicenow")

(* search_enabled_records without a source returns nothing.                *)
NoAdapter ==
  /\ Executes("adapter")
  /\ worker.route = NoSource
  /\ Proceed({})
  /\ UNCHANGED ToolVars

(* The result is given the name of the source selected by now.             *)
Label ==
  /\ Executes("label") \/ Executes("name")
  /\ IF TheStep.do = "label" /\ active[TheStep.stream] = NoSource THEN Raises
     ELSE worker' = [worker EXCEPT !.rest = Tail(@),
                                   !.result.label = active[TheStep.stream]]
  /\ UNCHANGED ToolVars

(* Mutant: an exception of a tool ends the run of the worker.              *)
StepFailsLoudly ==
  /\ worker.pc = "executing"
  /\ worker.rest # <<>>
  /\ worker' = Idle
  /\ UNCHANGED ToolVars

(* Any step may fail for reasons of its own: invalid arguments, a source   *)
(* out of reach, a synchronization that has not been completed.            *)
StepFails ==
  /\ worker.pc = "executing"
  /\ worker.rest # <<>>
  /\ Raises
  /\ UNCHANGED ToolVars

----------------------------------------------------------------------------
Finished == worker.pc = "executing" /\ worker.rest = <<>>

(* PEKA accepts the result of a request that has not expired.              *)
Submits(r) ==
  /\ Finished
  /\ worker.of = {r}
  /\ IF rpc[r].state = "claimed"
     THEN /\ rpc' = [rpc EXCEPT ![r].state = "answered"]
          /\ answer' = [answer EXCEPT ![r] = worker.result]
          /\ worker' = [worker EXCEPT !.pc = "sent"]
     ELSE /\ worker' = [worker EXCEPT !.pc = "unsent"]
          /\ UNCHANGED <<rpc, answer>>
  /\ UNCHANGED <<registered, active, activeSince, audit, switches, faults>>

(* The call fails, the result having arrived or not; there is no retry.    *)
SubmitFails(r) ==
  /\ Fault
  /\ Finished
  /\ worker.of = {r}
  /\ \/ UNCHANGED <<rpc, answer>>
     \/ /\ rpc[r].state = "claimed"
        /\ rpc' = [rpc EXCEPT ![r].state = "answered"]
        /\ answer' = [answer EXCEPT ![r] = worker.result]
  /\ worker' = [worker EXCEPT !.pc = "unsent"]
  /\ UNCHANGED <<registered, active, activeSince, audit, switches>>

(* Mutant: a submission that failed is recorded like one that did not.     *)
RecordsAnyOutcome(r) ==
  /\ worker.of = {r}
  /\ worker.pc \in {"sent", "unsent"}
  /\ audit' = [audit EXCEPT ![r] = @ \cup
       {IF worker.result.ok THEN "succeeded" ELSE "failed"}]
  /\ worker' = Idle
  /\ UNCHANGED <<rpc, answer, registered, active, activeSince, switches, faults>>

(* The outcome is recorded and the worker is done.                         *)
RecordsOutcome(r) ==
  /\ worker.of = {r}
  /\ worker.pc \in {"sent", "unsent"}
  /\ audit' = [audit EXCEPT ![r] = @ \cup
       {IF worker.pc = "sent" /\ worker.result.ok THEN "succeeded" ELSE "failed"}]
  /\ worker' = Idle
  /\ UNCHANGED <<rpc, answer, registered, active, activeSince, switches, faults>>

----------------------------------------------------------------------------
Executing ==
  \/ Require \/ AskKnowledge \/ AskServiceNow \/ AskCiTickets \/ Describe \/ AskPrometheus
  \/ AskLoki \/ Count \/ List \/ Find \/ Relate \/ Review \/ Branch \/ Ensure \/ Route
  \/ ReadsOnce \/ ZammadAdapter \/ ServiceNowAdapter \/ NoAdapter \/ Label

Working ==
  \/ \E r \in Request : Claims(r)
  \/ NothingWaits
  \/ Starts
  \/ Executing
  \/ \E r \in Request : Submits(r)
  \/ \E r \in Request : RecordsOutcome(r)

OperationalNext ==
  \/ \E r \in Request : \E tool \in Wanted[r] : Asks(r, tool)
  \/ \E r \in Request : Expires(r)
  \/ \E st \in Stream : \E src \in Sources[st] \cup {NoSource} : Selects(st, src)
  \/ \E k \in 0 .. MaxIdentity : Registers(k)
  \/ Polls
  \/ Working
  \/ ClaimFails
  \/ Breaks
  \/ StepFails
  \/ \E r \in Request : SubmitFails(r)

OperationalSpec == OperationalInit /\ [][OperationalNext]_otVars

----------------------------------------------------------------------------
OperationalTypeOK ==
  /\ rpc \in [Request -> [state : {"none", "waiting", "claimed", "answered", "expired"},
                          tool : Kinds \cup {"none"}, of : 0 .. MaxIdentity]]
  /\ answer \in [Request -> Result]
  /\ registered \in 0 .. MaxIdentity
  /\ active \in [Stream -> Source]
  /\ \A st \in Stream : active[st] \in Sources[st] \cup {NoSource}
  /\ activeSince \subseteq Stream \X Source
  /\ worker \in Worker
  /\ audit \in [Request -> SUBSET {"started", "succeeded", "failed"}]
  /\ switches \in 0 .. MaxSwitches
  /\ faults \in 0 .. MaxFaults

(* docs/streams.md: inactive caches are not fallback data.  Whatever data  *)
(* PEKA is given came from a source that was selected, for some stream, at *)
(* some time since the request was claimed.  The code does not keep to it. *)
AnswersFromSelected ==
  worker.pc = "sent" => \A p \in worker.result.parts :
                          \E st \in Stream : <<st, p[2]>> \in activeSince

(* The worker has a result, complete or not, of the request it claimed.    *)
HasResult == worker.pc \in {"executing", "sent", "unsent"}

(* Data of a source selected for its stream since the claim, or that came  *)
(* with the rows of such a source, from the one source these bring.        *)
Through(parts) ==
  \A p \in parts :
    \/ p \in activeSince
    \/ \E bearer \in Source : <<p[1], bearer>> \in activeSince /\ p[2] \in Brought(bearer)

(* What the code does keep to: no result has other data, for every tool    *)
(* and however the selections change between its steps.                    *)
AnswersThroughSelected == HasResult => Through(worker.result.parts)

(* An answer holds documents of the tenant whose registration was asked,   *)
(* though the connector may be registered with another while it searches.  *)
AnswersStayWithTenant == \A r \in Request : answer[r].tenant \in {0, rpc[r].of}

(* The audit view and PEKA agree: nothing is answered that was not         *)
(* recorded first, and what is recorded as succeeded PEKA has.             *)
AuditAgrees ==
  \A r \in Request :
    /\ rpc[r].state = "answered" => "started" \in audit[r]
    /\ "succeeded" \in audit[r] => rpc[r].state = "answered" /\ answer[r].ok

(* Only a fault leaves a claimed request without its answer: whatever a    *)
(* tool meets, the worker submits something.                               *)
OnlyFaultsLoseRequests ==
  Cardinality({r \in Request : rpc[r].state = "claimed" /\ r \notin worker.of}) <= faults

(* Seen from PEKA the tools are a service that answers: the worker owes an *)
(* answer from its claim until it has submitted one.                       *)
Owed == IF worker.pc \in {"claimed", "executing"} THEN worker.of ELSE {}

Service == INSTANCE RequestService WITH
  state <- [r \in Request |-> rpc[r].state],
  tenant <- [r \in Request |-> rpc[r].of],
  given <- [r \in Request |-> answer[r].tenant],
  owed <- Owed,
  MaxTenant <- MaxIdentity

(* Every request is taken once, by the tenant it was made of, and answered *)
(* once while its answer is owed, or expires, or a fault has hit it;       *)
(* whatever tool it is for and whatever is selected or registered in the   *)
(* meantime.                                                               *)
ServesRequests == Service!Spec

(* The interval job polls, and its run proceeds: every call has a timeout. *)
OperationalFairness == WF_otVars(Polls) /\ WF_otVars(Working)

OperationalFairSpec == OperationalSpec /\ OperationalFairness

(* A request waits on only if the connector is registered otherwise, and   *)
(* what was claimed is answered but for faults.                            *)
RequestsAnswered ==
  \A r \in Request :
    /\ <>[](rpc[r].state = "waiting" => registered # rpc[r].of)
    /\ <>[](r \notin worker.of)
=============================================================================
