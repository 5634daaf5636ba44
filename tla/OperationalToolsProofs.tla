------------------------ MODULE OperationalToolsProofs ------------------------
(* That the operational tools implement RequestService, and what their     *)
(* answers and the audit view can be trusted for, for any requests.        *)
EXTENDS OperationalTools, FiniteSetTheorems, SequenceTheorems, TLAPS

----------------------------------------------------------------------------
(* The steps of every tool are steps.                                      *)
LEMMA StreamsTyped ==
  /\ {"ticketing", "monitoring", "cmdb", "logs", "knowledge"} = Stream
  /\ {"zammad", "servicenow", "prometheus", "local_cmdb", "servicenow_cmdb", "loki",
      "documents", NoSource} \subseteq Source
  /\ \A st \in Stream : Sources[st] \subseteq Source
<1>1. {"ticketing", "monitoring", "cmdb", "logs", "knowledge"} = Stream
  BY DEF Stream, Sources
<1>2. \A st \in Stream : Sources[st] \subseteq Source
  BY DEF Source
<1>3. /\ Sources["ticketing"] = {"zammad", "servicenow"} /\ Sources["monitoring"] = {"prometheus"}
      /\ Sources["cmdb"] = {"local_cmdb", "servicenow_cmdb"} /\ Sources["logs"] = {"loki"}
      /\ Sources["knowledge"] = {"documents"}
  BY DEF Sources
<1>4. {"zammad", "servicenow", "prometheus", "local_cmdb", "servicenow_cmdb", "loki",
       "documents"} \subseteq Source
  <2>1. "zammad" \in Source /\ "servicenow" \in Source
    BY <1>1, <1>2, <1>3
  <2>2. "prometheus" \in Source /\ "loki" \in Source /\ "documents" \in Source
    BY <1>1, <1>2, <1>3
  <2>3. "local_cmdb" \in Source /\ "servicenow_cmdb" \in Source
    BY <1>1, <1>2, <1>3
  <2> QED BY <2>1, <2>2, <2>3
<1>5. NoSource \in Source
  BY DEF Source
<1>6. {"zammad", "servicenow", "prometheus", "local_cmdb", "servicenow_cmdb", "loki",
       "documents", NoSource} \subseteq Source
  BY <1>4, <1>5, Zenon
<1> QED BY <1>1, <1>2, <1>6

LEMMA OnTyped == \A do \in Doing, st \in Stream : On(do, st) \in Step
BY StreamsTyped DEF On, Step

LEMMA OfTyped == \A do \in Doing, st \in Stream, src \in Source : Of(do, st, src) \in Step
BY OnTyped DEF Of, Step

LEMMA CatchingTyped ==
  ASSUME NEW errors \in SUBSET Source, NEW steps \in Seq(Step)
  PROVE  Catching(errors, steps) \in Seq(Step)
<1>1. steps \in [1 .. Len(steps) -> Step] /\ Len(steps) \in Nat /\ DOMAIN steps = 1 .. Len(steps)
  BY LenProperties
<1>2. \A n \in DOMAIN steps : [steps[n] EXCEPT !.catches = errors] \in Step
  BY <1>1 DEF Step
<1>3. Catching(errors, steps) \in [1 .. Len(steps) -> Step]
  BY <1>1, <1>2 DEF Catching
<1> QED BY <1>1, <1>3, SeqDef

LEMMA StepsTyped == \A tool \in Kinds : Steps(tool) \in Seq(Step) /\ Provider \in Seq(Step)
<1>1. Provider \in Seq(Step)
  BY OnTyped, StreamsTyped DEF Provider, Doing
<1>2. Records \in Seq(Step)
  <2>1. <<On("select", "ticketing"), On("adapter", "ticketing")>> \in Seq(Step)
    BY OnTyped, StreamsTyped DEF Doing
  <2> QED BY <2>1, CatchingTyped, StreamsTyped DEF Records
<1>3. \A st \in Stream, src \in Source : Guarded(st, src) \in Seq(Step)
  BY OfTyped DEF Guarded, Doing
<1>4. OfAsset \in Seq(Step)
  BY OnTyped, StreamsTyped DEF OfAsset, Doing
<1>5. AssetStatus \in Seq(Step)
  <2>1. Catching({"loki"}, Guarded("logs", "loki")) \in Seq(Step)
    BY <1>3, CatchingTyped, StreamsTyped
  <2>2. Catching({"zammad"}, Provider) \in Seq(Step)
    BY <1>1, CatchingTyped, StreamsTyped
  <2>3. OfAsset \o Guarded("monitoring", "prometheus") \in Seq(Step)
    BY <1>3, <1>4, ConcatProperties, StreamsTyped
  <2>5. <<On("review", "cmdb")>> \in Seq(Step)
    BY OnTyped, StreamsTyped DEF Doing
  <2>6. OfAsset \o Guarded("monitoring", "prometheus") \o <<On("review", "cmdb")>> \in Seq(Step)
    BY <2>3, <2>5, ConcatProperties
  <2>7. OfAsset \o Guarded("monitoring", "prometheus") \o <<On("review", "cmdb")>>
          \o Catching({"loki"}, Guarded("logs", "loki")) \in Seq(Step)
    BY <2>1, <2>6, ConcatProperties
  <2> QED BY <2>2, <2>7, ConcatProperties DEF AssetStatus
<1>6. Assessment \in Seq(Step)
  <2>1. <<On("list", "cmdb")>> \in Seq(Step) /\ <<Of("ask", "logs", "loki")>> \in Seq(Step)
    BY OnTyped, OfTyped, StreamsTyped DEF Doing
  <2>2. Catching({"loki"}, <<Of("ask", "logs", "loki")>>) \in Seq(Step)
    BY <2>1, CatchingTyped, StreamsTyped
  <2>3. <<On("list", "cmdb")>> \o Catching({"loki"}, <<Of("ask", "logs", "loki")>>) \in Seq(Step)
    BY <2>1, <2>2, ConcatProperties
  <2> QED BY <1>2, <2>3, ConcatProperties DEF Assessment
<1>7. Summary \in Seq(Step)
  BY OnTyped, StreamsTyped DEF Summary, Doing
<1>8. <<On("ensure", "ticketing")>> \o Provider \in Seq(Step)
  <2>1. <<On("ensure", "ticketing")>> \in Seq(Step)
    BY OnTyped, StreamsTyped DEF Doing
  <2> QED BY <1>1, <2>1, ConcatProperties
<1>9. /\ <<On("list", "cmdb"), On("name", "cmdb")>> \in Seq(Step)
      /\ <<On("find", "cmdb")>> \in Seq(Step)
      /\ <<On("find", "cmdb"), On("relate", "cmdb")>> \in Seq(Step)
  BY OnTyped, StreamsTyped DEF Doing
<1>10. OfAsset \o Guarded("logs", "loki") \in Seq(Step)
  BY <1>3, <1>4, ConcatProperties, StreamsTyped
<1>11. OfAsset \o Guarded("monitoring", "prometheus") \in Seq(Step)
  BY <1>3, <1>4, ConcatProperties, StreamsTyped
<1>12. /\ Guarded("knowledge", "documents") \in Seq(Step)
       /\ Guarded("ticketing", "servicenow") \in Seq(Step)
       /\ Guarded("cmdb", "servicenow_cmdb") \in Seq(Step)
  BY <1>3, StreamsTyped
<1>13. CiTickets \in Seq(Step)
  <2>1. "ticketing" \in Stream /\ "servicenow" \in Source
    BY StreamsTyped
  <2>2. Of("require", "ticketing", "servicenow") \in Step /\ Of("cis", "ticketing", "servicenow") \in Step
    BY <2>1, OfTyped DEF Doing
  <2> QED BY <2>2 DEF CiTickets
<1>14. <<On("describe", "ticketing")>> \in Seq(Step) /\ <<On("count", "cmdb")>> \in Seq(Step)
  BY OnTyped, StreamsTyped DEF Doing
<1> HIDE DEF Provider, Records, Guarded, OfAsset, AssetStatus, Assessment, Summary, CiTickets, On
<1> QED
  BY <1>1, <1>2, <1>5, <1>6, <1>7, <1>8, <1>9, <1>10, <1>11, <1>12, <1>13, <1>14
  DEF Steps, Kinds

(* The data of a source are parts of a result.                             *)
LEMMA DataTyped ==
  ASSUME NEW st \in Stream, NEW src \in Source, NEW rows \in DataOf(st, src)
  PROVE  rows \in SUBSET Part
<1>1. Brought(src) \subseteq Source \ {NoSource}
  BY StreamsTyped DEF Brought, NoSource
<1>2. CASE src = NoSource
  BY <1>2 DEF DataOf
<1>3. CASE src # NoSource
  BY <1>1, <1>3 DEF DataOf, Part
<1> QED BY <1>2, <1>3

LEMMA InventoryTyped == ASSUME NEW rows \in InventoryRows PROVE rows \in SUBSET Part
BY DataTyped, StreamsTyped DEF InventoryRows

----------------------------------------------------------------------------
(* What every step of a tool leaves alone: it changes neither whose        *)
(* request it executes nor whose data it may hold.                         *)
Tenanted == worker.result.tenant \in {0, worker.as}

ToolStep ==
  /\ worker.pc = "executing"
  /\ worker' \in Worker
  /\ worker'.pc = "executing" /\ worker'.as = worker.as /\ worker'.of = worker.of
  /\ Tenanted'
  /\ UNCHANGED ToolVars

LEMMA Moves ==
  ASSUME worker \in Worker, worker.pc = "executing", UNCHANGED ToolVars,
         NEW rest \in Seq(Step), NEW route \in Source, NEW result \in Result,
         result.tenant \in {0, worker.as},
         worker' = [worker EXCEPT !.rest = rest, !.route = route, !.result = result]
  PROVE  ToolStep
<1>1. worker' \in Worker
  BY DEF Worker
<1>2. /\ worker'.pc = "executing" /\ worker'.as = worker.as /\ worker'.of = worker.of
      /\ worker'.result = result
  BY DEF Worker
<1> QED BY <1>1, <1>2 DEF ToolStep, Tenanted

LEMMA Fields ==
  ASSUME worker \in Worker, worker.rest # <<>>
  PROVE  /\ TheStep \in Step
         /\ Tail(worker.rest) \in Seq(Step) /\ <<>> \in Seq(Step)
         /\ TheStep.stream \in Stream /\ TheStep.source \in Source
         /\ worker.route \in Source /\ worker.result \in Result
         /\ worker.result.parts \subseteq Part
<1>1. worker.rest \in Seq(Step)
  BY DEF Worker
<1>2. Head(worker.rest) \in Step /\ Tail(worker.rest) \in Seq(Step)
  BY <1>1, HeadTailProperties
<1>3. <<>> \in Seq(Step)
  BY EmptySeq
<1>4. worker.route \in Source /\ worker.result \in Result
  BY DEF Worker
<1> QED BY <1>2, <1>3, <1>4 DEF TheStep, Step, Result

LEMMA ProceedMoves ==
  ASSUME worker \in Worker, worker.pc = "executing", worker.rest # <<>>, Tenanted,
         UNCHANGED ToolVars, NEW parts \in SUBSET Part, Proceed(parts)
  PROVE  ToolStep
<1> DEFINE result == [worker.result EXCEPT !.parts = worker.result.parts \cup parts]
<1>1. result \in Result /\ result.tenant = worker.result.tenant
  BY Fields DEF Result
<1>2. worker' = [worker EXCEPT !.rest = Tail(worker.rest), !.route = worker.route,
                               !.result = result]
  BY DEF Proceed, Worker
<1> HIDE DEF result
<1> QED BY <1>1, <1>2, Fields, Moves DEF Tenanted

LEMMA RefusalTyped == Refusal \in Result /\ Empty \in Result /\ Refusal.tenant = 0 /\ ~Refusal.ok
<1>1. 0 \in 0 .. MaxIdentity /\ NoSource \in Source /\ {} \in SUBSET Part
  BY StreamsTyped, OperationalAssumption
<1> QED BY <1>1 DEF Refusal, Empty, Result

LEMMA RaisesMoves ==
  ASSUME worker \in Worker, worker.pc = "executing", worker.rest # <<>>, Tenanted,
         UNCHANGED ToolVars, Raises
  PROVE  ToolStep
<1>1. CASE ErrorOf(TheStep) \in TheStep.catches
  <2> DEFINE parts == {part \in worker.result.parts : part[1] # TheStep.stream}
             result == [worker.result EXCEPT !.parts = parts]
             rest == IF TheStep.do = "ask" THEN Tail(worker.rest) ELSE <<>>
  <2>1. result \in Result /\ result.tenant = worker.result.tenant
    BY Fields DEF Result
  <2>2. worker' = [worker EXCEPT !.rest = rest, !.route = worker.route, !.result = result]
    <3>1. worker' = [worker EXCEPT
             !.rest = IF TheStep.do = "ask" THEN Tail(worker.rest) ELSE <<>>,
             !.result.parts = parts]
      BY <1>1 DEF Raises
    <3>2. worker' = [worker EXCEPT !.rest = rest, !.result = result]
      BY <3>1
    <3> HIDE DEF result, rest
    <3> QED BY <3>2 DEF Worker
  <2>3. rest \in Seq(Step)
    BY Fields
  <2> HIDE DEF result, rest
  <2> QED BY <2>1, <2>2, <2>3, Fields, Moves DEF Tenanted
<1>2. CASE ErrorOf(TheStep) \notin TheStep.catches
  <2>1. Refusal \in Result /\ Refusal.tenant = 0
    BY RefusalTyped
  <2>2. worker' = [worker EXCEPT !.rest = <<>>, !.route = worker.route, !.result = Refusal]
    BY <1>2 DEF Raises, Worker
  <2> QED BY <2>1, <2>2, Fields, Moves
<1> QED BY <1>1, <1>2

LEMMA ExecutingMoves ==
  ASSUME OperationalTypeOK, Tenanted, Executing \/ StepFails
  PROVE  ToolStep
<1>0. worker \in Worker /\ active \in [Stream -> Source] /\ {} \in SUBSET Part
  BY DEF OperationalTypeOK
<1>1. ASSUME NEW do, Executes(do)
      PROVE  worker.pc = "executing" /\ worker.rest # <<>>
  BY <1>1 DEF Executes
<1>2. ASSUME worker.pc = "executing", worker.rest # <<>>
      PROVE  /\ TheirData \in SUBSET Part \/ TheStep.source = NoSource
             /\ FromActive(TheStep.stream) \in SUBSET Part
  BY <1>0, <1>2, Fields DEF TheirData, FromActive, Part, Selected
<1>3. CASE Require
  BY <1>0, <1>1, <1>3, ProceedMoves, RaisesMoves DEF Require
<1>4. CASE AskKnowledge
  <2> DEFINE result == [worker.result EXCEPT !.parts = worker.result.parts \cup TheirData,
                                             !.tenant = worker.as]
  <2>1. worker.pc = "executing" /\ worker.rest # <<>> /\ UNCHANGED ToolVars
    BY <1>4 DEF AskKnowledge, Asking, Executes
  <2>2. TheirData \in SUBSET Part
    BY <1>2, <1>4, <2>1 DEF AskKnowledge, Asking, NoSource
  <2>3. result \in Result /\ result.tenant = worker.as
    BY <1>0, <2>1, <2>2, Fields DEF Result, Worker
  <2>4. worker' = [worker EXCEPT !.rest = Tail(worker.rest), !.result = result]
    BY <1>4 DEF AskKnowledge
  <2> HIDE DEF result
  <2>5. worker' = [worker EXCEPT !.rest = Tail(worker.rest), !.route = worker.route,
                                 !.result = result]
    BY <1>0, <2>4 DEF Worker
  <2> QED BY <1>0, <2>1, <2>3, <2>5, Fields, Moves
<1>5. CASE AskServiceNow
  <2>1. TheirData \in SUBSET Part
    BY <1>1, <1>2, <1>5 DEF AskServiceNow, Asking, NoSource
  <2> QED BY <1>0, <1>1, <1>5, <2>1, ProceedMoves, RaisesMoves DEF AskServiceNow, Asking
<1>6. CASE AskPrometheus \/ AskLoki
  <2>1. TheirData \in SUBSET Part
    BY <1>1, <1>2, <1>6 DEF AskPrometheus, AskLoki, Asking, NoSource
  <2> QED BY <1>0, <1>1, <1>6, <2>1, ProceedMoves DEF AskPrometheus, AskLoki, Asking
<1>7. CASE List \/ Count
  <2>1. worker.pc = "executing" /\ worker.rest # <<>> /\ UNCHANGED ToolVars
    BY <1>7 DEF List, Count, Executes
  <2>2. PICK rows \in DataOf(TheStep.stream, active[TheStep.stream])
                      \cup {FromActive(TheStep.stream)} : Proceed(rows)
    BY <1>7 DEF List, Count
  <2>3. rows \in SUBSET Part
    BY <1>0, <1>2, <2>1, Fields, DataTyped
  <2> QED BY <1>0, <2>1, <2>2, <2>3, ProceedMoves
<1>8. CASE Find
  <2>1. worker.pc = "executing" /\ worker.rest # <<>> /\ UNCHANGED ToolVars
    BY <1>8 DEF Find, Executes
  <2>2. PICK rows \in DataOf(TheStep.stream, active[TheStep.stream]) \cup {{}} :
          \/ Proceed(rows)
          \/ worker' = [worker EXCEPT !.rest = <<>>, !.result.parts = rows]
    BY <1>8 DEF Find
  <2>3. rows \in SUBSET Part
    BY <1>0, <2>1, Fields, DataTyped
  <2>4. CASE Proceed(rows)
    BY <1>0, <2>1, <2>3, <2>4, ProceedMoves
  <2> DEFINE result == [worker.result EXCEPT !.parts = rows]
  <2>5. CASE worker' = [worker EXCEPT !.rest = <<>>, !.result.parts = rows]
    <3>1. result \in Result /\ result.tenant = worker.result.tenant
      BY <1>0, <2>1, <2>3, Fields DEF Result
    <3>2. worker' = [worker EXCEPT !.rest = <<>>, !.result = result]
      BY <2>5
    <3> HIDE DEF result
    <3>3. worker' = [worker EXCEPT !.rest = <<>>, !.route = worker.route, !.result = result]
      BY <1>0, <3>2 DEF Worker
    <3> QED BY <1>0, <2>1, <3>1, <3>3, Fields, Moves DEF Tenanted
  <2> QED BY <2>2, <2>4, <2>5
<1>9. CASE Relate \/ Review
  <2>1. worker.pc = "executing" /\ worker.rest # <<>> /\ UNCHANGED ToolVars
    BY <1>9 DEF Relate, Review, Executes
  <2>2. PICK rows \in InventoryRows \cup {{}} : Proceed(rows)
    BY <1>9 DEF Relate, Review
  <2> QED BY <1>0, <2>1, <2>2, InventoryTyped, ProceedMoves
<1>10. CASE Branch
  <2>1. worker.pc = "executing" /\ worker.rest # <<>> /\ UNCHANGED ToolVars
    BY <1>10 DEF Branch, Executes
  <2>2. CASE Proceed({})
    BY <1>0, <2>1, <2>2, ProceedMoves
  <2>3. ASSUME NEW rest \in {Provider, <<>>}, worker' = [worker EXCEPT !.rest = rest]
        PROVE  ToolStep
    <3>1. rest \in Seq(Step)
      BY <2>1, <1>0, Fields, StepsTyped DEF Kinds
    <3>2. worker' = [worker EXCEPT !.rest = rest, !.route = worker.route, !.result = worker.result]
      BY <1>0, <2>3 DEF Worker
    <3> QED BY <1>0, <2>1, <3>1, <3>2, Fields, Moves DEF Tenanted
  <2> QED BY <1>10, <2>2, <2>3 DEF Branch
<1>11. CASE Ensure
  BY <1>0, <1>1, <1>11, ProceedMoves, RaisesMoves DEF Ensure
<1>12. ASSUME worker.pc = "executing", worker.rest # <<>>, UNCHANGED ToolVars,
              worker' = [worker EXCEPT !.rest = Tail(@), !.route = active[TheStep.stream]]
       PROVE  ToolStep
  <2>1. worker' = [worker EXCEPT !.rest = Tail(worker.rest), !.route = active[TheStep.stream],
                                 !.result = worker.result]
    BY <1>0, <1>12 DEF Worker
  <2> QED BY <1>0, <1>12, <2>1, Fields, Moves DEF Tenanted
<1>13. CASE Route \/ ReadsOnce
  BY <1>0, <1>1, <1>12, <1>13, RaisesMoves DEF Route, ReadsOnce
<1>14. ASSUME NEW src \in {"zammad", "servicenow"}, AdapterOf(src)
       PROVE  ToolStep
  <2>1. {<<TheStep.stream, src>>} \in SUBSET Part
    BY <1>0, <1>1, <1>14, Fields, StreamsTyped DEF AdapterOf, Part, NoSource
  <2> QED BY <1>0, <1>1, <1>14, <2>1, ProceedMoves, RaisesMoves DEF AdapterOf
<1>15. CASE NoAdapter
  BY <1>0, <1>1, <1>15, ProceedMoves DEF NoAdapter
<1>16. CASE Label
  <2>1. worker.pc = "executing" /\ worker.rest # <<>> /\ UNCHANGED ToolVars
    BY <1>16 DEF Label, Executes
  <2>2. CASE Raises
    BY <1>0, <2>1, <2>2, RaisesMoves
  <2> DEFINE label == active[TheStep.stream]
             result == [worker.result EXCEPT !.label = label]
  <2>3. CASE worker' = [worker EXCEPT !.rest = Tail(@), !.result.label = label]
    <3>1. label \in Source
      BY <1>0, <2>1, Fields
    <3>2. result \in Result /\ result.tenant = worker.result.tenant
      BY <1>0, <2>1, <3>1, Fields DEF Result
    <3>3. worker' = [worker EXCEPT !.rest = Tail(worker.rest), !.result = result]
      BY <2>3
    <3> HIDE DEF result
    <3>4. worker' = [worker EXCEPT !.rest = Tail(worker.rest), !.route = worker.route,
                                   !.result = result]
      BY <1>0, <3>3 DEF Worker
    <3> QED BY <1>0, <2>1, <3>2, <3>4, Fields, Moves DEF Tenanted
  <2> QED BY <1>16, <2>2, <2>3 DEF Label
<1>17. CASE StepFails
  BY <1>0, <1>17, RaisesMoves DEF StepFails
<1>18. CASE AskCiTickets
  <2>1. worker.pc = "executing" /\ worker.rest # <<>> /\ UNCHANGED ToolVars
    BY <1>18 DEF AskCiTickets, Executes
  <2>2. CASE Raises
    BY <1>0, <2>1, <2>2, RaisesMoves
  <2>3. ASSUME NEW rows \in DataOf(TheStep.stream, TheStep.source), Proceed(rows)
        PROVE  ToolStep
    <3>1. rows \in SUBSET Part
      BY <1>0, <2>1, Fields, DataTyped
    <3> QED BY <1>0, <2>1, <2>3, <3>1, ProceedMoves
  <2> QED BY <1>18, <2>2, <2>3 DEF AskCiTickets
<1>19. CASE Describe
  BY <1>0, <1>1, <1>19, ProceedMoves DEF Describe
<1> QED
  BY <1>3, <1>4, <1>5, <1>6, <1>7, <1>8, <1>9, <1>10, <1>11, <1>13, <1>14, <1>15, <1>16, <1>17,
     <1>18, <1>19
  DEF Executing, ZammadAdapter, ServiceNowAdapter

----------------------------------------------------------------------------
(* The inductive invariant: what the worker carries belongs to the         *)
(* registration it loaded, it has one request or none, and it is recorded  *)
(* as started before anything is submitted.                                *)
Types == OperationalTypeOK

Single ==
  /\ worker.pc \in {"idle", "polling"} <=> worker.of = {}
  /\ \A q, r \in worker.of : q = r

Carried ==
  \A r \in worker.of :
    /\ rpc[r].of = worker.as
    /\ rpc[r].state # "none"
    /\ worker.pc \in {"claimed", "executing"} => rpc[r].state \in {"claimed", "expired"}
    /\ worker.pc = "executing" => "started" \in audit[r]
    /\ worker.pc = "sent" => rpc[r].state = "answered" /\ answer[r] = worker.result

Asked ==
  \A r \in Request :
    /\ rpc[r].state # "none" => rpc[r].tool \in Kinds
    /\ rpc[r].state = "none" => answer[r].tenant = 0

Inv ==
  /\ Types /\ Single /\ Carried /\ Asked /\ Tenanted
  /\ AuditAgrees /\ AnswersStayWithTenant

LEMMA Bounds == /\ MaxIdentity \in Nat /\ MaxSwitches \in Nat /\ MaxFaults \in Nat
                /\ \A r \in Request : Wanted[r] \subseteq Kinds
BY OperationalAssumption

LEMMA IdleTyped == Idle \in Worker /\ [Idle EXCEPT !.pc = "polling"] \in Worker
<1>1. 0 \in 0 .. MaxIdentity /\ NoSource \in Source /\ <<>> \in Seq(Step)
  BY StreamsTyped, Bounds, EmptySeq
<1>2. Empty \in Result
  BY RefusalTyped
<1> QED BY <1>1, <1>2 DEF Idle, Worker

(* The fields of an idle worker.                                           *)
LEMMA IdleFields ==
  /\ Idle.pc = "idle" /\ Idle.of = {} /\ Idle.as = 0 /\ Idle.result = Empty
  /\ Empty.tenant = 0
BY DEF Idle, Empty

LEMMA InitInv == OperationalInit => Inv
<1> SUFFICES ASSUME OperationalInit PROVE Inv
  OBVIOUS
<1>1. Types
  <2>1. rpc \in [Request -> [state : {"none", "waiting", "claimed", "answered", "expired"},
                             tool : Kinds \cup {"none"}, of : 0 .. MaxIdentity]]
    BY Bounds DEF OperationalInit
  <2>2. answer \in [Request -> Result]
    BY RefusalTyped DEF OperationalInit
  <2>3. registered \in 0 .. MaxIdentity /\ switches \in 0 .. MaxSwitches /\ faults \in 0 .. MaxFaults
    BY OperationalAssumption DEF OperationalInit
  <2>4. active \in [Stream -> Source] /\ \A st \in Stream : active[st] \in Sources[st] \cup {NoSource}
    BY OperationalAssumption DEF OperationalInit
  <2>5. worker \in Worker
    BY IdleTyped DEF OperationalInit
  <2>6. audit \in [Request -> SUBSET {"started", "succeeded", "failed"}]
    BY DEF OperationalInit
  <2>7. activeSince \subseteq Stream \X Source
    BY DEF OperationalInit
  <2> QED BY <2>1, <2>2, <2>3, <2>4, <2>5, <2>6, <2>7 DEF Types, OperationalTypeOK
<1>2. Single /\ Carried /\ Tenanted
  BY IdleFields DEF OperationalInit, Single, Carried, Tenanted
<1>3. Asked /\ AuditAgrees /\ AnswersStayWithTenant
  BY RefusalTyped DEF OperationalInit, Asked, AuditAgrees, AnswersStayWithTenant
<1> QED BY <1>1, <1>2, <1>3 DEF Inv

(* A step of the worker or a selection, which no request notices.          *)
LEMMA Unnoticed ==
  ASSUME Inv, UNCHANGED <<rpc, answer, audit>>,
         registered' \in 0 .. MaxIdentity,
         active' \in [Stream -> Source],
         \A st \in Stream : active'[st] \in Sources[st] \cup {NoSource},
         activeSince' \subseteq Stream \X Source,
         switches' \in 0 .. MaxSwitches, faults' \in 0 .. MaxFaults,
         worker' \in Worker,
         \/ UNCHANGED worker
         \/ worker'.pc \in {"idle", "polling"} /\ worker'.of = {} /\ worker'.result = Empty
  PROVE  Inv'
<1>1. Types'
  BY DEF Inv, Types, OperationalTypeOK
<1>2. Single' /\ Carried' /\ Tenanted'
  <2>1. CASE UNCHANGED worker
    BY <2>1 DEF Inv, Single, Carried, Tenanted
  <2>2. CASE worker'.pc \in {"idle", "polling"} /\ worker'.of = {} /\ worker'.result = Empty
    BY <2>2 DEF Single, Carried, Tenanted, Empty
  <2> QED BY <2>1, <2>2
<1>3. Asked' /\ AuditAgrees' /\ AnswersStayWithTenant'
  BY DEF Inv, Asked, AuditAgrees, AnswersStayWithTenant
<1> QED BY <1>1, <1>2, <1>3 DEF Inv

(* A fault is counted.                                                     *)
LEMMA FaultTyped == ASSUME Types, Fault PROVE faults' \in 0 .. MaxFaults /\ faults' = faults + 1
BY Bounds DEF Types, OperationalTypeOK, Fault

(* The actions of PEKA and the administrator.                              *)
LEMMA AsksInv ==
  ASSUME Inv, NEW r \in Request, NEW tool \in Wanted[r], Asks(r, tool)
  PROVE  Inv'
<1> DEFINE asked == [state |-> "waiting", tool |-> tool, of |-> registered]
<1>1. rpc' = [rpc EXCEPT ![r] = asked] /\ UNCHANGED <<answer, worker, audit>>
  BY DEF Asks
<1>2. tool \in Kinds /\ registered \in 0 .. MaxIdentity /\ rpc[r].state = "none"
  BY Bounds DEF Inv, Types, OperationalTypeOK, Asks
<1>3. asked.state = "waiting" /\ asked.tool = tool /\ asked.of = registered
  OBVIOUS
<1>4. asked \in [state : {"none", "waiting", "claimed", "answered", "expired"},
                 tool : Kinds \cup {"none"}, of : 0 .. MaxIdentity]
  BY <1>2
<1> HIDE DEF asked
<1>5. Types'
  BY <1>1, <1>4 DEF Inv, Types, OperationalTypeOK, Asks
<1>6. rpc'[r] = asked /\ \A q \in Request : q # r => rpc'[q] = rpc[q]
  BY <1>1 DEF Inv, Types, OperationalTypeOK
<1>7. worker.of \subseteq Request /\ r \notin worker.of
  BY <1>2 DEF Inv, Carried, Types, OperationalTypeOK, Worker
<1>8. Single' /\ Carried' /\ Tenanted'
  BY <1>1, <1>6, <1>7 DEF Inv, Single, Carried, Tenanted
<1>9. Asked' /\ AuditAgrees' /\ AnswersStayWithTenant'
  BY <1>1, <1>2, <1>3, <1>6 DEF Inv, Asked, AuditAgrees, AnswersStayWithTenant
<1> QED BY <1>5, <1>8, <1>9 DEF Inv

(* A request of which only the state changes.                              *)
LEMMA StateFields ==
  ASSUME Types, NEW r \in Request, NEW s, rpc' = [rpc EXCEPT ![r].state = s]
  PROVE  /\ rpc'[r].state = s /\ rpc'[r].tool = rpc[r].tool /\ rpc'[r].of = rpc[r].of
         /\ \A q \in Request : q # r => rpc'[q] = rpc[q]
         /\ s \in {"none", "waiting", "claimed", "answered", "expired"} =>
              rpc' \in [Request -> [state : {"none", "waiting", "claimed", "answered", "expired"},
                                    tool : Kinds \cup {"none"}, of : 0 .. MaxIdentity]]
<1>1. rpc' = [rpc EXCEPT ![r] = [rpc[r] EXCEPT !.state = s]]
  OBVIOUS
<1> QED BY <1>1 DEF Types, OperationalTypeOK

LEMMA ExpiresInv == ASSUME Inv, NEW r \in Request, Expires(r) PROVE Inv'
<1>1. rpc' = [rpc EXCEPT ![r].state = "expired"] /\ UNCHANGED <<answer, worker, audit>>
  BY DEF Expires
<1>2. Types /\ faults' \in 0 .. MaxFaults
  BY FaultTyped DEF Inv, Expires
<1>3. /\ rpc'[r].state = "expired" /\ rpc'[r].tool = rpc[r].tool /\ rpc'[r].of = rpc[r].of
      /\ \A q \in Request : q # r => rpc'[q] = rpc[q]
  BY <1>1, <1>2, StateFields
<1>4. Types'
  BY <1>1, <1>2, StateFields DEF Types, OperationalTypeOK, Expires
<1>5. worker.of \subseteq Request /\ rpc[r].state \in {"waiting", "claimed"}
  BY <1>2 DEF Types, OperationalTypeOK, Worker, Expires
<1>6. Single' /\ Carried' /\ Tenanted'
  BY <1>1, <1>3, <1>5 DEF Inv, Single, Carried, Tenanted
<1>7. Asked' /\ AuditAgrees' /\ AnswersStayWithTenant'
  BY <1>1, <1>3, <1>5 DEF Inv, Asked, AuditAgrees, AnswersStayWithTenant
<1> QED BY <1>4, <1>6, <1>7 DEF Inv

LEMMA SelectsInv ==
  ASSUME Inv, NEW st \in Stream, NEW src \in Sources[st] \cup {NoSource}, Selects(st, src)
  PROVE  Inv'
<1>1. Types /\ src \in Source
  BY StreamsTyped DEF Inv
<1>2. switches' \in 0 .. MaxSwitches /\ active' = [active EXCEPT ![st] = src]
  BY <1>1, Bounds DEF Types, OperationalTypeOK, Selects
<1>3. /\ active' \in [Stream -> Source]
      /\ \A q \in Stream : active'[q] \in Sources[q] \cup {NoSource}
  BY <1>1, <1>2 DEF Types, OperationalTypeOK
<1>4. activeSince' \subseteq Stream \X Source
  BY <1>1 DEF Types, OperationalTypeOK, Selects
<1>5. /\ registered' \in 0 .. MaxIdentity /\ faults' \in 0 .. MaxFaults /\ worker' \in Worker
      /\ UNCHANGED <<rpc, answer, audit, worker>>
  BY <1>1 DEF Types, OperationalTypeOK, Selects
<1> QED BY <1>2, <1>3, <1>4, <1>5, Unnoticed

LEMMA RegistersInv == ASSUME Inv, NEW k \in 0 .. MaxIdentity, Registers(k) PROVE Inv'
<1>1. Types
  BY DEF Inv
<1>2. switches' \in 0 .. MaxSwitches /\ registered' \in 0 .. MaxIdentity
  BY <1>1, Bounds DEF Types, OperationalTypeOK, Registers
<1>3. /\ active' \in [Stream -> Source]
      /\ \A q \in Stream : active'[q] \in Sources[q] \cup {NoSource}
      /\ activeSince' \subseteq Stream \X Source
      /\ faults' \in 0 .. MaxFaults /\ worker' \in Worker
      /\ UNCHANGED <<rpc, answer, audit, worker>>
  BY <1>1 DEF Types, OperationalTypeOK, Registers
<1> QED BY <1>2, <1>3, Unnoticed

(* The worker, with nothing at hand before or after.                       *)
LEMMA PollsInv == ASSUME Inv, Polls PROVE Inv'
<1>1. Types
  BY DEF Inv
<1>2. worker' \in Worker /\ worker'.pc = "polling" /\ worker'.of = {} /\ worker'.result = Empty
  <2>1. registered \in 0 .. MaxIdentity /\ worker' = [Idle EXCEPT !.pc = "polling", !.as = registered]
    BY <1>1 DEF Types, OperationalTypeOK, Polls
  <2>2. [Idle EXCEPT !.pc = "polling"] \in Worker
    BY IdleTyped
  <2> QED BY <2>1, <2>2, IdleTyped DEF Worker, Idle
<1>3. /\ registered' \in 0 .. MaxIdentity /\ active' \in [Stream -> Source]
      /\ \A q \in Stream : active'[q] \in Sources[q] \cup {NoSource}
      /\ activeSince' \subseteq Stream \X Source
      /\ switches' \in 0 .. MaxSwitches /\ faults' \in 0 .. MaxFaults
      /\ UNCHANGED <<rpc, answer, audit>>
  BY <1>1 DEF Types, OperationalTypeOK, Polls
<1> QED BY <1>2, <1>3, Unnoticed

LEMMA StopsInv == ASSUME Inv, NothingWaits \/ Breaks PROVE Inv'
<1>1. Types
  BY DEF Inv
<1>2. worker' \in Worker /\ worker'.pc = "idle" /\ worker'.of = {} /\ worker'.result = Empty
  BY IdleTyped, IdleFields DEF NothingWaits, Breaks
<1>3. faults' \in 0 .. MaxFaults
  <2>1. CASE NothingWaits
    BY <1>1, <2>1 DEF Types, OperationalTypeOK, NothingWaits
  <2>2. CASE Breaks
    BY <1>1, <2>2, FaultTyped DEF Breaks
  <2> QED BY <2>1, <2>2
<1>4. /\ registered' \in 0 .. MaxIdentity /\ active' \in [Stream -> Source]
      /\ \A q \in Stream : active'[q] \in Sources[q] \cup {NoSource}
      /\ activeSince' \subseteq Stream \X Source
      /\ switches' \in 0 .. MaxSwitches
      /\ UNCHANGED <<rpc, answer, audit>>
  BY <1>1 DEF Types, OperationalTypeOK, NothingWaits, Breaks
<1> QED BY <1>2, <1>3, <1>4, Unnoticed

(* A request is handed out.                                                *)
LEMMA ClaimsInv == ASSUME Inv, NEW r \in Request, Claims(r) PROVE Inv'
<1>1. Types /\ worker.pc = "polling" /\ rpc[r].of = worker.as /\ rpc[r].state = "waiting"
  BY DEF Inv, Claims, Waiting
<1>2. /\ rpc' = [rpc EXCEPT ![r].state = "claimed"] /\ UNCHANGED <<answer, audit>>
      /\ worker' = [worker EXCEPT !.pc = "claimed", !.of = {r}]
  BY DEF Claims
<1>3. /\ rpc'[r].state = "claimed" /\ rpc'[r].tool = rpc[r].tool /\ rpc'[r].of = rpc[r].of
      /\ \A q \in Request : q # r => rpc'[q] = rpc[q]
  BY <1>1, <1>2, StateFields
<1>4. /\ worker' \in Worker /\ worker'.pc = "claimed" /\ worker'.of = {r}
      /\ worker'.as = worker.as /\ worker'.result = worker.result
  BY <1>1, <1>2 DEF Types, OperationalTypeOK, Worker
<1>5. Types'
  BY <1>1, <1>2, <1>4, StateFields DEF Types, OperationalTypeOK, Claims, Selected
<1>6. Single' /\ Carried' /\ Tenanted'
  BY <1>1, <1>3, <1>4 DEF Inv, Single, Carried, Tenanted
<1>7. Asked' /\ AuditAgrees' /\ AnswersStayWithTenant'
  BY <1>1, <1>2, <1>3 DEF Inv, Asked, AuditAgrees, AnswersStayWithTenant
<1> QED BY <1>5, <1>6, <1>7 DEF Inv

LEMMA ClaimFailsInv == ASSUME Inv, ClaimFails PROVE Inv'
<1>1. Types /\ faults' \in 0 .. MaxFaults
  BY FaultTyped DEF Inv, ClaimFails
<1>2. worker' \in Worker /\ worker'.pc = "idle" /\ worker'.of = {} /\ worker'.result = Empty
  BY IdleTyped, IdleFields DEF ClaimFails
<1>3. /\ registered' \in 0 .. MaxIdentity /\ active' \in [Stream -> Source]
      /\ \A q \in Stream : active'[q] \in Sources[q] \cup {NoSource}
      /\ activeSince' \subseteq Stream \X Source
      /\ switches' \in 0 .. MaxSwitches
      /\ UNCHANGED <<answer, audit>>
  BY <1>1 DEF Types, OperationalTypeOK, ClaimFails
<1>4. CASE UNCHANGED rpc
  BY <1>1, <1>2, <1>3, <1>4, Unnoticed
<1>5. ASSUME NEW r \in Request, Waiting(r), rpc' = [rpc EXCEPT ![r].state = "claimed"]
      PROVE  Inv'
  <2>1. /\ rpc'[r].state = "claimed" /\ rpc'[r].tool = rpc[r].tool /\ rpc'[r].of = rpc[r].of
        /\ \A q \in Request : q # r => rpc'[q] = rpc[q]
    BY <1>1, <1>5, StateFields
  <2>2. Types'
    BY <1>1, <1>2, <1>3, <1>5, StateFields DEF Types, OperationalTypeOK
  <2>3. Single' /\ Carried' /\ Tenanted'
    BY <1>2 DEF Single, Carried, Tenanted, Empty
  <2>4. Asked' /\ AuditAgrees' /\ AnswersStayWithTenant'
    BY <1>3, <1>5, <2>1 DEF Inv, Asked, AuditAgrees, AnswersStayWithTenant, Waiting
  <2> QED BY <2>2, <2>3, <2>4 DEF Inv
<1> QED BY <1>4, <1>5 DEF ClaimFails

(* It is recorded as started, and its tool's steps are taken up.           *)
LEMMA StartsInv == ASSUME Inv, Starts PROVE Inv'
<1>1. Types /\ worker.pc = "claimed" /\ UNCHANGED <<rpc, answer>>
  BY DEF Inv, Starts
<1>2. PICK r \in worker.of : TRUE
  BY <1>1 DEF Inv, Single
<1>3. worker.of = {r} /\ r \in Request /\ rpc[r].state \in {"claimed", "expired"}
  BY <1>1, <1>2 DEF Inv, Single, Carried, Types, OperationalTypeOK, Worker
<1>4. Steps(rpc[r].tool) \in Seq(Step)
  BY <1>3, StepsTyped DEF Inv, Asked
<1>5. worker' = [worker EXCEPT !.pc = "executing", !.rest = Steps(rpc[r].tool)]
  BY <1>3 DEF Starts
<1>6. /\ worker' \in Worker /\ worker'.pc = "executing" /\ worker'.of = worker.of
      /\ worker'.as = worker.as /\ worker'.result = worker.result
  BY <1>1, <1>4, <1>5 DEF Types, OperationalTypeOK, Worker
<1>7. audit' = [q \in Request |-> IF q \in worker.of THEN {"started"} ELSE audit[q]]
  BY DEF Starts
<1>8. audit' \in [Request -> SUBSET {"started", "succeeded", "failed"}]
  BY <1>1, <1>7 DEF Types, OperationalTypeOK
<1>9. Types'
  BY <1>1, <1>6, <1>8 DEF Types, OperationalTypeOK, Starts
<1>10. Single' /\ Carried' /\ Tenanted'
  BY <1>1, <1>3, <1>6, <1>7 DEF Inv, Single, Carried, Tenanted
<1>11. Asked' /\ AuditAgrees' /\ AnswersStayWithTenant'
  BY <1>1, <1>3, <1>7 DEF Inv, Asked, AuditAgrees, AnswersStayWithTenant
<1> QED BY <1>9, <1>10, <1>11 DEF Inv

(* The tool's steps.                                                       *)
LEMMA ToolStepInv == ASSUME Inv, ToolStep PROVE Inv'
<1>1. Types /\ UNCHANGED <<rpc, answer, registered, active, activeSince, audit, switches, faults>>
  BY DEF Inv, ToolStep, ToolVars
<1>2. /\ worker.pc = "executing" /\ worker'.pc = "executing" /\ worker' \in Worker /\ Tenanted'
      /\ worker'.as = worker.as /\ worker'.of = worker.of
  BY DEF ToolStep
<1>3. Types'
  BY <1>1, <1>2 DEF Types, OperationalTypeOK
<1>4. Single' /\ Carried'
  BY <1>1, <1>2 DEF Inv, Single, Carried
<1>5. Asked' /\ AuditAgrees' /\ AnswersStayWithTenant'
  BY <1>1 DEF Inv, Asked, AuditAgrees, AnswersStayWithTenant
<1> QED BY <1>2, <1>3, <1>4, <1>5 DEF Inv

(* The result reaches PEKA, or does not.                                   *)
LEMMA AnsweredInv ==
  ASSUME Inv, NEW r \in Request, Finished, worker.of = {r},
         \/ /\ rpc[r].state = "claimed"
            /\ rpc' = [rpc EXCEPT ![r].state = "answered"]
            /\ answer' = [answer EXCEPT ![r] = worker.result]
         \/ UNCHANGED <<rpc, answer>>,
         NEW pc \in {"sent", "unsent"}, worker' = [worker EXCEPT !.pc = pc],
         pc = "sent" => rpc'[r].state = "answered" /\ answer' = [answer EXCEPT ![r] = worker.result],
         faults' \in 0 .. MaxFaults, UNCHANGED <<registered, active, activeSince, audit, switches>>
  PROVE  Inv'
<1>1. Types /\ worker.pc = "executing"
  BY DEF Inv, Finished
<1>2. /\ worker' \in Worker /\ worker'.pc = pc /\ worker'.of = {r}
      /\ worker'.as = worker.as /\ worker'.result = worker.result /\ worker.result \in Result
  BY <1>1 DEF Types, OperationalTypeOK, Worker
<1>3. /\ rpc[r].of = worker.as /\ rpc[r].state \in {"claimed", "expired"} /\ "started" \in audit[r]
  BY <1>1 DEF Inv, Carried
<1>4. CASE UNCHANGED <<rpc, answer>>
  <2>1. Types'
    BY <1>1, <1>2, <1>4 DEF Types, OperationalTypeOK
  <2>2. pc = "unsent"
    BY <1>3, <1>4
  <2>3. Single' /\ Carried' /\ Tenanted'
    BY <1>1, <1>2, <1>3, <1>4, <2>2 DEF Inv, Single, Carried, Tenanted
  <2>4. Asked' /\ AuditAgrees' /\ AnswersStayWithTenant'
    BY <1>4 DEF Inv, Asked, AuditAgrees, AnswersStayWithTenant
  <2> QED BY <2>1, <2>3, <2>4 DEF Inv
<1>5. CASE /\ rpc[r].state = "claimed"
           /\ rpc' = [rpc EXCEPT ![r].state = "answered"]
           /\ answer' = [answer EXCEPT ![r] = worker.result]
  <2>1. /\ rpc'[r].state = "answered" /\ rpc'[r].tool = rpc[r].tool /\ rpc'[r].of = rpc[r].of
        /\ \A q \in Request : q # r => rpc'[q] = rpc[q]
    BY <1>1, <1>5, StateFields
  <2>2. answer'[r] = worker.result /\ \A q \in Request : q # r => answer'[q] = answer[q]
    BY <1>1, <1>5 DEF Types, OperationalTypeOK
  <2>3. answer' \in [Request -> Result]
    BY <1>1, <1>2, <1>5 DEF Types, OperationalTypeOK
  <2>4. Types'
    BY <1>1, <1>2, <1>5, <2>3, StateFields DEF Types, OperationalTypeOK
  <2>5. Single' /\ Carried' /\ Tenanted'
    BY <1>1, <1>2, <1>3, <2>1, <2>2 DEF Inv, Single, Carried, Tenanted
  <2>6. Asked' /\ AuditAgrees' /\ AnswersStayWithTenant'
    <3>1. "succeeded" \notin audit[r] /\ worker.result.tenant \in {0, worker.as}
      BY <1>5 DEF Inv, AuditAgrees, Tenanted
    <3> QED BY <1>3, <2>1, <2>2, <3>1 DEF Inv, Asked, AuditAgrees, AnswersStayWithTenant
  <2> QED BY <2>4, <2>5, <2>6 DEF Inv
<1> QED BY <1>4, <1>5

LEMMA SubmitsInv == ASSUME Inv, NEW r \in Request, Submits(r) \/ SubmitFails(r) PROVE Inv'
<1>1. Types
  BY DEF Inv
<1>2. CASE Submits(r)
  <2>1. faults' \in 0 .. MaxFaults
    BY <1>1, <1>2 DEF Types, OperationalTypeOK, Submits
  <2>2. CASE rpc[r].state = "claimed"
    <3>1. rpc' = [rpc EXCEPT ![r].state = "answered"]
      BY <1>2, <2>2 DEF Submits
    <3>2. rpc'[r].state = "answered"
      BY <1>1, <3>1, StateFields
    <3> QED BY <1>2, <2>1, <2>2, <3>2, AnsweredInv DEF Submits
  <2>3. CASE rpc[r].state # "claimed"
    BY <1>2, <2>1, <2>3, AnsweredInv DEF Submits
  <2> QED BY <2>2, <2>3
<1>3. CASE SubmitFails(r)
  <2>1. faults' \in 0 .. MaxFaults
    BY <1>1, <1>3, FaultTyped DEF SubmitFails
  <2> QED BY <1>3, <2>1, AnsweredInv DEF SubmitFails
<1> QED BY <1>2, <1>3

(* The outcome is recorded.                                                *)
LEMMA RecordsOutcomeInv == ASSUME Inv, NEW r \in Request, RecordsOutcome(r) PROVE Inv'
<1> DEFINE outcome == IF worker.pc = "sent" /\ worker.result.ok THEN "succeeded" ELSE "failed"
<1>1. Types /\ worker.of = {r} /\ worker.pc \in {"sent", "unsent"}
  BY DEF Inv, RecordsOutcome
<1>2. /\ audit' = [audit EXCEPT ![r] = audit[r] \cup {outcome}] /\ worker' = Idle
      /\ UNCHANGED <<rpc, answer, registered, active, activeSince, switches, faults>>
  BY DEF RecordsOutcome
<1>3. outcome = "succeeded" => rpc[r].state = "answered" /\ answer[r].ok
  BY <1>1 DEF Inv, Carried
<1>4. outcome \in {"succeeded", "failed"}
  OBVIOUS
<1> HIDE DEF outcome
<1>5. audit'[r] = audit[r] \cup {outcome} /\ \A q \in Request : q # r => audit'[q] = audit[q]
  BY <1>1, <1>2 DEF Types, OperationalTypeOK
<1>6. audit' \in [Request -> SUBSET {"started", "succeeded", "failed"}]
  BY <1>1, <1>2, <1>4 DEF Types, OperationalTypeOK
<1>7. Types'
  BY <1>1, <1>2, <1>6, IdleTyped DEF Types, OperationalTypeOK
<1>8. Single' /\ Carried' /\ Tenanted'
  BY <1>2, IdleFields DEF Single, Carried, Tenanted
<1>9. Asked' /\ AuditAgrees' /\ AnswersStayWithTenant'
  BY <1>2, <1>3, <1>5 DEF Inv, Asked, AuditAgrees, AnswersStayWithTenant
<1> QED BY <1>7, <1>8, <1>9 DEF Inv

LEMMA StepInv == Inv /\ [OperationalNext]_otVars => Inv'
<1> SUFFICES ASSUME Inv, [OperationalNext]_otVars PROVE Inv'
  OBVIOUS
<1>1. ASSUME Executing \/ StepFails PROVE Inv'
  BY <1>1, ExecutingMoves, ToolStepInv DEF Inv, Types
<1>2. ASSUME Working PROVE Inv'
  BY <1>1, <1>2, ClaimsInv, StopsInv, StartsInv, SubmitsInv, RecordsOutcomeInv DEF Working
<1>3. ASSUME OperationalNext PROVE Inv'
  BY <1>1, <1>2, <1>3, AsksInv, ExpiresInv, SelectsInv, RegistersInv, PollsInv, ClaimFailsInv,
     StopsInv, SubmitsInv DEF OperationalNext
<1>4. ASSUME UNCHANGED otVars PROVE Inv'
  BY <1>4 DEF otVars, Inv, Types, OperationalTypeOK, Single, Carried, Asked, Tenanted,
              AuditAgrees, AnswersStayWithTenant
<1> QED BY <1>3, <1>4

----------------------------------------------------------------------------
(* What the worker owes is what it has claimed and not yet submitted.      *)
LEMMA OwedFacts ==
  ASSUME Inv
  PROVE  /\ Owed \subseteq worker.of /\ Owed \subseteq Request
         /\ \A q, r \in Owed : q = r
         /\ worker.pc \in {"idle", "polling", "sent", "unsent"} => Owed = {}
         /\ worker.pc \in {"claimed", "executing"} => Owed = worker.of
<1>1. worker \in Worker
  BY DEF Inv, Types, OperationalTypeOK
<1>2. Owed \subseteq worker.of /\ worker.of \subseteq Request
  BY <1>1 DEF Owed, Worker
<1> QED BY <1>1, <1>2 DEF Inv, Single, Owed

(* The variables of the service: a step that leaves them alone is none.    *)
LEMMA Stutters ==
  ASSUME UNCHANGED <<rpc, answer, faults>>, UNCHANGED Owed
  PROVE  UNCHANGED Service!vars
BY DEF Service!vars

(* A request of which only the state changes, seen from PEKA, and its      *)
(* answer.                                                                 *)
LEMMA BecomesService ==
  ASSUME NEW r \in Request, NEW s, rpc'[r].state = s, rpc'[r].of = rpc[r].of,
         \A q \in Request : q # r => rpc'[q] = rpc[q]
  PROVE  Service!Becomes(r, s) /\ UNCHANGED [q \in Request |-> rpc[q].of]
<1>1. \A q \in Request : rpc'[q].of = rpc[q].of
  OBVIOUS
<1>2. \A q \in Request : q # r => rpc'[q].state = rpc[q].state
  OBVIOUS
<1> QED BY <1>1, <1>2 DEF Service!Becomes

LEMMA StateService ==
  ASSUME Inv, NEW r \in Request, NEW s, rpc' = [rpc EXCEPT ![r].state = s]
  PROVE  Service!Becomes(r, s) /\ UNCHANGED [q \in Request |-> rpc[q].of]
<1>1. Types
  BY DEF Inv
<1>2. /\ rpc'[r].state = s /\ rpc'[r].tool = rpc[r].tool /\ rpc'[r].of = rpc[r].of
      /\ \A q \in Request : q # r => rpc'[q] = rpc[q]
  BY <1>1, StateFields
<1> QED BY <1>2, BecomesService

LEMMA GivenService ==
  ASSUME NEW r \in Request, NEW t, answer'[r].tenant = t,
         \A q \in Request : q # r => answer'[q] = answer[q]
  PROVE  [q \in Request |-> answer[q].tenant]'
           = [[q \in Request |-> answer[q].tenant] EXCEPT ![r] = t]
<1>1. \A q \in Request : q # r => answer'[q].tenant = answer[q].tenant
  OBVIOUS
<1> QED BY <1>1

LEMMA AnswersService ==
  ASSUME Inv, NEW r \in Request, worker.of = {r}, Finished,
         rpc[r].state = "claimed", rpc' = [rpc EXCEPT ![r].state = "answered"],
         answer' = [answer EXCEPT ![r] = worker.result]
  PROVE  Service!Arrives(r) /\ UNCHANGED [q \in Request |-> rpc[q].of]
<1>1. Service!Becomes(r, "answered") /\ UNCHANGED [q \in Request |-> rpc[q].of]
  BY StateService
<1>2. /\ answer'[r].tenant = worker.result.tenant
      /\ \A q \in Request : q # r => answer'[q] = answer[q]
  BY DEF Inv, Types, OperationalTypeOK
<1>3. worker.result.tenant \in {0, rpc[r].of} /\ Owed = {r}
  BY OwedFacts DEF Inv, Carried, Tenanted, Finished
<1>4. [q \in Request |-> answer[q].tenant]'
        = [[q \in Request |-> answer[q].tenant] EXCEPT ![r] = worker.result.tenant]
  BY <1>2, GivenService
<1> QED BY <1>1, <1>3, <1>4 DEF Service!Arrives

LEMMA InitService == OperationalInit => Service!Init
BY IdleFields, RefusalTyped DEF OperationalInit, Service!Init, Owed

LEMMA AsksService ==
  ASSUME Inv, NEW r \in Request, NEW tool \in Wanted[r], Asks(r, tool)
  PROVE  Service!Ask(r)
<1> DEFINE asked == [state |-> "waiting", tool |-> tool, of |-> registered]
           state == [q \in Request |-> rpc[q].state]
           tenant == [q \in Request |-> rpc[q].of]
<1>1. rpc' = [rpc EXCEPT ![r] = asked] /\ UNCHANGED <<answer, worker, faults>>
  BY DEF Asks
<1>2. rpc'[r] = asked /\ \A q \in Request : q # r => rpc'[q] = rpc[q]
  BY <1>1 DEF Inv, Types, OperationalTypeOK
<1>3. asked.state = "waiting" /\ asked.of = registered
  OBVIOUS
<1> HIDE DEF asked
<1>4. state' = [state EXCEPT ![r] = "waiting"] /\ tenant' = [tenant EXCEPT ![r] = registered]
  BY <1>2, <1>3
<1>5. registered \in 1 .. MaxIdentity /\ rpc[r].state = "none"
  BY Bounds DEF Asks, Inv, Types, OperationalTypeOK
<1>6. UNCHANGED <<[q \in Request |-> answer[q].tenant], Owed, faults>>
  BY <1>1 DEF Owed
<1> QED BY <1>4, <1>5, <1>6 DEF Service!Ask, Service!Becomes

LEMMA ExpiresService == ASSUME Inv, NEW r \in Request, Expires(r) PROVE Service!Expire(r)
<1>1. Service!Becomes(r, "expired") /\ UNCHANGED [q \in Request |-> rpc[q].of]
  BY StateService DEF Expires
<1>2. Service!Fault /\ rpc[r].state \in {"waiting", "claimed"}
  BY DEF Expires, Fault, Service!Fault
<1>3. UNCHANGED <<[q \in Request |-> answer[q].tenant], Owed>>
  BY DEF Expires, Owed
<1> QED BY <1>1, <1>2, <1>3 DEF Service!Expire

LEMMA ClaimsService == ASSUME Inv, NEW r \in Request, Claims(r) PROVE Service!Take(r)
<1>1. Service!Becomes(r, "claimed") /\ UNCHANGED [q \in Request |-> rpc[q].of]
  BY StateService DEF Claims
<1>2. rpc[r].state = "waiting" /\ Owed = {}
  BY OwedFacts DEF Claims, Waiting
<1>3. Owed' = {r}
  BY DEF Claims, Owed, Inv, Types, OperationalTypeOK, Worker
<1>4. UNCHANGED <<[q \in Request |-> answer[q].tenant], faults>>
  BY DEF Claims
<1> QED BY <1>1, <1>2, <1>3, <1>4 DEF Service!Take

LEMMA FailuresService ==
  ASSUME Inv, ClaimFails \/ Breaks \/ \E r \in Request : SubmitFails(r)
  PROVE  Service!Lose
<1>1. Service!Fault
  BY DEF ClaimFails, Breaks, SubmitFails, Fault, Service!Fault
<1>2. CASE Breaks
  <2>1. Owed' = {} /\ UNCHANGED <<rpc, answer>>
    BY <1>2, IdleFields DEF Breaks, Owed
  <2> QED BY <1>1, <2>1 DEF Service!Lose
<1>3. CASE ClaimFails
  <2>1. Owed = {} /\ Owed' = {} /\ UNCHANGED answer
    BY <1>3, IdleFields, OwedFacts DEF ClaimFails, Owed
  <2>2. CASE UNCHANGED rpc
    BY <1>1, <2>1, <2>2 DEF Service!Lose
  <2>3. ASSUME NEW r \in Request, Waiting(r), rpc' = [rpc EXCEPT ![r].state = "claimed"]
        PROVE  Service!Lose
    <3>1. Service!Becomes(r, "claimed") /\ UNCHANGED [q \in Request |-> rpc[q].of]
      BY <2>3, StateService
    <3>2. rpc[r].state = "waiting"
      BY <2>3 DEF Waiting
    <3> QED BY <1>1, <2>1, <3>1, <3>2 DEF Service!Lose
  <2> QED BY <1>3, <2>2, <2>3 DEF ClaimFails
<1>4. ASSUME NEW r \in Request, SubmitFails(r) PROVE Service!Lose
  <2>1. worker.of = {r} /\ Finished /\ Owed' = {}
    BY <1>4 DEF SubmitFails, Owed, Inv, Types, OperationalTypeOK, Worker
  <2>2. CASE UNCHANGED <<rpc, answer>>
    BY <1>1, <2>1, <2>2 DEF Service!Lose
  <2>3. CASE /\ rpc[r].state = "claimed"
             /\ rpc' = [rpc EXCEPT ![r].state = "answered"]
             /\ answer' = [answer EXCEPT ![r] = worker.result]
    <3>1. Service!Arrives(r) /\ UNCHANGED [q \in Request |-> rpc[q].of]
      BY <2>1, <2>3, AnswersService
    <3> QED BY <1>1, <2>1, <3>1 DEF Service!Lose
  <2> QED BY <1>4, <2>2, <2>3 DEF SubmitFails
<1> QED BY <1>2, <1>3, <1>4

LEMMA SubmitsService ==
  ASSUME Inv, NEW r \in Request, Submits(r)
  PROVE  Service!Answer(r) \/ Service!Late(r)
<1>1. worker.of = {r} /\ Finished /\ Owed = {r}
  BY OwedFacts DEF Submits, Finished
<1>2. Owed' = {}
  BY DEF Submits, Owed, Inv, Types, OperationalTypeOK, Worker
<1>3. CASE rpc[r].state = "claimed"
  <2>1. Service!Arrives(r) /\ UNCHANGED [q \in Request |-> rpc[q].of]
    BY <1>1, <1>3, AnswersService DEF Submits
  <2>2. UNCHANGED faults
    BY DEF Submits
  <2> QED BY <1>2, <2>1, <2>2 DEF Service!Answer
<1>4. CASE rpc[r].state # "claimed"
  <2>1. UNCHANGED <<rpc, answer, faults>>
    BY <1>4 DEF Submits
  <2>2. rpc[r].state = "expired"
    BY <1>1, <1>4 DEF Inv, Carried, Finished
  <2> QED BY <1>1, <1>2, <2>1, <2>2 DEF Service!Late
<1> QED BY <1>3, <1>4

LEMMA StepService ==
  ASSUME Inv, [OperationalNext]_otVars
  PROVE  [Service!Next]_(Service!vars)
<1>1. ASSUME Executing \/ StepFails PROVE UNCHANGED Service!vars
  <2>1. ToolStep
    BY <1>1, ExecutingMoves DEF Inv, Types
  <2> QED BY <2>1, Stutters DEF ToolStep, ToolVars, Owed
<1>2. ASSUME NothingWaits PROVE UNCHANGED Service!vars
  BY <1>2, IdleFields, OwedFacts, Stutters DEF NothingWaits, Owed
<1>3. ASSUME Starts PROVE UNCHANGED Service!vars
  <2>1. worker'.pc = "executing" /\ worker'.of = worker.of
    BY <1>3 DEF Starts, Inv, Types, OperationalTypeOK, Worker
  <2> QED BY <1>3, <2>1, Stutters DEF Starts, Owed
<1>4. ASSUME NEW r \in Request, RecordsOutcome(r) PROVE UNCHANGED Service!vars
  BY <1>4, IdleFields, OwedFacts, Stutters DEF RecordsOutcome, Owed
<1>5. ASSUME NEW st \in Stream, NEW src, Selects(st, src) PROVE UNCHANGED Service!vars
  BY <1>5, Stutters DEF Selects, Owed
<1>6. ASSUME NEW k, Registers(k) PROVE UNCHANGED Service!vars
  BY <1>6, Stutters DEF Registers, Owed
<1>7. ASSUME Polls PROVE UNCHANGED Service!vars
  <2>1. Owed = {} /\ Owed' = {}
    BY <1>7, IdleFields, OwedFacts DEF Polls, Owed, Idle
  <2> QED BY <1>7, <2>1, Stutters DEF Polls
<1>8. ASSUME Working PROVE [Service!Next]_(Service!vars)
  <2>1. CASE \E r \in Request : Claims(r)
    BY <2>1, ClaimsService DEF Service!Next
  <2>2. CASE \E r \in Request : Submits(r)
    BY <2>2, SubmitsService DEF Service!Next
  <2> QED BY <1>1, <1>2, <1>3, <1>4, <1>8, <2>1, <2>2 DEF Working
<1>9. ASSUME OperationalNext PROVE [Service!Next]_(Service!vars)
  <2>1. CASE \E r \in Request : \E tool \in Wanted[r] : Asks(r, tool)
    BY <2>1, AsksService DEF Service!Next
  <2>2. CASE \E r \in Request : Expires(r)
    BY <2>2, ExpiresService DEF Service!Next
  <2>3. CASE ClaimFails \/ Breaks \/ \E r \in Request : SubmitFails(r)
    BY <2>3, FailuresService DEF Service!Next
  <2> QED BY <1>1, <1>5, <1>6, <1>7, <1>8, <1>9, <2>1, <2>2, <2>3 DEF OperationalNext
<1>10. ASSUME UNCHANGED otVars PROVE UNCHANGED Service!vars
  BY <1>10, Stutters DEF otVars, Owed
<1> QED BY <1>9, <1>10

----------------------------------------------------------------------------
(* The types of OperationalTypeOK, which the tools' steps keep: a result   *)
(* holds parts of known sources, whatever a tool leaves out or repeats.    *)
THEOREM TypeCorrect == OperationalSpec => []OperationalTypeOK
<1>1. OperationalInit => Inv
  BY InitInv
<1>2. Inv /\ [OperationalNext]_otVars => Inv'
  BY StepInv
<1>3. Inv => OperationalTypeOK
  BY DEF Inv, Types
<1> QED BY <1>1, <1>2, <1>3, PTL DEF OperationalSpec

(* No answer holds documents of another tenant than the one whose          *)
(* registration was asked, however often the connector is registered anew  *)
(* while knowledge is searched.                                            *)
THEOREM TenantKept == OperationalSpec => []AnswersStayWithTenant
<1>1. OperationalInit => Inv
  BY InitInv
<1>2. Inv /\ [OperationalNext]_otVars => Inv'
  BY StepInv
<1>3. Inv => AnswersStayWithTenant
  BY DEF Inv
<1> QED BY <1>1, <1>2, <1>3, PTL DEF OperationalSpec

(* The audit view records a request before it is answered, and as          *)
(* succeeded only what PEKA has.                                           *)
THEOREM AuditTrue == OperationalSpec => []AuditAgrees
<1>1. OperationalInit => Inv
  BY InitInv
<1>2. Inv /\ [OperationalNext]_otVars => Inv'
  BY StepInv
<1>3. Inv => AuditAgrees
  BY DEF Inv
<1> QED BY <1>1, <1>2, <1>3, PTL DEF OperationalSpec

(* The tools implement the service PEKA relies on.                         *)
THEOREM Implements == OperationalSpec => ServesRequests
<1>1. OperationalInit => Inv
  BY InitInv
<1>2. Inv /\ [OperationalNext]_otVars => Inv'
  BY StepInv
<1>3. OperationalInit => Service!Init
  BY InitService
<1>4. Inv /\ [OperationalNext]_otVars => [Service!Next]_(Service!vars)
  BY StepService
<1> QED
  BY <1>1, <1>2, <1>3, <1>4, PTL DEF OperationalSpec, ServesRequests, Service!Spec

(* The requests PEKA waits for in vain are as many as the faults, at most: *)
(* each fault adds one at most, and nothing else adds any.                 *)
LostIsBounded == IsFiniteSet(Service!Lost) /\ Cardinality(Service!Lost) <= faults

LEMMA FaultsCounted == Inv /\ [OperationalNext]_otVars => faults' \in {faults, faults + 1}
BY DEF OperationalNext, otVars, Asks, Expires, Selects, Registers, Polls, Working, Claims,
       NothingWaits, Starts, Submits, RecordsOutcome, ClaimFails, Breaks, StepFails, SubmitFails,
       Executing, Require, AskKnowledge, AskServiceNow, AskCiTickets, Describe,
       AskPrometheus, AskLoki, Count, List, Find, Review,
       Relate, Branch, Ensure, Route, ReadsOnce, ZammadAdapter, ServiceNowAdapter, NoAdapter,
       Label, AdapterOf, ToolVars, Fault

LEMMA LostStep ==
  ASSUME Inv, [OperationalNext]_otVars
  PROVE  \/ Service!Lost' \subseteq Service!Lost
         \/ /\ faults' = faults + 1
            /\ \E r \in Request : Service!Lost' \subseteq Service!Lost \cup {r}
<1> DEFINE state == [r \in Request |-> rpc[r].state]
           tenant == [r \in Request |-> rpc[r].of]
           given == [r \in Request |-> answer[r].tenant]
<1>1. [Service!Next]_(Service!vars) /\ Owed \subseteq Request /\ \A q, r \in Owed : q = r
  BY OwedFacts, StepService
<1>2. \A r \in Request : r \in Service!Lost <=> state[r] = "claimed" /\ r \notin Owed
  BY DEF Service!Lost
<1>3. \A r \in Request : r \in Service!Lost' <=> state'[r] = "claimed" /\ r \notin Owed'
  BY DEF Service!Lost
<1>4. Service!Lost \subseteq Request /\ Service!Lost' \subseteq Request
  BY DEF Service!Lost
<1>5. ASSUME NEW r \in Request, NEW s, Service!Becomes(r, s)
      PROVE  state'[r] = s /\ \A q \in Request : q # r => state'[q] = state[q]
  BY <1>5 DEF Service!Becomes
<1>6. CASE UNCHANGED Service!vars
  BY <1>6 DEF Service!vars, Service!Lost
<1>7. ASSUME NEW r \in Request, Service!Ask(r) \/ Service!Take(r) \/ Service!Answer(r)
                                \/ Service!Late(r) \/ Service!Expire(r)
      PROVE  Service!Lost' \subseteq Service!Lost
  <2>1. CASE Service!Ask(r)
    <3>1. Service!Becomes(r, "waiting") /\ UNCHANGED Owed
      BY <2>1 DEF Service!Ask
    <3> HIDE DEF state, tenant, given
    <3> QED BY <1>2, <1>3, <1>4, <1>5, <3>1
  <2>2. CASE Service!Take(r)
    <3>1. Service!Becomes(r, "claimed") /\ Owed = {} /\ Owed' = {r}
      BY <2>2 DEF Service!Take
    <3> HIDE DEF state, tenant, given
    <3> QED BY <1>2, <1>3, <1>4, <1>5, <3>1
  <2>3. CASE Service!Answer(r)
    <3>1. Service!Becomes(r, "answered") /\ r \in Owed /\ Owed' = {}
      BY <2>3 DEF Service!Answer, Service!Arrives
    <3>2. Owed = {r}
      BY <1>1, <3>1
    <3> HIDE DEF state, tenant, given
    <3> QED BY <1>2, <1>3, <1>4, <1>5, <3>1, <3>2
  <2>4. CASE Service!Late(r)
    <3>1. state[r] = "expired" /\ UNCHANGED state /\ r \in Owed /\ Owed' = {}
      BY <2>4 DEF Service!Late
    <3>2. Owed = {r}
      BY <1>1, <3>1
    <3> HIDE DEF state, tenant, given
    <3> QED BY <1>2, <1>3, <1>4, <3>1, <3>2
  <2>5. CASE Service!Expire(r)
    <3>1. Service!Becomes(r, "expired") /\ UNCHANGED Owed
      BY <2>5 DEF Service!Expire
    <3> HIDE DEF state, tenant, given
    <3> QED BY <1>2, <1>3, <1>4, <1>5, <3>1
  <2> QED BY <1>7, <2>1, <2>2, <2>3, <2>4, <2>5
<1>8. CASE Service!Lose
  <2>1. faults' = faults + 1 /\ Owed' = {}
    BY <1>8 DEF Service!Lose, Service!Fault
  <2>2. CASE UNCHANGED state
    <3> HIDE DEF state, tenant, given
    <3>1. CASE Owed = {}
      BY <1>2, <1>3, <1>4, <2>1, <2>2, <3>1
    <3>2. CASE Owed # {}
      <4>1. PICK r \in Owed : TRUE
        BY <3>2
      <4>2. r \in Request /\ Owed = {r}
        BY <1>1, <4>1
      <4>3. Service!Lost' \subseteq Service!Lost \cup {r}
        BY <1>2, <1>3, <1>4, <2>1, <2>2, <4>2
      <4> QED BY <2>1, <4>2, <4>3
    <3> QED BY <3>1, <3>2
  <2>3. ASSUME NEW r \in Request, Service!Becomes(r, "claimed"), Owed = {}
        PROVE  Service!Lost' \subseteq Service!Lost \cup {r}
    <3> HIDE DEF state, tenant, given
    <3> QED BY <1>2, <1>3, <1>4, <1>5, <2>1, <2>3
  <2>4. ASSUME NEW r \in Request, Service!Arrives(r)
        PROVE  Service!Lost' \subseteq Service!Lost
    <3>1. Service!Becomes(r, "answered") /\ r \in Owed
      BY <2>4 DEF Service!Arrives
    <3>2. Owed = {r}
      BY <1>1, <3>1
    <3> HIDE DEF state, tenant, given
    <3> QED BY <1>2, <1>3, <1>4, <1>5, <2>1, <3>1, <3>2
  <2>5. \/ UNCHANGED state
        \/ \E r \in Request : Service!Becomes(r, "claimed") /\ Owed = {}
        \/ \E r \in Request : Service!Arrives(r)
    BY <1>8 DEF Service!Lose
  <2> HIDE DEF state
  <2> QED BY <2>1, <2>2, <2>3, <2>4, <2>5
<1> QED BY <1>1, <1>6, <1>7, <1>8 DEF Service!Next

LEMMA LostBounded == LostIsBounded /\ Inv /\ [OperationalNext]_otVars => LostIsBounded'
<1> SUFFICES ASSUME LostIsBounded, Inv, [OperationalNext]_otVars PROVE LostIsBounded'
  OBVIOUS
<1> DEFINE lost == Service!Lost
<1>1. IsFiniteSet(lost) /\ Cardinality(lost) \in Nat /\ Cardinality(lost) <= faults
  BY FS_CardinalityType DEF LostIsBounded
<1>2. faults \in Nat /\ faults' \in {faults, faults + 1}
  BY Bounds, FaultsCounted DEF Inv, Types, OperationalTypeOK
<1>3. CASE lost' \subseteq lost
  <2>1. IsFiniteSet(lost') /\ Cardinality(lost') <= Cardinality(lost) /\ Cardinality(lost') \in Nat
    BY <1>1, <1>3, FS_Subset, FS_CardinalityType
  <2> HIDE DEF lost
  <2>2. Cardinality(lost') <= faults'
    BY <1>1, <1>2, <2>1
  <2> QED BY <2>1, <2>2 DEF LostIsBounded, lost
<1>4. ASSUME NEW r \in Request, lost' \subseteq lost \cup {r}, faults' = faults + 1
      PROVE  LostIsBounded'
  <2>1. /\ IsFiniteSet(lost \cup {r})
        /\ Cardinality(lost \cup {r}) \in {Cardinality(lost), Cardinality(lost) + 1}
    BY <1>1, FS_AddElement
  <2>2. /\ IsFiniteSet(lost') /\ Cardinality(lost') <= Cardinality(lost \cup {r})
        /\ Cardinality(lost') \in Nat
    BY <1>4, <2>1, FS_Subset, FS_CardinalityType
  <2> HIDE DEF lost
  <2>3. Cardinality(lost') <= faults'
    BY <1>1, <1>2, <1>4, <2>1, <2>2
  <2> QED BY <2>2, <2>3 DEF LostIsBounded, lost
<1> QED BY <1>3, <1>4, LostStep

(* Whatever a tool meets, and whatever is selected, registered or expires  *)
(* in the meantime, its request is answered unless a fault has hit it.     *)
THEOREM LossesAreFaults == OperationalSpec => []OnlyFaultsLoseRequests
<1>1. OperationalInit => Inv /\ LostIsBounded
  <2>1. ASSUME OperationalInit PROVE LostIsBounded
    <3>1. Service!Lost = {}
      BY <2>1 DEF OperationalInit, Service!Lost
    <3>2. faults = 0
      BY <2>1 DEF OperationalInit
    <3> QED BY <3>1, <3>2, FS_EmptySet DEF LostIsBounded
  <2> QED BY <2>1, InitInv
<1>2. Inv /\ LostIsBounded /\ [OperationalNext]_otVars => (Inv /\ LostIsBounded)'
  BY LostBounded, StepInv
<1>3. Inv /\ LostIsBounded => OnlyFaultsLoseRequests
  <2> SUFFICES ASSUME Inv, LostIsBounded PROVE OnlyFaultsLoseRequests
    OBVIOUS
  <2> DEFINE stray == {r \in Request : rpc[r].state = "claimed" /\ r \notin worker.of}
  <2>1. stray \subseteq Service!Lost
    BY OwedFacts DEF Service!Lost
  <2>2. IsFiniteSet(Service!Lost) /\ Cardinality(Service!Lost) <= faults /\ faults \in Nat
    BY Bounds DEF LostIsBounded, Inv, Types, OperationalTypeOK
  <2>3. /\ IsFiniteSet(stray) /\ Cardinality(stray) <= Cardinality(Service!Lost)
        /\ Cardinality(stray) \in Nat /\ Cardinality(Service!Lost) \in Nat
    BY <2>1, <2>2, FS_Subset, FS_CardinalityType
  <2> HIDE DEF stray
  <2>4. Cardinality(stray) <= faults
    BY <2>2, <2>3
  <2> QED BY <2>4 DEF OnlyFaultsLoseRequests, stray
<1> QED BY <1>1, <1>2, <1>3, PTL DEF OperationalSpec

----------------------------------------------------------------------------
(* Where the data comes from.  A step that asks a service which does not   *)
(* check the selection of its stream itself relies on the step before it,  *)
(* which vouches for the source.                                           *)
Relies(step) ==
  \/ step.do \in {"adapter", "cis"}
  \/ step.do = "ask" /\ step.source \notin {"prometheus", "loki"}

Vouches(before, step) ==
  /\ before.stream = step.stream
  /\ IF step.do = "adapter" THEN before.do \in {"route", "select"}
                            ELSE before.do = "require" /\ before.source = step.source

FromItsStream(step) == step.do = "ask" => step.source \in Sources[step.stream]

Sound(steps) ==
  \A n \in 1 .. Len(steps) :
    /\ FromItsStream(steps[n])
    /\ Relies(steps[n]) => n > 1 /\ Vouches(steps[n - 1], steps[n])

LEMMA SoundConcat ==
  ASSUME NEW s \in Seq(Step), NEW t \in Seq(Step), Sound(s), Sound(t)
  PROVE  Sound(s \o t)
<1>1. /\ Len(s) \in Nat /\ Len(t) \in Nat /\ Len(s \o t) = Len(s) + Len(t)
      /\ \A n \in 1 .. Len(s) + Len(t) :
           (s \o t)[n] = IF n <= Len(s) THEN s[n] ELSE t[n - Len(s)]
  BY LenProperties, ConcatProperties
<1> SUFFICES ASSUME NEW n \in 1 .. Len(s) + Len(t)
             PROVE  /\ FromItsStream((s \o t)[n])
                    /\ Relies((s \o t)[n]) => n > 1 /\ Vouches((s \o t)[n - 1], (s \o t)[n])
  BY <1>1 DEF Sound
<1>2. CASE n <= Len(s)
  <2>1. (s \o t)[n] = s[n] /\ n \in 1 .. Len(s) /\ (n > 1 => (s \o t)[n - 1] = s[n - 1])
    BY <1>1, <1>2
  <2> QED BY <2>1 DEF Sound
<1>3. CASE n > Len(s)
  <2> DEFINE m == n - Len(s)
  <2>1. m \in 1 .. Len(t) /\ (s \o t)[n] = t[m] /\ (m > 1 => (s \o t)[n - 1] = t[m - 1] /\ n > 1)
    BY <1>1, <1>3
  <2> HIDE DEF m
  <2> QED BY <2>1 DEF Sound
<1> QED BY <1>1, <1>2, <1>3

LEMMA SoundCatching ==
  ASSUME NEW errors \in SUBSET Source, NEW steps \in Seq(Step), Sound(steps)
  PROVE  Sound(Catching(errors, steps))
<1> DEFINE caught == Catching(errors, steps)
<1>1. steps \in [1 .. Len(steps) -> Step] /\ Len(steps) \in Nat /\ DOMAIN steps = 1 .. Len(steps)
  BY LenProperties
<1>2. caught \in Seq(Step)
  BY CatchingTyped
<1>3. DOMAIN caught = 1 .. Len(steps)
  BY <1>1 DEF Catching
<1>4. Len(caught) = Len(steps)
  BY <1>1, <1>2, <1>3, LenProperties
<1>5. \A n \in 1 .. Len(steps) : /\ caught[n].do = steps[n].do
                                 /\ caught[n].stream = steps[n].stream
                                 /\ caught[n].source = steps[n].source
  BY <1>1 DEF Catching, Step
<1> HIDE DEF caught
<1>6. \A n \in 1 .. Len(steps) : /\ FromItsStream(caught[n]) <=> FromItsStream(steps[n])
                                 /\ Relies(caught[n]) <=> Relies(steps[n])
  BY <1>5 DEF FromItsStream, Relies
<1>7. \A n \in 1 .. Len(steps) :
        n > 1 => (Vouches(caught[n - 1], caught[n]) <=> Vouches(steps[n - 1], steps[n]))
  BY <1>1, <1>5 DEF Vouches
<1> QED BY <1>1, <1>4, <1>6, <1>7 DEF Sound, caught

(* One step, or two of which the first vouches for the second.             *)
LEMMA SoundOne == ASSUME NEW p \in Step, ~Relies(p), FromItsStream(p) PROVE Sound(<<p>>)
BY DEF Sound

LEMMA SoundTwo ==
  ASSUME NEW p \in Step, NEW q \in Step, ~Relies(p), FromItsStream(p), FromItsStream(q),
         Relies(q) => Vouches(p, q)
  PROVE  Sound(<<p, q>>)
BY DEF Sound

LEMMA SoundOn ==
  /\ \A do \in Doing, st \in Stream :
       do \notin {"ask", "adapter", "cis"} => ~Relies(On(do, st)) /\ FromItsStream(On(do, st))
  /\ \A st \in Stream, do \in {"route", "select"} :
       Vouches(On(do, st), On("adapter", st)) /\ FromItsStream(On("adapter", st))
BY DEF On, Relies, FromItsStream, Vouches

LEMMA SoundGuarded ==
  ASSUME NEW st \in Stream, NEW src \in Sources[st]
  PROVE  Sound(Guarded(st, src)) /\ Guarded(st, src) \in Seq(Step)
<1>1. Of("require", st, src) \in Step /\ Of("ask", st, src) \in Step
  BY OfTyped, StreamsTyped DEF Doing
<1>2. /\ ~Relies(Of("require", st, src))
      /\ FromItsStream(Of("require", st, src)) /\ FromItsStream(Of("ask", st, src))
  BY DEF Of, On, Relies, FromItsStream
<1>3. Vouches(Of("require", st, src), Of("ask", st, src))
  BY DEF Of, On, Vouches
<1> QED BY <1>1, <1>2, <1>3, SoundTwo DEF Guarded

LEMMA SoundCiTickets == Sound(CiTickets)
<1> DEFINE require == Of("require", "ticketing", "servicenow")
           cis == Of("cis", "ticketing", "servicenow")
<1>1. require \in Step /\ cis \in Step
  BY OfTyped, StreamsTyped DEF Doing
<1>2. ~Relies(require) /\ FromItsStream(require) /\ FromItsStream(cis) /\ Vouches(require, cis)
  BY DEF Of, On, Relies, FromItsStream, Vouches
<1> QED BY <1>1, <1>2, SoundTwo DEF CiTickets

LEMMA SoundSteps == Sound(Provider) /\ \A tool \in Kinds : Sound(Steps(tool))
<1>1. \A do \in Doing, st \in Stream : On(do, st) \in Step
  BY OnTyped
<1>2. Sound(Provider)
  <2>1. Provider = <<On("route", "ticketing"), On("adapter", "ticketing")>>
                     \o <<On("label", "ticketing")>>
    BY <1>1, StreamsTyped DEF Provider, Doing
  <2>2. Sound(<<On("route", "ticketing"), On("adapter", "ticketing")>>)
    BY <1>1, SoundOn, SoundTwo, StreamsTyped DEF Doing
  <2>3. Sound(<<On("label", "ticketing")>>)
    BY <1>1, SoundOn, SoundOne, StreamsTyped DEF Doing
  <2>4. /\ <<On("route", "ticketing"), On("adapter", "ticketing")>> \in Seq(Step)
        /\ <<On("label", "ticketing")>> \in Seq(Step)
    BY <1>1, StreamsTyped DEF Doing
  <2> QED BY <2>1, <2>2, <2>3, <2>4, SoundConcat
<1>3. Sound(Records) /\ Records \in Seq(Step)
  <2>1. Sound(<<On("select", "ticketing"), On("adapter", "ticketing")>>)
    BY <1>1, SoundOn, SoundTwo, StreamsTyped DEF Doing
  <2>2. <<On("select", "ticketing"), On("adapter", "ticketing")>> \in Seq(Step)
    BY <1>1, StreamsTyped DEF Doing
  <2> QED BY <2>1, <2>2, SoundCatching, CatchingTyped, StreamsTyped DEF Records
<1>4. Sound(OfAsset) /\ OfAsset \in Seq(Step)
  BY <1>1, SoundOn, SoundTwo, StreamsTyped DEF Doing, OfAsset
<1>5. /\ "documents" \in Sources["knowledge"] /\ "servicenow" \in Sources["ticketing"]
      /\ "servicenow_cmdb" \in Sources["cmdb"] /\ "loki" \in Sources["logs"]
      /\ "prometheus" \in Sources["monitoring"]
  BY DEF Sources
<1>6. Sound(OfAsset \o Guarded("logs", "loki"))
  BY <1>4, <1>5, SoundGuarded, SoundConcat, StreamsTyped
<1>7. /\ Sound(OfAsset \o Guarded("monitoring", "prometheus"))
      /\ OfAsset \o Guarded("monitoring", "prometheus") \in Seq(Step)
  BY <1>4, <1>5, SoundGuarded, SoundConcat, ConcatProperties, StreamsTyped
<1>8. Sound(AssetStatus)
  <2>1. /\ Sound(Catching({"loki"}, Guarded("logs", "loki")))
        /\ Catching({"loki"}, Guarded("logs", "loki")) \in Seq(Step)
    BY <1>5, SoundGuarded, SoundCatching, CatchingTyped, StreamsTyped
  <2>2. Provider \in Seq(Step)
    BY StepsTyped DEF Kinds
  <2>3. Sound(Catching({"zammad"}, Provider)) /\ Catching({"zammad"}, Provider) \in Seq(Step)
    BY <1>2, <2>2, SoundCatching, CatchingTyped, StreamsTyped
  <2>4. Sound(<<On("review", "cmdb")>>) /\ <<On("review", "cmdb")>> \in Seq(Step)
    BY <1>1, SoundOn, SoundOne, StreamsTyped DEF Doing
  <2>5. /\ Sound(OfAsset \o Guarded("monitoring", "prometheus") \o <<On("review", "cmdb")>>)
        /\ OfAsset \o Guarded("monitoring", "prometheus") \o <<On("review", "cmdb")>> \in Seq(Step)
    BY <1>7, <2>4, SoundConcat, ConcatProperties
  <2>6. /\ Sound(OfAsset \o Guarded("monitoring", "prometheus") \o <<On("review", "cmdb")>>
                   \o Catching({"loki"}, Guarded("logs", "loki")))
        /\ OfAsset \o Guarded("monitoring", "prometheus") \o <<On("review", "cmdb")>>
             \o Catching({"loki"}, Guarded("logs", "loki")) \in Seq(Step)
    BY <2>1, <2>5, SoundConcat, ConcatProperties
  <2> QED BY <2>3, <2>6, SoundConcat DEF AssetStatus
<1>9. Sound(Assessment)
  <2>1. /\ Sound(<<On("list", "cmdb")>>) /\ <<On("list", "cmdb")>> \in Seq(Step)
    BY <1>1, SoundOn, SoundOne, StreamsTyped DEF Doing
  <2>2. Of("ask", "logs", "loki") \in Step
    BY OfTyped, StreamsTyped DEF Doing
  <2>3. ~Relies(Of("ask", "logs", "loki")) /\ FromItsStream(Of("ask", "logs", "loki"))
    BY <1>5 DEF Of, On, Relies, FromItsStream
  <2>4. Sound(<<Of("ask", "logs", "loki")>>) /\ <<Of("ask", "logs", "loki")>> \in Seq(Step)
    BY <2>2, <2>3, SoundOne
  <2>5. /\ Sound(Catching({"loki"}, <<Of("ask", "logs", "loki")>>))
        /\ Catching({"loki"}, <<Of("ask", "logs", "loki")>>) \in Seq(Step)
    BY <2>4, SoundCatching, CatchingTyped, StreamsTyped
  <2>6. /\ Sound(<<On("list", "cmdb")>> \o Catching({"loki"}, <<Of("ask", "logs", "loki")>>))
        /\ <<On("list", "cmdb")>> \o Catching({"loki"}, <<Of("ask", "logs", "loki")>>) \in Seq(Step)
    BY <2>1, <2>5, SoundConcat, ConcatProperties
  <2> QED BY <1>3, <2>6, SoundConcat DEF Assessment
<1>10. /\ Sound(<<On("list", "cmdb"), On("name", "cmdb")>>)
       /\ Sound(<<On("count", "cmdb"), On("name", "cmdb")>>)
       /\ <<On("count", "cmdb"), On("name", "cmdb")>> \in Seq(Step)
       /\ Sound(<<On("count", "cmdb"), On("count", "cmdb")>>)
       /\ <<On("count", "cmdb"), On("count", "cmdb")>> \in Seq(Step)
  BY <1>1, SoundOn, SoundTwo, StreamsTyped DEF Doing
<1>11. Sound(Summary)
  <2>1. Summary = <<On("count", "cmdb"), On("count", "cmdb")>>
                    \o <<On("count", "cmdb"), On("name", "cmdb")>>
    BY <1>1, StreamsTyped DEF Summary, Doing
  <2> QED BY <1>10, <2>1, SoundConcat
<1>12. Sound(<<On("ensure", "ticketing")>> \o Provider)
  <2>1. Sound(<<On("ensure", "ticketing")>>) /\ <<On("ensure", "ticketing")>> \in Seq(Step)
    BY <1>1, SoundOn, SoundOne, StreamsTyped DEF Doing
  <2>2. Provider \in Seq(Step)
    BY StepsTyped DEF Kinds
  <2> QED BY <1>2, <2>1, <2>2, SoundConcat
<1>13. /\ Sound(<<On("find", "cmdb")>>)
       /\ Sound(<<On("find", "cmdb"), On("relate", "cmdb")>>)
  BY <1>1, SoundOn, SoundOne, SoundTwo, StreamsTyped DEF Doing
<1>14. /\ Sound(Guarded("knowledge", "documents")) /\ Sound(Guarded("ticketing", "servicenow"))
       /\ Sound(Guarded("cmdb", "servicenow_cmdb"))
  BY <1>5, SoundGuarded, StreamsTyped
<1>15. Sound(<<On("describe", "ticketing")>>) /\ Sound(<<On("count", "cmdb")>>)
  BY <1>1, SoundOn, SoundOne, StreamsTyped DEF Doing
<1> HIDE DEF Provider, Records, Guarded, OfAsset, AssetStatus, Assessment, Summary, CiTickets,
             On, Sound
<1> QED
  BY <1>2, <1>3, <1>6, <1>7, <1>8, <1>9, <1>10, <1>11, <1>12, <1>13, <1>14, <1>15, SoundCiTickets
  DEF Steps, Kinds

(* The invariant: a step that relies on the one before it has it before    *)
(* it, or, at the head, what that one read was selected since the claim.   *)
Trusted(step, route) ==
  /\ step.do \in {"ask", "cis"} => <<step.stream, step.source>> \in activeSince
  /\ step.do = "adapter" /\ route # NoSource => <<step.stream, route>> \in activeSince

Backed ==
  \A n \in 1 .. Len(worker.rest) :
    /\ FromItsStream(worker.rest[n])
    /\ Relies(worker.rest[n]) =>
         IF n = 1 THEN Trusted(worker.rest[n], worker.route)
                  ELSE Vouches(worker.rest[n - 1], worker.rest[n])

Since == \A st \in Stream : Selected(st) \in activeSince

Sourced ==
  /\ worker.pc \in {"polling", "claimed"} => worker.result = Empty
  /\ worker.pc \in {"claimed", "executing", "sent", "unsent"} => Since
  /\ worker.pc = "executing" => Backed
  /\ AnswersThroughSelected

LEMMA HeadBacked ==
  ASSUME worker \in Worker, worker.rest # <<>>, Backed
  PROVE  /\ TheStep.do = "ask" => TheStep.source \in Sources[TheStep.stream]
         /\ Relies(TheStep) => Trusted(TheStep, worker.route)
<1>1. worker.rest \in Seq(Step)
  BY DEF Worker
<1>2. 1 \in 1 .. Len(worker.rest) /\ TheStep = worker.rest[1]
  BY <1>1 DEF TheStep
<1> QED BY <1>2 DEF Backed, FromItsStream

(* The tool goes on with the next step.                                    *)
LEMMA TailBacked ==
  ASSUME worker \in Worker, worker.rest # <<>>, Backed, UNCHANGED activeSince,
         worker'.rest = Tail(worker.rest),
         \A step \in Step : Relies(step) /\ Vouches(TheStep, step) => Trusted(step, worker'.route)
  PROVE  Backed'
<1>1. worker.rest \in Seq(Step)
  BY DEF Worker
<1> DEFINE rest == worker.rest
           tail == Tail(worker.rest)
<1>2. /\ Len(rest) \in Nat /\ Len(rest) > 0 /\ Len(tail) = Len(rest) - 1 /\ TheStep = rest[1]
      /\ \A n \in 1 .. Len(rest) - 1 : tail[n] = rest[n + 1]
      /\ \A n \in 1 .. Len(rest) : rest[n] \in Step
  BY <1>1 DEF TheStep
<1> HIDE DEF rest, tail
<1> SUFFICES ASSUME NEW n \in 1 .. Len(tail)
             PROVE  /\ FromItsStream(tail[n])
                    /\ Relies(tail[n]) => IF n = 1 THEN Trusted(tail[n], worker'.route)
                                                   ELSE Vouches(tail[n - 1], tail[n])
  BY DEF Backed, Trusted, tail
<1>3. n + 1 \in 1 .. Len(rest) /\ n + 1 # 1 /\ (n + 1) - 1 = n /\ tail[n] = rest[n + 1]
  BY <1>2
<1>4. FromItsStream(tail[n]) /\ (Relies(tail[n]) => Vouches(rest[n], tail[n]))
  BY <1>3 DEF Backed, rest
<1>5. CASE n = 1
  <2>1. tail[n] \in Step /\ rest[n] = TheStep
    BY <1>2, <1>3, <1>5
  <2> QED BY <1>4, <1>5, <2>1
<1>6. CASE n # 1
  <2>1. tail[n - 1] = rest[n]
    BY <1>2, <1>6
  <2> QED BY <1>4, <1>6, <2>1
<1> QED BY <1>5, <1>6

LEMMA EmptyBacked == ASSUME worker'.rest = <<>> PROVE Backed'
BY DEF Backed

LEMMA SoundBacked == ASSUME Sound(worker'.rest) PROVE Backed'
BY DEF Backed, Sound

(* What the two outcomes of a step do to its result.                       *)
LEMMA ProceedFields ==
  ASSUME worker \in Worker, worker.rest # <<>>, NEW parts \in SUBSET Part, Proceed(parts)
  PROVE  /\ worker'.rest = Tail(worker.rest) /\ worker'.route = worker.route
         /\ worker'.result.parts = worker.result.parts \cup parts
<1> DEFINE result == [worker.result EXCEPT !.parts = worker.result.parts \cup parts]
<1>1. result.parts = worker.result.parts \cup parts
  BY Fields DEF Result
<1>2. worker' = [worker EXCEPT !.rest = Tail(worker.rest), !.result = result]
  BY DEF Proceed
<1> HIDE DEF result
<1> QED BY <1>1, <1>2 DEF Worker

LEMMA RaisesFields ==
  ASSUME worker \in Worker, worker.rest # <<>>, Raises
  PROVE  /\ \/ worker'.rest = Tail(worker.rest) /\ TheStep.do = "ask"
            \/ worker'.rest = <<>>
         /\ worker'.result.parts \subseteq worker.result.parts
<1>1. CASE ErrorOf(TheStep) \in TheStep.catches
  <2> DEFINE parts == {part \in worker.result.parts : part[1] # TheStep.stream}
             result == [worker.result EXCEPT !.parts = parts]
             rest == IF TheStep.do = "ask" THEN Tail(worker.rest) ELSE <<>>
  <2>1. result.parts = parts
    BY Fields DEF Result
  <2>2. worker' = [worker EXCEPT
           !.rest = IF TheStep.do = "ask" THEN Tail(worker.rest) ELSE <<>>,
           !.result.parts = parts]
    BY <1>1 DEF Raises
  <2>3. worker' = [worker EXCEPT !.rest = rest, !.result = result]
    BY <2>2
  <2> HIDE DEF result, rest
  <2>4. worker'.rest = rest /\ worker'.result = result
    BY <2>3 DEF Worker
  <2> QED BY <2>1, <2>4 DEF rest
<1>2. CASE ErrorOf(TheStep) \notin TheStep.catches
  <2>1. worker' = [worker EXCEPT !.rest = <<>>, !.result = Refusal]
    BY <1>2 DEF Raises
  <2>2. worker'.rest = <<>> /\ worker'.result = Refusal
    BY <2>1 DEF Worker
  <2> QED BY <2>2 DEF Refusal
<1> QED BY <1>1, <1>2

(* What is selected since the claim only grows, and so does what came      *)
(* through it.                                                             *)
LEMMA ThroughKept ==
  ASSUME AnswersThroughSelected, worker.pc = "executing", activeSince \subseteq activeSince',
         NEW parts, Through(parts), worker'.result.parts \subseteq worker.result.parts \cup parts
  PROVE  AnswersThroughSelected'
<1>1. Through(worker.result.parts)
  BY DEF AnswersThroughSelected, HasResult
<1> QED BY <1>1 DEF AnswersThroughSelected, Through

LEMMA DataThrough ==
  ASSUME NEW st, NEW src \in Source, <<st, src>> \in activeSince, NEW rows \in DataOf(st, src)
  PROVE  Through(rows)
<1>1. CASE src = NoSource
  BY <1>1 DEF DataOf, Through
<1>2. CASE src # NoSource
  <2>1. rows \subseteq {st} \X ({src} \cup Brought(src))
    BY <1>2 DEF DataOf
  <2> QED BY <2>1 DEF Through
<1> QED BY <1>1, <1>2

(* An asset of the inventory was found when the inventory was selected: no *)
(* other source's rows bring it.                                           *)
LEMMA InventoryThrough ==
  ASSUME AnswersThroughSelected, HasResult, NEW rows \in InventoryRows
  PROVE  Through(rows)
<1>1. CASE InInventory
  <2>1. /\ <<"cmdb", "local_cmdb">>[2] = "local_cmdb"
        /\ \A bearer : "local_cmdb" \notin Brought(bearer)
    BY DEF Brought
  <2>2. <<"cmdb", "local_cmdb">> \in activeSince
    BY <1>1, <2>1 DEF InInventory, AnswersThroughSelected, Through
  <2> QED BY <1>1, <2>2, DataThrough, StreamsTyped DEF InventoryRows
<1>2. CASE ~InInventory
  BY <1>2 DEF InventoryRows, Through
<1> QED BY <1>1, <1>2

(* A step that vouches for nothing goes on with data of its own.           *)
LEMMA GoesOn ==
  ASSUME worker \in Worker, worker.rest # <<>>, Backed, AnswersThroughSelected,
         worker.pc = "executing", UNCHANGED activeSince,
         TheStep.do \notin {"require", "route", "select"},
         NEW parts \in SUBSET Part, Through(parts), Proceed(parts)
  PROVE  Backed' /\ AnswersThroughSelected'
<1>1. /\ worker'.rest = Tail(worker.rest) /\ worker'.route = worker.route
      /\ worker'.result.parts = worker.result.parts \cup parts
  BY ProceedFields
<1>2. \A step \in Step : ~(Relies(step) /\ Vouches(TheStep, step))
  BY DEF Relies, Vouches
<1>3. Backed'
  BY <1>1, <1>2, TailBacked
<1> QED BY <1>1, <1>3, ThroughKept

LEMMA Stops ==
  ASSUME worker \in Worker, worker.rest # <<>>, Backed, AnswersThroughSelected,
         worker.pc = "executing", UNCHANGED activeSince, Raises
  PROVE  Backed' /\ AnswersThroughSelected'
<1>1. /\ \/ worker'.rest = Tail(worker.rest) /\ TheStep.do = "ask"
         \/ worker'.rest = <<>>
      /\ worker'.result.parts \subseteq worker.result.parts
  BY RaisesFields
<1>2. TheStep.do = "ask" => \A step \in Step : ~(Relies(step) /\ Vouches(TheStep, step))
  BY DEF Relies, Vouches
<1>3. Backed'
  BY <1>1, <1>2, TailBacked, EmptyBacked
<1>4. Through({})
  BY DEF Through
<1> QED BY <1>1, <1>3, <1>4, ThroughKept

(* Only Prometheus and Loki have their streams, and ServiceNow's connector *)
(* is only asked for a source that was selected.                           *)
LEMMA EnabledSelected ==
  ASSUME OperationalTypeOK, Since, NEW st \in Stream, NEW src \in Sources[st] \cap {"prometheus", "loki"},
         Enabled(src)
  PROVE  <<st, src>> \in activeSince
<1>1. PICK q \in Stream : Connection(active[q]) = Connection(src)
  BY DEF Enabled
<1>2. active[q] = src
  BY <1>1 DEF Connection
<1>3. src \in Sources[q]
  BY <1>2 DEF OperationalTypeOK, NoSource
<1>4. q = st
  BY <1>3, StreamsTyped DEF Sources
<1> QED BY <1>2, <1>4 DEF Since, Selected

LEMMA ExecutingSourced ==
  ASSUME Inv, Sourced, Executing \/ StepFails
  PROVE  Backed' /\ AnswersThroughSelected'
<1>1. /\ worker.pc = "executing" /\ worker.rest # <<>> /\ UNCHANGED <<activeSince, active>>
  BY DEF Executing, StepFails, Require, AskKnowledge, AskServiceNow, AskCiTickets, Describe,
         AskPrometheus, AskLoki, Count, List, Find, Relate, Review, Branch, Ensure, Route,
         ReadsOnce, ZammadAdapter, ServiceNowAdapter,
         NoAdapter, Label, AdapterOf, Asking, Executes, ToolVars
<1>2. /\ worker \in Worker /\ active \in [Stream -> Source] /\ Backed /\ Since
      /\ AnswersThroughSelected /\ HasResult /\ OperationalTypeOK
  BY <1>1 DEF Inv, Types, OperationalTypeOK, Sourced, HasResult
<1>3. /\ TheStep \in Step /\ TheStep.stream \in Stream /\ worker.result \in Result
      /\ worker.result.parts \subseteq Part /\ {} \in SUBSET Part
  BY <1>1, <1>2, Fields
<1>4. /\ TheStep.do = "ask" => TheStep.source \in Sources[TheStep.stream]
      /\ Relies(TheStep) => Trusted(TheStep, worker.route)
  BY <1>1, <1>2, HeadBacked
<1>5. /\ FromActive(TheStep.stream) \in SUBSET Part
      /\ Through(FromActive(TheStep.stream))
      /\ \A rows \in DataOf(TheStep.stream, active[TheStep.stream]) :
           rows \in SUBSET Part /\ Through(rows)
      /\ Through({})
  <2>1. active[TheStep.stream] \in Source /\ Selected(TheStep.stream) \in activeSince
    BY <1>2, <1>3 DEF Since
  <2>2. /\ FromActive(TheStep.stream) \in SUBSET Part
        /\ Through(FromActive(TheStep.stream)) /\ Through({})
    BY <1>3, <2>1 DEF FromActive, Part, Selected, Through
  <2> QED BY <1>3, <2>1, <2>2, DataTyped, DataThrough DEF Selected
<1>6. TheStep.do = "ask" => TheirData \in SUBSET Part
  <2>1. \A st \in Stream : NoSource \notin Sources[st]
    BY StreamsTyped DEF Sources, NoSource
  <2> QED BY <1>3, <1>4, <2>1 DEF TheirData, Part, Source
<1>7. ASSUME Raises PROVE Backed' /\ AnswersThroughSelected'
  BY <1>1, <1>2, <1>7, Stops
<1>8. ASSUME NEW parts \in SUBSET Part, Through(parts), Proceed(parts),
             TheStep.do \notin {"require", "route", "select"}
      PROVE  Backed' /\ AnswersThroughSelected'
  BY <1>1, <1>2, <1>8, GoesOn
<1>9. CASE Require
  <2>1. CASE active[TheStep.stream] = TheStep.source
    <3>1. /\ worker'.rest = Tail(worker.rest) /\ worker'.route = worker.route
          /\ worker'.result.parts = worker.result.parts \cup {}
      BY <1>2, <1>3, <1>1, <1>9, <2>1, ProceedFields DEF Require
    <3>2. <<TheStep.stream, TheStep.source>> \in activeSince
      BY <1>2, <1>3, <2>1 DEF Since, Selected
    <3>3. TheStep.do = "require"
      BY <1>9 DEF Require, Executes
    <3>4. \A step \in Step : Relies(step) /\ Vouches(TheStep, step) => Trusted(step, worker'.route)
      BY <3>2, <3>3 DEF Relies, Vouches, Trusted
    <3>5. Backed'
      BY <1>1, <1>2, <3>1, <3>4, TailBacked
    <3> QED BY <1>1, <1>2, <1>5, <3>1, <3>5, ThroughKept
  <2>2. CASE active[TheStep.stream] # TheStep.source
    BY <1>7, <1>9, <2>2 DEF Require
  <2> QED BY <2>1, <2>2
<1>10. CASE AskKnowledge
  <2> DEFINE result == [worker.result EXCEPT !.parts = worker.result.parts \cup TheirData,
                                             !.tenant = worker.as]
  <2>1. TheStep.do = "ask" /\ TheStep.source = "documents"
    BY <1>10 DEF AskKnowledge, Asking, Executes
  <2>2. Through(TheirData)
    BY <1>4, <2>1 DEF Relies, Trusted, TheirData, Through
  <2>3. result.parts = worker.result.parts \cup TheirData
    BY <1>3 DEF Result
  <2>4. worker' = [worker EXCEPT !.rest = Tail(worker.rest), !.result = result]
    BY <1>10 DEF AskKnowledge
  <2> HIDE DEF result
  <2>5. worker'.rest = Tail(worker.rest) /\ worker'.route = worker.route /\ worker'.result = result
    BY <1>2, <2>4 DEF Worker
  <2>6. \A step \in Step : ~(Relies(step) /\ Vouches(TheStep, step))
    BY <2>1 DEF Relies, Vouches
  <2>7. Backed'
    BY <1>1, <1>2, <2>5, <2>6, TailBacked
  <2> QED BY <1>1, <1>2, <2>2, <2>3, <2>5, <2>7, ThroughKept
<1>11. CASE AskServiceNow
  <2>1. TheStep.do = "ask" /\ TheStep.source \in {"servicenow", "servicenow_cmdb"}
    BY <1>11 DEF AskServiceNow, Asking, Executes
  <2>2. Through(TheirData)
    BY <1>4, <2>1 DEF Relies, Trusted, TheirData, Through
  <2> QED BY <1>6, <1>7, <1>8, <1>11, <2>1, <2>2 DEF AskServiceNow
<1>12. CASE AskPrometheus \/ AskLoki
  <2>1. TheStep.do = "ask" /\ TheStep.source \in {"prometheus", "loki"}
    BY <1>12 DEF AskPrometheus, AskLoki, Asking, Executes
  <2>2. Enabled(TheStep.source) => Through(TheirData)
    BY <1>2, <1>3, <1>4, <2>1, EnabledSelected DEF TheirData, Through
  <2> QED BY <1>3, <1>5, <1>6, <1>8, <1>12, <2>1, <2>2 DEF AskPrometheus, AskLoki
<1>13. CASE List \/ Count
  <2>1. TheStep.do \in {"list", "count"}
    BY <1>13 DEF List, Count, Executes
  <2> QED BY <1>5, <1>8, <1>13, <2>1 DEF List, Count
<1>14. CASE Find
  <2>1. PICK rows \in DataOf(TheStep.stream, active[TheStep.stream]) \cup {{}} :
          \/ Proceed(rows)
          \/ worker' = [worker EXCEPT !.rest = <<>>, !.result.parts = rows]
    BY <1>14 DEF Find
  <2>2. rows \in SUBSET Part /\ Through(rows) /\ TheStep.do = "find"
    BY <1>5, <1>14, <2>1 DEF Find, Executes
  <2>3. CASE Proceed(rows)
    BY <1>8, <2>2, <2>3
  <2> DEFINE result == [worker.result EXCEPT !.parts = rows]
  <2>4. CASE worker' = [worker EXCEPT !.rest = <<>>, !.result.parts = rows]
    <3>1. result.parts = rows
      BY <1>3 DEF Result
    <3>2. worker' = [worker EXCEPT !.rest = <<>>, !.result = result]
      BY <2>4
    <3> HIDE DEF result
    <3>3. worker'.rest = <<>> /\ worker'.result = result
      BY <1>2, <3>2 DEF Worker
    <3> QED BY <1>1, <1>2, <2>2, <3>1, <3>3, EmptyBacked, ThroughKept
  <2> QED BY <2>1, <2>3, <2>4
<1>15. CASE Relate \/ Review
  <2>1. TheStep.do \in {"relate", "review"}
    BY <1>15 DEF Relate, Review, Executes
  <2>2. PICK rows \in InventoryRows \cup {{}} : Proceed(rows)
    BY <1>15 DEF Relate, Review
  <2>3. rows \in SUBSET Part /\ Through(rows)
    BY <1>2, <1>5, InventoryTyped, InventoryThrough
  <2> QED BY <1>8, <2>1, <2>2, <2>3
<1>16. CASE Branch
  <2>1. CASE Proceed({})
    BY <1>3, <1>5, <1>8, <1>16, <2>1 DEF Branch, Executes
  <2>2. ASSUME NEW rest \in {Provider, <<>>}, worker' = [worker EXCEPT !.rest = rest]
        PROVE  Backed' /\ AnswersThroughSelected'
    <3>1. worker'.rest = rest /\ worker'.result = worker.result
      BY <1>2, <2>2 DEF Worker
    <3>2. Backed'
      BY <2>2, <3>1, EmptyBacked, SoundBacked, SoundSteps
    <3> QED BY <1>1, <1>2, <1>5, <3>1, <3>2, ThroughKept
  <2> QED BY <1>16, <2>1, <2>2 DEF Branch
<1>17. CASE Ensure
  BY <1>3, <1>5, <1>7, <1>8, <1>17 DEF Ensure, Executes
<1>18. CASE Route \/ ReadsOnce
  <2>1. CASE Raises
    BY <1>7, <2>1
  <2>2. CASE worker' = [worker EXCEPT !.rest = Tail(@), !.route = active[TheStep.stream]]
    <3>1. /\ worker'.rest = Tail(worker.rest) /\ worker'.route = active[TheStep.stream]
          /\ worker'.result = worker.result
      BY <1>2, <2>2 DEF Worker
    <3>2. TheStep.do \in {"route", "select"}
      BY <1>18 DEF Route, ReadsOnce, Executes
    <3>3. <<TheStep.stream, worker'.route>> \in activeSince
      BY <1>2, <1>3, <3>1 DEF Since, Selected
    <3>4. \A step \in Step : Relies(step) /\ Vouches(TheStep, step) => Trusted(step, worker'.route)
      BY <3>2, <3>3 DEF Relies, Vouches, Trusted
    <3>5. Backed'
      BY <1>1, <1>2, <3>1, <3>4, TailBacked
    <3> QED BY <1>1, <1>2, <1>5, <3>1, <3>5, ThroughKept
  <2> QED BY <1>18, <2>1, <2>2 DEF Route, ReadsOnce
<1>19. ASSUME NEW src \in {"zammad", "servicenow"}, AdapterOf(src)
       PROVE  Backed' /\ AnswersThroughSelected'
  <2>1. TheStep.do = "adapter" /\ worker.route = src
    BY <1>19 DEF AdapterOf, Executes
  <2>2. Through({<<TheStep.stream, src>>})
    <3>1. src # NoSource
      BY DEF NoSource
    <3>2. Trusted(TheStep, worker.route)
      BY <1>4, <2>1 DEF Relies
    <3> QED BY <2>1, <3>1, <3>2 DEF Trusted, Through
  <2>3. {<<TheStep.stream, src>>} \in SUBSET Part
    <3>1. src \in Source /\ src # NoSource
      BY StreamsTyped DEF NoSource
    <3> QED BY <1>3, <3>1 DEF Part
  <2> QED BY <1>7, <1>8, <1>19, <2>1, <2>2, <2>3 DEF AdapterOf
<1>20. CASE NoAdapter
  BY <1>3, <1>5, <1>8, <1>20 DEF NoAdapter, Executes
<1>21. CASE Label
  <2>1. CASE Raises
    BY <1>7, <2>1
  <2> DEFINE label == active[TheStep.stream]
             result == [worker.result EXCEPT !.label = label]
  <2>2. CASE worker' = [worker EXCEPT !.rest = Tail(@), !.result.label = label]
    <3>1. result.parts = worker.result.parts
      BY <1>3 DEF Result
    <3>2. worker' = [worker EXCEPT !.rest = Tail(worker.rest), !.result = result]
      BY <2>2
    <3> HIDE DEF result
    <3>3. /\ worker'.rest = Tail(worker.rest) /\ worker'.route = worker.route
          /\ worker'.result = result
      BY <1>2, <3>2 DEF Worker
    <3>4. TheStep.do \in {"label", "name"}
      BY <1>21 DEF Label, Executes
    <3>5. \A step \in Step : ~(Relies(step) /\ Vouches(TheStep, step))
      BY <3>4 DEF Relies, Vouches
    <3>6. Backed'
      BY <1>1, <1>2, <3>3, <3>5, TailBacked
    <3> QED BY <1>1, <1>2, <1>5, <3>1, <3>3, <3>6, ThroughKept
  <2> QED BY <1>21, <2>1, <2>2 DEF Label
<1>22. CASE StepFails
  BY <1>7, <1>22 DEF StepFails
<1>23. CASE AskCiTickets
  <2>1. TheStep.do = "cis"
    BY <1>23 DEF AskCiTickets, Executes
  <2>2. <<TheStep.stream, TheStep.source>> \in activeSince /\ TheStep.source \in Source
    BY <1>1, <1>2, <1>4, <2>1, Fields DEF Relies, Trusted
  <2>3. ASSUME NEW rows \in DataOf(TheStep.stream, TheStep.source), Proceed(rows)
        PROVE  Backed' /\ AnswersThroughSelected'
    <3>1. rows \in SUBSET Part /\ Through(rows)
      BY <1>3, <2>2, DataTyped, DataThrough
    <3> QED BY <1>8, <2>1, <2>3, <3>1
  <2> QED BY <1>7, <1>23, <2>3 DEF AskCiTickets
<1>24. CASE Describe
  BY <1>3, <1>5, <1>8, <1>24 DEF Describe, Executes
<1> QED
  BY <1>9, <1>10, <1>11, <1>12, <1>13, <1>14, <1>15, <1>16, <1>17, <1>18, <1>19, <1>20, <1>21,
     <1>22, <1>23, <1>24
  DEF Executing, ZammadAdapter, ServiceNowAdapter

LEMMA SourcedStep == Inv /\ Sourced /\ [OperationalNext]_otVars => Sourced'
<1> SUFFICES ASSUME Inv, Sourced, [OperationalNext]_otVars PROVE Sourced'
  OBVIOUS
<1>0. worker \in Worker /\ active \in [Stream -> Source] /\ Types
  BY DEF Inv, Types, OperationalTypeOK
<1>1. ASSUME UNCHANGED <<worker, active, activeSince>> PROVE Sourced'
  <2>1. Since => Since'
    BY <1>1 DEF Since, Selected
  <2>2. Backed => Backed'
    BY <1>1 DEF Backed, Trusted
  <2> QED BY <1>1, <2>1, <2>2 DEF Sourced, AnswersThroughSelected, HasResult, Through
<1>2. ASSUME worker' = Idle PROVE Sourced'
  BY <1>2, IdleFields DEF Sourced, AnswersThroughSelected, HasResult, Through
<1>3. ASSUME Executing \/ StepFails PROVE Sourced'
  <2>1. Backed' /\ AnswersThroughSelected'
    BY <1>3, ExecutingSourced
  <2>2. worker.pc = "executing" /\ worker'.pc = "executing" /\ UNCHANGED <<active, activeSince>>
    BY <1>3, ExecutingMoves DEF Inv, Types, ToolStep, ToolVars
  <2> QED BY <2>1, <2>2 DEF Sourced, AnswersThroughSelected, HasResult, Through, Since, Selected
<1>4. ASSUME NEW st \in Stream, NEW src, Selects(st, src) PROVE Sourced'
  <2>1. /\ active' = [active EXCEPT ![st] = src] /\ UNCHANGED worker
        /\ worker.pc # "idle" => activeSince' = activeSince \cup {<<st, src>>}
    BY <1>4 DEF Selects
  <2>2. worker.pc # "idle" /\ Since => Since'
    BY <1>0, <2>1 DEF Since, Selected
  <2>3. worker.pc # "idle" /\ Backed => Backed'
    BY <2>1 DEF Backed, Trusted
  <2> QED BY <2>1, <2>2, <2>3 DEF Sourced, AnswersThroughSelected, HasResult, Through
<1>5. ASSUME Polls PROVE Sourced'
  <2>1. worker' = [Idle EXCEPT !.pc = "polling", !.as = registered]
    BY <1>5 DEF Polls
  <2>2. worker'.pc = "polling" /\ worker'.result = Empty
    BY <2>1 DEF Idle
  <2> QED BY <2>2 DEF Sourced, AnswersThroughSelected, HasResult, Through
<1>6. ASSUME NEW r \in Request, Claims(r) PROVE Sourced'
  <2>1. /\ worker'.pc = "claimed" /\ worker'.result = worker.result /\ worker.pc = "polling"
        /\ UNCHANGED active /\ activeSince' = {Selected(st) : st \in Stream}
    BY <1>0, <1>6 DEF Claims, Worker
  <2>2. Since'
    BY <2>1 DEF Since, Selected
  <2> QED BY <2>1, <2>2 DEF Sourced, AnswersThroughSelected, HasResult, Through
<1>7. ASSUME Starts PROVE Sourced'
  <2>1. PICK r \in worker.of : worker.of = {r} /\ rpc[r].state # "none" /\ r \in Request
    BY <1>0, <1>7 DEF Starts, Inv, Single, Carried, Worker
  <2>2. rpc[r].tool \in Kinds
    BY <2>1 DEF Inv, Asked
  <2>3. worker' = [worker EXCEPT !.pc = "executing", !.rest = Steps(rpc[r].tool)]
    BY <1>7, <2>1 DEF Starts
  <2>4. /\ worker'.pc = "executing" /\ worker'.rest = Steps(rpc[r].tool)
        /\ worker'.result = worker.result /\ UNCHANGED <<active, activeSince>>
    BY <1>0, <1>7, <2>3 DEF Starts, Worker
  <2>5. Backed'
    BY <2>2, <2>4, SoundBacked, SoundSteps
  <2>6. worker.pc = "claimed" /\ worker.result.parts = {}
    BY <1>7 DEF Starts, Sourced, Empty
  <2>7. Since'
    BY <2>4, <2>6 DEF Sourced, Since, Selected
  <2> QED BY <2>4, <2>5, <2>6, <2>7 DEF Sourced, AnswersThroughSelected, HasResult, Through
<1>8. ASSUME NEW r \in Request, Submits(r) \/ SubmitFails(r) PROVE Sourced'
  <2>1. /\ worker.pc = "executing" /\ worker'.pc \in {"sent", "unsent"}
        /\ worker'.result = worker.result /\ UNCHANGED <<active, activeSince>>
    BY <1>0, <1>8 DEF Submits, SubmitFails, Finished, Worker
  <2> QED BY <2>1 DEF Sourced, AnswersThroughSelected, HasResult, Through, Since, Selected
<1>9. ASSUME Working PROVE Sourced'
  BY <1>2, <1>3, <1>6, <1>7, <1>8, <1>9 DEF Working, NothingWaits, RecordsOutcome
<1>10. ASSUME OperationalNext PROVE Sourced'
  BY <1>1, <1>2, <1>3, <1>4, <1>5, <1>8, <1>9, <1>10
  DEF OperationalNext, Asks, Expires, Registers, ClaimFails, Breaks
<1> QED BY <1>1, <1>10 DEF otVars

(* Whatever data a result is made of came from a source that was selected  *)
(* for its stream at some time since the request was claimed, or with the  *)
(* rows of such a source: for every tool, though each step reads the       *)
(* selections anew, and whatever is selected between the check of a source *)
(* and its use.                                                            *)
THEOREM ThroughSelected == OperationalSpec => []AnswersThroughSelected
<1>1. OperationalInit => Inv /\ Sourced
  BY InitInv, IdleFields DEF OperationalInit, Sourced, AnswersThroughSelected, HasResult
<1>2. Inv /\ Sourced /\ [OperationalNext]_otVars => (Inv /\ Sourced)'
  BY StepInv, SourcedStep
<1>3. Inv /\ Sourced => AnswersThroughSelected
  BY DEF Sourced
<1> QED BY <1>1, <1>2, <1>3, PTL DEF OperationalSpec

=============================================================================
