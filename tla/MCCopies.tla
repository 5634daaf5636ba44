------------------------------- MODULE MCCopies -------------------------------
(* What the connector copies, for TLC: the index of the managed documents  *)
(* and the caches of ServiceNow's and Zammad's tickets.  They share no     *)
(* state in these models, so they are checked one at a time: a behaviour   *)
(* is a behaviour of one of them, chosen in the initial state, and the     *)
(* others stay as they begin.                                              *)
EXTENDS KnowledgeIndex, Caches, TLC

CONSTANTS
  incident, journal, ticketing,
  t1, t2,
  Parts         \* the copies to check

VARIABLE part   \* the copy whose behaviour this is

Chosen(p) == part = p

(* An incident and one of its journal entries at ServiceNow.               *)
TheStageOf == incident :> 1 @@ journal :> 2
TheSubject == journal :> incident
TheNeeds == 1 :> ticketing @@ 2 :> ticketing

TheRevisions == t1 :> 1 @@ t2 :> 1

----------------------------------------------------------------------------
copyVars == <<part, vars, snVars, zmVars>>

CopiesInit ==
  /\ part \in Parts
  /\ Init
  /\ ServiceNowInit /\ (Chosen("servicenow") \/ selected = {})
  /\ ZammadInit

(* A step of the copy that is chosen.                                       *)
OfIndex(A) == Chosen("index") /\ A /\ UNCHANGED <<part, snVars, zmVars>>
OfServiceNow(A) == Chosen("servicenow") /\ A /\ UNCHANGED <<part, vars, zmVars>>
OfZammad(A) == Chosen("zammad") /\ A /\ UNCHANGED <<part, vars, snVars>>

CopiesNext == OfIndex(Next) \/ OfServiceNow(ServiceNowNext) \/ OfZammad(ZammadNext)

(* The fairness of each copy.  The choice never changes, so that fairness   *)
(* of a disjunction of steps of different copies is fairness of the chosen  *)
(* copy's.                                                                  *)
CopiesFairness ==
  /\ WF_copyVars(\/ OfIndex(WorkerLoads)
                 \/ OfServiceNow(ReconcileJob)
                 \/ OfZammad(LookupStores \/ LookupFails))
  /\ WF_copyVars(OfIndex(ScanWalks(Scheduled)) \/ OfServiceNow(Start(SyncTimer)))
  /\ \A d \in Docs : WF_copyVars(OfIndex(WorkerTakes(d)))
  /\ \A r \in Requests : WF_copyVars(OfIndex(UploadStores(r)))
  /\ \A a \in Actors : WF_copyVars(OfIndex(TaskStep(a)))
  /\ \A s \in Scans : WF_copyVars(OfIndex(ScanStep(s)))
  /\ \A p \in Syncers : WF_copyVars(OfServiceNow(Proceeds(p)))
  /\ \A p \in Runners : WF_copyVars(OfZammad(RunProceeds(p)))
  /\ \A d \in Docs : SF_copyVars(\/ OfIndex(ScanHashes(Scheduled, d))
                                 \/ OfZammad(RunBegins(Timer, TRUE)))

CopiesSpec == CopiesInit /\ [][CopiesNext]_copyVars /\ CopiesFairness
=============================================================================
