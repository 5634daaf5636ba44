----------------------------- MODULE RequestService -----------------------------
(***************************************************************************)
(* What PEKA may rely on when it asks the connector's operational tools:   *)
(* the contract of domain/ports/saas.py, whatever the tools do in between. *)
(*                                                                         *)
(* A request is taken at most once, by the connector as whom it was asked, *)
(* and only while the connector owes no other answer.  What is owed is     *)
(* answered once, for that tenant, or the request has expired, or one of   *)
(* the faults that happen has hit it: nothing else loses a request.        *)
(***************************************************************************)
EXTENDS Naturals, FiniteSets

CONSTANTS
  Request,      \* the requests
  MaxTenant,    \* the tenants the connector is registered with, 1 .. MaxTenant
  MaxFaults     \* bound: the faults

VARIABLES
  state,        \* each request at PEKA
  tenant,       \* as whom the connector is asked
  given,        \* the tenant whose data the answer holds, 0 for none
  owed,         \* the requests the connector owes an answer
  faults        \* the faults so far

vars == <<state, tenant, given, owed, faults>>

Init ==
  /\ state = [r \in Request |-> "none"]
  /\ tenant = [r \in Request |-> 0]
  /\ given = [r \in Request |-> 0]
  /\ owed = {}
  /\ faults = 0

Fault == faults < MaxFaults /\ faults' = faults + 1

Becomes(r, s) == state' = [state EXCEPT ![r] = s]

Ask(r) ==
  /\ state[r] = "none"
  /\ Becomes(r, "waiting")
  /\ \E k \in 1 .. MaxTenant : tenant' = [tenant EXCEPT ![r] = k]
  /\ UNCHANGED <<given, owed, faults>>

Take(r) ==
  /\ state[r] = "waiting"
  /\ owed = {}
  /\ Becomes(r, "claimed")
  /\ owed' = {r}
  /\ UNCHANGED <<tenant, given, faults>>

Arrives(r) ==
  /\ r \in owed
  /\ state[r] = "claimed"
  /\ Becomes(r, "answered")
  /\ \E k \in {0, tenant[r]} : given' = [given EXCEPT ![r] = k]

Answer(r) ==
  /\ Arrives(r)
  /\ owed' = {}
  /\ UNCHANGED <<tenant, faults>>

(* The answer comes too late.                                              *)
Late(r) ==
  /\ r \in owed
  /\ state[r] = "expired"
  /\ owed' = {}
  /\ UNCHANGED <<state, tenant, given, faults>>

Expire(r) ==
  /\ Fault
  /\ state[r] \in {"waiting", "claimed"}
  /\ Becomes(r, "expired")
  /\ UNCHANGED <<tenant, given, owed>>

(* The connector learns neither that it has a request nor that its answer  *)
(* has arrived, or breaks off.                                             *)
Lose ==
  /\ Fault
  /\ \/ UNCHANGED <<state, given>>
     \/ \E r \in Request : state[r] = "waiting" /\ Becomes(r, "claimed") /\ owed = {}
                           /\ UNCHANGED given
     \/ \E r \in Request : Arrives(r)
  /\ owed' = {}
  /\ UNCHANGED tenant

Next ==
  \/ \E r \in Request : Ask(r) \/ Take(r) \/ Answer(r) \/ Late(r) \/ Expire(r)
  \/ Lose

Spec == Init /\ [][Next]_vars

----------------------------------------------------------------------------
(* What is claimed and no longer owed, PEKA waits for in vain.             *)
Lost == {r \in Request : state[r] = "claimed"} \ owed
=============================================================================
