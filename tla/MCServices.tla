------------------------------ MODULE MCServices ------------------------------
(* The smaller components, which share no state with each other in these   *)
(* models, for TLC, one at a time: a behaviour is a behaviour of one of    *)
(* them, chosen in the initial state, and the others stay as they begin.   *)
(* A property of a component is thus checked in all its own behaviours.    *)
EXTENDS MCOperationalTools, SourceScan, Inventory, Accounts, Sessions, TLC

CONSTANTS
  f1, f2, all, some,
  rowA, rowB, badRow, exporter,
  Parts         \* the components to check

VARIABLE part   \* the component whose behaviour this is

Chosen(p) == part = p

(* Source scans: one configuration takes all files, the other one of them. *)
ThePicks == all :> {f1, f2} @@ some :> {f1}
TheContents == f1 :> 2 @@ f2 :> 0

(* Inventory: a row hosted on another, which has an address also; the      *)
(* target has the first one's name and the second one's address.  One of   *)
(* the files has a malformed row in its middle.                            *)
Identity(kind, value) == [kind |-> kind, value |-> value]
TheDeclares == rowA :> {Identity("fqdn", "a")}
               @@ rowB :> {Identity("fqdn", "b"), Identity("ip_address", "x")}
               @@ badRow :> {Identity("fqdn", "a")}
TheExposes == exporter :> {Identity("fqdn", "a"), Identity("ip_address", "x")}
TheHostedOn == rowA :> "b" @@ rowB :> "none" @@ badRow :> "b"
TheFiles == {<<rowA, rowB>>, <<rowB, badRow, rowA>>}

----------------------------------------------------------------------------
partVars == <<part, otVars, scVars, ivVars, acVars, ssVars>>

(* A component that is not chosen has one initial state.                   *)
Init ==
  /\ part \in Parts
  /\ OperationalInit
  /\ Chosen("operational") \/ (registered = 0 /\ active.cmdb = "servicenow_cmdb")
  /\ ScanInit /\ (Chosen("scan") \/ (row.config = all /\ ~row.enabled))
  /\ InventoryInit /\ (Chosen("inventory") \/ scraped = {})
  /\ AccountsInit
  /\ SessionsInit

Next ==
  /\ UNCHANGED part
  /\ \/ Chosen("operational") /\ OperationalNext
     \/ ~Chosen("operational") /\ UNCHANGED otVars
  /\ \/ Chosen("scan") /\ ScanNext
     \/ ~Chosen("scan") /\ UNCHANGED scVars
  /\ \/ Chosen("inventory") /\ InventoryNext
     \/ ~Chosen("inventory") /\ UNCHANGED ivVars
  /\ \/ Chosen("accounts") /\ AccountsNext
     \/ ~Chosen("accounts") /\ UNCHANGED acVars
  /\ \/ Chosen("sessions") /\ SessionsNext
     \/ ~Chosen("sessions") /\ UNCHANGED ssVars

Spec == Init /\ [][Next]_partVars

(* The fairness of each component, where it is the chosen one.             *)
Fairness ==
  /\ WF_otVars(Chosen("operational") /\ Polls)
  /\ WF_otVars(Chosen("operational") /\ Working)
  /\ WF_scVars(Chosen("scan") /\ Enter(ScanTimer))
  /\ \A p \in Scanners : WF_scVars(Chosen("scan") /\ Advances(p))
  /\ WF_scVars(Chosen("scan") /\ (UpdateHealth \/ ReconcileSource \/ Delete))
  /\ WF_ivVars(Chosen("inventory") /\ ScanTargets)
  /\ WF_ivVars(Chosen("inventory") /\ Importing)
  /\ WF_ivVars(Chosen("inventory") /\ \E o \in Observation : StoreDecision(o))

FairSpec == Spec /\ Fairness

=============================================================================
