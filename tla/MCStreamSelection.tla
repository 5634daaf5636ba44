-------------------------- MODULE MCStreamSelection --------------------------
(* StreamSelection for TLC, with the installation the connector is shipped  *)
(* for: two ticketing sources, two CMDB sources, ServiceNow being both.     *)
EXTENDS StreamSelection, TLC

CONSTANTS zammad, servicenow, local, ticketing, cmdb

TheIntegrations == {zammad, servicenow, local}
TheStreams == {ticketing, cmdb}
TheOffers == zammad :> {ticketing} @@ servicenow :> {ticketing, cmdb} @@ local :> {cmdb}

(* Two of the integrations, for the run that refutes.                       *)
TwoOffers == zammad :> {ticketing} @@ servicenow :> {ticketing, cmdb}

(* The initial states of the run: all integrations are configured and every *)
(* stream has a source, or the local dataset is still to be imported.       *)
Installed ==
  /\ Init
  /\ local \in there => /\ there = Integrations
                       /\ \A s \in Streams : Serving(active, s) # {}
InstalledSpec == Installed /\ [][Next]_vars /\ Fairness
=============================================================================
