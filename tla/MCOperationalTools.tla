-------------------------- MODULE MCOperationalTools --------------------------
(* OperationalTools for TLC: every source is selected in one of the        *)
(* selections the connector may start with, and any tool may be wanted.    *)
EXTENDS OperationalTools

Selection(tickets, cis, metrics, evidence) ==
  [ticketing |-> tickets, cmdb |-> cis, monitoring |-> metrics, logs |-> evidence,
   knowledge |-> "documents"]
Selections == {Selection("zammad", "local_cmdb", "prometheus", "loki"),
               Selection("none", "servicenow_cmdb", "prometheus", "none"),
               Selection("servicenow", "local_cmdb", "none", "loki")}

(* The tickets are ServiceNow's, the CMDB is not.                          *)
LocalBesideServiceNow == {Selection("servicenow", "local_cmdb", "prometheus", "loki")}
TheWanted == [r \in Request |-> Kinds]
=============================================================================
