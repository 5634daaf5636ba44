-------------------------------- MODULE Caches --------------------------------
(* The caches of the two remote ticketing systems, ServiceNow's and         *)
(* Zammad's, side by side: they share no state in these models.             *)
EXTENDS ServiceNowSync, ZammadSync

CachesInit == ServiceNowInit /\ ZammadInit

CachesNext ==
  \/ ServiceNowNext /\ UNCHANGED zmVars
  \/ ZammadNext /\ UNCHANGED snVars

CachesSpec == CachesInit /\ [][CachesNext]_<<snVars, zmVars>>

----------------------------------------------------------------------------
(* Every variable of the two caches keeps its type, and SQLite's lock is    *)
(* held by no sync that is between its stages, or over.                     *)
CachesTypeOK == ServiceNowTypeOK /\ WriterReads /\ ZammadTypeOK
=============================================================================
