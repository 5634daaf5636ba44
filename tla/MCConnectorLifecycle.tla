------------------------ MODULE MCConnectorLifecycle ------------------------
(* ConnectorLifecycle for TLC.  The requests run the same code, so any      *)
(* permutation of them is a symmetry of the safety runs.                    *)
EXTENDS ConnectorLifecycle, TLC

RequestSymmetry == Permutations(Requests)
=============================================================================
