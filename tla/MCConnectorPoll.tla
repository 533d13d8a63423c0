-------------------------- MODULE MCConnectorPoll ---------------------------
(* ConnectorPoll for TLC: the constants are given in the configurations.   *)
EXTENDS ConnectorPoll
=============================================================================
