-------------------------- MODULE MCPollingSource --------------------------
(* Instances of PollingSource for TLC.                                     *)
EXTENDS PollingSource
=============================================================================
