-------------------------- MODULE MCStkProcessing ---------------------------
(***************************************************************************)
(* StkProcessing for TLC, with the requests MCStkService sends.            *)
(***************************************************************************)
EXTENDS StkProcessing, MCStkService
=============================================================================
