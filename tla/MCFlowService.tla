---------------------------- MODULE MCFlowService ----------------------------
(* The services of one flow, for TLC. *)
EXTENDS FlowService
==============================================================================
