---------------------------- MODULE MCFlowControl ----------------------------
(***************************************************************************)
(* TLC instances of FlowControl.  Clients are interchangeable.             *)
(***************************************************************************)
EXTENDS FlowControl, TLC

ClientSymmetry == Permutations(Client)
=============================================================================
