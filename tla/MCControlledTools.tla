-------------------------- MODULE MCControlledTools --------------------------
(***************************************************************************)
(* Small instances of ControlledTools for TLC.  Calls and replicas are     *)
(* interchangeable, which the run with two of each uses.                   *)
(***************************************************************************)
EXTENDS ControlledTools, TLC

AllTools == DOMAIN Handlers

Interchangeable == Permutations(Calls) \cup Permutations(Replicas)
=============================================================================
