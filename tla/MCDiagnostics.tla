---------------------------- MODULE MCDiagnostics ----------------------------
(***************************************************************************)
(* A diagnosis or a read, a read of another client, two hooks and one      *)
(* snapshot.                                                               *)
(***************************************************************************)
EXTENDS Diagnostics

AllKeys == ToolOutcomes

Diagnosed == \E c \in Calls : request[c] # Nothing /\ request[c].tool = Diagnose

\* Bound: a behaviour has a diagnosis, or a snapshot, or hooks.
OneConcern ==
    /\ Diagnosed' => ~view'.taken /\ hooks' = <<>>
    /\ view'.taken => hooks' = <<>>
=============================================================================
