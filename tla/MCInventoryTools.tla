--------------------------- MODULE MCInventoryTools ---------------------------
(***************************************************************************)
(* Every read tool on a collection of at most three items that the service *)
(* hands out two at a time, with limits below and above max_results.       *)
(***************************************************************************)
EXTENDS InventoryTools

AllReaders == DOMAIN Readers

Items == 1..3
=============================================================================
