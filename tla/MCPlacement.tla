------------------------------ MODULE MCPlacement ------------------------------
(* Placement on the nodes 1 to N.                                           *)
EXTENDS Placement

CONSTANT N

MCNodes == 1 .. N
================================================================================
