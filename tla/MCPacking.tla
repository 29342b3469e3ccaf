----------------------------- MODULE MCPacking ------------------------------
(***************************************************************************)
(* Small instances of Packing.                                             *)
(***************************************************************************)
EXTENDS Packing

\* The first item is the bigger one: a walk may skip it or stop at it.
TwoOne == <<2, 1>>
=============================================================================
