----------------------------- MODULE MCLibrary -----------------------------
(***************************************************************************)
(* Arguments for Library at 6 bits: -1 and the counts around the arena's   *)
(* size and, for calloc_int, one whose size in bytes would wrap to a       *)
(* single element.                                                         *)
(***************************************************************************)
EXTENDS Library

MCCounts == [malloc_int |-> {-1, 1, 3, 4}, calloc_int |-> {-1, 1, 9}]

=============================================================================
