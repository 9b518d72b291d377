------------------------- MODULE MCRegisterAllocator -------------------------
(***************************************************************************)
(* RegisterAllocator over every four hulls with ends in 0 .. MaxPosition,  *)
(* in every order of collection.                                           *)
(***************************************************************************)
EXTENDS RegisterAllocator

CONSTANT MaxPosition

MCIntervals == 1 .. 4
MCPositions == 0 .. MaxPosition

=============================================================================
