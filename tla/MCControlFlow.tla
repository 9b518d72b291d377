---------------------------- MODULE MCControlFlow ----------------------------
(***************************************************************************)
(* ControlFlow on three blocks.  The phi is in b1; the others are          *)
(* interchangeable.                                                        *)
(***************************************************************************)
EXTENDS ControlFlow

CONSTANTS b1, b2, b3

MCBlocks == {b1, b2, b3}
MCPhiBlock == b1

Symmetry == Permutations({b2, b3})

=============================================================================
