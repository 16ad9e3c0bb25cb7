--------------------------- MODULE MCDeclarations ---------------------------
(***************************************************************************)
(* Instances of Declarations for TLC: identifiers, the predefined type and *)
(* NULL are model values.  Identifiers are only compared, so that a run of *)
(* invariants may take any permutation of them as a symmetry.              *)
(***************************************************************************)
EXTENDS Declarations, TLC

Symmetry == Permutations(Name)

=============================================================================
