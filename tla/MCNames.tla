------------------------------ MODULE MCNames ------------------------------
(***************************************************************************)
(* Instances of Names for TLC, as MCDeclarations for Declarations.         *)
(***************************************************************************)
EXTENDS Names, TLC

NamesSymmetry == Permutations(Name)

=============================================================================
