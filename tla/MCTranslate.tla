----------------------------- MODULE MCTranslate -----------------------------
(***************************************************************************)
(* Instances of Translate for TLC.  The bounds are numbers, given in the   *)
(* configurations: registers.cfg has no structured statements and nests    *)
(* expressions deeper, labels.cfg nests statements and has simple tests.   *)
(***************************************************************************)
EXTENDS Translate

=============================================================================
