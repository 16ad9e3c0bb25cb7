---------------------------- MODULE MCFileWriter ----------------------------
(***************************************************************************)
(* Instance of FileWriter for TLC: the texts are model values.             *)
(***************************************************************************)
EXTENDS FileWriter

=============================================================================
