---------------------------- MODULE MCContainer ----------------------------
(***************************************************************************)
(* Container for TLC.  Texts are only compared, so they are interchangeable *)
(***************************************************************************)
EXTENDS Container, TLC

TextSymmetry == Permutations(Texts)
=============================================================================
