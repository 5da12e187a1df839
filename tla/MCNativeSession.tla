--------------------------- MODULE MCNativeSession ---------------------------
(***************************************************************************)
(* NativeSession for TLC.  Texts are only compared, so they are             *)
(* interchangeable.                                                         *)
(***************************************************************************)
EXTENDS NativeSession, TLC

TextSymmetry == Permutations(Texts)
=============================================================================
