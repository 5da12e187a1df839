------------------------- MODULE MCDocumentHistory -------------------------
(* An owner and a guest who may take a second password; two texts, one the   *)
(* other doubled (a suffix and a prefix may overlap); one grant, less than    *)
(* every right.                                                              *)
EXTENDS DocumentHistory

MCPasswords == Owner :> {"owner-1"} @@ Guest :> {"guest-1", "guest-2"}
MCTexts == {<<"a">>, <<"a", "a">>}
MCGrants == {{"edit", "add"}}
=============================================================================
