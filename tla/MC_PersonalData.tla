--------------------------- MODULE MC_PersonalData ---------------------------
(***************************************************************************)
(* PersonalData with two kinds of accounts and two scripts, of which one   *)
(* opens a block.                                                          *)
(***************************************************************************)
EXTENDS PersonalData

TwoKinds == <<"mail", "contacts">>

TwoScripts == {<<"a", "b">>, <<"{", "b">>}
=============================================================================
