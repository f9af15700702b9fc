------------------------------ MODULE MCDynText ------------------------------
(***************************************************************************)
(* DynText with an empty file, a text of two segments, and a line without  *)
(* characters.                                                             *)
(***************************************************************************)
EXTENDS DynText

MCSegments == {"a", "b", Unset}
MCTexts == {<<>>, <<"a", "b">>, <<Unset>>}

=============================================================================
