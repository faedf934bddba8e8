------------------------------ MODULE MCPrompt ------------------------------
(* A console of two lines of five characters.                              *)
EXTENDS Prompt

MCTexts == {<<>>, <<"a", "tab", "a">>, <<"newline">>}
=============================================================================
