----------------------------- MODULE MCBlockForm -----------------------------
(***************************************************************************)
(* The block editor on two blocks of one type: its form, and the arrows.   *)
(***************************************************************************)
EXTENDS BlockDoc

WordA == Tok("text", "a")
WordB == Tok("text", "b")
MCTexts == {<<Tok("multi", ""), WordA, Close, Tok("multi", ""), WordB, Close>>}
MCBodies == {<<WordA>>, <<WordB>>}
=============================================================================
