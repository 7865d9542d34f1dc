------------------------------ MODULE MCJsValues ------------------------------
(* Four boxes and two clones of a handle.                                  *)
EXTENDS JsValues

CONSTANTS b1, b2, b3, b4

MCBoxes == {b1, b2, b3, b4}

MCMaxClones == 2

=============================================================================
