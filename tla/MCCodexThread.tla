--------------------------- MODULE MCCodexThread ---------------------------
(***************************************************************************)
(* Instances of CodexThread for TLC: two attempts and two threads of       *)
(* BabelDOC.                                                               *)
(***************************************************************************)
EXTENDS CodexThread

CONSTANTS x1, x2, c1, c2

Attempts   == {x1, x2}
TwoCallers == {c1, c2}
=============================================================================
