----------------------------- MODULE MCGateway -----------------------------
(***************************************************************************)
(* Instances of Gateway for TLC: one tag name, a blank segment, one whose  *)
(* tags pair, one whose tags do not, and answers that differ from these in *)
(* the tokens or in a blemish.  A paired and a torn segment fit one batch,  *)
(* two paired ones do not.                                                 *)
(***************************************************************************)
EXTENDS Gateway, TLC

CONSTANTS c1, c2

TwoCallers == {c1, c2}
OneTag     == {"b"}

Text(opens, closes, blemishes, blank, chars) ==
    [counts |-> <<"b", "open">> :> opens @@ <<"b", "close">> :> closes,
     links |-> {}, blemishes |-> blemishes, blank |-> blank, chars |-> chars]

Paired == Text(1, 1, {}, FALSE, 2)
Torn   == Text(2, 1, {}, FALSE, 1)
Blank  == Text(0, 0, {}, TRUE, 0)
Fenced == Text(1, 1, {"fence"}, FALSE, 2)

SomeSources == {Paired, Torn, Blank}
SomeOutputs == {Paired, Torn, Fenced}
TwoSettings == {"old glossary", "new glossary"}
=============================================================================
