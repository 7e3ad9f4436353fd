---------------------------- MODULE Validation ----------------------------
(***************************************************************************)
(* What makes the translation of a segment acceptable: validate_translation*)
(* of translation/validation.py and the token inventories of               *)
(* translation/placeholders.py.  A text is abstracted to what they look    *)
(* at: how often each structural token occurs, which URLs and DOIs it      *)
(* contains, which of the blemishes it has, and how long it is.            *)
(***************************************************************************)
EXTENDS Integers

CONSTANTS
    Tags,       \* names of rich-text tags
    Numbers,    \* numbered and formula tokens such as {1} and {v12}
    Links,      \* URLs and DOIs
    Blemishes   \* fence, explanatory prefix, wrapping quotes, READY, too short

Ends   == {"open", "close"}
Tokens == (Tags \X Ends) \cup Numbers

ASSUME TokensAssumption == Numbers \cap (Tags \X Ends) = {}

Texts == [counts : [Tokens -> Nat], links : SUBSET Links,
          blemishes : SUBSET Blemishes, blank : BOOLEAN, chars : Nat]

\* Mutant: a plain set comparison, which hides wrong repetition counts.
CompareSets(expected, actual) ==
    {t \in Tokens : expected[t] > 0 /\ actual[t] = 0}
        \cup {t \in Tokens : expected[t] = 0 /\ actual[t] > 0}

\* compare_inventories: the tokens missing, repeated wrongly or unexpected.
CompareInventories(expected, actual) ==
    {t \in Tokens : expected[t] > 0 /\ actual[t] = 0}
        \cup {t \in Tokens : expected[t] > 0 /\ actual[t] > 0 /\ actual[t] # expected[t]}
        \cup {t \in Tokens : expected[t] = 0 /\ actual[t] > 0}

Balance(text, name) == text.counts[<<name, "open">>] - text.counts[<<name, "close">>]

TagBalanceErrors(text) == {name \in Tags : Balance(text, name) # 0}

MissingPreserved(source, output) == source.links \ output.links

\* validate_translation: neither text is blank and nothing was found.
Valid(source, output) ==
    /\ ~output.blank
    /\ ~source.blank
    /\ output.blemishes = {}
    /\ CompareInventories(source.counts, output.counts) = {}
    /\ TagBalanceErrors(output) = {}
    /\ MissingPreserved(source, output) = {}
=============================================================================
