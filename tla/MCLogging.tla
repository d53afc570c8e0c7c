----------------------------- MODULE MCLogging -----------------------------
(* Small instances of Logging for TLC: line 1 has no reader of its own, the *)
(* reader of line 2 has a parser that rejects the text "bad".               *)
EXTENDS Logging

MCTexts == {"yes", "no", "bad"}
MCDefault == {1}
MCParses == [l \in Lines |-> IF l \in MCDefault THEN MCTexts ELSE {"yes", "no"}]
MCAccepts == [l \in Lines |-> {"yes"}]
MCGlobs == {{2}, {1, 2}}
=============================================================================
