--------------------------- MODULE MCGlPostingTx ---------------------------
(* One grain and two posting sessions, or one session and a closing period. *)
EXTENDS GlPostingTx, TLC

CONSTANTS pBeach, rev, revTax, clearing, taxes, monthly, P1, w1, w2

OneDay == {1}
MCNeeds == [c \in Content |-> IF c = rev THEN {clearing} ELSE {clearing, taxes}]
MCKeyOf == [cal \in Calendar |-> [d \in Date |-> P1]]
WorkersAlike == Permutations(Worker)
=============================================================================
