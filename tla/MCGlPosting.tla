---------------------------- MODULE MCGlPosting ----------------------------
(* One business date with both posting sources, and two fiscal calendars   *)
(* that put it in different periods.                                       *)
EXTENDS GlPosting

CONSTANTS pBeach,                 \* the property
          rev, revTax, uncoded,   \* contents: a day, its correction, a day with an uncoded line
          clearing, taxes,        \* accounts
          monthly, fourFourFive,  \* calendars
          P1, P2                  \* period keys

OneDay == {1}

MCNeeds == [c \in Content |->
              CASE c = rev    -> {clearing}
                [] c = revTax -> {clearing, taxes} \cap Account
                [] OTHER      -> {}]

MCKeyOf == [cal \in Calendar |-> [d \in Date |-> IF cal = monthly THEN P1 ELSE P2]]
=============================================================================
