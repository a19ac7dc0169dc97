------------------------------- MODULE Books -------------------------------
(***************************************************************************)
(* What the journal promises (ADR-011, design D-OH27.6): per grain, an     *)
(* append-only list of entries of which at most one stands.  A correction  *)
(* undoes the standing entry and writes the corrected one in the same      *)
(* step; a withdrawal only undoes it.  Nothing else ever touches the list. *)
(***************************************************************************)
EXTENDS Naturals, Sequences

CONSTANTS Grain, Content,
          Nothing    \* not a content: the grain has no standing entry

VARIABLES book,      \* entries of each grain
          standing   \* position of the standing entry, 0 if none

booksVars == <<book, standing>>

Current(g) == IF standing[g] = 0 THEN Nothing ELSE book[g][standing[g]].content

Undo(g) ==
    IF standing[g] = 0 THEN <<>>
    ELSE <<[content |-> book[g][standing[g]].content, reversal_of |-> standing[g]]>>

Write(c) == IF c = Nothing THEN <<>> ELSE <<[content |-> c, reversal_of |-> 0]>>

BooksInit ==
    /\ book = [g \in Grain |-> <<>>]
    /\ standing = [g \in Grain |-> 0]

(* One transaction takes each grain of R to its target, which is news to it. *)
Correct(R, target) ==
    /\ \A g \in R : target[g] # Current(g)
    /\ book' = [g \in Grain |->
                  IF g \in R THEN book[g] \o Undo(g) \o Write(target[g]) ELSE book[g]]
    /\ standing' = [g \in Grain |->
                      IF g \notin R THEN standing[g]
                      ELSE IF target[g] = Nothing THEN 0 ELSE Len(book'[g])]

BooksNext ==
    \E R \in SUBSET Grain : \E target \in [R -> Content \cup {Nothing}] : Correct(R, target)

BooksSpec == BooksInit /\ [][BooksNext]_booksVars
=============================================================================
