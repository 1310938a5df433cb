--------------------------- MODULE MCProverbScreen ---------------------------
(* A small instance of ProverbScreen for TLC: two proverbs, one of which can *)
(* become a favourite twice.                                                 *)
EXTENDS ProverbScreen, TLC

CONSTANTS t1, t2  \* model values

MCProverbs == {"p", "q"}
MCDocs == {[origin |-> "p", copy |-> 1], [origin |-> "p", copy |-> 2]}
MCStored == {{}}
MCTaps == {t1, t2}
TapSymmetry == Permutations(MCTaps)
=============================================================================
