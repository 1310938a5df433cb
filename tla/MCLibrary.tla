------------------------------ MODULE MCLibrary ------------------------------
(* A small library: five proverbs, a new cycle below two unviewed ones. *)
EXTENDS Library, TLC

CONSTANTS p1, p2, p3, p4, p5  \* model values

FiveProverbs == {p1, p2, p3, p4, p5}
ProverbSymmetry == Permutations(FiveProverbs)
=============================================================================
