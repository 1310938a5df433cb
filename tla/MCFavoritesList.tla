--------------------------- MODULE MCFavoritesList ---------------------------
(* A small instance of FavoritesList for TLC: two proverbs, one of them kept *)
(* twice, dates against the alphabet.                                        *)
EXTENDS FavoritesList

MCDocs == {[id |-> 1, origin |-> 2], [id |-> 2, origin |-> 1], [id |-> 3, origin |-> 2]}
MCStored == {{}, MCDocs}
OneRead == {"r1"}
=============================================================================
