----------------------------- MODULE MCFavorites -----------------------------
(* Small instances of Favorites for TLC. *)
EXTENDS Favorites, TLC

CONSTANTS ann, bob, i1, i2, t1, t2, m1, m2  \* model values

OneUser == {ann}
TwoUsers == {ann, bob}
OneSignIn == {"s1"}
OneProvider == {"facebook"}
GoogleOnly == {"google"}
OneProverb == {"p1"}
TwoProverbs == {"p1", "p2"}
OneToggle == {t1}
TwoToggles == {t1, t2}
NoToggles == {}
OneSetup == {m1}
TwoSetups == {m1, m2}
AllOps == {t1, t2, m1, m2}
TwoIds == {i1, i2}
EmptyCollections == {{}}
MaybeLiked == {{}} \cup {{[id |-> i, origin |-> "p1"]} : i \in Ids}
UserAndIdSymmetry == Permutations(TwoUsers) \cup Permutations(TwoIds)
IdAndSetupSymmetry == Permutations(TwoIds) \cup Permutations(TwoSetups)
=============================================================================
