--------------------------- MODULE MCShareToUnlock ---------------------------
(* A small ShareToUnlock: three days to share, a clock a day ahead or behind. *)
EXTENDS ShareToUnlock

MCOffsets == {-2, 0, 2}
=============================================================================
