------------------------------ MODULE MCAccount ------------------------------
(* Small instances for TLC: the account with its network operations. *)
EXTENDS NetworkActivity

MCUsers == {"ann", "bob"}
MCOneUser == {"ann"}
MCSignIns == {"s1", "s2"}
MCProviders == {"facebook", "google"}
=============================================================================
