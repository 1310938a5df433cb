----------------------------- MODULE MCReminders -----------------------------
(* Small instances of Reminders: two times of day. *)
EXTENDS Reminders

TwoTimes == {"13:00", "20:00"}
=============================================================================
