----------------------------- MODULE Membership -----------------------------
(***************************************************************************)
(* What the rest of the app may rely on about an account: which user is    *)
(* signed in, whether Full Access is paid for, and the plan that           *)
(* UserManager grants.  It says nothing of how a sign-in or a purchase     *)
(* travels through the SDKs; Account.tla is the detailed specification     *)
(* that implements this one.                                               *)
(*                                                                         *)
(* The contract: buying raises the plan at once, a user who signs out      *)
(* lowers it at once, a sign-in is visible in the plan only after a later  *)
(* Settle, and losing the purchase alone never touches the plan.  A user   *)
(* whom Firebase signs out by itself leaves the plan behind: it has lapsed *)
(* until the next change of the account recomputes it.                     *)
(***************************************************************************)
CONSTANTS Users, NoUser

VARIABLES member,   \* the signed-in user, or NoUser
          paid,     \* is Full Access bought
          granted,  \* the plan in force
          up,       \* is the app running
          lapsed    \* was the plan's user expelled since it was computed

vars == <<member, paid, granted, up, lapsed>>

Level(m, p) ==
  IF ~p THEN "free" ELSE IF m = NoUser THEN "paid" ELSE "paidRegistered"

Init == /\ member \in Users \cup {NoUser}
        /\ paid = FALSE
        /\ granted = "free"
        /\ up = FALSE
        /\ lapsed = FALSE

Recompute == granted' = Level(member', paid') /\ lapsed' = FALSE

\* A launch may sign a user out, never in, and always recomputes the plan.
Start == /\ ~up /\ up' = TRUE
         /\ member' \in {member, NoUser}
         /\ paid' = paid
         /\ Recompute

Stop == /\ up /\ up' = FALSE
        /\ granted' = "free" /\ lapsed' = FALSE
        /\ UNCHANGED <<member, paid>>

Buy == /\ up
       /\ paid' = TRUE
       /\ Recompute
       /\ UNCHANGED <<member, up>>

Lose == /\ up
        /\ paid' = FALSE
        /\ \/ UNCHANGED <<granted, lapsed>>
           \/ granted' = Level(member, TRUE) /\ lapsed' = FALSE
        /\ UNCHANGED <<member, up>>

Enter(u) == up /\ member' = u /\ UNCHANGED <<paid, granted, up, lapsed>>

Settle == up /\ Recompute /\ UNCHANGED <<member, paid, up>>

Leave == /\ up
         /\ member' = NoUser
         /\ Recompute
         /\ UNCHANGED <<paid, up>>

Expel == /\ up
         /\ member' = NoUser
         /\ lapsed' = IF granted = "paidRegistered" THEN TRUE ELSE lapsed
         /\ UNCHANGED <<paid, granted, up>>

Next == \/ Start \/ Stop \/ Buy \/ Lose \/ Settle \/ Leave \/ Expel
        \/ \E u \in Users : Enter(u)

Spec == Init /\ [][Next]_vars
=============================================================================
