------------------------------ MODULE Identity ------------------------------
(* The Firebase identities the app tells apart. *)
CONSTANTS Users,   \* uids of Auth.auth().currentUser
          NoUser   \* currentUser == nil

ASSUME IdentityAssumption == NoUser \notin Users

Identities == Users \cup {NoUser}
=============================================================================
