--------------------------- MODULE NetworkActivity ---------------------------
(***************************************************************************)
(* NetworkActivityIndicatorManager: a counter of network operations that   *)
(* is balanced by hand, one call when an operation starts and one in its   *)
(* completion.  This module runs it beside the account, whose sign-ins and *)
(* StoreKit calls are such operations, and beside the calls of             *)
(* FirestoreManager, which all have the form start, ask, finish in the     *)
(* callback.                                                               *)
(*                                                                         *)
(* The counter lives in memory.  A completion that is dropped leaves it    *)
(* too high for the rest of the process; one that were called twice would  *)
(* hide the indicator while something else is under way.                   *)
(***************************************************************************)
EXTENDS Account, FiniteSets

CONSTANTS MaxFirestoreCalls,  \* Firestore calls in flight (a bound)
          MaxLoading          \* no operation starts beyond it (a bound)

ASSUME NetworkActivityAssumption ==
  /\ IsFiniteSet(SignIns)
  /\ MaxFirestoreCalls \in Nat /\ MaxLoading \in Nat

VARIABLES
  loadingCount,
  indicator,       \* isNetworkActivityIndicatorVisible
  firestoreCalls,  \* FirestoreManager's calls in flight
  overlapped       \* history: was google asked while it still owed an answer?

activityVars == <<accountVars, loadingCount, indicator, firestoreCalls, overlapped>>

ActivityTypeOK ==
  /\ loadingCount \in 0..MaxLoading
  /\ indicator \in BOOLEAN
  /\ firestoreCalls \in 0..MaxFirestoreCalls
  /\ overlapped \in BOOLEAN

ActivityInit == /\ AccountInit
                /\ loadingCount = 0 /\ indicator = FALSE
                /\ firestoreCalls = 0 /\ overlapped = FALSE

(***************************************************************************)
(* The counter                                                             *)
(***************************************************************************)
OperationStarted ==
  /\ loadingCount < MaxLoading
  /\ loadingCount' = loadingCount + 1
  /\ indicator' = IF loadingCount = 0 THEN TRUE ELSE indicator

\* Mutant: the completion and its caller both count the end.
OperationFinishedTwice ==
  /\ loadingCount' = loadingCount - 2
  /\ indicator' = IF loadingCount' = 0 THEN FALSE ELSE indicator

\* Mutant: the first operation to finish hides the indicator.
OperationFinishedHides ==
  /\ loadingCount' = IF loadingCount > 0 THEN loadingCount - 1 ELSE loadingCount
  /\ indicator' = FALSE

OperationFinished ==
  /\ loadingCount' = IF loadingCount > 0 THEN loadingCount - 1 ELSE loadingCount
  /\ indicator' = IF loadingCount' = 0 THEN FALSE ELSE indicator

NoOperation == UNCHANGED <<loadingCount, indicator>>

(***************************************************************************)
(* The operations                                                          *)
(***************************************************************************)
AwaitsGoogle(a) == /\ signIns[a].provider = "google"
                   /\ signIns[a].stage \in {"ui", "provider"}

\* signIn starts an operation once the purchase has been checked.
SignInStarts(a, p) ==
  /\ ChooseProvider(a, p)
  /\ IF purchased THEN OperationStarted ELSE NoOperation
  /\ overlapped' = IF purchased /\ p = "google" /\ \E b \in SignIns : AwaitsGoogle(b)
                   THEN TRUE ELSE overlapped
  /\ UNCHANGED firestoreCalls

\* Google's refusal reaches the completion, and the counter, only if one is
\* stored.
RefusalEndsIt(a) ==
  /\ ProviderRefuses(a)
  /\ IF Reached(a) = NoSignIn THEN NoOperation ELSE OperationFinished

\* Mutant: a Google credential ends the operation, too.
CredentialEndsIt(a) == ProviderAccepts(a) /\ OperationFinished

\* With Facebook and Twitter the operation ends before Firebase is asked.
CredentialArrives(a) ==
  /\ ProviderAccepts(a)
  /\ IF signIns[a].provider = "google" THEN NoOperation ELSE OperationFinished

\* With Google it ends with the answer of Firebase.
SignInEnds(a) ==
  /\ DeliverSignIn(a)
  /\ IF signIns[a].provider = "google" THEN OperationFinished ELSE NoOperation

\* A purchase or a restore.
StoreCallStarts(k) == StartStoreCall(k) /\ OperationStarted
StoreCallEnds(k, ok) == StoreAnswers(k, ok) /\ OperationFinished

\* A call of FirestoreManager; it is answered even when the manager is gone.
FirestoreAsked ==
  /\ running /\ firestoreCalls < MaxFirestoreCalls
  /\ firestoreCalls' = firestoreCalls + 1 /\ OperationStarted
  /\ UNCHANGED <<accountVars, overlapped>>

FirestoreAnswers ==
  /\ running /\ firestoreCalls > 0
  /\ firestoreCalls' = firestoreCalls - 1 /\ OperationFinished
  /\ UNCHANGED <<accountVars, overlapped>>

\* The process starts, or ends for one reason or another.
ProcessChanges ==
  /\ StartAccount \/ (\E reason \in Traps \ {"google"} : Kill(reason))
     \/ (\E a \in SignIns : GoogleTrap(a))
  /\ loadingCount' = 0 /\ indicator' = FALSE
  /\ firestoreCalls' = 0 /\ overlapped' = FALSE

\* The steps of the account that are no network operation of the app's.
OtherAccountStep ==
  /\ \/ OpenSheet \/ CancelSheet \/ OfferStore \/ WithdrawStore
     \/ ForcedSignOut
     \/ \E ok \in BOOLEAN : SignOut(ok)
     \/ \E a \in SignIns : DismissUI(a)
     \/ \E a \in SignIns, who \in Identities : FirebaseAnswers(a, who)
     \/ \E bought, last \in BOOLEAN : CompleteTransactions(bought, last)
  /\ NoOperation /\ UNCHANGED <<firestoreCalls, overlapped>>

ActivityNext ==
  \/ ProcessChanges \/ OtherAccountStep \/ FirestoreAsked \/ FirestoreAnswers
  \/ \E a \in SignIns, p \in Providers : SignInStarts(a, p)
  \/ /\ UNCHANGED <<firestoreCalls, overlapped>>
     /\ \/ \E a \in SignIns : RefusalEndsIt(a) \/ CredentialArrives(a) \/ SignInEnds(a)
        \/ \E k \in StoreKinds : StoreCallStarts(k)
        \/ \E k \in StoreKinds, ok \in BOOLEAN : StoreCallEnds(k, ok)

ActivitySpec == ActivityInit /\ [][ActivityNext]_activityVars /\ AccountFairness

(***************************************************************************)
(* Properties                                                              *)
(***************************************************************************)
\* The sign-ins, store calls and Firestore calls that are under way.
OpenSignIns ==
  {a \in SignIns : signIns[a].stage \in IF signIns[a].provider = "google"
                                        THEN {"ui", "provider", "auth", "answered"}
                                        ELSE {"ui", "provider"}}
InFlight == Cardinality(OpenSignIns) + storeCalls["purchase"] + storeCalls["restore"]
            + firestoreCalls

\* However the completions of sign-ins, purchases and documents interleave,
\* the indicator is not switched off while one of them is outstanding; and it
\* is switched off when none is, unless Google was asked for a second sign-in
\* before it answered the first (the second completion replaces the first,
\* whose operation is never finished).
IndicatorShowsWork ==
  /\ InFlight > 0 => indicator
  /\ InFlight = 0 /\ indicator => overlapped

\* The count behind the indicator is never too low, and it is exact until a
\* Google sign-in is overtaken by another: no completion of the account, the
\* store or Firestore counts an operation it did not start, or forgets one.
CountsOperations == /\ loadingCount >= InFlight
                    /\ ~overlapped => loadingCount = InFlight
=============================================================================
