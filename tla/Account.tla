------------------------------- MODULE Account -------------------------------
(***************************************************************************)
(* UserManager and IAPController: signing in through a provider and        *)
(* Firebase, signing out, buying and restoring Full Access, and the plan   *)
(* computed from both.  The menu's sign-in sheet and the store buttons are *)
(* here as far as they decide which calls can be made.                     *)
(*                                                                         *)
(* Every callback runs on the main queue, so a handler is one step; the    *)
(* calls it starts are answered by later steps.  Firebase sets its current *)
(* user on a queue of its own: when it signs a user in, and when it throws *)
(* one out whose token the server no longer accepts.  A kill of the        *)
(* process loses everything but the persistent state (user, purchased,     *)
(* launchedBefore).                                                        *)
(***************************************************************************)
EXTENDS Integers, Identity

CONSTANTS SignIns,       \* slots for sign-in attempts in flight (a bound)
          NoSignIn,      \* no stored google completion
          Providers,     \* the providers the sign-in sheet offers
          MaxStoreCalls  \* calls of one kind to StoreKit in flight (a bound)

ASSUME AccountAssumption ==
  /\ NoSignIn \notin SignIns
  /\ Providers \subseteq {"facebook", "twitter", "google"}
  /\ MaxStoreCalls \in Nat

VARIABLES
  user,             \* Auth.auth().currentUser (kept in the keychain)
  purchased,        \* IAPController.isPurchased (kept in UserDefaults)
  launchedBefore,   \* the first-launch flag (kept in UserDefaults)
  running,          \* is the process alive
  plan,             \* UserManager.currentPlan
  sheet,            \* is the "Sign In with" sheet on screen
  signIns,          \* the sign-in attempts in flight
  googleCompletion, \* whose completion UserManager.googleCompletion holds
  offered,          \* are purchase and restore buttons on screen
  storeCalls,       \* StoreKit calls not answered yet, by kind
  trap,             \* the runtime error that ended the last process, if any
  everPurchased,    \* history: was Full Access ever bought
  completions,      \* history: what became of the completion of each signIn
  lapses            \* history: what the plan has not been recomputed for

accountVars == <<user, purchased, launchedBefore, running, plan, sheet,
                 signIns, googleCompletion, offered, storeCalls, trap,
                 everPurchased, completions, lapses>>

Plans == {"free", "paid", "paidRegistered"}
StoreKinds == {"purchase", "restore"}
\* The errors of the google delegate and of Realm (see Favorites).
Traps == {"none", "google", "realm"}

\* ui: the provider's modal screen; provider: its answer is outstanding;
\* auth: Firebase was asked; answered: Firebase's callback waits for the
\* main queue, the current user being set already.  serves: the signIn whose
\* completion Firebase's callback will call.
Stages == {"idle", "ui", "provider", "auth", "answered"}
Attempts == [provider : Providers \cup {"none"}, stage : Stages,
             who : Identities, serves : SignIns \cup {NoSignIn}]
NoAttempt == [provider |-> "none", stage |-> "idle", who |-> NoUser,
              serves |-> NoSignIn]

\* A completion is due until it is called; one that is overwritten is lost.
Fates == {"none", "due", "lost"}

\* Firebase signed the user out by itself; the purchase was withdrawn.
Lapses == {"expelled", "withdrawn"}

AccountTypeOK ==
  /\ user \in Identities
  /\ purchased \in BOOLEAN
  /\ launchedBefore \in BOOLEAN
  /\ running \in BOOLEAN
  /\ plan \in Plans
  /\ sheet \in BOOLEAN
  /\ signIns \in [SignIns -> Attempts]
  /\ googleCompletion \in SignIns \cup {NoSignIn}
  /\ offered \in BOOLEAN
  /\ storeCalls \in [StoreKinds -> 0..MaxStoreCalls]
  /\ trap \in Traps
  /\ everPurchased \in BOOLEAN
  /\ completions \in [SignIns -> Fates]
  /\ lapses \in SUBSET Lapses

(***************************************************************************)
(* Helpers                                                                 *)
(***************************************************************************)
\* Mutant: a signed-in user is taken for a registered one, paid or not.
PlanOfIgnoringPurchase(u, p) ==
  IF u # NoUser THEN "paidRegistered" ELSE IF p THEN "paid" ELSE "free"

PlanOf(u, p) ==
  IF u # NoUser /\ p THEN "paidRegistered" ELSE IF p THEN "paid" ELSE "free"

UpdateCurrentPlan == plan' = PlanOf(user', purchased') /\ lapses' = {}
KeepPlan == UNCHANGED <<plan, lapses>>

\* The purchase ends and the plan stays what it was.
Withdrawn == IF purchased THEN lapses \cup {"withdrawn"} ELSE lapses

\* Mutant: setting the flag posts no DidPurchase notification.
SetPurchasedSilently(value) ==
  /\ purchased' = value
  /\ plan' = plan /\ lapses' = IF value THEN lapses ELSE Withdrawn

\* The setter of isPurchased: only TRUE posts DidPurchase, whose observer
\* recomputes the plan.
SetPurchased(value) ==
  /\ purchased' = value
  /\ IF value THEN UpdateCurrentPlan ELSE plan' = plan /\ lapses' = Withdrawn

\* Nothing modal covers the screen.
ScreenFree == ~sheet /\ \A a \in SignIns : signIns[a].stage # "ui"

\* The memory of a process that has not started or is gone.
ClearMemory ==
  /\ sheet' = FALSE
  /\ signIns' = [a \in SignIns |-> NoAttempt]
  /\ googleCompletion' = NoSignIn
  /\ offered' = FALSE
  /\ storeCalls' = [k \in StoreKinds |-> 0]
  /\ completions' = [a \in SignIns |-> "none"]
  /\ lapses' = {}

Dies(reason) ==
  /\ running' = FALSE
  /\ plan' = "free"
  /\ ClearMemory
  /\ trap' = reason
  /\ UNCHANGED <<user, purchased, launchedBefore, everPurchased>>

(***************************************************************************)
(* Life of the process                                                     *)
(***************************************************************************)
\* A fresh install; the keychain may still hold a user of an earlier one.
AccountInit ==
  /\ user \in Identities
  /\ purchased = FALSE
  /\ launchedBefore = FALSE
  /\ running = FALSE
  /\ plan = "free"
  /\ sheet = FALSE
  /\ signIns = [a \in SignIns |-> NoAttempt]
  /\ googleCompletion = NoSignIn
  /\ offered = FALSE
  /\ storeCalls = [k \in StoreKinds |-> 0]
  /\ trap = "none"
  /\ everPurchased = FALSE
  /\ completions = [a \in SignIns |-> "none"]
  /\ lapses = {}

\* UserManager.start: the first launch signs out (Firebase may refuse, the
\* flag is set all the same), then the plan is computed.
StartAccount ==
  /\ ~running /\ running' = TRUE
  /\ user' \in IF launchedBefore THEN {user} ELSE {NoUser, user}
  /\ launchedBefore' = TRUE
  /\ ClearMemory
  /\ trap' = "none"
  /\ UNCHANGED <<purchased, everPurchased>>
  /\ UpdateCurrentPlan

\* The system or the user ends the process, or an error outside this module.
Kill(reason) == running /\ Dies(reason)

(***************************************************************************)
(* Signing in and out                                                      *)
(***************************************************************************)
OnlySignIns == UNCHANGED <<purchased, launchedBefore, running, offered, storeCalls,
                           trap, everPurchased>>

\* The menu's login item, for nobody signed in: it asks for a provider.
OpenSheet ==
  /\ running /\ ScreenFree
  /\ purchased /\ user = NoUser
  /\ sheet' = TRUE
  /\ UNCHANGED <<user, plan, signIns, googleCompletion, completions, lapses>>
  /\ OnlySignIns

CancelSheet ==
  /\ running /\ sheet
  /\ sheet' = FALSE
  /\ UNCHANGED <<user, plan, signIns, googleCompletion, completions, lapses>>
  /\ OnlySignIns

\* signIn is called and its completion is due; one that google's delegate
\* still held for another attempt is overwritten, never to be called.
Due(a, p) ==
  completions' = [b \in SignIns |->
                    IF b = a THEN "due"
                    ELSE IF p = "google" /\ b = googleCompletion THEN "lost"
                    ELSE completions[b]]

\* Mutant: the google attempt does not store its completion.
ChooseProviderUnstored(a, p) ==
  /\ running /\ sheet /\ purchased
  /\ signIns[a].stage = "idle" /\ completions[a] # "due"
  /\ sheet' = FALSE
  /\ signIns' = [signIns EXCEPT ![a] = [NoAttempt EXCEPT !.provider = p, !.stage = "ui"]]
  /\ completions' = [completions EXCEPT ![a] = "due"]
  /\ UNCHANGED <<user, googleCompletion>> /\ KeepPlan /\ OnlySignIns

\* UserManager.signIn: refused without a purchase, else the provider is
\* asked.  Google alone may need no screen, when it still holds a token, and
\* alone stores the completion in a property.
ChooseProvider(a, p) ==
  /\ running /\ sheet
  /\ signIns[a].stage = "idle" /\ completions[a] # "due"
  /\ sheet' = FALSE
  /\ \/ /\ ~purchased
        /\ UNCHANGED <<signIns, googleCompletion, completions>>
     \/ /\ purchased
        /\ \E st \in IF p = "google" THEN {"ui", "provider"} ELSE {"ui"} :
             signIns' = [signIns EXCEPT ![a] =
                           [NoAttempt EXCEPT !.provider = p, !.stage = st]]
        /\ googleCompletion' = IF p = "google" THEN a ELSE googleCompletion
        /\ Due(a, p)
  /\ UNCHANGED user /\ KeepPlan /\ OnlySignIns

\* The provider's screen closes; its answer is still to come.
DismissUI(a) ==
  /\ running /\ signIns[a].stage = "ui"
  /\ signIns' = [signIns EXCEPT ![a].stage = "provider"]
  /\ UNCHANGED <<user, sheet, googleCompletion, completions>> /\ KeepPlan /\ OnlySignIns

\* Mutant: the google delegate keeps a completion it has called.
ForgetKept(a) == googleCompletion' = googleCompletion

\* The google delegate ends by clearing the stored completion.
Forget(a) ==
  googleCompletion' = IF signIns[a].provider = "google" THEN NoSignIn
                      ELSE googleCompletion

\* The signIn whose completion the answer to a reaches: google's delegate
\* knows only the stored one, Facebook and Twitter call their own.
Reached(a) == IF signIns[a].provider = "google" THEN googleCompletion ELSE a

Called(c) == completions' = [b \in SignIns |-> IF b = c THEN "none" ELSE completions[b]]

\* An error, a cancellation or a missing token: the completion is called,
\* unless google's delegate has none.
ProviderRefuses(a) ==
  /\ running /\ signIns[a].stage = "provider"
  /\ signIns' = [signIns EXCEPT ![a] = NoAttempt]
  /\ Forget(a) /\ Called(Reached(a))
  /\ UNCHANGED <<user, sheet>> /\ OnlySignIns
  /\ IF Reached(a) = NoSignIn THEN KeepPlan ELSE UpdateCurrentPlan

\* Mutant: Firebase is asked with the completion of the attempt itself.
ProviderAcceptsOwn(a) ==
  /\ running /\ signIns[a].stage = "provider" /\ Reached(a) # NoSignIn
  /\ signIns' = [signIns EXCEPT ![a] = [@ EXCEPT !.stage = "auth", !.serves = a]]
  /\ Forget(a)
  /\ UNCHANGED <<user, sheet, completions>> /\ KeepPlan /\ OnlySignIns

\* A credential: Firebase is asked with it, and with the completion reached.
ProviderAccepts(a) ==
  /\ running /\ signIns[a].stage = "provider" /\ Reached(a) # NoSignIn
  /\ signIns' = [signIns EXCEPT ![a] =
                    [@ EXCEPT !.stage = "auth", !.serves = Reached(a)]]
  /\ Forget(a)
  /\ UNCHANGED <<user, sheet, completions>> /\ KeepPlan /\ OnlySignIns

\* A google credential and no stored completion: the assertion fails, and in
\* a release build the forced unwrap after it.
GoogleTrap(a) ==
  /\ running /\ signIns[a].stage = "provider" /\ Reached(a) = NoSignIn
  /\ Dies("google")

\* Firebase sets the current user and queues the callback.
FirebaseAnswers(a, who) ==
  /\ running /\ signIns[a].stage = "auth"
  /\ user' = IF who = NoUser THEN user ELSE who
  /\ signIns' = [signIns EXCEPT ![a] = [@ EXCEPT !.stage = "answered", !.who = who]]
  /\ UNCHANGED <<sheet, googleCompletion, completions>> /\ KeepPlan /\ OnlySignIns

\* Mutant: the callback of Firebase leaves the plan alone.
DeliverSignInStalePlan(a) ==
  /\ running /\ signIns[a].stage = "answered"
  /\ signIns' = [signIns EXCEPT ![a] = NoAttempt]
  /\ Called(signIns[a].serves)
  /\ UNCHANGED <<user, sheet, googleCompletion>> /\ KeepPlan /\ OnlySignIns

\* Mutant: the callback of Firebase returns early on an error.
DeliverSignInOnSuccess(a) ==
  /\ running /\ signIns[a].stage = "answered" /\ signIns[a].who # NoUser
  /\ signIns' = [signIns EXCEPT ![a] = NoAttempt]
  /\ Called(signIns[a].serves)
  /\ UNCHANGED <<user, sheet, googleCompletion>> /\ OnlySignIns
  /\ UpdateCurrentPlan

\* The callback of Firebase: the plan, the completion, DidSignIn on success.
DeliverSignIn(a) ==
  /\ running /\ signIns[a].stage = "answered"
  /\ signIns' = [signIns EXCEPT ![a] = NoAttempt]
  /\ Called(signIns[a].serves)
  /\ UNCHANGED <<user, sheet, googleCompletion>> /\ OnlySignIns
  /\ UpdateCurrentPlan

\* Mutant: a successful sign-out forgets to recompute the plan.
SignOutStalePlan(ok) ==
  /\ running /\ ScreenFree
  /\ purchased /\ user # NoUser
  /\ user' = IF ok THEN NoUser ELSE user
  /\ UNCHANGED <<sheet, signIns, googleCompletion, completions>>
  /\ KeepPlan /\ OnlySignIns

\* The menu's login item for a signed-in user.  Firebase may refuse (ok =
\* FALSE): the plan stays, though WillSignOut has been posted already.
SignOut(ok) ==
  /\ running /\ ScreenFree
  /\ purchased /\ user # NoUser
  /\ user' = IF ok THEN NoUser ELSE user
  /\ UNCHANGED <<sheet, signIns, googleCompletion, completions>> /\ OnlySignIns
  /\ IF ok THEN UpdateCurrentPlan ELSE KeepPlan

\* A fetch of the user's token, which every stream of Firestore begins with,
\* learns that the account is gone, disabled or no longer trusted: Firebase
\* signs its user out, here and in the keychain.  The app observes nothing
\* of it, so that the plan stays.
ForcedSignOut ==
  /\ running /\ user # NoUser
  /\ user' = NoUser
  /\ lapses' = IF plan = "paidRegistered" THEN lapses \cup {"expelled"} ELSE lapses
  /\ UNCHANGED <<plan, sheet, signIns, googleCompletion, completions>> /\ OnlySignIns

(***************************************************************************)
(* Full Access                                                             *)
(***************************************************************************)
OnlyStore == UNCHANGED <<user, launchedBefore, running, sheet, signIns,
                         googleCompletion, trap, completions>>

\* A screen or an alert with store buttons appears; the buttons are chosen
\* when it is built, and stay when the purchase succeeds behind it.
OfferStore ==
  /\ running /\ ~purchased /\ ~offered /\ MaxStoreCalls > 0
  /\ offered' = TRUE
  /\ UNCHANGED <<purchased, storeCalls, everPurchased>> /\ KeepPlan /\ OnlyStore

WithdrawStore ==
  /\ running /\ offered
  /\ offered' = FALSE
  /\ UNCHANGED <<purchased, storeCalls, everPurchased>> /\ KeepPlan /\ OnlyStore

StartStoreCall(k) ==
  /\ running /\ offered /\ storeCalls[k] < MaxStoreCalls
  /\ storeCalls' = [storeCalls EXCEPT ![k] = @ + 1]
  /\ UNCHANGED <<purchased, offered, everPurchased>> /\ KeepPlan /\ OnlyStore

\* Mutant: a call is answered twice.
StoreAnswersAgain(k, ok) ==
  /\ running /\ offered
  /\ storeCalls' = [storeCalls EXCEPT ![k] = @ - 1]
  /\ everPurchased' = (everPurchased \/ ok)
  /\ UNCHANGED offered /\ OnlyStore
  /\ SetPurchased(ok)

\* The answer to a purchase or a restore; every failure clears the flag.
StoreAnswers(k, ok) ==
  /\ running /\ storeCalls[k] > 0
  /\ storeCalls' = [storeCalls EXCEPT ![k] = @ - 1]
  /\ everPurchased' = (everPurchased \/ ok)
  /\ UNCHANGED offered /\ OnlyStore
  /\ SetPurchased(ok)

\* completeTransactions hands over a list of transactions, and each sets the
\* flag in turn: what counts is whether one was bought and how the last ended.
CompleteTransactions(bought, last) ==
  /\ running /\ (last => bought)
  /\ purchased' = last
  /\ plan' = IF bought THEN PlanOf(user, TRUE) ELSE plan
  /\ lapses' = IF last THEN {} ELSE IF bought THEN {"withdrawn"} ELSE Withdrawn
  /\ everPurchased' = (everPurchased \/ bought)
  /\ UNCHANGED <<offered, storeCalls>> /\ OnlyStore

(***************************************************************************)
(* The specification                                                       *)
(***************************************************************************)
AttemptNext(a) ==
  \/ \E p \in Providers : ChooseProvider(a, p)
  \/ DismissUI(a)
  \/ ProviderRefuses(a)
  \/ ProviderAccepts(a)
  \/ GoogleTrap(a)
  \/ \E who \in Identities : FirebaseAnswers(a, who)
  \/ DeliverSignIn(a)

StoreNext ==
  \/ OfferStore
  \/ WithdrawStore
  \/ \E k \in StoreKinds : StartStoreCall(k)
  \/ \E k \in StoreKinds, ok \in BOOLEAN : StoreAnswers(k, ok)
  \/ \E bought, last \in BOOLEAN : CompleteTransactions(bought, last)

AccountNext ==
  \/ StartAccount
  \/ \E reason \in Traps \ {"google"} : Kill(reason)
  \/ OpenSheet
  \/ CancelSheet
  \/ \E ok \in BOOLEAN : SignOut(ok)
  \/ ForcedSignOut
  \/ \E a \in SignIns : AttemptNext(a)
  \/ StoreNext

\* The SDKs call every completion once, and the main queue runs what is
\* queued.  Nothing is assumed of the user, of the store or of the tokens.
AccountFairness ==
  \A a \in SignIns :
    /\ WF_accountVars(ProviderRefuses(a) \/ ProviderAccepts(a) \/ GoogleTrap(a))
    /\ WF_accountVars(\E who \in Identities : FirebaseAnswers(a, who))
    /\ WF_accountVars(DeliverSignIn(a))

AccountSpec == AccountInit /\ [][AccountNext]_accountVars /\ AccountFairness

(***************************************************************************)
(* Properties                                                              *)
(***************************************************************************)
\* While Full Access is paid for, the plan never falls back to "free" (the
\* plan that hides the account's favourites).  And once no Firebase callback
\* is waiting for the main queue, the plan is that of the current user and
\* purchase, except where nobody recomputes it: after Firebase signed the user
\* out by itself, and after the flag was cleared.  Every other path that signs
\* in, signs out or buys reaches updateCurrentPlan, and that repairs both.
PlanHonoursPurchase ==
  running =>
    /\ purchased => plan # "free"
    /\ lapses = {} /\ (\A a \in SignIns : signIns[a].stage # "answered")
         => plan = PlanOf(user, purchased)

\* The registered plan, which sends favourites to Firestore, is in force
\* without a user only when Firebase signed that user out by itself; not when
\* the purchase is withdrawn behind the plan's back and the user then leaves.
RegisteredHasUser ==
  plan = "paidRegistered" => user # NoUser \/ "expelled" \in lapses

\* The stored google completion is that of a google attempt Google has still
\* to answer: never one of an attempt that is over.
GoogleCompletionAwaited ==
  googleCompletion # NoSignIn =>
    /\ signIns[googleCompletion].provider = "google"
    /\ signIns[googleCompletion].stage \in {"ui", "provider"}

\* UserManager.swift:169 asserts that a google credential finds a stored
\* completion: the process never ends there.
NoGoogleTrap == trap # "google"

\* A completion passed to signIn is due exactly as long as somebody holds it:
\* its own request to Facebook or Twitter, googleCompletion, or one call to
\* Firebase; and only one of them does.  However attempts overlap, none is
\* called twice, and none is forgotten but by being overwritten.
AsksFor(c) == /\ signIns[c].provider # "google"
              /\ signIns[c].stage \in {"ui", "provider"}

CompletionHeldOnce ==
  /\ \A c \in SignIns :
       completions[c] = "due" <=>
         \/ AsksFor(c)
         \/ googleCompletion = c
         \/ \E a \in SignIns : signIns[a].serves = c
  /\ \A a, b \in SignIns :
       signIns[a].serves = b =>
         /\ ~AsksFor(b) /\ googleCompletion # b
         /\ \A d \in SignIns : signIns[d].serves = b => d = a

\* Once no screen of the provider holds it up, a completion that is due does
\* not stay so: it is called by the chain provider, Firebase, main queue, or
\* another google attempt overwrites it ("lost", the fault NoGoogleTrap meets
\* from its other end), or the process ends.
SignInSettles ==
  \A a \in SignIns :
    completions[a] = "due" /\ signIns[a].stage # "ui" ~> completions[a] # "due"

\* The account as the rest of the app sees it is the one Membership promises.
Promise == INSTANCE Membership WITH
             member <- user, paid <- purchased, granted <- plan, up <- running,
             lapsed <- "expelled" \in lapses
ImplementsMembership == Promise!Spec
=============================================================================
