---------------------------- MODULE AccountProofs ----------------------------
(***************************************************************************)
(* What holds of Account for every set of users, providers and sign-in     *)
(* slots.  AccountInv is inductive as it stands; each action that touches  *)
(* the account has a step of its own.                                      *)
(***************************************************************************)
EXTENDS Account, TLAPS

\* A dead process has no plan but the initial one.
DeadIsFree == ~running => plan = "free"

\* Only a call to Firebase has taken a completion over.
ServedByFirebase ==
  \A a \in SignIns :
    signIns[a].serves # NoSignIn => signIns[a].stage \in {"auth", "answered"}

AccountInv ==
  /\ AccountTypeOK
  /\ PlanHonoursPurchase
  /\ RegisteredHasUser
  /\ GoogleCompletionAwaited
  /\ CompletionHeldOnce
  /\ DeadIsFree
  /\ ServedByFirebase

\* What ClearMemory and AccountInit start from is typed.
LEMMA ClearedType ==
  /\ [a \in SignIns |-> NoAttempt] \in [SignIns -> Attempts]
  /\ [k \in StoreKinds |-> 0] \in [StoreKinds -> 0..MaxStoreCalls]
  /\ [a \in SignIns |-> "none"] \in [SignIns -> Fates]
<1>1. NoAttempt \in Attempts /\ "none" \in Fates
  BY DEF NoAttempt, Attempts, Stages, Identities, Fates
<1>2. 0 \in 0..MaxStoreCalls
  BY AccountAssumption
<1> QED BY <1>1, <1>2

\* The initial states of AccountInit are typed and satisfy the rest.
LEMMA AccountInitInv == AccountInit => AccountInv
<1> SUFFICES ASSUME AccountInit PROVE AccountInv
  OBVIOUS
<1>1. AccountTypeOK
  BY ClearedType DEF AccountInit, AccountTypeOK, Plans, Traps
<1>2. /\ PlanHonoursPurchase /\ RegisteredHasUser
      /\ GoogleCompletionAwaited /\ DeadIsFree
  BY DEF AccountInit, PlanHonoursPurchase, RegisteredHasUser, GoogleCompletionAwaited, DeadIsFree
<1>3. CompletionHeldOnce /\ ServedByFirebase
  BY AccountAssumption
  DEF AccountInit, CompletionHeldOnce, AsksFor, NoAttempt, ServedByFirebase
<1> QED BY <1>1, <1>2, <1>3 DEF AccountInv

\* The plan computed from any account is a plan.
LEMMA PlanOfType == \A u \in Identities, p \in BOOLEAN : PlanOf(u, p) \in Plans
  BY DEF PlanOf, Plans

\* What UserManager.signIn does to the attempts: one slot, idle before, now
\* waits for its provider, and calls nobody else's completion.
LEMMA ChosenSlot ==
  ASSUME signIns \in [SignIns -> Attempts], NEW a \in SignIns, NEW p \in Providers,
         ChooseProvider(a, p), purchased
  PROVE  /\ signIns' \in [SignIns -> Attempts]
         /\ signIns'[a].provider = p /\ signIns'[a].stage \in {"ui", "provider"}
         /\ signIns'[a].serves = NoSignIn
         /\ \A b \in SignIns : b # a => signIns'[b] = signIns[b]
<1>1. PICK st \in {"ui", "provider"} :
        signIns' = [signIns EXCEPT ![a] = [NoAttempt EXCEPT !.provider = p, !.stage = st]]
  BY DEF ChooseProvider
<1> DEFINE slot == [NoAttempt EXCEPT !.provider = p, !.stage = st]
<1>2. /\ slot.provider = p /\ slot.stage = st /\ slot.serves = NoSignIn
      /\ slot \in Attempts
  BY DEF NoAttempt, Attempts, Stages, Identities
<1>3. signIns' = [signIns EXCEPT ![a] = slot]
  BY <1>1
<1> HIDE DEF slot
<1> QED BY <1>1, <1>2, <1>3

\* Each step keeps the types of Account's variables (UserManager's and
\* IAPController's properties and the calls in flight).
LEMMA AccountTypeStep == AccountTypeOK /\ [AccountNext]_accountVars => AccountTypeOK'
<1> SUFFICES ASSUME AccountTypeOK, [AccountNext]_accountVars PROVE AccountTypeOK'
  OBVIOUS
<1>1. CASE StartAccount
  BY <1>1, ClearedType, PlanOfType
  DEF StartAccount, AccountTypeOK, UpdateCurrentPlan, ClearMemory, Traps, Identities
<1>2. ASSUME NEW reason \in Traps, Dies(reason) PROVE AccountTypeOK'
  BY <1>2, ClearedType DEF Dies, AccountTypeOK, ClearMemory, Plans
<1> USE AccountAssumption, IdentityAssumption, PlanOfType
    DEF AccountTypeOK, Identities, Plans, StoreKinds, Traps, Stages, Attempts,
        NoAttempt, UpdateCurrentPlan, KeepPlan, OnlySignIns, OnlyStore, Fates, Lapses,
        Withdrawn, Called, Due, Reached
<1>3. CASE OpenSheet \/ CancelSheet
  BY <1>3 DEF OpenSheet, CancelSheet
<1>4. ASSUME NEW ok \in BOOLEAN, SignOut(ok) PROVE AccountTypeOK'
  BY <1>4 DEF SignOut
<1>8. CASE ForcedSignOut
  BY <1>8 DEF ForcedSignOut
<1>5. ASSUME NEW a \in SignIns, AttemptNext(a) PROVE AccountTypeOK'
  <2>1. ASSUME NEW p \in Providers, ChooseProvider(a, p) PROVE AccountTypeOK'
    <3>1. CASE purchased
      <4>1. signIns' \in [SignIns -> Attempts]
        BY <2>1, <3>1, ChosenSlot
      <4>2. completions' \in [SignIns -> Fates]
        BY <2>1, <3>1 DEF ChooseProvider
      <4>3. googleCompletion' \in SignIns \cup {NoSignIn}
        BY <2>1, <3>1 DEF ChooseProvider
      <4> QED BY <2>1, <4>1, <4>2, <4>3 DEF ChooseProvider
    <3>2. CASE ~purchased
      BY <2>1, <3>2 DEF ChooseProvider
    <3> QED BY <3>1, <3>2
  <2>2. CASE DismissUI(a)
    BY <2>2 DEF DismissUI
  <2>3. CASE ProviderRefuses(a)
    BY <2>3 DEF ProviderRefuses, Forget
  <2>4. CASE ProviderAccepts(a)
    <3>1. Reached(a) \in SignIns \cup {NoSignIn} /\ signIns[a] \in Attempts
      OBVIOUS
    <3>2. [signIns[a] EXCEPT !.stage = "auth", !.serves = Reached(a)] \in Attempts
      BY <3>1
    <3> QED BY <2>4, <3>2 DEF ProviderAccepts, Forget
  <2>5. CASE GoogleTrap(a)
    BY <2>5, <1>2 DEF GoogleTrap
  <2>6. ASSUME NEW who \in Identities, FirebaseAnswers(a, who) PROVE AccountTypeOK'
    <3>1. [signIns[a] EXCEPT !.stage = "answered", !.who = who] \in Attempts
      <4>1. signIns[a] \in Attempts /\ "answered" \in Stages
        OBVIOUS
      <4> QED BY <4>1
    <3> QED BY <2>6, <3>1 DEF FirebaseAnswers
  <2>7. CASE DeliverSignIn(a)
    BY <2>7 DEF DeliverSignIn
  <2> QED BY <1>5, <2>1, <2>2, <2>3, <2>4, <2>5, <2>6, <2>7 DEF AttemptNext
<1>6. CASE StoreNext
  <2>1. CASE OfferStore \/ WithdrawStore
    BY <2>1 DEF OfferStore, WithdrawStore
  <2>2. ASSUME NEW k \in StoreKinds, StartStoreCall(k) PROVE AccountTypeOK'
    BY <2>2 DEF StartStoreCall
  <2>3. ASSUME NEW k \in StoreKinds, NEW ok \in BOOLEAN, StoreAnswers(k, ok)
        PROVE  AccountTypeOK'
    <3>1. /\ purchased' \in BOOLEAN /\ plan' \in Plans /\ lapses' \in SUBSET Lapses
          /\ everPurchased' \in BOOLEAN
      BY <2>3 DEF StoreAnswers, SetPurchased
    <3>2. storeCalls' \in [StoreKinds -> 0..MaxStoreCalls]
      BY <2>3 DEF StoreAnswers
    <3> QED BY <2>3, <3>1, <3>2 DEF StoreAnswers
  <2>4. ASSUME NEW bought \in BOOLEAN, NEW last \in BOOLEAN,
               CompleteTransactions(bought, last)
        PROVE  AccountTypeOK'
    BY <2>4 DEF CompleteTransactions
  <2> QED BY <1>6, <2>1, <2>2, <2>3, <2>4 DEF StoreNext
<1>7. CASE UNCHANGED accountVars
  BY <1>7 DEF accountVars
<1> QED BY <1>1, <1>2, <1>3, <1>4, <1>5, <1>6, <1>7, <1>8 DEF AccountNext, Kill

\* A step either recomputes the plan from the account it leaves, or leaves
\* plan and purchase alone, or withdraws the purchase, or expels the user: the
\* cases the invariants below need, action by action.
PlanStep ==
  \/ running' /\ plan' = PlanOf(user', purchased')
  \/ ~running' /\ plan' = "free"
  \/ /\ UNCHANGED <<user, purchased, plan, running, lapses>>
     /\ \A a \in SignIns : signIns[a].stage = "answered" => signIns'[a].stage = "answered"
  \/ /\ UNCHANGED <<purchased, plan, running, lapses>>
     /\ \E a \in SignIns : signIns'[a].stage = "answered"
     /\ user' \in Users \cup {user}
  \/ /\ ~purchased' /\ running /\ UNCHANGED <<user, running, signIns>>
     /\ \/ plan' = plan /\ lapses' = Withdrawn
        \/ plan' = PlanOf(user, TRUE) /\ lapses' = {"withdrawn"}
  \/ /\ UNCHANGED <<purchased, plan, running, signIns>> /\ user # NoUser /\ user' = NoUser
     /\ lapses' = IF plan = "paidRegistered" THEN lapses \cup {"expelled"} ELSE lapses

LEMMA PlanStepHolds == AccountTypeOK /\ [AccountNext]_accountVars => PlanStep
<1> SUFFICES ASSUME AccountTypeOK, [AccountNext]_accountVars PROVE PlanStep
  OBVIOUS
<1>1. CASE StartAccount
  BY <1>1 DEF StartAccount, UpdateCurrentPlan, PlanStep, AccountTypeOK
<1>2. ASSUME NEW reason, Dies(reason) PROVE PlanStep
  BY <1>2 DEF Dies, PlanStep
<1>3. CASE OpenSheet \/ CancelSheet
  BY <1>3 DEF OpenSheet, CancelSheet, OnlySignIns, KeepPlan, PlanStep
<1>4. ASSUME NEW ok \in BOOLEAN, SignOut(ok) PROVE PlanStep
  BY <1>4 DEF SignOut, OnlySignIns, KeepPlan, UpdateCurrentPlan, PlanStep, AccountTypeOK
<1>8. CASE ForcedSignOut
  BY <1>8 DEF ForcedSignOut, OnlySignIns, PlanStep
<1>5. ASSUME NEW a \in SignIns, AttemptNext(a) PROVE PlanStep
  <2>0. signIns \in [SignIns -> Attempts]
    BY DEF AccountTypeOK
  <2>1. ASSUME NEW p \in Providers, ChooseProvider(a, p) PROVE PlanStep
    BY <2>0, <2>1 DEF ChooseProvider, OnlySignIns, KeepPlan, PlanStep, Attempts
  <2>2. CASE DismissUI(a)
    BY <2>0, <2>2 DEF DismissUI, OnlySignIns, KeepPlan, PlanStep, Attempts
  <2>3. CASE ProviderRefuses(a)
    BY <2>0, <2>3 DEF ProviderRefuses, OnlySignIns, KeepPlan, UpdateCurrentPlan, PlanStep, Attempts,
                      AccountTypeOK
  <2>4. CASE ProviderAccepts(a)
    BY <2>0, <2>4 DEF ProviderAccepts, OnlySignIns, KeepPlan, PlanStep, Attempts
  <2>5. CASE GoogleTrap(a)
    BY <2>5, <1>2 DEF GoogleTrap
  <2>6. ASSUME NEW who \in Identities, FirebaseAnswers(a, who) PROVE PlanStep
    <3>1. signIns'[a].stage = "answered"
      BY <2>0, <2>6 DEF FirebaseAnswers, Attempts
    <3> QED BY <2>6, <3>1 DEF FirebaseAnswers, OnlySignIns, KeepPlan, PlanStep, Identities
  <2>7. CASE DeliverSignIn(a)
    BY <2>7 DEF DeliverSignIn, OnlySignIns, KeepPlan, UpdateCurrentPlan, PlanStep, AccountTypeOK
  <2> QED BY <1>5, <2>1, <2>2, <2>3, <2>4, <2>5, <2>6, <2>7 DEF AttemptNext
<1>6. CASE StoreNext
  <2>1. CASE OfferStore \/ WithdrawStore \/ \E k \in StoreKinds : StartStoreCall(k)
    BY <2>1 DEF OfferStore, WithdrawStore, StartStoreCall, OnlyStore, KeepPlan, PlanStep
  <2>2. ASSUME NEW k \in StoreKinds, NEW ok \in BOOLEAN, StoreAnswers(k, ok)
        PROVE  PlanStep
    BY <2>2 DEF StoreAnswers, SetPurchased, UpdateCurrentPlan, OnlyStore, KeepPlan, PlanStep
  <2>3. ASSUME NEW bought \in BOOLEAN, NEW last \in BOOLEAN,
               CompleteTransactions(bought, last)
        PROVE  PlanStep
    <3>1. CASE last
      BY <2>3, <3>1 DEF CompleteTransactions, OnlyStore, KeepPlan, PlanStep
    <3>2. CASE ~last
      BY <2>3, <3>2 DEF CompleteTransactions, OnlyStore, KeepPlan, PlanStep
    <3> QED BY <3>1, <3>2
  <2> QED BY <1>6, <2>1, <2>2, <2>3 DEF StoreNext
<1>7. CASE UNCHANGED accountVars
  BY <1>7 DEF accountVars, PlanStep
<1> QED BY <1>1, <1>2, <1>3, <1>4, <1>5, <1>6, <1>7, <1>8 DEF AccountNext, Kill

\* Before the first purchase there is no purchase flag and no plan but free.
NeverPurchased == ~everPurchased => ~purchased /\ plan = "free"

LEMMA NeverPurchasedStep == NeverPurchased /\ [AccountNext]_accountVars => NeverPurchased'
<1> SUFFICES ASSUME NeverPurchased, [AccountNext]_accountVars PROVE NeverPurchased'
  OBVIOUS
<1> USE DEF NeverPurchased
<1>1. CASE StartAccount \/ \E reason \in Traps : Kill(reason)
  BY <1>1 DEF StartAccount, Kill, Dies, UpdateCurrentPlan, PlanOf
<1>2. CASE OpenSheet \/ CancelSheet \/ ForcedSignOut \/ \E ok \in BOOLEAN : SignOut(ok)
  BY <1>2 DEF OpenSheet, CancelSheet, ForcedSignOut, SignOut, OnlySignIns, KeepPlan,
              UpdateCurrentPlan, PlanOf
<1>3. ASSUME NEW a \in SignIns, AttemptNext(a) PROVE NeverPurchased'
  <2>1. ASSUME UNCHANGED <<purchased, everPurchased>>,
               plan' \in {plan, "free", PlanOf(user', purchased')}
        PROVE  NeverPurchased'
    BY <2>1 DEF PlanOf
  <2>2. CASE \/ \E p \in Providers : ChooseProvider(a, p)
             \/ DismissUI(a) \/ ProviderAccepts(a)
             \/ \E who \in Identities : FirebaseAnswers(a, who)
    BY <2>1, <2>2 DEF ChooseProvider, DismissUI, ProviderAccepts, FirebaseAnswers, KeepPlan,
                      OnlySignIns
  <2>3. CASE ProviderRefuses(a)
    BY <2>1, <2>3 DEF ProviderRefuses, KeepPlan, UpdateCurrentPlan, OnlySignIns
  <2>4. CASE GoogleTrap(a)
    BY <2>1, <2>4 DEF GoogleTrap, Dies
  <2>5. CASE DeliverSignIn(a)
    BY <2>1, <2>5 DEF DeliverSignIn, UpdateCurrentPlan, OnlySignIns
  <2> QED BY <1>3, <2>2, <2>3, <2>4, <2>5 DEF AttemptNext
<1>4. CASE StoreNext
  <2>1. CASE OfferStore \/ WithdrawStore \/ \E k \in StoreKinds : StartStoreCall(k)
    BY <2>1 DEF OfferStore, WithdrawStore, StartStoreCall, KeepPlan, OnlyStore
  <2>2. ASSUME NEW k \in StoreKinds, NEW ok \in BOOLEAN, StoreAnswers(k, ok)
        PROVE  NeverPurchased'
    BY <2>2 DEF StoreAnswers, SetPurchased, OnlyStore
  <2>3. ASSUME NEW bought \in BOOLEAN, NEW last \in BOOLEAN,
               CompleteTransactions(bought, last)
        PROVE  NeverPurchased'
    BY <2>3 DEF CompleteTransactions, OnlyStore
  <2> QED BY <1>4, <2>1, <2>2, <2>3 DEF StoreNext
<1>5. CASE UNCHANGED accountVars
  BY <1>5 DEF accountVars
<1> QED BY <1>1, <1>2, <1>3, <1>4, <1>5 DEF AccountNext

\* The plan facts survive each of those kinds of step.
LEMMA PlanInvStep ==
  ASSUME AccountTypeOK, PlanHonoursPurchase, RegisteredHasUser, DeadIsFree, PlanStep
  PROVE  PlanHonoursPurchase' /\ RegisteredHasUser' /\ DeadIsFree'
<1> USE IdentityAssumption
<1>1. CASE running' /\ plan' = PlanOf(user', purchased')
  BY <1>1 DEF PlanOf, PlanHonoursPurchase, RegisteredHasUser, DeadIsFree
<1>2. CASE ~running' /\ plan' = "free"
  BY <1>2 DEF PlanHonoursPurchase, RegisteredHasUser, DeadIsFree
<1>3. CASE /\ UNCHANGED <<user, purchased, plan, running, lapses>>
           /\ \A a \in SignIns :
                signIns[a].stage = "answered" => signIns'[a].stage = "answered"
  BY <1>3 DEF PlanHonoursPurchase, RegisteredHasUser, DeadIsFree, PlanOf
<1>4. CASE /\ UNCHANGED <<purchased, plan, running, lapses>>
           /\ \E a \in SignIns : signIns'[a].stage = "answered"
           /\ user' \in Users \cup {user}
  BY <1>4 DEF PlanHonoursPurchase, RegisteredHasUser, DeadIsFree
<1>5. CASE /\ ~purchased' /\ running /\ UNCHANGED <<user, running, signIns>>
           /\ \/ plan' = plan /\ lapses' = Withdrawn
              \/ plan' = PlanOf(user, TRUE) /\ lapses' = {"withdrawn"}
  <2>1. CASE plan' = PlanOf(user, TRUE) /\ lapses' = {"withdrawn"}
    BY <1>5, <2>1 DEF PlanHonoursPurchase, RegisteredHasUser, DeadIsFree, PlanOf
  <2>2. CASE plan' = plan /\ lapses' = Withdrawn /\ purchased
    BY <1>5, <2>2 DEF PlanHonoursPurchase, RegisteredHasUser, DeadIsFree, Withdrawn
  <2>3. CASE plan' = plan /\ lapses' = Withdrawn /\ ~purchased
    BY <1>5, <2>3 DEF PlanHonoursPurchase, RegisteredHasUser, DeadIsFree, Withdrawn, PlanOf
  <2> QED BY <1>5, <2>1, <2>2, <2>3
<1>6. CASE /\ UNCHANGED <<purchased, plan, running, signIns>> /\ user # NoUser /\ user' = NoUser
           /\ lapses' = IF plan = "paidRegistered" THEN lapses \cup {"expelled"} ELSE lapses
  <2>1. CASE plan = "paidRegistered"
    BY <1>6, <2>1 DEF PlanHonoursPurchase, RegisteredHasUser, DeadIsFree
  <2>2. CASE plan # "paidRegistered"
    BY <1>6, <2>2 DEF PlanHonoursPurchase, RegisteredHasUser, DeadIsFree, PlanOf
  <2> QED BY <2>1, <2>2
<1> QED BY <1>1, <1>2, <1>3, <1>4, <1>5, <1>6 DEF PlanStep

\* The stored google completion: set by an attempt that asks Google, cleared
\* by every delegate call, and never touched by anyone else.
LEMMA GoogleStep ==
  AccountTypeOK /\ GoogleCompletionAwaited /\ [AccountNext]_accountVars
    => GoogleCompletionAwaited'
<1> SUFFICES ASSUME AccountTypeOK, GoogleCompletionAwaited, [AccountNext]_accountVars
             PROVE  GoogleCompletionAwaited'
  OBVIOUS
<1>0. /\ signIns \in [SignIns -> Attempts]
      /\ googleCompletion \in SignIns \cup {NoSignIn}
  BY DEF AccountTypeOK
<1> USE AccountAssumption DEF GoogleCompletionAwaited
<1>1. ASSUME googleCompletion' = NoSignIn PROVE GoogleCompletionAwaited'
  BY <1>1
<1>2. ASSUME UNCHANGED <<signIns, googleCompletion>> PROVE GoogleCompletionAwaited'
  BY <1>2
<1>3. ASSUME NEW a \in SignIns, AttemptNext(a) PROVE GoogleCompletionAwaited'
  <2>1. ASSUME NEW p \in Providers, ChooseProvider(a, p) PROVE GoogleCompletionAwaited'
    <3>1. CASE ~purchased
      BY <2>1, <3>1, <1>2 DEF ChooseProvider
    <3>2. CASE purchased /\ p = "google"
      <4>1. googleCompletion' = a
        BY <2>1, <3>2 DEF ChooseProvider
      <4>2. signIns'[a].provider = "google" /\ signIns'[a].stage \in {"ui", "provider"}
        BY <1>0, <2>1, <3>2, ChosenSlot
      <4> QED BY <4>1, <4>2
    <3>3. CASE purchased /\ p # "google"
      BY <1>0, <2>1, <3>3, ChosenSlot DEF ChooseProvider
    <3> QED BY <3>1, <3>2, <3>3
  <2>2. CASE DismissUI(a)
    BY <1>0, <2>2 DEF DismissUI, Attempts
  <2>3. CASE ProviderRefuses(a)
    BY <1>0, <2>3 DEF ProviderRefuses, Forget, Attempts
  <2>4. CASE ProviderAccepts(a)
    BY <1>0, <2>4 DEF ProviderAccepts, Forget, Attempts
  <2>5. CASE GoogleTrap(a)
    BY <2>5, <1>1 DEF GoogleTrap, Dies, ClearMemory
  <2>6. ASSUME NEW who \in Identities, FirebaseAnswers(a, who)
        PROVE  GoogleCompletionAwaited'
    BY <1>0, <2>6 DEF FirebaseAnswers, Attempts
  <2>7. CASE DeliverSignIn(a)
    BY <1>0, <2>7 DEF DeliverSignIn, Attempts
  <2> QED BY <1>3, <2>1, <2>2, <2>3, <2>4, <2>5, <2>6, <2>7 DEF AttemptNext
<1>4. CASE StartAccount \/ \E reason \in Traps : Kill(reason)
  BY <1>4, <1>1 DEF StartAccount, Kill, Dies, ClearMemory
<1>5. CASE \/ OpenSheet \/ CancelSheet \/ StoreNext
           \/ \E ok \in BOOLEAN : SignOut(ok)
           \/ ForcedSignOut
           \/ UNCHANGED accountVars
  BY <1>5, <1>2
  DEF OpenSheet, CancelSheet, StoreNext, SignOut, ForcedSignOut, OnlyStore, OfferStore,
      WithdrawStore,
      StartStoreCall, StoreAnswers, CompleteTransactions, accountVars
<1> QED BY <1>3, <1>4, <1>5 DEF AccountNext, Traps

\* Who holds a completion before and after each step that moves one.
LEMMA CompletionStep ==
  ASSUME AccountTypeOK, GoogleCompletionAwaited, CompletionHeldOnce, ServedByFirebase,
         [AccountNext]_accountVars
  PROVE  CompletionHeldOnce' /\ ServedByFirebase'
<1>0. /\ signIns \in [SignIns -> Attempts]
      /\ googleCompletion \in SignIns \cup {NoSignIn}
      /\ completions \in [SignIns -> Fates]
  BY DEF AccountTypeOK
<1> USE AccountAssumption DEF CompletionHeldOnce, ServedByFirebase, AsksFor
<1>1. ASSUME ClearMemory PROVE CompletionHeldOnce' /\ ServedByFirebase'
  BY <1>1 DEF ClearMemory, NoAttempt
<1>2. ASSUME UNCHANGED <<signIns, googleCompletion, completions>>
      PROVE  CompletionHeldOnce' /\ ServedByFirebase'
  BY <1>2
<1>3. ASSUME NEW a \in SignIns, AttemptNext(a)
      PROVE  CompletionHeldOnce' /\ ServedByFirebase'
  <2>1. ASSUME NEW p \in Providers, ChooseProvider(a, p)
        PROVE  CompletionHeldOnce' /\ ServedByFirebase'
    <3>1. CASE ~purchased
      BY <2>1, <3>1, <1>2 DEF ChooseProvider
    <3>2. CASE purchased
      <4>2. /\ signIns'[a].provider = p /\ signIns'[a].stage \in {"ui", "provider"}
            /\ signIns'[a].serves = NoSignIn
            /\ \A b \in SignIns : b # a => signIns'[b] = signIns[b]
        BY <1>0, <2>1, <3>2, ChosenSlot
      <4>3. completions[a] # "due" /\ signIns[a].stage = "idle"
        BY <2>1 DEF ChooseProvider
      <4>4. /\ googleCompletion' = IF p = "google" THEN a ELSE googleCompletion
            /\ \A b \in SignIns :
                 completions'[b] = IF b = a THEN "due"
                                   ELSE IF p = "google" /\ b = googleCompletion THEN "lost"
                                   ELSE completions[b]
        <5>1. purchased /\ Due(a, p)
          BY <2>1, <3>2 DEF ChooseProvider
        <5>2. googleCompletion' = IF p = "google" THEN a ELSE googleCompletion
          BY <2>1, <3>2 DEF ChooseProvider
        <5> QED BY <5>1, <5>2 DEF Due
      <4> HIDE DEF AsksFor
      <4>5. /\ AsksFor(a)' <=> p # "google"
            /\ \A b \in SignIns : b # a => (AsksFor(b)' <=> AsksFor(b))
        BY <4>2 DEF AsksFor
      <4>6. CASE p = "google"
        <5>1. googleCompletion # NoSignIn => ~AsksFor(googleCompletion)
          BY DEF GoogleCompletionAwaited, AsksFor
        <5> QED BY <1>0, <4>2, <4>3, <4>4, <4>5, <4>6, <5>1
      <4>7. CASE p # "google"
        BY <1>0, <4>2, <4>3, <4>4, <4>5, <4>7
      <4> QED BY <4>6, <4>7
    <3> QED BY <3>1, <3>2
  <2>2. CASE DismissUI(a)
    <3>0. /\ \A b \in SignIns : b # a => signIns'[b] = signIns[b]
          /\ signIns[a].stage = "ui" /\ signIns'[a].stage = "provider"
          /\ signIns'[a].provider = signIns[a].provider
          /\ signIns'[a].serves = signIns[a].serves
      BY <1>0, <2>2 DEF DismissUI, Attempts
    <3>1. ASSUME NEW b \in SignIns
          PROVE  /\ signIns'[b].serves = signIns[b].serves
                 /\ AsksFor(b)' <=> AsksFor(b)
                 /\ signIns[b].stage \in {"auth", "answered"}
                      => signIns'[b].stage \in {"auth", "answered"}
      <4>1. CASE b = a
        BY <3>0, <4>1
      <4>2. CASE b # a
        BY <3>0, <4>2
      <4> QED BY <4>1, <4>2
    <3>2. UNCHANGED <<googleCompletion, completions>>
      BY <2>2 DEF DismissUI
    <3>3. ServedByFirebase'
      BY <3>1
    <3> HIDE DEF AsksFor, ServedByFirebase
    <3>4. CompletionHeldOnce'
      BY <3>1, <3>2
    <3> QED BY <3>3, <3>4
  <2>3. CASE ProviderRefuses(a)
    <3>1. /\ signIns[a].stage = "provider" /\ signIns[a].serves = NoSignIn
          /\ signIns'[a].serves = NoSignIn /\ ~AsksFor(a)'
          /\ \A b \in SignIns : b # a => signIns'[b] = signIns[b] /\ (AsksFor(b)' <=> AsksFor(b))
          /\ AsksFor(a) <=> signIns[a].provider # "google"
      BY <1>0, <2>3 DEF ProviderRefuses, Attempts, NoAttempt
    <3>2. /\ googleCompletion' = IF signIns[a].provider = "google" THEN NoSignIn
                                 ELSE googleCompletion
          /\ \A b \in SignIns : completions'[b] = IF b = Reached(a) THEN "none"
                                                  ELSE completions[b]
      BY <2>3 DEF ProviderRefuses, Forget, Called
    <3> HIDE DEF AsksFor
    <3>3. CASE signIns[a].provider = "google"
      <4>1. googleCompletion # NoSignIn => ~AsksFor(googleCompletion)
        BY DEF GoogleCompletionAwaited, AsksFor
      <4> QED BY <1>0, <3>1, <3>2, <3>3, <4>1 DEF Reached
    <3>4. CASE signIns[a].provider # "google"
      <4>1. googleCompletion # a
        BY <3>4 DEF GoogleCompletionAwaited
      <4> QED BY <1>0, <3>1, <3>2, <3>4, <4>1 DEF Reached
    <3> QED BY <3>3, <3>4
  <2>4. CASE ProviderAccepts(a)
    <3>1. /\ signIns[a].stage = "provider" /\ signIns[a].serves = NoSignIn
          /\ signIns'[a].serves = Reached(a) /\ signIns'[a].stage = "auth" /\ ~AsksFor(a)'
          /\ \A b \in SignIns : b # a => signIns'[b] = signIns[b] /\ (AsksFor(b)' <=> AsksFor(b))
          /\ AsksFor(a) <=> signIns[a].provider # "google"
      BY <1>0, <2>4 DEF ProviderAccepts, Attempts
    <3>2. /\ googleCompletion' = IF signIns[a].provider = "google" THEN NoSignIn
                                 ELSE googleCompletion
          /\ completions' = completions
          /\ Reached(a) # NoSignIn
      BY <2>4 DEF ProviderAccepts, Forget
    <3> HIDE DEF AsksFor
    <3>3. CASE signIns[a].provider = "google"
      <4>1. googleCompletion # NoSignIn => ~AsksFor(googleCompletion)
        BY DEF GoogleCompletionAwaited, AsksFor
      <4> QED BY <1>0, <3>1, <3>2, <3>3, <4>1 DEF Reached
    <3>4. CASE signIns[a].provider # "google"
      <4>1. googleCompletion # a
        BY <3>4 DEF GoogleCompletionAwaited
      <4> QED BY <1>0, <3>1, <3>2, <3>4, <4>1 DEF Reached
    <3> QED BY <3>3, <3>4
  <2>5. CASE GoogleTrap(a)
    BY <2>5, <1>1 DEF GoogleTrap, Dies
  <2>6. ASSUME NEW who \in Identities, FirebaseAnswers(a, who)
        PROVE  CompletionHeldOnce' /\ ServedByFirebase'
    <3>0. /\ \A b \in SignIns : b # a => signIns'[b] = signIns[b]
          /\ signIns[a].stage = "auth" /\ signIns'[a].stage = "answered"
          /\ signIns'[a].provider = signIns[a].provider
          /\ signIns'[a].serves = signIns[a].serves
      BY <1>0, <2>6 DEF FirebaseAnswers, Attempts
    <3>1. ASSUME NEW b \in SignIns
          PROVE  /\ signIns'[b].serves = signIns[b].serves
                 /\ AsksFor(b)' <=> AsksFor(b)
                 /\ signIns[b].stage \in {"auth", "answered"}
                      => signIns'[b].stage \in {"auth", "answered"}
      <4>1. CASE b = a
        BY <3>0, <4>1
      <4>2. CASE b # a
        BY <3>0, <4>2
      <4> QED BY <4>1, <4>2
    <3>2. UNCHANGED <<googleCompletion, completions>>
      BY <2>6 DEF FirebaseAnswers
    <3>3. ServedByFirebase'
      BY <3>1
    <3> HIDE DEF AsksFor, ServedByFirebase
    <3>4. CompletionHeldOnce'
      BY <3>1, <3>2
    <3> QED BY <3>3, <3>4
  <2>7. CASE DeliverSignIn(a)
    <3>1. /\ signIns[a].stage = "answered" /\ ~AsksFor(a)
          /\ signIns'[a].serves = NoSignIn /\ ~AsksFor(a)'
          /\ \A b \in SignIns : b # a => signIns'[b] = signIns[b] /\ (AsksFor(b)' <=> AsksFor(b))
      BY <1>0, <2>7 DEF DeliverSignIn, Attempts, NoAttempt
    <3>2. /\ googleCompletion' = googleCompletion
          /\ \A b \in SignIns : completions'[b] = IF b = signIns[a].serves THEN "none"
                                                  ELSE completions[b]
      BY <2>7 DEF DeliverSignIn, Called
    <3> HIDE DEF AsksFor
    <3> QED BY <1>0, <3>1, <3>2
  <2> QED BY <1>3, <2>1, <2>2, <2>3, <2>4, <2>5, <2>6, <2>7 DEF AttemptNext
<1>4. CASE StartAccount \/ \E reason \in Traps : Kill(reason)
  BY <1>4, <1>1 DEF StartAccount, Kill, Dies
<1>5. CASE \/ OpenSheet \/ CancelSheet \/ StoreNext \/ ForcedSignOut
           \/ \E ok \in BOOLEAN : SignOut(ok)
           \/ UNCHANGED accountVars
  BY <1>5, <1>2
  DEF OpenSheet, CancelSheet, StoreNext, SignOut, ForcedSignOut, OnlyStore, OfferStore,
      WithdrawStore, StartStoreCall, StoreAnswers, CompleteTransactions, accountVars
<1> QED BY <1>3, <1>4, <1>5 DEF AccountNext, Traps

LEMMA AccountInvStep == AccountInv /\ [AccountNext]_accountVars => AccountInv'
  BY AccountTypeStep, PlanStepHolds, PlanInvStep, GoogleStep, CompletionStep DEF AccountInv

\* AccountInv holds in every reachable state, for all constants.
THEOREM AccountInvariant == AccountSpec => []AccountInv
<1>1. AccountSpec => AccountInit /\ [][AccountNext]_accountVars
  BY DEF AccountSpec
<1> QED BY <1>1, AccountInitInv, AccountInvStep, PTL

\* The types of UserManager's and IAPController's state are kept.
THEOREM AccountTypeCorrect == AccountSpec => []AccountTypeOK
<1>1. AccountInv => AccountTypeOK
  BY DEF AccountInv
<1> QED BY <1>1, AccountInvariant, PTL

\* While Full Access is paid for, the plan in force covers it.
THEOREM PlanCorrect == AccountSpec => []PlanHonoursPurchase
<1>1. AccountInv => PlanHonoursPurchase
  BY DEF AccountInv
<1> QED BY <1>1, AccountInvariant, PTL

\* The registered plan always has a user.
THEOREM RegisteredCorrect == AccountSpec => []RegisteredHasUser
<1>1. AccountInv => RegisteredHasUser
  BY DEF AccountInv
<1> QED BY <1>1, AccountInvariant, PTL

\* The stored google completion is always one Google still has to call.
THEOREM GoogleCompletionCorrect == AccountSpec => []GoogleCompletionAwaited
<1>1. AccountInv => GoogleCompletionAwaited
  BY DEF AccountInv
<1> QED BY <1>1, AccountInvariant, PTL

\* However sign-ins overlap, each completion is in one pair of hands until it
\* is called, or overwritten by another google attempt.
THEOREM CompletionsCorrect == AccountSpec => []CompletionHeldOnce
<1>1. AccountInv => CompletionHeldOnce
  BY DEF AccountInv
<1> QED BY <1>1, AccountInvariant, PTL

(***************************************************************************)
(* Account implements Membership                                           *)
(***************************************************************************)
\* The two specifications compute the same plan from an account.
LEMMA LevelIsPlan == \A u \in Identities, p \in BOOLEAN : Promise!Level(u, p) = PlanOf(u, p)
  BY DEF Promise!Level, PlanOf

\* A fresh install is an initial state of the contract.
LEMMA PromiseInit == AccountInit => Promise!Init
  BY DEF AccountInit, Promise!Init, Identities

\* Every step of Account is a step of the contract or leaves it alone.
LEMMA PromiseStep ==
  AccountTypeOK /\ AccountTypeOK' /\ [AccountNext]_accountVars
    => [Promise!Next]_(Promise!vars)
<1> SUFFICES ASSUME AccountTypeOK, AccountTypeOK', [AccountNext]_accountVars
             PROVE  [Promise!Next]_(Promise!vars)
  OBVIOUS
<1>0. /\ user \in Identities /\ user' \in Identities
      /\ purchased \in BOOLEAN /\ purchased' \in BOOLEAN
      /\ running \in BOOLEAN /\ running' \in BOOLEAN
      /\ NoUser \in Identities
  BY DEF AccountTypeOK, Identities
<1>a. /\ Promise!Level(user', purchased') = PlanOf(user', purchased')
      /\ Promise!Level(user, TRUE) = PlanOf(user, TRUE)
  BY <1>0, LevelIsPlan
<1>b. ASSUME UNCHANGED <<user, purchased, plan, running, lapses>>
      PROVE  [Promise!Next]_(Promise!vars)
  BY <1>b DEF Promise!vars
<1>c. ASSUME running, UpdateCurrentPlan, UNCHANGED <<user, purchased, running>>
      PROVE  [Promise!Next]_(Promise!vars)
  BY <1>a, <1>c DEF UpdateCurrentPlan, Promise!Next, Promise!Settle, Promise!Recompute
<1>1. CASE StartAccount
  BY <1>0, <1>a, <1>1 DEF StartAccount, UpdateCurrentPlan, Promise!Next, Promise!Start,
                            Promise!Recompute
<1>2. ASSUME NEW reason, running, Dies(reason) PROVE [Promise!Next]_(Promise!vars)
  BY <1>2 DEF Dies, ClearMemory, Promise!Next, Promise!Stop
<1>3. CASE OpenSheet \/ CancelSheet
  BY <1>3, <1>b DEF OpenSheet, CancelSheet, OnlySignIns
<1>8. CASE ForcedSignOut
  <2>1. /\ running /\ user' = NoUser /\ UNCHANGED <<purchased, plan, running>>
        /\ lapses' = IF plan = "paidRegistered" THEN lapses \cup {"expelled"} ELSE lapses
    BY <1>8 DEF ForcedSignOut, OnlySignIns
  <2>2. ("expelled" \in lapses)' = IF plan = "paidRegistered" THEN TRUE
                                   ELSE "expelled" \in lapses
    BY <2>1
  <2>3. Promise!Expel
    BY <2>1, <2>2, Zenon DEF Promise!Expel
  <2> QED BY <2>3 DEF Promise!Next
<1>4. ASSUME NEW ok \in BOOLEAN, SignOut(ok) PROVE [Promise!Next]_(Promise!vars)
  <2>1. CASE ok
    BY <1>a, <1>4, <2>1 DEF SignOut, OnlySignIns, UpdateCurrentPlan, Promise!Next, Promise!Leave,
                             Promise!Recompute
  <2>2. CASE ~ok
    BY <1>b, <1>4, <2>2 DEF SignOut, KeepPlan, OnlySignIns
  <2> QED BY <2>1, <2>2
<1>5. ASSUME NEW a \in SignIns, AttemptNext(a) PROVE [Promise!Next]_(Promise!vars)
  <2>1. CASE \/ \E p \in Providers : ChooseProvider(a, p)
             \/ DismissUI(a)
             \/ ProviderAccepts(a)
    BY <2>1, <1>b DEF ChooseProvider, DismissUI, ProviderAccepts, KeepPlan,
                            OnlySignIns
  <2>2. CASE ProviderRefuses(a)
    <3>1. running /\ UNCHANGED <<user, purchased, running>>
      BY <2>2 DEF ProviderRefuses, OnlySignIns
    <3>2. KeepPlan \/ UpdateCurrentPlan
      BY <2>2 DEF ProviderRefuses
    <3> QED BY <3>1, <3>2, <1>b, <1>c DEF KeepPlan
  <2>3. CASE GoogleTrap(a)
    BY <2>3, <1>2 DEF GoogleTrap
  <2>4. ASSUME NEW who \in Identities, FirebaseAnswers(a, who)
        PROVE  [Promise!Next]_(Promise!vars)
    <3>1. CASE who = NoUser
      BY <1>b, <2>4, <3>1 DEF FirebaseAnswers, KeepPlan, OnlySignIns
    <3>2. CASE who # NoUser
      <4>1. who \in Users
        BY <2>4, <3>2 DEF Identities
      <4>2. Promise!Enter(who)
        BY <2>4, <3>2 DEF FirebaseAnswers, KeepPlan, OnlySignIns, Promise!Enter
      <4> QED BY <4>1, <4>2 DEF Promise!Next
    <3> QED BY <3>1, <3>2
  <2>5. CASE DeliverSignIn(a)
    BY <2>5, <1>c DEF DeliverSignIn, OnlySignIns
  <2> QED BY <1>5, <2>1, <2>2, <2>3, <2>4, <2>5 DEF AttemptNext
<1>6. CASE StoreNext
  <2>1. CASE OfferStore \/ WithdrawStore \/ \E k \in StoreKinds : StartStoreCall(k)
    BY <2>1, <1>b DEF OfferStore, WithdrawStore, StartStoreCall, KeepPlan, OnlyStore
  <2>2. ASSUME running, UNCHANGED <<user, running>>, purchased',
               plan' = PlanOf(user, TRUE), lapses' = {}
        PROVE  [Promise!Next]_(Promise!vars)
    BY <1>0, <1>a, <2>2 DEF Promise!Next, Promise!Buy, Promise!Recompute
  <2>3. ASSUME running, UNCHANGED <<user, running>>, ~purchased',
               \/ plan' = plan /\ lapses' = Withdrawn
               \/ plan' = PlanOf(user, TRUE) /\ lapses' = {"withdrawn"}
        PROVE  [Promise!Next]_(Promise!vars)
    <3>1. "expelled" \in Withdrawn <=> "expelled" \in lapses
      BY DEF Withdrawn
    <3>2. CASE plan' = plan /\ lapses' = Withdrawn
      <4>1. ("expelled" \in lapses)' = ("expelled" \in lapses)
        BY <3>1, <3>2
      <4>2. purchased' = FALSE
        BY <1>0, <2>3
      <4>3. Promise!Lose
        BY <2>3, <3>2, <4>1, <4>2, Zenon DEF Promise!Lose
      <4> QED BY <4>3 DEF Promise!Next
    <3>3. CASE plan' = PlanOf(user, TRUE) /\ lapses' = {"withdrawn"}
      <4>1. ("expelled" \in lapses)' = FALSE
        BY <3>3
      <4>2. purchased' = FALSE
        BY <1>0, <2>3
      <4>3. plan' = Promise!Level(user, TRUE)
        BY <1>a, <3>3
      <4>4. Promise!Lose
        BY <2>3, <4>1, <4>2, <4>3, Zenon DEF Promise!Lose
      <4> QED BY <4>4 DEF Promise!Next
    <3> QED BY <2>3, <3>2, <3>3
  <2>4. ASSUME NEW k \in StoreKinds, NEW ok \in BOOLEAN, StoreAnswers(k, ok)
        PROVE  [Promise!Next]_(Promise!vars)
    <3>1. CASE ok
      BY <2>2, <2>4, <3>1 DEF StoreAnswers, SetPurchased, UpdateCurrentPlan, OnlyStore
    <3>2. CASE ~ok
      BY <2>3, <2>4, <3>2 DEF StoreAnswers, SetPurchased, OnlyStore
    <3> QED BY <3>1, <3>2
  <2>5. ASSUME NEW bought \in BOOLEAN, NEW last \in BOOLEAN,
               CompleteTransactions(bought, last)
        PROVE  [Promise!Next]_(Promise!vars)
    <3>1. CASE last
      BY <2>2, <2>5, <3>1 DEF CompleteTransactions, OnlyStore
    <3>2. CASE ~last
      BY <2>3, <2>5, <3>2 DEF CompleteTransactions, OnlyStore
    <3> QED BY <3>1, <3>2
  <2> QED BY <1>6, <2>1, <2>4, <2>5 DEF StoreNext
<1>7. CASE UNCHANGED accountVars
  BY <1>7, <1>b DEF accountVars
<1> QED BY <1>1, <1>2, <1>3, <1>4, <1>5, <1>6, <1>7, <1>8 DEF AccountNext, Kill

\* UserManager and IAPController keep the contract the rest of the app relies
\* on: the plan rises with a purchase, falls with a sign-out, and is otherwise
\* only ever recomputed from the account.
THEOREM AccountImplementsMembership == AccountSpec => ImplementsMembership
<1>1. AccountInv => AccountTypeOK
  BY DEF AccountInv
<1>2. AccountSpec => AccountInit /\ [][AccountNext]_accountVars
  BY DEF AccountSpec
<1> QED BY <1>1, <1>2, AccountInvariant, PromiseInit, PromiseStep, PTL
        DEF ImplementsMembership, Promise!Spec

(***************************************************************************)
(* One attempt at a time                                                   *)
(***************************************************************************)
\* There is at most one slot: a second attempt starts after the first ended.
OneAttempt == \A a, b \in SignIns : a = b

\* Whoever waits for Google has its completion stored.
GoogleStored ==
  /\ \A a \in SignIns :
       signIns[a].provider = "google" /\ signIns[a].stage \in {"ui", "provider"}
         => googleCompletion = a
  /\ NoGoogleTrap

LEMMA GoogleStoredStep ==
  ASSUME OneAttempt, AccountTypeOK, GoogleStored, [AccountNext]_accountVars
  PROVE  GoogleStored'
<1>0. signIns \in [SignIns -> Attempts] /\ googleCompletion \in SignIns \cup {NoSignIn}
  BY DEF AccountTypeOK
<1> USE AccountAssumption, OneAttempt DEF OneAttempt, GoogleStored, NoGoogleTrap
<1>1. ASSUME NEW reason, reason # "google", Dies(reason) PROVE GoogleStored'
  BY <1>1 DEF Dies, ClearMemory, NoAttempt
<1>2. CASE StartAccount
  BY <1>2 DEF StartAccount, ClearMemory, NoAttempt
<1>3. ASSUME UNCHANGED <<signIns, googleCompletion, trap>> PROVE GoogleStored'
  BY <1>3
<1>4. ASSUME NEW a \in SignIns, AttemptNext(a) PROVE GoogleStored'
  <2>1. ASSUME NEW p \in Providers, ChooseProvider(a, p) PROVE GoogleStored'
    <3>1. CASE ~purchased
      BY <2>1, <3>1, <1>3 DEF ChooseProvider, OnlySignIns
    <3>2. CASE purchased
      <4>1. googleCompletion' = IF p = "google" THEN a ELSE googleCompletion
        BY <2>1, <3>2 DEF ChooseProvider
      <4>2. signIns'[a].provider = p /\ trap' = trap
        BY <1>0, <2>1, <3>2, ChosenSlot DEF ChooseProvider, OnlySignIns
      <4> QED BY <4>1, <4>2
    <3> QED BY <3>1, <3>2
  <2>2. CASE DismissUI(a)
    BY <1>0, <2>2 DEF DismissUI, OnlySignIns, Attempts
  <2>3. CASE ProviderRefuses(a)
    BY <1>0, <2>3 DEF ProviderRefuses, OnlySignIns, Attempts, NoAttempt
  <2>4. CASE ProviderAccepts(a)
    BY <1>0, <2>4 DEF ProviderAccepts, OnlySignIns, Attempts
  <2>5. CASE GoogleTrap(a)
    BY <1>0, <2>5 DEF GoogleTrap, Reached, Attempts
  <2>6. ASSUME NEW who \in Identities, FirebaseAnswers(a, who) PROVE GoogleStored'
    BY <1>0, <2>6 DEF FirebaseAnswers, OnlySignIns, Attempts
  <2>7. CASE DeliverSignIn(a)
    BY <1>0, <2>7 DEF DeliverSignIn, OnlySignIns, Attempts, NoAttempt
  <2> QED BY <1>4, <2>1, <2>2, <2>3, <2>4, <2>5, <2>6, <2>7 DEF AttemptNext
<1>5. CASE \/ OpenSheet \/ CancelSheet \/ StoreNext
           \/ ForcedSignOut
           \/ \E ok \in BOOLEAN : SignOut(ok)
           \/ UNCHANGED accountVars
  BY <1>5, <1>3
  DEF OpenSheet, CancelSheet, ForcedSignOut, StoreNext, SignOut, OnlySignIns, OnlyStore,
      OfferStore, WithdrawStore, StartStoreCall, StoreAnswers, CompleteTransactions, accountVars
<1> QED BY <1>1, <1>2, <1>4, <1>5 DEF AccountNext, Kill

\* With one attempt at a time the assertion of UserManager.swift:169 holds:
\* the overlap of two google attempts is all that can break it.
THEOREM OneAttemptNoTrap == OneAttempt => (AccountSpec => []NoGoogleTrap)
<1> SUFFICES ASSUME OneAttempt PROVE AccountSpec => []NoGoogleTrap
  OBVIOUS
<1>1. AccountInit => GoogleStored
  BY DEF AccountInit, GoogleStored, NoGoogleTrap, NoAttempt
<1>2. AccountInv /\ GoogleStored /\ [AccountNext]_accountVars => GoogleStored'
  BY GoogleStoredStep DEF AccountInv
<1>3. GoogleStored => NoGoogleTrap
  BY DEF GoogleStored
<1>4. AccountSpec => AccountInit /\ [][AccountNext]_accountVars
  BY DEF AccountSpec
<1> QED BY <1>1, <1>2, <1>3, <1>4, AccountInvariant, PTL
=============================================================================
