------------------------ MODULE NetworkActivityProofs ------------------------
(***************************************************************************)
(* The counter of network operations beside the account, for any number of *)
(* sign-ins, store calls and Firestore calls in flight.  The account's own *)
(* theorems carry over, since every step of ActivityNext is one of         *)
(* AccountNext or leaves the account alone.                                *)
(***************************************************************************)
EXTENDS NetworkActivity, AccountProofs, FiniteSetTheorems

LEMMA ActivityIsAccountStep == [ActivityNext]_activityVars => [AccountNext]_accountVars
<1> SUFFICES ASSUME [ActivityNext]_activityVars PROVE [AccountNext]_accountVars
  OBVIOUS
<1>1. CASE ProcessChanges
  BY <1>1 DEF ProcessChanges, AccountNext, AttemptNext
<1>2. CASE OtherAccountStep
  BY <1>2 DEF OtherAccountStep, AccountNext, AttemptNext, StoreNext
<1>3. CASE FirestoreAsked \/ FirestoreAnswers
  BY <1>3 DEF FirestoreAsked, FirestoreAnswers
<1>4. ASSUME NEW a \in SignIns, NEW p \in Providers, SignInStarts(a, p) PROVE AccountNext
  BY <1>4 DEF SignInStarts, AccountNext, AttemptNext
<1>5. ASSUME NEW a \in SignIns, RefusalEndsIt(a) \/ CredentialArrives(a) \/ SignInEnds(a)
      PROVE  AccountNext
  BY <1>5 DEF RefusalEndsIt, CredentialArrives, SignInEnds, AccountNext, AttemptNext
<1>6. ASSUME NEW k \in StoreKinds, StoreCallStarts(k) PROVE AccountNext
  BY <1>6 DEF StoreCallStarts, AccountNext, StoreNext
<1>7. ASSUME NEW k \in StoreKinds, NEW ok \in BOOLEAN, StoreCallEnds(k, ok) PROVE AccountNext
  BY <1>7 DEF StoreCallEnds, AccountNext, StoreNext
<1>8. CASE UNCHANGED activityVars
  BY <1>8 DEF activityVars
<1> QED BY <1>1, <1>2, <1>3, <1>4, <1>5, <1>6, <1>7, <1>8 DEF ActivityNext

\* With the counter beside it the account is the account of Account.tla, whose
\* theorems hold of it.
THEOREM ActivityIsAccount == ActivitySpec => AccountSpec
<1>1. ActivityInit => AccountInit
  BY DEF ActivityInit
<1> QED BY <1>1, ActivityIsAccountStep, PTL DEF ActivitySpec, AccountSpec

(***************************************************************************)
(* Types, and the indicator that is the count                              *)
(***************************************************************************)
CounterInv == ActivityTypeOK /\ (indicator => loadingCount > 0) /\ (loadingCount > 0 => indicator)

LEMMA Started ==
  ASSUME CounterInv, OperationStarted
  PROVE  /\ loadingCount' = loadingCount + 1 /\ loadingCount' \in 0..MaxLoading
         /\ indicator' = TRUE /\ loadingCount' > 0
<1>1. loadingCount \in 0..MaxLoading /\ MaxLoading \in Nat
  BY NetworkActivityAssumption DEF CounterInv, ActivityTypeOK
<1>2. loadingCount < MaxLoading /\ loadingCount' = loadingCount + 1
  BY DEF OperationStarted
<1>3. loadingCount' \in 0..MaxLoading /\ loadingCount' > 0
  BY <1>1, <1>2
<1>4. loadingCount = 0 \/ loadingCount > 0
  BY <1>1
<1>5. indicator' = TRUE
  BY <1>4 DEF CounterInv, ActivityTypeOK, OperationStarted
<1> QED BY <1>2, <1>3, <1>5

LEMMA Ended ==
  ASSUME CounterInv, OperationFinished
  PROVE  /\ loadingCount > 0 => loadingCount' = loadingCount - 1
         /\ loadingCount = 0 => loadingCount' = 0
         /\ loadingCount' \in 0..MaxLoading /\ indicator' \in BOOLEAN
         /\ (indicator' => loadingCount' > 0) /\ (loadingCount' > 0 => indicator')
<1>1. loadingCount \in 0..MaxLoading /\ MaxLoading \in Nat
  BY NetworkActivityAssumption DEF CounterInv, ActivityTypeOK
<1>2. /\ loadingCount > 0 => loadingCount' = loadingCount - 1
      /\ loadingCount = 0 => loadingCount' = 0
  BY <1>1 DEF OperationFinished
<1>3. loadingCount' \in 0..MaxLoading
  BY <1>1, <1>2
<1>4. CASE loadingCount' = 0
  <2>1. indicator' = FALSE /\ ~(loadingCount' > 0)
    BY <1>4 DEF OperationFinished
  <2> QED BY <1>2, <1>3, <2>1
<1>5. CASE loadingCount' # 0
  <2>1. loadingCount' > 0 /\ loadingCount > 0
    BY <1>1, <1>2, <1>3, <1>5
  <2>2. indicator' = indicator /\ indicator = TRUE
    BY <1>5, <2>1 DEF OperationFinished, CounterInv, ActivityTypeOK
  <2> QED BY <1>2, <1>3, <2>1, <2>2
<1> QED BY <1>4, <1>5

CounterKept == /\ loadingCount' \in 0..MaxLoading /\ indicator' \in BOOLEAN
               /\ (indicator' => loadingCount' > 0) /\ (loadingCount' > 0 => indicator')

LEMMA CounterSteps ==
  ASSUME CounterInv, OperationStarted \/ OperationFinished \/ NoOperation
                     \/ (loadingCount' = 0 /\ indicator' = FALSE)
  PROVE  CounterKept
<1>1. CASE OperationStarted
  BY <1>1, Started DEF CounterKept
<1>2. CASE OperationFinished
  BY <1>2, Ended DEF CounterKept
<1>3. CASE NoOperation
  BY <1>3 DEF NoOperation, CounterInv, ActivityTypeOK, CounterKept
<1>4. CASE loadingCount' = 0 /\ indicator' = FALSE
  <2>1. 0 \in 0..MaxLoading /\ ~(0 > 0)
    BY NetworkActivityAssumption
  <2> QED BY <1>4, <2>1 DEF CounterKept
<1> QED BY <1>1, <1>2, <1>3, <1>4

LEMMA CounterStep ==
  ASSUME CounterInv, [ActivityNext]_activityVars
  PROVE  CounterInv'
<1>0. CounterKept /\ firestoreCalls' \in 0..MaxFirestoreCalls /\ overlapped' \in BOOLEAN
        => CounterInv'
  BY DEF CounterInv, CounterKept, ActivityTypeOK
<1>1. /\ firestoreCalls \in 0..MaxFirestoreCalls /\ overlapped \in BOOLEAN
      /\ MaxFirestoreCalls \in Nat
  BY NetworkActivityAssumption DEF CounterInv, ActivityTypeOK
<1>2. CASE ProcessChanges
  <2>1. 0 \in 0..MaxFirestoreCalls
    BY <1>1
  <2> QED BY <2>1, <1>0, <1>2, CounterSteps DEF ProcessChanges
<1>3. CASE OtherAccountStep
  BY <1>0, <1>1, <1>3, CounterSteps DEF OtherAccountStep
<1>4. CASE FirestoreAsked
  <2>1. firestoreCalls' = firestoreCalls + 1 /\ firestoreCalls < MaxFirestoreCalls
    BY <1>4 DEF FirestoreAsked
  <2>2. firestoreCalls' \in 0..MaxFirestoreCalls
    BY <2>1, <1>1
  <2> QED BY <2>2, <1>0, <1>1, <1>4, CounterSteps DEF FirestoreAsked
<1>5. CASE FirestoreAnswers
  <2>1. firestoreCalls' = firestoreCalls - 1 /\ firestoreCalls > 0
    BY <1>5 DEF FirestoreAnswers
  <2>2. firestoreCalls' \in 0..MaxFirestoreCalls
    BY <2>1, <1>1
  <2> QED BY <2>2, <1>0, <1>1, <1>5, CounterSteps DEF FirestoreAnswers
<1>6. ASSUME NEW a \in SignIns, NEW p \in Providers, SignInStarts(a, p) PROVE CounterInv'
  BY <1>0, <1>1, <1>6, CounterSteps DEF SignInStarts
<1>7. ASSUME NEW a \in SignIns, RefusalEndsIt(a) \/ CredentialArrives(a) \/ SignInEnds(a),
             UNCHANGED <<firestoreCalls, overlapped>>
      PROVE  CounterInv'
  BY <1>0, <1>1, <1>7, CounterSteps DEF RefusalEndsIt, CredentialArrives, SignInEnds
<1>8. ASSUME NEW k \in StoreKinds,
             StoreCallStarts(k) \/ \E ok \in BOOLEAN : StoreCallEnds(k, ok),
             UNCHANGED <<firestoreCalls, overlapped>>
      PROVE  CounterInv'
  BY <1>0, <1>1, <1>8, CounterSteps DEF StoreCallStarts, StoreCallEnds
<1>9. CASE UNCHANGED activityVars
  BY <1>0, <1>1, <1>9, CounterSteps DEF activityVars, NoOperation
<1> QED BY <1>2, <1>3, <1>4, <1>5, <1>6, <1>7, <1>8, <1>9 DEF ActivityNext

LEMMA CounterInvariant == ActivitySpec => []CounterInv
<1>1. ActivityInit => CounterInv
  <2>1. 0 \in 0..MaxLoading /\ 0 \in 0..MaxFirestoreCalls /\ ~(0 > 0)
    BY NetworkActivityAssumption
  <2> QED BY <2>1 DEF ActivityInit, CounterInv, ActivityTypeOK
<1>2. CounterInv /\ [ActivityNext]_activityVars => CounterInv'
  BY CounterStep
<1> QED BY <1>1, <1>2, PTL DEF ActivitySpec

\* The counter of network operations is typed: it never falls below zero
\* (operationFinished) nor passes the bound.
THEOREM ActivityTypeCorrect == ActivitySpec => []ActivityTypeOK
<1>1. CounterInv => ActivityTypeOK
  BY DEF CounterInv
<1> QED BY <1>1, CounterInvariant, PTL

(***************************************************************************)
(* The operations under way                                                *)
(***************************************************************************)
Open(record) == record.stage \in IF record.provider = "google"
                                   THEN {"ui", "provider", "auth", "answered"}
                                   ELSE {"ui", "provider"}

\* Until Google is asked again, its completion is that of the one sign-in it
\* owes an answer.
OneGoogle == ~overlapped => \A a \in SignIns : AwaitsGoogle(a) => googleCompletion = a

CountInv == CounterInv /\ AccountTypeOK /\ CountsOperations /\ OneGoogle

\* The parts of InFlight are numbers.
LEMMA InFlightParts ==
  ASSUME AccountTypeOK, ActivityTypeOK
  PROVE  /\ IsFiniteSet(OpenSignIns) /\ Cardinality(OpenSignIns) \in Nat
         /\ storeCalls["purchase"] \in Nat /\ storeCalls["restore"] \in Nat
         /\ firestoreCalls \in Nat /\ InFlight \in Nat
<1>1. IsFiniteSet(OpenSignIns)
  <2>1. OpenSignIns \subseteq SignIns
    BY DEF OpenSignIns
  <2> QED BY <2>1, NetworkActivityAssumption, FS_Subset
<1>2. Cardinality(OpenSignIns) \in Nat
  BY <1>1, FS_CardinalityType
<1>3. storeCalls["purchase"] \in Nat /\ storeCalls["restore"] \in Nat
  BY AccountAssumption DEF AccountTypeOK, StoreKinds
<1>4. firestoreCalls \in Nat
  BY NetworkActivityAssumption DEF ActivityTypeOK
<1>5. InFlight \in Nat
  BY <1>2, <1>3, <1>4 DEF InFlight
<1> QED BY <1>1, <1>2, <1>3, <1>4, <1>5

OtherCalls == UNCHANGED <<storeCalls, firestoreCalls>>

LEMMA OpenIsOpen == OpenSignIns = {a \in SignIns : Open(signIns[a])}
  BY DEF OpenSignIns, Open

\* One attempt changes: it opens, ends or stays as it is.
LEMMA OneSignIn ==
  ASSUME AccountTypeOK, ActivityTypeOK, NEW a \in SignIns, NEW record,
         signIns' = [signIns EXCEPT ![a] = record], OtherCalls
  PROVE  /\ Open(record) /\ ~Open(signIns[a]) => InFlight' = InFlight + 1
         /\ ~Open(record) /\ Open(signIns[a]) => InFlight' = InFlight - 1 /\ InFlight > 0
         /\ (Open(record) <=> Open(signIns[a])) => InFlight' = InFlight
<1>1. signIns \in [SignIns -> Attempts]
  BY DEF AccountTypeOK
<1>2. OpenSignIns' = {b \in SignIns : Open(signIns'[b])}
  BY DEF OpenSignIns, Open
<1>3. signIns'[a] = record /\ \A b \in SignIns : b # a => signIns'[b] = signIns[b]
  BY <1>1
<1>4. /\ Cardinality(OpenSignIns) \in Nat /\ IsFiniteSet(OpenSignIns)
      /\ storeCalls["purchase"] \in Nat /\ storeCalls["restore"] \in Nat
      /\ firestoreCalls \in Nat
  BY InFlightParts
<1>5. InFlight' = Cardinality(OpenSignIns') + storeCalls["purchase"] + storeCalls["restore"]
                  + firestoreCalls
  BY DEF OtherCalls, InFlight
<1>6. ASSUME Open(record), ~Open(signIns[a]) PROVE InFlight' = InFlight + 1
  <2>1. OpenSignIns' = OpenSignIns \cup {a} /\ a \notin OpenSignIns
    BY <1>2, <1>3, <1>6, OpenIsOpen
  <2>2. Cardinality(OpenSignIns') = Cardinality(OpenSignIns) + 1
    BY <1>4, <2>1, FS_AddElement
  <2> QED BY <1>4, <1>5, <2>2 DEF InFlight
<1>7. ASSUME ~Open(record), Open(signIns[a]) PROVE InFlight' = InFlight - 1 /\ InFlight > 0
  <2>1. OpenSignIns' = OpenSignIns \ {a} /\ a \in OpenSignIns
    BY <1>2, <1>3, <1>7, OpenIsOpen
  <2>2. Cardinality(OpenSignIns') = Cardinality(OpenSignIns) - 1
    BY <1>4, <2>1, FS_RemoveElement
  <2>3. Cardinality(OpenSignIns') \in Nat
    BY <1>4, <2>1, FS_RemoveElement, FS_CardinalityType
  <2> QED BY <1>4, <1>5, <2>2, <2>3 DEF InFlight
<1>8. ASSUME Open(record) <=> Open(signIns[a]) PROVE InFlight' = InFlight
  <2>1. OpenSignIns' = OpenSignIns
    BY <1>2, <1>3, <1>8, OpenIsOpen
  <2> QED BY <2>1, <1>5 DEF InFlight
<1> QED BY <1>6, <1>7, <1>8

(***************************************************************************)
(* The count and the operations change together                            *)
(***************************************************************************)
\* An operation starts and is counted, ends and is counted, or neither.
Together == \/ InFlight' = InFlight + 1 /\ OperationStarted
            \/ InFlight' = InFlight - 1 /\ InFlight > 0 /\ OperationFinished
            \/ InFlight' = InFlight /\ NoOperation

LEMMA TogetherCounts ==
  ASSUME CountInv, Together, overlapped => overlapped'
  PROVE  CountsOperations'
<1>1. InFlight \in Nat /\ loadingCount \in Nat
  BY InFlightParts, NetworkActivityAssumption DEF CountInv, CounterInv, ActivityTypeOK
<1>2. loadingCount >= InFlight /\ (~overlapped => loadingCount = InFlight)
  BY DEF CountInv, CountsOperations
<1>3. \E i \in {-1, 0, 1} : InFlight' = InFlight + i /\ loadingCount' = loadingCount + i
  <2>1. CASE InFlight' = InFlight + 1 /\ OperationStarted
    BY <2>1 DEF OperationStarted
  <2>2. CASE InFlight' = InFlight - 1 /\ InFlight > 0 /\ OperationFinished
    <3>1. loadingCount > 0
      BY <2>2, <1>1, <1>2
    <3>2. loadingCount' = loadingCount - 1
      BY <3>1, <2>2, Ended DEF CountInv
    <3> QED BY <3>2, <2>2, <1>1
  <2>3. CASE InFlight' = InFlight /\ NoOperation
    BY <2>3, <1>1 DEF NoOperation
  <2> QED BY <2>1, <2>2, <2>3 DEF Together
<1>4. PICK i \in {-1, 0, 1} : InFlight' = InFlight + i /\ loadingCount' = loadingCount + i
  BY <1>3
<1>5. loadingCount' >= InFlight'
  BY <1>1, <1>2, <1>4
<1>6. loadingCount = InFlight => loadingCount' = InFlight'
  BY <1>4
<1> QED BY <1>2, <1>5, <1>6 DEF CountsOperations

\* The attempt a changes, and Google's completion stays or is given up.
LEMMA GoogleKept ==
  ASSUME AccountTypeOK, OneGoogle, NEW a \in SignIns, NEW record,
         signIns' = [signIns EXCEPT ![a] = record], UNCHANGED overlapped,
         record.provider = "google" /\ record.stage \in {"ui", "provider"} => AwaitsGoogle(a),
         \/ UNCHANGED googleCompletion
         \/ AwaitsGoogle(a) /\ record.stage \notin {"ui", "provider"}
  PROVE  OneGoogle'
<1>1. /\ signIns'[a] = record /\ \A b \in SignIns : b # a => signIns'[b] = signIns[b]
  BY DEF AccountTypeOK
<1>2. ASSUME UNCHANGED googleCompletion PROVE OneGoogle'
  <2>1. \A b \in SignIns : AwaitsGoogle(b)' => AwaitsGoogle(b)
    BY <1>1 DEF AwaitsGoogle
  <2> QED BY <1>2, <2>1 DEF OneGoogle
<1>3. ASSUME AwaitsGoogle(a), record.stage \notin {"ui", "provider"} PROVE OneGoogle'
  <2>1. \A b \in SignIns : AwaitsGoogle(b)' => b # a /\ AwaitsGoogle(b)
    BY <1>1, <1>3 DEF AwaitsGoogle
  <2>2. ~overlapped => \A b \in SignIns : AwaitsGoogle(b) => b = a
    BY <1>3 DEF OneGoogle
  <2> QED BY <2>1, <2>2 DEF OneGoogle
<1> QED BY <1>2, <1>3

Counted == CountsOperations' /\ OneGoogle'

LEMMA CountSignInStarts ==
  ASSUME CountInv, NEW a \in SignIns, NEW p \in Providers, SignInStarts(a, p)
  PROVE  Counted
<1>0. AccountTypeOK /\ ActivityTypeOK /\ OneGoogle /\ UNCHANGED firestoreCalls
      /\ signIns \in [SignIns -> Attempts] /\ overlapped \in BOOLEAN
  BY DEF CountInv, CounterInv, SignInStarts, AccountTypeOK, ActivityTypeOK
<1>1. CASE ~purchased
  <2>1. UNCHANGED <<signIns, googleCompletion, storeCalls, overlapped>> /\ NoOperation
    BY <1>0, <1>1 DEF SignInStarts, ChooseProvider, OnlySignIns
  <2>2. Together
    BY <1>0, <2>1 DEF Together, InFlight, OpenSignIns
  <2> QED BY <2>1, <2>2, <1>0, TogetherCounts DEF Counted, OneGoogle, AwaitsGoogle
<1>2. CASE purchased
  <2>1. PICK st \in {"ui", "provider"} :
          signIns' = [signIns EXCEPT ![a] = [NoAttempt EXCEPT !.provider = p, !.stage = st]]
    BY <1>2 DEF SignInStarts, ChooseProvider
  <2> DEFINE record == [NoAttempt EXCEPT !.provider = p, !.stage = st]
  <2>0. record.provider = p /\ record.stage = st
    BY DEF NoAttempt
  <2>8. signIns' = [signIns EXCEPT ![a] = record]
    BY <2>1
  <2>9. signIns'[a] = record /\ \A b \in SignIns : b # a => signIns'[b] = signIns[b]
    BY <1>0, <2>8
  <2> HIDE DEF record
  <2>2. signIns[a].stage = "idle" /\ OtherCalls /\ OperationStarted
    BY <1>0, <1>2 DEF SignInStarts, ChooseProvider, OnlySignIns, OtherCalls
  <2>3. Open(record) /\ ~Open(signIns[a])
    BY <2>0, <2>2 DEF Open
  <2>4. Together
    BY <1>0, <2>8, <2>2, <2>3, OneSignIn DEF Together
  <2>5. overlapped => overlapped'
    BY DEF SignInStarts
  <2>6. CASE p # "google"
    <3>1. UNCHANGED <<googleCompletion, overlapped>>
      BY <1>2, <2>6 DEF SignInStarts, ChooseProvider
    <3>2. record.provider # "google"
      BY <2>0, <2>6
    <3> QED BY <1>0, <2>8, <2>4, <2>5, <3>1, <3>2, TogetherCounts, GoogleKept DEF Counted
  <2>7. CASE p = "google"
    <3>1. /\ googleCompletion' = a
          /\ ~overlapped' => ~overlapped /\ \A b \in SignIns : ~AwaitsGoogle(b)
      BY <1>2, <2>7 DEF SignInStarts, ChooseProvider
    <3>3. OneGoogle'
      BY <2>9, <3>1 DEF OneGoogle, AwaitsGoogle
    <3> QED BY <2>4, <2>5, <3>3, TogetherCounts DEF Counted
  <2> QED BY <2>6, <2>7
<1> QED BY <1>1, <1>2

\* The provider answers: with an error, or with a credential.
LEMMA CountProviderAnswers ==
  ASSUME CountInv, NEW a \in SignIns, RefusalEndsIt(a) \/ CredentialArrives(a),
         UNCHANGED <<firestoreCalls, overlapped>>
  PROVE  Counted
<1>0. AccountTypeOK /\ ActivityTypeOK /\ OneGoogle /\ signIns \in [SignIns -> Attempts]
      /\ overlapped \in BOOLEAN /\ (overlapped => overlapped')
  BY DEF CountInv, CounterInv, AccountTypeOK, ActivityTypeOK
<1>1. signIns[a].stage = "provider" /\ OtherCalls /\ Open(signIns[a])
  BY DEF RefusalEndsIt, CredentialArrives, ProviderRefuses, ProviderAccepts, OnlySignIns,
         OtherCalls, Open
<1>2. \/ UNCHANGED googleCompletion
      \/ AwaitsGoogle(a)
  BY <1>1 DEF RefusalEndsIt, CredentialArrives, ProviderRefuses, ProviderAccepts, Forget,
              AwaitsGoogle
<1>3. CASE RefusalEndsIt(a)
  <2>1. signIns' = [signIns EXCEPT ![a] = NoAttempt]
    BY <1>3 DEF RefusalEndsIt, ProviderRefuses
  <2>2. NoAttempt.stage = "idle" /\ NoAttempt.provider = "none" /\ ~Open(NoAttempt)
    BY DEF NoAttempt, Open
  <2>3. OneGoogle'
    BY <1>0, <1>2, <2>1, <2>2, GoogleKept
  <2>4. InFlight' = InFlight - 1 /\ InFlight > 0
    BY <1>0, <1>1, <2>1, <2>2, OneSignIn
  <2>5. CASE signIns[a].provider = "google" /\ googleCompletion = NoSignIn
    <3>1. overlapped
      BY <1>0, <1>1, <2>5, AccountAssumption DEF OneGoogle, AwaitsGoogle
    <3>2. NoOperation
      BY <1>3, <2>5 DEF RefusalEndsIt, Reached
    <3>3. loadingCount \in Nat /\ InFlight \in Nat /\ loadingCount >= InFlight
      BY <1>0, InFlightParts, NetworkActivityAssumption
      DEF CountInv, CountsOperations, ActivityTypeOK
    <3>4. loadingCount' = loadingCount
      BY <3>2 DEF NoOperation
    <3>5. loadingCount' >= InFlight'
      BY <2>4, <3>3, <3>4
    <3> QED BY <1>0, <2>3, <3>1, <3>5 DEF Counted, CountsOperations
  <2>6. CASE ~(signIns[a].provider = "google" /\ googleCompletion = NoSignIn)
    <3>0. Reached(a) # NoSignIn
      BY <2>6, AccountAssumption DEF Reached
    <3>1. Together
      BY <1>3, <2>4, <3>0 DEF RefusalEndsIt, Together
    <3> QED BY <1>0, <2>3, <3>1, TogetherCounts DEF Counted
  <2> QED BY <2>5, <2>6
<1>4. CASE CredentialArrives(a)
  <2> DEFINE record == [signIns[a] EXCEPT !.stage = "auth", !.serves = Reached(a)]
  <2>1. signIns' = [signIns EXCEPT ![a] = record]
    BY <1>4 DEF CredentialArrives, ProviderAccepts
  <2>2. record.stage = "auth" /\ record.provider = signIns[a].provider
    BY <1>0 DEF Attempts
  <2>3. OneGoogle'
    BY <1>0, <1>2, <2>1, <2>2, GoogleKept
  <2>4. Open(record) <=> signIns[a].provider = "google"
    BY <2>2 DEF Open
  <2>5. Together
    <3>1. CASE signIns[a].provider = "google"
      <4>1. NoOperation
        BY <1>4, <3>1 DEF CredentialArrives
      <4>2. InFlight' = InFlight
        BY <1>0, <1>1, <2>1, <2>4, <3>1, OneSignIn
      <4> QED BY <4>1, <4>2 DEF Together
    <3>2. CASE signIns[a].provider # "google"
      <4>1. OperationFinished
        BY <1>4, <3>2 DEF CredentialArrives
      <4>2. InFlight' = InFlight - 1 /\ InFlight > 0
        BY <1>0, <1>1, <2>1, <2>4, <3>2, OneSignIn
      <4> QED BY <4>1, <4>2 DEF Together
    <3> QED BY <3>1, <3>2
  <2> QED BY <1>0, <2>3, <2>5, TogetherCounts DEF Counted
<1> QED BY <1>3, <1>4

LEMMA CountSignInEnds ==
  ASSUME CountInv, NEW a \in SignIns, SignInEnds(a), UNCHANGED <<firestoreCalls, overlapped>>
  PROVE  Counted
<1>0. AccountTypeOK /\ ActivityTypeOK /\ OneGoogle /\ (overlapped => overlapped')
  BY DEF CountInv, CounterInv
<1>1. /\ signIns[a].stage = "answered" /\ OtherCalls /\ UNCHANGED googleCompletion
      /\ signIns' = [signIns EXCEPT ![a] = NoAttempt]
  BY DEF SignInEnds, DeliverSignIn, OnlySignIns, OtherCalls
<1>2. NoAttempt.stage = "idle" /\ ~Open(NoAttempt)
  BY DEF NoAttempt, Open
<1>3. OneGoogle'
  BY <1>0, <1>1, <1>2, GoogleKept
<1>4. Open(signIns[a]) <=> signIns[a].provider = "google"
  BY <1>1 DEF Open
<1>5. Together
  <2>1. CASE signIns[a].provider = "google"
    <3>1. OperationFinished
      BY <2>1 DEF SignInEnds
    <3>2. InFlight' = InFlight - 1 /\ InFlight > 0
      BY <1>0, <1>1, <1>2, <1>4, <2>1, OneSignIn
    <3> QED BY <3>1, <3>2 DEF Together
  <2>2. CASE signIns[a].provider # "google"
    <3>1. NoOperation
      BY <2>2 DEF SignInEnds
    <3>2. InFlight' = InFlight
      BY <1>0, <1>1, <1>2, <1>4, <2>2, OneSignIn
    <3> QED BY <3>1, <3>2 DEF Together
  <2> QED BY <2>1, <2>2
<1> QED BY <1>0, <1>3, <1>5, TogetherCounts DEF Counted

LEMMA SumSteps ==
  ASSUME NEW n \in Nat, NEW c \in Nat, NEW d \in Nat, NEW i \in {-1, 0, 1}, d = c + i
  PROVE  /\ n + d = n + c + i
         /\ i = 1 => n + d = n + c + 1
         /\ i = -1 => n + d = n + c - 1 /\ n + c > 0
         /\ i = 0 => n + d = n + c
  OBVIOUS

\* Store calls and Firestore calls: the attempts to sign in are left alone.
LEMMA CountCalls ==
  ASSUME CountInv, UNCHANGED <<signIns, googleCompletion, overlapped>>, NEW i \in {-1, 0, 1},
         storeCalls'["purchase"] + storeCalls'["restore"] + firestoreCalls'
           = storeCalls["purchase"] + storeCalls["restore"] + firestoreCalls + i,
         storeCalls'["purchase"] \in Nat, storeCalls'["restore"] \in Nat,
         firestoreCalls' \in Nat,
         \/ i = 1 /\ OperationStarted
         \/ i = -1 /\ OperationFinished
         \/ i = 0 /\ NoOperation
  PROVE  Counted
<1>0. AccountTypeOK /\ ActivityTypeOK /\ OneGoogle /\ (overlapped => overlapped')
  BY DEF CountInv, CounterInv
<1>1. OpenSignIns' = OpenSignIns
  BY DEF OpenSignIns
<1> DEFINE n == Cardinality(OpenSignIns)
<1>2. /\ n \in Nat /\ storeCalls["purchase"] \in Nat /\ storeCalls["restore"] \in Nat
      /\ firestoreCalls \in Nat
  BY <1>0, InFlightParts
<1>3. /\ InFlight = n + storeCalls["purchase"] + storeCalls["restore"] + firestoreCalls
      /\ InFlight' = n + storeCalls'["purchase"] + storeCalls'["restore"] + firestoreCalls'
  BY <1>1 DEF InFlight
<1> HIDE DEF n
<1> DEFINE c == storeCalls["purchase"] + storeCalls["restore"] + firestoreCalls
           d == storeCalls'["purchase"] + storeCalls'["restore"] + firestoreCalls'
<1>4. InFlight = n + c /\ InFlight' = n + d /\ c \in Nat /\ d \in Nat
  BY <1>2, <1>3
<1>5. d = c + i
  OBVIOUS
<1> HIDE DEF c, d
<1>6. /\ InFlight' = InFlight + i
      /\ i = 1 => InFlight' = InFlight + 1
      /\ i = -1 => InFlight' = InFlight - 1 /\ InFlight > 0
      /\ i = 0 => InFlight' = InFlight
  <2>1. n \in Nat
    BY <1>2
  <2> QED BY <2>1, <1>4, <1>5, SumSteps
<1>7. Together
  <2>1. CASE i = 1 /\ OperationStarted
    BY <1>6, <2>1 DEF Together
  <2>2. CASE i = -1 /\ OperationFinished
    BY <1>6, <2>2 DEF Together
  <2>3. CASE i = 0 /\ NoOperation
    BY <1>6, <2>3 DEF Together
  <2> QED BY <2>1, <2>2, <2>3
<1> QED BY <1>0, <1>7, TogetherCounts DEF Counted, OneGoogle, AwaitsGoogle

LEMMA CountStore ==
  ASSUME CountInv, NEW k \in StoreKinds,
         StoreCallStarts(k) \/ \E ok \in BOOLEAN : StoreCallEnds(k, ok),
         UNCHANGED <<firestoreCalls, overlapped>>
  PROVE  Counted
<1>0. /\ storeCalls["purchase"] \in Nat /\ storeCalls["restore"] \in Nat /\ firestoreCalls \in Nat
      /\ storeCalls \in [StoreKinds -> 0..MaxStoreCalls]
  BY InFlightParts DEF CountInv, CounterInv, AccountTypeOK
<1>1. UNCHANGED <<signIns, googleCompletion>>
  BY DEF StoreCallStarts, StartStoreCall, StoreCallEnds, StoreAnswers, OnlyStore
<1>2. ASSUME NEW i \in {-1, 1}, storeCalls' = [storeCalls EXCEPT ![k] = @ + i],
             storeCalls[k] + i \in Nat
      PROVE  /\ storeCalls'["purchase"] + storeCalls'["restore"] + firestoreCalls'
                  = storeCalls["purchase"] + storeCalls["restore"] + firestoreCalls + i
             /\ storeCalls'["purchase"] \in Nat /\ storeCalls'["restore"] \in Nat
             /\ firestoreCalls' \in Nat
  <2>1. CASE k = "purchase"
    <3>1. storeCalls'["purchase"] = storeCalls["purchase"] + i
          /\ storeCalls'["restore"] = storeCalls["restore"]
      BY <1>0, <1>2, <2>1 DEF StoreKinds
    <3> QED BY <1>0, <1>2, <2>1, <3>1
  <2>2. CASE k = "restore"
    <3>1. storeCalls'["restore"] = storeCalls["restore"] + i
          /\ storeCalls'["purchase"] = storeCalls["purchase"]
      BY <1>0, <1>2, <2>2 DEF StoreKinds
    <3> QED BY <1>0, <1>2, <2>2, <3>1
  <2> QED BY <2>1, <2>2 DEF StoreKinds
<1>3. storeCalls[k] \in Nat
  BY <1>0 DEF StoreKinds
<1>4. CASE StoreCallStarts(k)
  <2>1. storeCalls' = [storeCalls EXCEPT ![k] = @ + 1] /\ OperationStarted
    BY <1>4 DEF StoreCallStarts, StartStoreCall
  <2> QED BY <1>1, <1>2, <1>3, <2>1, CountCalls
<1>5. CASE \E ok \in BOOLEAN : StoreCallEnds(k, ok)
  <2>1. storeCalls' = [storeCalls EXCEPT ![k] = @ - 1] /\ OperationFinished /\ storeCalls[k] > 0
    BY <1>5 DEF StoreCallEnds, StoreAnswers
  <2>2. storeCalls[k] - 1 = storeCalls[k] + (-1) /\ storeCalls[k] + (-1) \in Nat
    BY <1>3, <2>1
  <2>3. storeCalls' = [storeCalls EXCEPT ![k] = @ + (-1)]
    BY <2>1, <2>2
  <2> QED BY <1>1, <1>2, <2>1, <2>2, <2>3, CountCalls
<1> QED BY <1>4, <1>5

LEMMA CountFirestore ==
  ASSUME CountInv, FirestoreAsked \/ FirestoreAnswers
  PROVE  Counted
<1>0. /\ storeCalls["purchase"] \in Nat /\ storeCalls["restore"] \in Nat /\ firestoreCalls \in Nat
  BY InFlightParts DEF CountInv, CounterInv
<1>1. UNCHANGED <<signIns, googleCompletion, overlapped, storeCalls>>
  BY DEF FirestoreAsked, FirestoreAnswers, accountVars
<1>2. CASE FirestoreAsked
  <2>1. firestoreCalls' = firestoreCalls + 1 /\ OperationStarted
    BY <1>2 DEF FirestoreAsked
  <2>2. storeCalls'["purchase"] + storeCalls'["restore"] + firestoreCalls'
           = storeCalls["purchase"] + storeCalls["restore"] + firestoreCalls + 1
        /\ firestoreCalls' \in Nat
    BY <1>0, <1>1, <2>1
  <2> QED BY <1>0, <1>1, <2>1, <2>2, CountCalls
<1>3. CASE FirestoreAnswers
  <2>1. firestoreCalls' = firestoreCalls - 1 /\ OperationFinished /\ firestoreCalls > 0
    BY <1>3 DEF FirestoreAnswers
  <2>2. storeCalls'["purchase"] + storeCalls'["restore"] + firestoreCalls'
           = storeCalls["purchase"] + storeCalls["restore"] + firestoreCalls + (-1)
        /\ firestoreCalls' \in Nat
    BY <1>0, <1>1, <2>1
  <2> QED BY <1>0, <1>1, <2>1, <2>2, CountCalls
<1> QED BY <1>2, <1>3

LEMMA CountOther ==
  ASSUME CountInv, OtherAccountStep
  PROVE  Counted
<1>0. AccountTypeOK /\ ActivityTypeOK /\ OneGoogle /\ (overlapped => overlapped')
      /\ signIns \in [SignIns -> Attempts] /\ UNCHANGED <<firestoreCalls, overlapped>>
      /\ NoOperation
  BY DEF CountInv, CounterInv, OtherAccountStep, AccountTypeOK
<1>1. CASE UNCHANGED <<signIns, googleCompletion, storeCalls>>
  <2>1. Together
    BY <1>0, <1>1 DEF Together, InFlight, OpenSignIns
  <2> QED BY <1>0, <1>1, <2>1, TogetherCounts DEF Counted, OneGoogle, AwaitsGoogle
<1>2. ASSUME NEW a \in SignIns, NEW record, signIns' = [signIns EXCEPT ![a] = record],
             Open(record) <=> Open(signIns[a]), UNCHANGED <<googleCompletion, storeCalls>>,
             record.provider = "google" /\ record.stage \in {"ui", "provider"} => AwaitsGoogle(a)
      PROVE  Counted
  <2>1. OtherCalls
    BY <1>0, <1>2 DEF OtherCalls
  <2>2. InFlight' = InFlight
    BY <1>0, <1>2, <2>1, OneSignIn
  <2>3. Together
    BY <1>0, <2>2 DEF Together
  <2>4. OneGoogle'
    BY <1>0, <1>2, GoogleKept
  <2> QED BY <1>0, <2>3, <2>4, TogetherCounts DEF Counted
<1>3. ASSUME NEW a \in SignIns, DismissUI(a) PROVE Counted
  <2> DEFINE record == [signIns[a] EXCEPT !.stage = "provider"]
  <2>1. /\ signIns' = [signIns EXCEPT ![a] = record] /\ signIns[a].stage = "ui"
        /\ UNCHANGED <<googleCompletion, storeCalls>>
    BY <1>3 DEF DismissUI, OnlySignIns
  <2>2. record.stage = "provider" /\ record.provider = signIns[a].provider
    BY <1>0 DEF Attempts
  <2>3. /\ Open(record) <=> Open(signIns[a])
        /\ record.provider = "google" /\ record.stage \in {"ui", "provider"} => AwaitsGoogle(a)
    BY <2>1, <2>2 DEF Open, AwaitsGoogle
  <2> HIDE DEF record
  <2> QED BY <1>2, <2>1, <2>3
<1>4. ASSUME NEW a \in SignIns, NEW who \in Identities, FirebaseAnswers(a, who) PROVE Counted
  <2> DEFINE record == [signIns[a] EXCEPT !.stage = "answered", !.who = who]
  <2>1. /\ signIns' = [signIns EXCEPT ![a] = record] /\ signIns[a].stage = "auth"
        /\ UNCHANGED <<googleCompletion, storeCalls>>
    BY <1>4 DEF FirebaseAnswers, OnlySignIns
  <2>2. record.stage = "answered" /\ record.provider = signIns[a].provider
    BY <1>0 DEF Attempts
  <2>3. /\ Open(record) <=> Open(signIns[a])
        /\ record.provider = "google" /\ record.stage \in {"ui", "provider"} => AwaitsGoogle(a)
    BY <2>1, <2>2 DEF Open, AwaitsGoogle
  <2> HIDE DEF record
  <2> QED BY <1>2, <2>1, <2>3
<1> QED
  BY <1>1, <1>3, <1>4
  DEF OtherAccountStep, OpenSheet, CancelSheet, OfferStore, WithdrawStore, SignOut,
      ForcedSignOut, CompleteTransactions, OnlySignIns, OnlyStore

LEMMA CountProcess ==
  ASSUME CountInv, ProcessChanges
  PROVE  Counted
<1>1. ClearMemory /\ loadingCount' = 0 /\ firestoreCalls' = 0
  BY DEF ProcessChanges, StartAccount, Kill, GoogleTrap, Dies
<1>2. OpenSignIns' = {} /\ \A a \in SignIns : ~AwaitsGoogle(a)'
  BY <1>1 DEF OpenSignIns, ClearMemory, NoAttempt, AwaitsGoogle
<1>3. storeCalls'["purchase"] = 0 /\ storeCalls'["restore"] = 0
  BY <1>1 DEF ClearMemory, StoreKinds
<1>4. Cardinality(OpenSignIns') = 0
  BY <1>2, FS_EmptySet
<1>5. InFlight' = Cardinality(OpenSignIns') + storeCalls'["purchase"]
                  + storeCalls'["restore"] + firestoreCalls'
  BY DEF InFlight
<1>6. InFlight' = 0 + 0 + 0 + 0
  BY <1>1, <1>3, <1>4, <1>5
<1>7. loadingCount' >= InFlight' /\ loadingCount' = InFlight'
  BY <1>1, <1>6
<1> QED BY <1>2, <1>7 DEF Counted, CountsOperations, OneGoogle

LEMMA CountStep == CountInv /\ [ActivityNext]_activityVars => CountInv'
<1> SUFFICES ASSUME CountInv, [ActivityNext]_activityVars PROVE CountInv'
  OBVIOUS
<1>1. AccountTypeOK' /\ CounterInv'
  BY ActivityIsAccountStep, AccountTypeStep, CounterStep DEF CountInv
<1>2. CASE UNCHANGED activityVars
  BY <1>1, <1>2
  DEF activityVars, accountVars, CountInv, CountsOperations, InFlight, OpenSignIns, OneGoogle,
      AwaitsGoogle
<1>3. CASE ActivityNext
  <2>1. Counted
    BY <1>3, CountProcess, CountOther, CountFirestore, CountSignInStarts,
       CountProviderAnswers, CountSignInEnds, CountStore
    DEF ActivityNext
  <2> QED BY <1>1, <2>1 DEF Counted, CountInv
<1> QED BY <1>2, <1>3

LEMMA CountInit == ActivityInit => CountInv
<1> SUFFICES ASSUME ActivityInit PROVE CountInv
  OBVIOUS
<1>1. AccountTypeOK
  BY AccountInitInv DEF ActivityInit, AccountInv
<1>2. CounterInv
  <2>1. 0 \in 0..MaxLoading /\ 0 \in 0..MaxFirestoreCalls /\ ~(0 > 0)
    BY NetworkActivityAssumption
  <2> QED BY <2>1 DEF ActivityInit, CounterInv, ActivityTypeOK
<1>3. OpenSignIns = {} /\ \A a \in SignIns : ~AwaitsGoogle(a)
  BY DEF ActivityInit, AccountInit, OpenSignIns, NoAttempt, AwaitsGoogle
<1>4. Cardinality(OpenSignIns) = 0
  BY <1>3, FS_EmptySet
<1>5. storeCalls["purchase"] = 0 /\ storeCalls["restore"] = 0 /\ firestoreCalls = 0
      /\ loadingCount = 0
  BY DEF ActivityInit, AccountInit, StoreKinds
<1>6. loadingCount >= InFlight /\ loadingCount = InFlight
  BY <1>4, <1>5 DEF InFlight
<1> QED BY <1>1, <1>2, <1>3, <1>6 DEF CountInv, CountsOperations, OneGoogle

LEMMA CountInvariant == ActivitySpec => []CountInv
  BY CountInit, CountStep, PTL DEF ActivitySpec

\* The count is never too low, and exact until Google is asked for a sign-in
\* while it owes another: operationFinished is called once for each
\* operationStarted by every completion of UserManager, IAPController and
\* FirestoreManager.
THEOREM OperationsAreCounted == ActivitySpec => []CountsOperations
<1>1. CountInv => CountsOperations
  BY DEF CountInv
<1> QED BY <1>1, CountInvariant, PTL

\* The indicator is on while an operation is under way, and off when none is,
\* unless a Google sign-in was overtaken by another.
THEOREM IndicatorIsHonest == ActivitySpec => []IndicatorShowsWork
<1>1. CountInv => IndicatorShowsWork
  <2> SUFFICES ASSUME CountInv PROVE IndicatorShowsWork
    OBVIOUS
  <2>1. InFlight \in Nat /\ loadingCount \in Nat /\ loadingCount >= InFlight
    BY InFlightParts, NetworkActivityAssumption
    DEF CountInv, CounterInv, ActivityTypeOK, CountsOperations
  <2>2. InFlight > 0 => loadingCount > 0
    BY <2>1
  <2>3. loadingCount > 0 /\ InFlight = 0 => loadingCount # InFlight
    BY <2>1
  <2> QED BY <2>2, <2>3 DEF CountInv, CounterInv, CountsOperations, IndicatorShowsWork
<1> QED BY <1>1, CountInvariant, PTL
=============================================================================
