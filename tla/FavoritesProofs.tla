-------------------------- MODULE FavoritesProofs --------------------------
(***************************************************************************)
(* What holds of Favorites for every set of users, proverbs, identifiers   *)
(* and operations in flight.  Each store has its typing lemmas, the        *)
(* account's part of every step is a step of Account (so that its          *)
(* theorems carry over), and three invariants follow on top of the types.  *)
(***************************************************************************)
EXTENDS Favorites, AccountProofs, FiniteSetTheorems, SequenceTheorems

(***************************************************************************)
(* The Firestore client                                                    *)
(***************************************************************************)
\* A write that is issued keeps the queues typed.
LEMMA EnqueueType ==
  ASSUME FirestoreTypeOK, NEW i \in Identities, NEW w \in Writes, Enqueue(i, w)
  PROVE  queue' \in [Identities -> Seq(Writes)]
<1>1. queue \in [Identities -> Seq(Writes)]
  BY DEF FirestoreTypeOK
<1>2. Append(queue[i], w) \in Seq(Writes)
  BY <1>1, AppendProperties
<1> QED BY <1>1, <1>2 DEF Enqueue

\* A write that is settled keeps the stores typed.
LEMMA SettleType ==
  ASSUME FirestoreTypeOK, NEW i \in Identities, queue[i] # << >>,
         NEW ok \in BOOLEAN, Settle(i, ok)
  PROVE  FirestoreTypeOK' /\ Head(queue[i]) \in Writes
<1>1. /\ queue \in [Identities -> Seq(Writes)]
      /\ server \in [Users -> SUBSET Docs]
      /\ userDocs \in SUBSET Users
  BY DEF FirestoreTypeOK
<1>2. Head(queue[i]) \in Writes /\ Tail(queue[i]) \in Seq(Writes)
  BY <1>1, HeadTailProperties
<1> DEFINE w == Head(queue[i])
<1>3. w.col \in Users /\ w.docs \in SUBSET Docs
  BY <1>2 DEF Writes
<1>4. Written(server[w.col], w) \in SUBSET Docs
  BY <1>1, <1>3 DEF Written
<1>5. queue' \in [Identities -> Seq(Writes)]
  BY <1>1, <1>2 DEF Settle
<1>6. server' \in [Users -> SUBSET Docs]
  BY <1>1, <1>3, <1>4 DEF Settle
<1>7. userDocs' \in SUBSET Users
  BY <1>1, <1>3 DEF Settle
<1> QED BY <1>2, <1>5, <1>6, <1>7 DEF FirestoreTypeOK

\* A restart keeps the queues typed.
LEMMA DisownType ==
  ASSUME FirestoreTypeOK, Disown PROVE queue' \in [Identities -> Seq(Writes)]
<1>1. queue \in [Identities -> Seq(Writes)]
  BY DEF FirestoreTypeOK
<1>2. SUFFICES ASSUME NEW i \in Identities
               PROVE  [n \in DOMAIN queue[i] |-> [queue[i][n] EXCEPT !.op = NoOp]]
                        \in Seq(Writes)
  BY DEF Disown
<1>3. queue[i] \in Seq(Writes)
  BY <1>1
<1>4. \A n \in DOMAIN queue[i] : [queue[i][n] EXCEPT !.op = NoOp] \in Writes
  <2>1. SUFFICES ASSUME NEW n \in DOMAIN queue[i]
                 PROVE  [queue[i][n] EXCEPT !.op = NoOp] \in Writes
    OBVIOUS
  <2>2. queue[i][n] \in Writes
    BY <1>3, ElementOfSeq
  <2> QED BY <2>2 DEF Writes
<1>5. DOMAIN queue[i] = 1..Len(queue[i]) /\ Len(queue[i]) \in Nat
  BY <1>3, LenProperties
<1>6. [n \in DOMAIN queue[i] |-> [queue[i][n] EXCEPT !.op = NoOp]] \in [1..Len(queue[i]) -> Writes]
  BY <1>4, <1>5
<1> QED BY <1>5, <1>6, SeqDef

(***************************************************************************)
(* The account inside Favorites                                            *)
(***************************************************************************)
\* The stores only listen to the account: every step is one of Account or
\* leaves it alone.
LEMMA AccountPart == [FavoritesNext]_vars => [AccountNext]_accountVars
<1> SUFFICES ASSUME [FavoritesNext]_vars PROVE [AccountNext]_accountVars
  OBVIOUS
<1>1. CASE ManagerNext
  <2>1. CASE Launch
    BY <2>1 DEF Launch, AccountNext
  <2>2. CASE Terminate
    BY <2>2 DEF Terminate, AccountNext, AttemptNext, Traps
  <2>3. ASSUME NEW a \in SignIns, SignInDelivered(a) PROVE AccountNext
    BY <2>3 DEF SignInDelivered, AccountNext, AttemptNext
  <2>4. ASSUME NEW ok \in BOOLEAN, SignOutPosted(ok) PROVE AccountNext
    BY <2>4 DEF SignOutPosted, AccountNext
  <2>5. CASE AccountOnly
    BY <2>5 DEF AccountOnly, AccountNext, AttemptNext
  <2>6. CASE UserExpelled
    BY <2>6 DEF UserExpelled, AccountNext
  <2> QED BY <1>1, <2>1, <2>2, <2>3, <2>4, <2>5, <2>6 DEF ManagerNext
<1>2. ASSUME NEW s \in Setups, SetupNext(s) PROVE [AccountNext]_accountVars
  <2>1. CASE RealmTrap(s)
    BY <2>1 DEF RealmTrap, AccountNext, Traps
  <2> QED BY <1>2, <2>1 DEF SetupNext, AnswerUserDoc, DeliverUserDoc, AnswerGetAll, DeliverGetAll
<1>3. ASSUME NEW t \in Toggles, ToggleNext(t) PROVE UNCHANGED accountVars
  BY <1>3 DEF ToggleNext, StartToggle, AnswerToggle, DeliverCheck, DeliverGet,
              DeleteRemoteFavorite
<1>4. CASE \/ \E p \in Proverbs : ToggleLocal(p)
           \/ \E f \in Docs : DeleteLocalFavorite(f)
           \/ \E ok \in BOOLEAN : SettleWrite(ok)
           \/ UNCHANGED vars
  BY <1>4 DEF ToggleLocal, DeleteLocalFavorite, SettleWrite, vars
<1> QED BY <1>1, <1>2, <1>3, <1>4 DEF FavoritesNext

\* Composed with the stores, the account keeps what is proved of it alone: its
\* types, the plan of the current user or one that lapsed, the registered plan
\* without a user only after Firebase signed that user out, and the stored
\* google completion.
THEOREM AccountKept == FavoritesSpec => [](AccountInv /\ NeverPurchased)
<1>1. FavoritesInit => AccountInv /\ NeverPurchased
  BY AccountInitInv DEF FavoritesInit, AccountInit, NeverPurchased
<1>2. AccountInv /\ NeverPurchased /\ [FavoritesNext]_vars => AccountInv' /\ NeverPurchased'
  BY AccountPart, AccountInvStep, NeverPurchasedStep
<1>3. FavoritesSpec => FavoritesInit /\ [][FavoritesNext]_vars
  BY DEF FavoritesSpec
<1> QED BY <1>1, <1>2, <1>3, PTL

(***************************************************************************)
(* Types                                                                   *)
(***************************************************************************)
\* A manager, and a setup that reads its user document, have a user.
ManagerTyped ==
  /\ remote = NoManager \/ remote.user \in Users
  /\ \A s \in Setups : setups[s].stage = "check" => setups[s].user \in Users

TypeInv == FavoritesTypeOK /\ ManagerTyped

LEMMA RecordsType ==
  /\ NoSetup \in SetupRecords
  /\ NoToggle \in ToggleRecords
  /\ NoManager \in [user : Identities, ready : BOOLEAN, orphaned : BOOLEAN]
<1>1. (CHOOSE p \in Proverbs : TRUE) \in Proverbs
  BY FavoritesAssumption
<1> QED BY <1>1 DEF NoSetup, SetupRecords, NoToggle, ToggleRecords, NoManager, Identities,
                    AnswerKinds

LEMMA TypeInit == FavoritesInit => TypeInv
<1> SUFFICES ASSUME FavoritesInit PROVE TypeInv
  OBVIOUS
<1>1. AccountTypeOK
  BY AccountInitInv DEF FavoritesInit, AccountInv
<1>2. FirestoreTypeOK
  BY FirestoreAssumption, EmptySeq DEF FavoritesInit, FirestoreInit, FirestoreTypeOK
<1>3. /\ local \in SUBSET Docs
      /\ remote \in [user : Identities, ready : BOOLEAN, orphaned : BOOLEAN]
      /\ setups \in [Setups -> SetupRecords]
      /\ toggles \in [Toggles -> ToggleRecords]
  BY RecordsType DEF FavoritesInit
<1>4. ManagerTyped
  BY DEF FavoritesInit, ManagerTyped, NoSetup
<1> QED BY <1>1, <1>2, <1>3, <1>4 DEF TypeInv, FavoritesTypeOK

\* A new manager, or none for nobody.
LEMMA SetupStartType ==
  ASSUME TypeInv, user' \in Identities, SetupFirestoreManager
  PROVE  /\ remote' \in [user : Identities, ready : BOOLEAN, orphaned : BOOLEAN]
         /\ setups' \in [Setups -> SetupRecords]
         /\ ManagerTyped'
<1>1. CASE user' = NoUser
  BY <1>1 DEF SetupFirestoreManager, TypeInv, FavoritesTypeOK, ManagerTyped
<1>2. CASE user' # NoUser
  <2>1. PICK s \in Setups :
          /\ remote' = [user |-> user', ready |-> TRUE, orphaned |-> FALSE]
          /\ setups' = [Disowned EXCEPT ![s] =
                          [NoSetup EXCEPT !.stage = "check", !.user = user', !.own = TRUE]]
    BY <1>2 DEF SetupFirestoreManager
  <2>2. user' \in Users
    BY <1>2 DEF Identities
  <2>3. setups \in [Setups -> SetupRecords]
    BY DEF TypeInv, FavoritesTypeOK
  <2>4. \A r \in Setups : [setups[r] EXCEPT !.own = FALSE] \in SetupRecords
    BY <2>3 DEF SetupRecords
  <2>5. Disowned \in [Setups -> SetupRecords]
    BY <2>4 DEF Disowned
  <2>6. [NoSetup EXCEPT !.stage = "check", !.user = user', !.own = TRUE] \in SetupRecords
    BY RecordsType, <2>2 DEF SetupRecords, Identities
  <2>7. setups' \in [Setups -> SetupRecords]
    BY <2>1, <2>5, <2>6
  <2>8. \A r \in Setups : setups'[r].stage = "check" => setups'[r].user \in Users
    <3>1. SUFFICES ASSUME NEW r \in Setups, setups'[r].stage = "check"
                   PROVE  setups'[r].user \in Users
      OBVIOUS
    <3>2. CASE r = s
      BY <2>1, <2>2, <2>5, <3>2 DEF NoSetup
    <3>3. CASE r # s
      <4>1. setups'[r] = [setups[r] EXCEPT !.own = FALSE]
        BY <2>1, <2>5, <3>3 DEF Disowned
      <4>2. setups'[r].stage = setups[r].stage /\ setups'[r].user = setups[r].user
        BY <2>3, <4>1 DEF SetupRecords
      <4> QED BY <3>1, <4>2 DEF TypeInv, ManagerTyped
    <3> QED BY <3>2, <3>3
  <2> QED BY <2>1, <2>2, <2>7, <2>8 DEF ManagerTyped, Identities
<1> QED BY <1>1, <1>2

\* Dropping the manager, with or without its process.
LEMMA DropType ==
  ASSUME TypeInv, DeleteFirestoreManager \/ LoseMemory
  PROVE  /\ remote' \in [user : Identities, ready : BOOLEAN, orphaned : BOOLEAN]
         /\ setups' \in [Setups -> SetupRecords]
         /\ ManagerTyped'
<1>1. setups \in [Setups -> SetupRecords]
  BY DEF TypeInv, FavoritesTypeOK
<1>2. remote' = NoManager
  BY DEF DeleteFirestoreManager, LoseMemory
<1>3. CASE DeleteFirestoreManager
  <2>1. setups' = [s \in Setups |-> [setups[s] EXCEPT !.own = FALSE]]
    BY <1>3 DEF DeleteFirestoreManager, Disowned
  <2>2. \A s \in Setups : /\ setups'[s] \in SetupRecords
                          /\ setups'[s].stage = setups[s].stage
                          /\ setups'[s].user = setups[s].user
    BY <1>1, <2>1 DEF SetupRecords
  <2>3. setups' \in [Setups -> SetupRecords]
    BY <2>1, <2>2
  <2> QED BY <1>2, <2>2, <2>3, RecordsType DEF ManagerTyped, TypeInv
<1>4. CASE LoseMemory
  BY <1>2, <1>4, RecordsType DEF LoseMemory, ManagerTyped, NoSetup
<1> QED BY <1>3, <1>4

\* The end of a setup.
LEMMA EndSetupType ==
  ASSUME TypeInv, NEW s \in Setups, EndSetup(s)
  PROVE  /\ setups' \in [Setups -> SetupRecords]
         /\ \A r \in Setups : setups'[r].stage = "check" => setups'[r].user \in Users
<1>1. setups \in [Setups -> SetupRecords]
  BY DEF TypeInv, FavoritesTypeOK
<1>2. \A r \in Setups : setups[r].stage = "check" => setups[r].user \in Users
  BY DEF TypeInv, ManagerTyped
<1> QED BY <1>1, <1>2, RecordsType DEF EndSetup, NoSetup

LEMMA SetupFailsType ==
  ASSUME TypeInv, NEW s \in Setups, SetupFails(s)
  PROVE  /\ remote' \in [user : Identities, ready : BOOLEAN, orphaned : BOOLEAN]
         /\ setups' \in [Setups -> SetupRecords]
         /\ ManagerTyped'
<1>1. remote \in [user : Identities, ready : BOOLEAN, orphaned : BOOLEAN]
  BY DEF TypeInv, FavoritesTypeOK
<1>2. remote' \in {remote, [remote EXCEPT !.ready = FALSE]}
  BY DEF SetupFails
<1>3. /\ remote' \in [user : Identities, ready : BOOLEAN, orphaned : BOOLEAN]
      /\ remote'.user = remote.user
  BY <1>1, <1>2
<1>4. CASE remote = NoManager
  <2>1. remote' = NoManager
    BY <1>2, <1>4 DEF NoManager
  <2> QED BY <1>3, <2>1, EndSetupType DEF SetupFails, ManagerTyped
<1>5. CASE remote.user \in Users
  BY <1>3, <1>5, EndSetupType DEF SetupFails, ManagerTyped
<1> QED BY <1>4, <1>5 DEF TypeInv, ManagerTyped

\* A user whom Firebase signed out leaves the manager behind.
LEMMA ExpelledKeeps ==
  ASSUME TypeInv, UserExpelled
  PROVE  /\ remote' \in [user : Identities, ready : BOOLEAN, orphaned : BOOLEAN]
         /\ remote'.user = remote.user
         /\ remote = NoManager => remote' = NoManager
         /\ remote # NoManager => remote'.orphaned
         /\ UNCHANGED <<setups, toggles, local, server, userDocs, queue>>
<1>1. remote \in [user : Identities, ready : BOOLEAN, orphaned : BOOLEAN]
  BY DEF TypeInv, FavoritesTypeOK
<1>2. UNCHANGED <<setups, toggles, local, server, userDocs, queue>>
  BY DEF UserExpelled, storeVars
<1>3. CASE remote = NoManager
  BY <1>1, <1>2, <1>3 DEF UserExpelled, HasManager
<1>4. CASE remote # NoManager
  <2>1. remote' = [remote EXCEPT !.orphaned = TRUE]
    BY <1>4 DEF UserExpelled, HasManager
  <2> QED BY <1>1, <1>2, <1>4, <2>1
<1> QED BY <1>3, <1>4

\* The start of a migration: the snapshot is what Realm holds.
LEMMA MigrateType ==
  ASSUME TypeInv, NEW s \in Setups, Migrate(s)
  PROVE  /\ local' \in SUBSET Docs
         /\ remote' \in [user : Identities, ready : BOOLEAN, orphaned : BOOLEAN]
         /\ setups' \in [Setups -> SetupRecords]
         /\ ManagerTyped'
<1>0. /\ setups \in [Setups -> SetupRecords]
      /\ local \in SUBSET Docs
      /\ remote \in [user : Identities, ready : BOOLEAN, orphaned : BOOLEAN]
  BY DEF TypeInv, FavoritesTypeOK
<1>1. remote' = remote
  BY DEF Migrate
<1>2. CASE EndSetup(s) /\ local' \in {local, {}}
  BY <1>0, <1>1, <1>2, EndSetupType DEF ManagerTyped, TypeInv
<1>3. CASE /\ setups' = [setups EXCEPT ![s] = [@ EXCEPT
                !.stage = "getAll", !.col = remote.user, !.snapshot = local, !.answer = "none"]]
           /\ local' = local
  <2>1. [setups[s] EXCEPT !.stage = "getAll", !.col = remote.user, !.snapshot = local,
                          !.answer = "none"] \in SetupRecords
    BY <1>0 DEF SetupRecords, AnswerKinds
  <2>2. setups'[s].stage = "getAll" /\ \A r \in Setups : r # s => setups'[r] = setups[r]
    BY <1>0, <1>3 DEF SetupRecords
  <2>3. setups' \in [Setups -> SetupRecords]
    BY <1>0, <1>3, <2>1
  <2> QED BY <1>0, <1>1, <1>3, <2>2, <2>3 DEF ManagerTyped, TypeInv
<1> QED BY <1>2, <1>3 DEF Migrate, MigrationEnds

\* What the Firestore client is handed and answers.
LEMMA WriteType ==
  \A kind \in {"user", "put", "delete"}, col \in Users, docs \in SUBSET Docs,
     op \in Toggles \cup Setups :
    [kind |-> kind, col |-> col, docs |-> docs, op |-> op] \in Writes
  BY FavoritesAssumption DEF Writes

LEMMA ReadType == \A i \in Identities, col \in Identities : Reads(i, col) \in SUBSET SUBSET Docs
  BY DEF Reads, Overlay

LEMMA ReadyUser == TypeInv /\ CollectionReady => remote.user \in Users
  BY DEF TypeInv, ManagerTyped, CollectionReady, HasManager

\* A setup goes on.
LEMMA SetupGoesOn ==
  ASSUME TypeInv, NEW s \in Setups, NEW r \in SetupRecords,
         setups' = [setups EXCEPT ![s] = r], UNCHANGED remote,
         r.stage = "check" => r.user \in Users
  PROVE  setups' \in [Setups -> SetupRecords] /\ ManagerTyped'
<1>1. setups \in [Setups -> SetupRecords]
  BY DEF TypeInv, FavoritesTypeOK
<1> QED BY <1>1 DEF TypeInv, ManagerTyped

\* The handlers of the account, the manager with them.
LEMMA ManagerNextType ==
  ASSUME TypeInv, AccountTypeOK', ManagerNext PROVE TypeInv'
<1>0. /\ user' \in Identities
      /\ FirestoreTypeOK
      /\ local \in SUBSET Docs
      /\ remote \in [user : Identities, ready : BOOLEAN, orphaned : BOOLEAN]
      /\ setups \in [Setups -> SetupRecords]
      /\ toggles \in [Toggles -> ToggleRecords]
      /\ ManagerTyped
  BY DEF TypeInv, FavoritesTypeOK, AccountTypeOK
<1>1. ASSUME UNCHANGED <<toggles, storeVars>>, SetupFirestoreManager PROVE TypeInv'
  BY <1>0, <1>1, SetupStartType DEF storeVars, TypeInv, FavoritesTypeOK, FirestoreTypeOK
<1>2. ASSUME LoseMemory PROVE TypeInv'
  <2>1. toggles' \in [Toggles -> ToggleRecords]
    BY <1>2, RecordsType DEF LoseMemory
  <2>2. queue' \in [Identities -> Seq(Writes)]
    BY <1>0, <1>2, DisownType DEF LoseMemory
  <2> QED BY <1>0, <1>2, <2>1, <2>2, DropType
          DEF LoseMemory, TypeInv, FavoritesTypeOK, FirestoreTypeOK
<1>3. CASE Launch
  BY <1>1, <1>3 DEF Launch
<1>4. CASE Terminate
  BY <1>2, <1>4 DEF Terminate
<1>5. ASSUME UNCHANGED <<managerVars, storeVars>> PROVE TypeInv'
  BY <1>0, <1>5
  DEF managerVars, storeVars, TypeInv, FavoritesTypeOK, FirestoreTypeOK, ManagerTyped
<1>6. ASSUME NEW a \in SignIns, SignInDelivered(a) PROVE TypeInv'
  <2>1. CASE signIns[a].who = NoUser
    BY <1>5, <1>6, <2>1 DEF SignInDelivered, managerVars
  <2>2. CASE signIns[a].who # NoUser
    BY <1>1, <1>6, <2>2 DEF SignInDelivered
  <2> QED BY <2>1, <2>2
<1>7. ASSUME NEW ok \in BOOLEAN, SignOutPosted(ok) PROVE TypeInv'
  BY <1>0, <1>7, DropType
  DEF SignOutPosted, storeVars, TypeInv, FavoritesTypeOK, FirestoreTypeOK
<1>8. CASE AccountOnly
  BY <1>5, <1>8 DEF AccountOnly
<1>9. CASE UserExpelled
  BY <1>0, <1>9, ExpelledKeeps
  DEF TypeInv, FavoritesTypeOK, FirestoreTypeOK, ManagerTyped
<1> QED BY <1>3, <1>4, <1>6, <1>7, <1>8, <1>9 DEF ManagerNext

\* The setup and the migration.
LEMMA SetupNextType ==
  ASSUME TypeInv, AccountTypeOK, AccountTypeOK', NEW s \in Setups, SetupNext(s) PROVE TypeInv'
<1>0. /\ user \in Identities
      /\ FirestoreTypeOK
      /\ local \in SUBSET Docs
      /\ remote \in [user : Identities, ready : BOOLEAN, orphaned : BOOLEAN]
      /\ setups \in [Setups -> SetupRecords]
      /\ toggles \in [Toggles -> ToggleRecords]
      /\ setups[s] \in SetupRecords
  BY DEF TypeInv, FavoritesTypeOK, AccountTypeOK
<1>1. ASSUME UNCHANGED <<toggles, server, userDocs>>,
             queue' \in [Identities -> Seq(Writes)], local' \in SUBSET Docs,
             remote' \in [user : Identities, ready : BOOLEAN, orphaned : BOOLEAN],
             setups' \in [Setups -> SetupRecords], ManagerTyped'
      PROVE  TypeInv'
  BY <1>0, <1>1 DEF TypeInv, FavoritesTypeOK, FirestoreTypeOK
<1>2. queue \in [Identities -> Seq(Writes)]
  BY <1>0 DEF FirestoreTypeOK
<1>3. CASE AnswerUserDoc(s)
  <2>1. PICK answer \in AnswerKinds : setups' = [setups EXCEPT ![s].answer = answer]
    BY <1>3 DEF AnswerUserDoc, AnswerKinds
  <2> DEFINE r == [setups[s] EXCEPT !.answer = answer]
  <2>2. /\ r \in SetupRecords
        /\ r.stage = "check" => r.user \in Users
    BY <1>0 DEF SetupRecords, TypeInv, ManagerTyped
  <2>3. setups' = [setups EXCEPT ![s] = r]
    BY <2>1
  <2> QED BY <1>0, <1>1, <1>2, <1>3, <2>2, <2>3, SetupGoesOn DEF AnswerUserDoc, storeVars
<1>4. CASE DeliverUserDoc(s)
  <2>1. CASE UNCHANGED queue /\ SetupFails(s)
    BY <1>0, <1>1, <1>2, <1>4, <2>1, SetupFailsType DEF DeliverUserDoc, SetupFails
  <2>2. CASE UNCHANGED queue /\ Migrate(s)
    BY <1>1, <1>2, <1>4, <2>2, MigrateType DEF DeliverUserDoc
  <2>3. CASE /\ setups' = [setups EXCEPT ![s] =
                             [@ EXCEPT !.stage = "create", !.answer = "none"]]
             /\ Enqueue(user, [kind |-> "user", col |-> setups[s].user,
                               docs |-> {}, op |-> s])
             /\ UNCHANGED <<remote, local>>
    <3> DEFINE r == [setups[s] EXCEPT !.stage = "create", !.answer = "none"]
    <3>1. r \in SetupRecords /\ r.stage = "create"
      BY <1>0 DEF SetupRecords, AnswerKinds
    <3>2. setups[s].user \in Users
      BY <1>4 DEF DeliverUserDoc, TypeInv, ManagerTyped
    <3>3. queue' \in [Identities -> Seq(Writes)]
      BY <1>0, <2>3, <3>2, WriteType, EnqueueType
    <3>4. setups' = [setups EXCEPT ![s] = r]
      BY <2>3
    <3> HIDE DEF r
    <3>5. setups' \in [Setups -> SetupRecords] /\ ManagerTyped'
      BY <2>3, <3>1, <3>4, SetupGoesOn
    <3> QED BY <1>0, <1>1, <1>4, <2>3, <3>3, <3>5 DEF DeliverUserDoc
  <2> QED BY <1>4, <2>1, <2>2, <2>3 DEF DeliverUserDoc
<1>5. CASE AnswerGetAll(s)
  <2>1. PICK r \in SetupRecords : /\ setups' = [setups EXCEPT ![s] = r]
                                  /\ r.stage # "check"
    <3>1. CASE setups' = [setups EXCEPT ![s].answer = "error"]
      <4>1. [setups[s] EXCEPT !.answer = "error"] \in SetupRecords
        BY <1>0 DEF SetupRecords, AnswerKinds
      <4>2. [setups[s] EXCEPT !.answer = "error"].stage # "check"
        BY <1>0, <1>5 DEF AnswerGetAll, SetupRecords
      <4> QED BY <3>1, <4>1, <4>2
    <3>2. ASSUME NEW docs \in Reads(user, setups[s].col),
                 setups' = [setups EXCEPT ![s] = [@ EXCEPT !.answer = "found", !.docs = docs]]
          PROVE  \E r \in SetupRecords : /\ setups' = [setups EXCEPT ![s] = r]
                                         /\ r.stage # "check"
      <4>1. setups[s].col \in Identities
        BY <1>0 DEF SetupRecords
      <4>2. docs \in SUBSET Docs
        BY <1>0, <4>1, ReadType
      <4>3. [setups[s] EXCEPT !.answer = "found", !.docs = docs] \in SetupRecords
        BY <1>0, <4>2 DEF SetupRecords, AnswerKinds
      <4>4. [setups[s] EXCEPT !.answer = "found", !.docs = docs].stage # "check"
        BY <1>0, <1>5 DEF AnswerGetAll, SetupRecords
      <4> QED BY <3>2, <4>3, <4>4
    <3> QED BY <1>5, <3>1, <3>2 DEF AnswerGetAll
  <2> QED BY <1>0, <1>1, <1>2, <1>5, <2>1, SetupGoesOn DEF AnswerGetAll, storeVars
<1>6. CASE DeliverGetAll(s)
  <2>1. CASE ToSave(s) # {} /\ CollectionReady
    <3>1. ToSave(s) \in SUBSET Docs
      BY <1>0 DEF ToSave, SetupRecords
    <3>2. queue' \in [Identities -> Seq(Writes)]
      BY <1>0, <1>6, <2>1, <3>1, ReadyUser, WriteType, EnqueueType DEF DeliverGetAll
    <3>3. PICK r : r = [setups[s] EXCEPT !.stage = "batch"]
      OBVIOUS
    <3>4. r \in SetupRecords /\ r.stage = "batch"
      BY <1>0, <3>3 DEF SetupRecords
    <3>5. setups' \in [Setups -> SetupRecords] /\ ManagerTyped'
      BY <1>6, <2>1, <3>3, <3>4, SetupGoesOn DEF DeliverGetAll
    <3> QED BY <1>0, <1>1, <1>6, <2>1, <3>2, <3>5 DEF DeliverGetAll
  <2>2. CASE MigrationEnds(s) /\ UNCHANGED queue
    BY <1>0, <1>1, <1>2, <1>6, <2>2, EndSetupType
    DEF DeliverGetAll, MigrationEnds, ManagerTyped, TypeInv
  <2> QED BY <1>6, <2>1, <2>2 DEF DeliverGetAll
<1>7. CASE RealmTrap(s)
  <2>1. toggles' \in [Toggles -> ToggleRecords]
    BY <1>7, RecordsType DEF RealmTrap, LoseMemory
  <2>2. queue' \in [Identities -> Seq(Writes)]
    BY <1>0, <1>7, DisownType DEF RealmTrap, LoseMemory
  <2> QED BY <1>0, <1>7, <2>1, <2>2, DropType
          DEF RealmTrap, LoseMemory, TypeInv, FavoritesTypeOK, FirestoreTypeOK
<1> QED BY <1>3, <1>4, <1>5, <1>6, <1>7 DEF SetupNext
\* Saving and deleting with local favourites.
LEMMA LocalType ==
  ASSUME local \in SUBSET Docs, NEW p \in Proverbs, SaveLocal(p) \/ DeleteLocal(p)
  PROVE  local' \in SUBSET Docs
<1>1. CASE SaveLocal(p)
  <2>1. \A id \in FreshIds : [id |-> id, origin |-> p] \in Docs
    BY DEF FreshIds, Docs
  <2> QED BY <1>1, <2>1 DEF SaveLocal
<1>2. CASE DeleteLocal(p)
  BY <1>2 DEF DeleteLocal
<1> QED BY <1>1, <1>2

\* A save or a delete goes on to the write.
LEMMA IssueType ==
  ASSUME FirestoreTypeOK, NEW i \in Identities, NEW kind \in {"put", "delete"},
         NEW col \in Users, NEW docs \in SUBSET Docs, NEW t \in Toggles,
         Enqueue(i, [kind |-> kind, col |-> col, docs |-> docs, op |-> t])
  PROVE  queue' \in [Identities -> Seq(Writes)]
<1>1. [kind |-> kind, col |-> col, docs |-> docs, op |-> t] \in Writes
  BY WriteType
<1> QED BY <1>1, EnqueueType

\* The operations of the save button and of the favourites screens.
LEMMA ToggleNextType ==
  ASSUME TypeInv, AccountTypeOK, AccountTypeOK', NEW t \in Toggles, ToggleNext(t)
  PROVE  TypeInv'
<1>0. /\ user \in Identities
      /\ FirestoreTypeOK
      /\ local \in SUBSET Docs
      /\ remote \in [user : Identities, ready : BOOLEAN, orphaned : BOOLEAN]
      /\ setups \in [Setups -> SetupRecords]
      /\ toggles \in [Toggles -> ToggleRecords]
      /\ toggles[t] \in ToggleRecords
      /\ toggles[t].origin \in Proverbs
      /\ toggles[t].col \in Identities
      /\ toggles[t].docs \in SUBSET Docs
  BY DEF TypeInv, FavoritesTypeOK, AccountTypeOK, ToggleRecords
<1>1. ASSUME UNCHANGED <<remote, setups, server, userDocs>>, local' \in SUBSET Docs,
             queue' \in [Identities -> Seq(Writes)],
             toggles' \in [Toggles -> ToggleRecords]
      PROVE  TypeInv'
  BY <1>0, <1>1 DEF TypeInv, FavoritesTypeOK, FirestoreTypeOK, ManagerTyped
<1>2. queue \in [Identities -> Seq(Writes)]
  BY <1>0 DEF FirestoreTypeOK
<1>3. EndToggle(t) => toggles' \in [Toggles -> ToggleRecords]
  BY <1>0, RecordsType DEF EndToggle
<1>4. \A r \in ToggleRecords :
        toggles' = [toggles EXCEPT ![t] = r] => toggles' \in [Toggles -> ToggleRecords]
  BY <1>0
<1>5. ASSUME NEW d \in Docs, CollectionReady, IssueDelete(t, d),
             UNCHANGED <<remote, setups, local, server, userDocs>>
      PROVE  TypeInv'
  <2>1. queue' \in [Identities -> Seq(Writes)]
    BY <1>0, <1>5, ReadyUser, IssueType DEF IssueDelete
  <2>2. [NoToggle EXCEPT !.stage = "delete", !.origin = d.origin, !.col = remote.user]
          \in ToggleRecords
    BY <1>0, RecordsType DEF ToggleRecords, Docs
  <2> QED BY <1>0, <1>1, <1>4, <1>5, <2>1, <2>2 DEF IssueDelete
<1>6. ASSUME NEW p \in Proverbs, StartToggle(t, p) PROVE TypeInv'
  <2>1. [NoToggle EXCEPT !.stage = "check", !.origin = p, !.col = remote.user]
          \in ToggleRecords
    BY <1>0, RecordsType DEF ToggleRecords
  <2> QED BY <1>0, <1>1, <1>2, <1>4, <1>6, <2>1 DEF StartToggle, storeVars
<1>7. CASE AnswerToggle(t)
  <2>1. [toggles[t] EXCEPT !.answer = "error"] \in ToggleRecords
    BY <1>0 DEF ToggleRecords, AnswerKinds
  <2>2. ASSUME NEW docs \in Reads(user, toggles[t].col)
        PROVE  [toggles[t] EXCEPT !.answer = "found",
                                  !.docs = OfOrigin(docs, toggles[t].origin)] \in ToggleRecords
    <3>1. OfOrigin(docs, toggles[t].origin) \in SUBSET Docs
      BY <1>0, ReadType DEF OfOrigin
    <3> QED BY <1>0, <3>1 DEF ToggleRecords, AnswerKinds
  <2>3. toggles' \in [Toggles -> ToggleRecords]
    BY <1>0, <1>7, <2>1, <2>2 DEF AnswerToggle
  <2> QED BY <1>0, <1>1, <1>2, <1>7, <2>3 DEF AnswerToggle, storeVars
<1>8. CASE DeliverCheck(t)
  <2>0. UNCHANGED <<remote, setups, server, userDocs>>
    BY <1>8 DEF DeliverCheck
  <2>1. CASE SaveProverb(t)
    <3>1. CASE SaveLocal(toggles[t].origin) /\ EndToggle(t) /\ UNCHANGED queue
      BY <1>0, <1>1, <1>2, <1>3, <2>0, <3>1, LocalType
    <3>2. CASE EndToggle(t) /\ UNCHANGED <<local, queue>>
      BY <1>0, <1>1, <1>2, <1>3, <2>0, <3>2
    <3>3. ASSUME CollectionReady, UNCHANGED local, NEW id \in FreshIds,
                 Enqueue(user, [kind |-> "put", col |-> remote.user,
                                docs |-> {[id |-> id, origin |-> toggles[t].origin]}, op |-> t]),
                 toggles' = [toggles EXCEPT ![t] =
                               [@ EXCEPT !.stage = "save", !.col = remote.user]]
          PROVE  TypeInv'
      <4>1. {[id |-> id, origin |-> toggles[t].origin]} \in SUBSET Docs
        BY <1>0 DEF FreshIds, Docs
      <4>2. queue' \in [Identities -> Seq(Writes)]
        BY <1>0, <3>3, <4>1, ReadyUser, IssueType
      <4>3. [toggles[t] EXCEPT !.stage = "save", !.col = remote.user] \in ToggleRecords
        BY <1>0 DEF ToggleRecords
      <4> QED BY <1>0, <1>1, <2>0, <3>3, <4>2, <4>3
    <3> QED BY <2>1, <3>1, <3>2, <3>3 DEF SaveProverb
  <2>2. CASE RemoveProverb(t)
    <3>1. CASE DeleteLocal(toggles[t].origin) /\ EndToggle(t) /\ UNCHANGED queue
      BY <1>0, <1>1, <1>2, <1>3, <2>0, <3>1, LocalType
    <3>2. CASE EndToggle(t) /\ UNCHANGED <<local, queue>>
      BY <1>0, <1>1, <1>2, <1>3, <2>0, <3>2
    <3>3. CASE /\ toggles' = [toggles EXCEPT ![t] = [NoToggle EXCEPT !.stage = "dropped"]]
               /\ UNCHANGED <<local, queue>>
      <4>1. [NoToggle EXCEPT !.stage = "dropped"] \in ToggleRecords
        BY RecordsType DEF ToggleRecords
      <4> QED BY <1>0, <1>1, <1>2, <1>4, <2>0, <3>3, <4>1
    <3>4. CASE /\ toggles' = [toggles EXCEPT ![t] = [@ EXCEPT
                    !.stage = "get", !.col = remote.user, !.answer = "none", !.docs = {}]]
               /\ UNCHANGED <<local, queue>>
      <4>1. [toggles[t] EXCEPT !.stage = "get", !.col = remote.user,
                               !.answer = "none", !.docs = {}] \in ToggleRecords
        BY <1>0 DEF ToggleRecords, AnswerKinds
      <4> QED BY <1>0, <1>1, <1>2, <1>4, <2>0, <3>4, <4>1
    <3> QED BY <2>2, <3>1, <3>2, <3>3, <3>4 DEF RemoveProverb
  <2> QED BY <1>8, <2>1, <2>2 DEF DeliverCheck
<1>9. CASE DeliverGet(t)
  <2>1. ASSUME CollectionReady, NEW d \in toggles[t].docs, IssueDelete(t, d) PROVE TypeInv'
    BY <1>0, <1>5, <1>9, <2>1 DEF DeliverGet
  <2>2. CASE EndToggle(t) /\ UNCHANGED queue
    BY <1>0, <1>1, <1>2, <1>3, <1>9, <2>2 DEF DeliverGet
  <2> QED BY <1>9, <2>1, <2>2 DEF DeliverGet
<1>10. ASSUME NEW d \in Docs, DeleteRemoteFavorite(t, d) PROVE TypeInv'
  BY <1>5, <1>10 DEF DeleteRemoteFavorite
<1> QED BY <1>6, <1>7, <1>8, <1>9, <1>10 DEF ToggleNext

\* The completion of a settled write.
LEMMA SettleWriteType ==
  ASSUME TypeInv, AccountTypeOK, AccountTypeOK', NEW ok \in BOOLEAN, SettleWrite(ok)
  PROVE  TypeInv'
<1>0. /\ user \in Identities
      /\ FirestoreTypeOK
      /\ local \in SUBSET Docs
      /\ remote \in [user : Identities, ready : BOOLEAN, orphaned : BOOLEAN]
      /\ setups \in [Setups -> SetupRecords]
      /\ toggles \in [Toggles -> ToggleRecords]
      /\ ManagerTyped
  BY DEF TypeInv, FavoritesTypeOK, AccountTypeOK
<1>1. FirestoreTypeOK'
  BY <1>0, SettleType DEF SettleWrite
<1> DEFINE w == Head(queue[user])
<1>2. Completed(w, ok)
  BY DEF SettleWrite
<1> HIDE DEF w
<1>3. ASSUME UNCHANGED <<remote, setups, local>>, toggles' \in [Toggles -> ToggleRecords]
      PROVE  TypeInv'
  BY <1>0, <1>1, <1>3 DEF TypeInv, FavoritesTypeOK, ManagerTyped
<1>4. ASSUME UNCHANGED toggles, local' \in SUBSET Docs,
             remote' \in [user : Identities, ready : BOOLEAN, orphaned : BOOLEAN],
             setups' \in [Setups -> SetupRecords], ManagerTyped'
      PROVE  TypeInv'
  BY <1>0, <1>1, <1>4 DEF TypeInv, FavoritesTypeOK
<1>5. ASSUME w.op \in Setups, Migrate(w.op), UNCHANGED toggles PROVE TypeInv'
  BY <1>4, <1>5, MigrateType
<1>6. ASSUME w.op \in Setups, SetupFails(w.op), UNCHANGED toggles PROVE TypeInv'
  BY <1>0, <1>4, <1>6, SetupFailsType DEF SetupFails
<1>7. ASSUME w.op \in Setups, MigrationEnds(w.op), UNCHANGED <<remote, toggles>>
      PROVE  TypeInv'
  BY <1>0, <1>4, <1>7, EndSetupType DEF MigrationEnds, ManagerTyped
<1>8. ASSUME w.op \in Toggles, EndToggle(w.op), UNCHANGED <<remote, setups, local>>
      PROVE  TypeInv'
  BY <1>0, <1>3, <1>8, RecordsType DEF EndToggle
<1> QED BY <1>0, <1>2, <1>3, <1>5, <1>6, <1>7, <1>8 DEF Completed

LEMMA TypeStep == TypeInv /\ [FavoritesNext]_vars => TypeInv'
<1> SUFFICES ASSUME TypeInv, [FavoritesNext]_vars PROVE TypeInv'
  OBVIOUS
<1>0. AccountTypeOK /\ AccountTypeOK'
  BY AccountPart, AccountTypeStep DEF TypeInv, FavoritesTypeOK
<1>1. ASSUME UNCHANGED <<managerVars, server, userDocs, queue>>, local' \in SUBSET Docs
      PROVE  TypeInv'
  BY <1>0, <1>1
  DEF managerVars, TypeInv, FavoritesTypeOK, FirestoreTypeOK, ManagerTyped
<1>2. ASSUME NEW p \in Proverbs, ToggleLocal(p) PROVE TypeInv'
  BY <1>1, <1>2, LocalType DEF ToggleLocal, TypeInv, FavoritesTypeOK
<1>3. ASSUME NEW f \in Docs, DeleteLocalFavorite(f) PROVE TypeInv'
  BY <1>1, <1>3 DEF DeleteLocalFavorite, TypeInv, FavoritesTypeOK
<1>4. CASE UNCHANGED vars
  BY <1>1, <1>4 DEF vars, managerVars, storeVars, TypeInv, FavoritesTypeOK
<1> QED BY <1>0, <1>2, <1>3, <1>4, ManagerNextType, SetupNextType, ToggleNextType,
           SettleWriteType DEF FavoritesNext

LEMMA TypeInvariant == FavoritesSpec => []TypeInv
<1>1. FavoritesSpec => FavoritesInit /\ [][FavoritesNext]_vars
  BY DEF FavoritesSpec
<1> QED BY <1>1, TypeInit, TypeStep, PTL

\* The types of the stores, the manager and the operations in flight are kept.
THEOREM FavoritesTypeCorrect == FavoritesSpec => []FavoritesTypeOK
<1>1. TypeInv => FavoritesTypeOK
  BY DEF TypeInv
<1> QED BY <1>1, TypeInvariant, PTL
(***************************************************************************)
(* The manager follows the account                                         *)
(***************************************************************************)
\* A callback of Firebase that will make a manager waits for the main queue.
Pending == \E a \in SignIns : signIns[a].stage = "answered" /\ signIns[a].who # NoUser

\* The inductive form of ManagerFollowsUser: a process that is gone has no
\* manager, nobody has one only if it was left behind by a user whom Firebase
\* signed out, and only a successful sign-in may put it behind.
ManagerInv ==
  /\ ~running => remote = NoManager
  /\ user = NoUser => remote = NoManager \/ remote.orphaned
  /\ ~Pending => \/ remote = NoManager
                 \/ remote.user = user
                 \/ remote.orphaned /\ user = NoUser

\* A step that neither moves the user nor delivers a sign-in leaves the
\* manager as it is, its user document aside.
LEMMA ManagerKept ==
  ASSUME TypeInv, ManagerInv, UNCHANGED <<user, running>>, Pending => Pending',
         remote' \in {remote, [remote EXCEPT !.ready = FALSE]}
  PROVE  ManagerInv'
<1>1. remote \in [user : Identities, ready : BOOLEAN, orphaned : BOOLEAN]
  BY DEF TypeInv, FavoritesTypeOK
<1>2. /\ remote'.user = remote.user
      /\ remote.orphaned => remote'.orphaned
      /\ remote = NoManager => remote' = NoManager
  BY <1>1 DEF NoManager
<1> QED BY <1>2 DEF ManagerInv

\* A new manager, or none, for the user the step leaves signed in.
LEMMA ManagerRenewed ==
  ASSUME ManagerInv, running', SetupFirestoreManager,
         user' = NoUser => remote = NoManager \/ remote.orphaned
  PROVE  ManagerInv'
  BY DEF SetupFirestoreManager, ManagerInv

LEMMA ManagerStep == TypeInv /\ ManagerInv /\ [FavoritesNext]_vars => ManagerInv'
<1> SUFFICES ASSUME TypeInv, ManagerInv, [FavoritesNext]_vars PROVE ManagerInv'
  OBVIOUS
<1>0. signIns \in [SignIns -> Attempts]
  BY DEF TypeInv, FavoritesTypeOK, AccountTypeOK
<1>1. ASSUME UNCHANGED accountVars, remote' \in {remote, [remote EXCEPT !.ready = FALSE]}
      PROVE  ManagerInv'
  BY <1>1, ManagerKept DEF accountVars, Pending
<1>2. ASSUME LoseMemory PROVE ManagerInv'
  BY <1>2 DEF LoseMemory, ManagerInv
<1>3. CASE ManagerNext
  <2>1. CASE Launch
    BY <2>1, ManagerRenewed DEF Launch, StartAccount, ManagerInv
  <2>2. CASE Terminate
    BY <1>2, <2>2 DEF Terminate
  <2>3. ASSUME NEW a \in SignIns, SignInDelivered(a) PROVE ManagerInv'
    <3>1. UNCHANGED <<user, running>> /\ running
      BY <2>3 DEF SignInDelivered, DeliverSignIn, OnlySignIns
    <3>2. CASE signIns[a].who = NoUser
      <4>1. Pending => Pending'
        BY <1>0, <2>3, <3>2 DEF SignInDelivered, DeliverSignIn, Pending
      <4> QED BY <2>3, <3>1, <3>2, <4>1, ManagerKept DEF SignInDelivered
    <3>3. CASE signIns[a].who # NoUser
      BY <2>3, <3>1, <3>3, ManagerRenewed DEF SignInDelivered, ManagerInv
    <3> QED BY <3>2, <3>3
  <2>4. ASSUME NEW ok \in BOOLEAN, SignOutPosted(ok) PROVE ManagerInv'
    BY <2>4 DEF SignOutPosted, DeleteFirestoreManager, ManagerInv
  <2>5. CASE AccountOnly
    <3>1. remote' = remote
      BY <2>5 DEF AccountOnly, managerVars
    <3>2. CASE OpenSheet \/ CancelSheet \/ StoreNext
      <4>1. UNCHANGED <<user, running, signIns>>
        BY <3>2 DEF OpenSheet, CancelSheet, OnlySignIns, StoreNext, OfferStore, WithdrawStore,
                    StartStoreCall, StoreAnswers, CompleteTransactions, OnlyStore
      <4> QED BY <3>1, <4>1, ManagerKept DEF Pending
    <3>3. ASSUME NEW a \in SignIns,
                 \/ \E p \in Providers : ChooseProvider(a, p)
                 \/ DismissUI(a)
                 \/ ProviderRefuses(a)
                 \/ ProviderAccepts(a)
          PROVE  ManagerInv'
      <4>1. UNCHANGED <<user, running>>
        BY <3>3 DEF ChooseProvider, DismissUI, ProviderRefuses, ProviderAccepts, OnlySignIns
      <4>2. /\ signIns[a].stage # "answered"
            /\ \A b \in SignIns : b # a => signIns'[b] = signIns[b]
        BY <1>0, <3>3 DEF ChooseProvider, DismissUI, ProviderRefuses, ProviderAccepts
      <4>3. Pending => Pending'
        BY <4>2 DEF Pending
      <4> QED BY <3>1, <4>1, <4>3, ManagerKept
    <3>4. ASSUME NEW a \in SignIns, NEW who \in Identities, FirebaseAnswers(a, who)
          PROVE  ManagerInv'
      <4>1. /\ signIns[a].stage # "answered"
            /\ \A b \in SignIns : b # a => signIns'[b] = signIns[b]
            /\ signIns'[a].stage = "answered" /\ signIns'[a].who = who
        BY <1>0, <3>4 DEF FirebaseAnswers, Attempts
      <4>2. CASE who = NoUser
        <5>1. UNCHANGED <<user, running>>
          BY <3>4, <4>2 DEF FirebaseAnswers, OnlySignIns
        <5>2. Pending => Pending'
          BY <4>1 DEF Pending
        <5> QED BY <3>1, <5>1, <5>2, ManagerKept
      <4>3. CASE who # NoUser
        <5>1. Pending' /\ user' = who /\ running'
          BY <3>4, <4>1, <4>3 DEF Pending, FirebaseAnswers, OnlySignIns
        <5> QED BY <4>3, <5>1 DEF ManagerInv
      <4> QED BY <4>2, <4>3
    <3> QED BY <2>5, <3>2, <3>3, <3>4 DEF AccountOnly
  <2>6. CASE UserExpelled
    <3>1. user' = NoUser /\ running' /\ running
      BY <2>6 DEF UserExpelled, ForcedSignOut, OnlySignIns
    <3> QED BY <2>6, <3>1, ExpelledKeeps DEF ManagerInv
  <2> QED BY <1>3, <2>1, <2>2, <2>3, <2>4, <2>5, <2>6 DEF ManagerNext
<1>4. ASSUME NEW s \in Setups, SetupNext(s) PROVE ManagerInv'
  <2>1. CASE RealmTrap(s)
    BY <1>2, <2>1 DEF RealmTrap
  <2>2. CASE DeliverUserDoc(s)
    BY <1>1, <2>2 DEF DeliverUserDoc, SetupFails, Migrate
  <2>3. CASE AnswerUserDoc(s) \/ AnswerGetAll(s) \/ DeliverGetAll(s)
    BY <1>1, <2>3 DEF AnswerUserDoc, AnswerGetAll, DeliverGetAll
  <2> QED BY <1>4, <2>1, <2>2, <2>3 DEF SetupNext
<1>5. ASSUME NEW t \in Toggles, ToggleNext(t) PROVE ManagerInv'
  BY <1>1, <1>5 DEF ToggleNext, StartToggle, AnswerToggle, DeliverCheck, DeliverGet,
                    DeleteRemoteFavorite
<1>6. ASSUME NEW ok \in BOOLEAN, SettleWrite(ok) PROVE ManagerInv'
  BY <1>1, <1>6 DEF SettleWrite, Completed, Migrate, SetupFails
<1>7. CASE \/ \E p \in Proverbs : ToggleLocal(p)
           \/ \E f \in Docs : DeleteLocalFavorite(f)
           \/ UNCHANGED vars
  BY <1>1, <1>7 DEF ToggleLocal, DeleteLocalFavorite, managerVars, vars
<1> QED BY <1>3, <1>4, <1>5, <1>6, <1>7 DEF FavoritesNext

LEMMA ManagerInvariant == FavoritesSpec => [](TypeInv /\ ManagerInv)
<1>1. FavoritesInit => ManagerInv
  BY DEF FavoritesInit, ManagerInv
<1>2. FavoritesSpec => FavoritesInit /\ [][FavoritesNext]_vars
  BY DEF FavoritesSpec
<1> QED BY <1>1, <1>2, ManagerStep, TypeInvariant, PTL

\* The Firestore manager is that of the current user, whatever sign-ins,
\* sign-outs, refused sign-outs and restarts came before; one that outlives
\* its user does so because Firebase, not the app, signed that user out.
THEOREM ManagerCorrect == FavoritesSpec => []ManagerFollowsUser
<1>1. ManagerInv => ManagerFollowsUser
  BY DEF ManagerInv, ManagerFollowsUser, HasManager, Pending
<1> QED BY <1>1, ManagerInvariant, PTL
(***************************************************************************)
(* Writes stay in the collection of their user                             *)
(***************************************************************************)
\* No queue grows, or only by a write about a user document, or into the
\* collection of the manager.
QueuesQuiet == \A i \in Identities : Len(queue'[i]) <= Len(queue[i])

Issues(w) == /\ running
             /\ Enqueue(user, w)
             /\ \/ w.kind = "user"
                \/ CollectionReady /\ w.col = remote.user

LEMMA QuietStep ==
  ASSUME TypeInv, [FavoritesNext]_vars
  PROVE  QueuesQuiet \/ \E w \in Writes : Issues(w)
<1>0. /\ user \in Identities
      /\ queue \in [Identities -> Seq(Writes)]
      /\ \A i \in Identities : queue[i] \in Seq(Writes) /\ Len(queue[i]) \in Nat
      /\ FirestoreTypeOK
      /\ \A s \in Setups : setups[s].stage = "check" => setups[s].user \in Users
      /\ \A s \in Setups : ToSave(s) \in SUBSET Docs
      /\ \A t \in Toggles : toggles[t].origin \in Proverbs /\ toggles[t].docs \in SUBSET Docs
  BY LenProperties
  DEF TypeInv, FavoritesTypeOK, AccountTypeOK, FirestoreTypeOK, ManagerTyped, ToSave,
      SetupRecords, ToggleRecords
<1>1. UNCHANGED queue => QueuesQuiet
  BY <1>0 DEF QueuesQuiet
<1>2. Disown => QueuesQuiet
  <2>1. SUFFICES ASSUME Disown, NEW i \in Identities PROVE Len(queue'[i]) <= Len(queue[i])
    BY DEF QueuesQuiet
  <2>2. queue'[i] = [n \in DOMAIN queue[i] |-> [queue[i][n] EXCEPT !.op = NoOp]]
    BY <2>1 DEF Disown
  <2>3. DOMAIN queue[i] = 1..Len(queue[i])
    BY <1>0, LenProperties
  <2>4. queue'[i] \in Seq(Writes)
    BY <1>0, <2>1, DisownType
  <2>5. DOMAIN queue'[i] = 1..Len(queue'[i]) /\ Len(queue'[i]) \in Nat
    BY <2>4, LenProperties
  <2> QED BY <1>0, <2>2, <2>3, <2>5
<1>3. ASSUME NEW t \in Toggles, NEW d \in Docs, running, CollectionReady, IssueDelete(t, d)
      PROVE  \E w \in Writes : Issues(w)
  <2>1. [kind |-> "delete", col |-> remote.user, docs |-> {d}, op |-> t] \in Writes
    BY <1>3, ReadyUser, WriteType
  <2> QED BY <1>3, <2>1 DEF IssueDelete, Issues
<1>4. CASE ManagerNext
  BY <1>1, <1>2, <1>4
  DEF ManagerNext, Launch, Terminate, LoseMemory, SignInDelivered, SignOutPosted, UserExpelled,
      AccountOnly, storeVars
<1>5. ASSUME NEW s \in Setups, SetupNext(s) PROVE QueuesQuiet \/ \E w \in Writes : Issues(w)
  <2>1. CASE AnswerUserDoc(s) \/ AnswerGetAll(s) \/ RealmTrap(s)
    BY <1>1, <1>2, <2>1 DEF AnswerUserDoc, AnswerGetAll, RealmTrap, LoseMemory, storeVars
  <2>2. CASE DeliverUserDoc(s)
    <3> DEFINE w == [kind |-> "user", col |-> setups[s].user, docs |-> {}, op |-> s]
    <3>1. w \in Writes
      BY <1>0, <2>2, WriteType DEF DeliverUserDoc
    <3>2. running /\ (UNCHANGED queue \/ Enqueue(user, w))
      BY <2>2 DEF DeliverUserDoc
    <3>3. w.kind = "user"
      OBVIOUS
    <3> HIDE DEF w
    <3> QED BY <1>1, <3>1, <3>2, <3>3 DEF Issues
  <2>3. CASE DeliverGetAll(s)
    <3>1. CollectionReady =>
            [kind |-> "put", col |-> remote.user, docs |-> ToSave(s), op |-> s] \in Writes
      BY <1>0, ReadyUser, WriteType
    <3> QED BY <1>1, <2>3, <3>1 DEF DeliverGetAll, Issues
  <2> QED BY <1>5, <2>1, <2>2, <2>3 DEF SetupNext
<1>6. ASSUME NEW t \in Toggles, ToggleNext(t) PROVE QueuesQuiet \/ \E w \in Writes : Issues(w)
  <2>1. CASE AnswerToggle(t) \/ \E p \in Proverbs : StartToggle(t, p)
    BY <1>1, <2>1 DEF AnswerToggle, StartToggle, storeVars
  <2>2. CASE DeliverCheck(t)
    <3>1. \A id \in FreshIds : CollectionReady =>
            [kind |-> "put", col |-> remote.user,
             docs |-> {[id |-> id, origin |-> toggles[t].origin]}, op |-> t] \in Writes
      <4>1. \A id \in FreshIds : {[id |-> id, origin |-> toggles[t].origin]} \in SUBSET Docs
        BY <1>0 DEF FreshIds, Docs
      <4> QED BY <4>1, ReadyUser, WriteType
    <3>2. CASE SaveProverb(t)
      BY <1>1, <2>2, <3>1, <3>2 DEF DeliverCheck, SaveProverb, Issues
    <3>3. CASE RemoveProverb(t)
      BY <1>1, <3>3 DEF RemoveProverb
    <3> QED BY <2>2, <3>2, <3>3 DEF DeliverCheck
  <2>3. CASE DeliverGet(t)
    BY <1>0, <1>1, <1>3, <2>3 DEF DeliverGet
  <2>4. ASSUME NEW d \in Docs, DeleteRemoteFavorite(t, d)
        PROVE  \E w \in Writes : Issues(w)
    BY <1>3, <2>4 DEF DeleteRemoteFavorite
  <2> QED BY <1>6, <2>1, <2>2, <2>3, <2>4 DEF ToggleNext
<1>7. ASSUME NEW ok \in BOOLEAN, SettleWrite(ok) PROVE QueuesQuiet
  <2>1. queue' = [queue EXCEPT ![user] = Tail(@)] /\ queue[user] # << >>
    BY <1>7 DEF SettleWrite, Settle
  <2>2. Len(Tail(queue[user])) = Len(queue[user]) - 1
    BY <1>0, <2>1, HeadTailProperties
  <2> QED BY <1>0, <2>1, <2>2 DEF QueuesQuiet
<1>8. CASE \/ \E p \in Proverbs : ToggleLocal(p)
           \/ \E f \in Docs : DeleteLocalFavorite(f)
           \/ UNCHANGED vars
  BY <1>1, <1>8 DEF ToggleLocal, DeleteLocalFavorite, vars, storeVars
<1> QED BY <1>4, <1>5, <1>6, <1>7, <1>8 DEF FavoritesNext

LEMMA HomeStep ==
  ASSUME TypeInv, ManagerInv, [FavoritesNext]_vars,
         NEW i \in Identities, Len(queue'[i]) > Len(queue[i]),
         queue'[i][Len(queue'[i])].kind # "user",
         \A a \in SignIns : signIns[a].stage # "answered"
  PROVE  \/ queue'[i][Len(queue'[i])].col = i
         \/ /\ i = NoUser /\ remote.orphaned
            /\ queue'[i][Len(queue'[i])].col = remote.user
<1>0. queue \in [Identities -> Seq(Writes)] /\ user \in Identities
  BY DEF TypeInv, FavoritesTypeOK, AccountTypeOK, FirestoreTypeOK
<1>1. Len(queue[i]) \in Nat
  BY <1>0, LenProperties
<1>2. ~QueuesQuiet
  <2>1. CASE queue' = queue
    BY <1>1, <2>1
  <2>2. CASE queue' # queue
    <3>1. TypeInv'
      BY TypeStep
    <3>2. Len(queue'[i]) \in Nat
      BY <3>1, LenProperties DEF TypeInv, FavoritesTypeOK, FirestoreTypeOK
    <3> QED BY <1>1, <3>2 DEF QueuesQuiet
  <2> QED BY <2>1, <2>2
<1>3. PICK w \in Writes : Issues(w)
  BY <1>2, QuietStep
<1>4. queue' = [queue EXCEPT ![user] = Append(@, w)]
  BY <1>3 DEF Issues, Enqueue
<1>5. i = user
  BY <1>0, <1>1, <1>4
<1>6. queue'[i][Len(queue'[i])] = w
  BY <1>0, <1>4, <1>5, AppendProperties
<1>7. remote.user = user \/ (remote.orphaned /\ user = NoUser)
  BY <1>3, <1>6 DEF Issues, ManagerInv, Pending, CollectionReady, HasManager
<1> QED BY <1>3, <1>5, <1>6, <1>7 DEF Issues

\* What a user saves, deletes or migrates goes to that user's collection,
\* whichever user the operation began with; what goes out under no identity,
\* because Firebase signed the user out, to the collection of the manager
\* left behind.
THEOREM WritesCorrect == FavoritesSpec => WritesStayHome
<1>1. TypeInv /\ ManagerInv /\ [FavoritesNext]_vars =>
        \A i \in Identities :
          LET w == queue'[i][Len(queue'[i])] IN
          /\ Len(queue'[i]) > Len(queue[i])
          /\ w.kind # "user"
          /\ \A a \in SignIns : signIns[a].stage # "answered"
          => \/ w.col = i
             \/ i = NoUser /\ remote.orphaned /\ w.col = remote.user
  BY HomeStep
<1>2. FavoritesSpec => FavoritesInit /\ [][FavoritesNext]_vars
  BY DEF FavoritesSpec
<1> QED BY <1>1, <1>2, ManagerInvariant, PTL DEF WritesStayHome
(***************************************************************************)
(* One write for everyone who waits                                        *)
(***************************************************************************)
OthersAsBefore(o) == \A p \in (Toggles \cup Setups) \ {o} : Waits(p)' <=> Waits(p)

\* No write is issued or settled, and nobody starts or stops to wait.
LEMMA QueuesAsBefore ==
  ASSUME OneWritePerWaiter, UNCHANGED queue,
         \A o \in Toggles \cup Setups : Waits(o)' <=> Waits(o)
  PROVE  OneWritePerWaiter'
BY DEF OneWritePerWaiter

\* After a restart nobody waits.
LEMMA NobodyWaits ==
  ASSUME TypeInv, LoseMemory PROVE OneWritePerWaiter'
<1>1. \A o \in Toggles \cup Setups : ~Waits(o)'
  BY FavoritesAssumption DEF LoseMemory, Waits, NoToggle, NoSetup
<1>2. \A i \in Identities : \A n \in DOMAIN queue'[i] : queue'[i][n].op = NoOp
  <2>1. SUFFICES ASSUME NEW i \in Identities, NEW n \in DOMAIN queue'[i]
                 PROVE  queue'[i][n].op = NoOp
    OBVIOUS
  <2>2. queue'[i] = [m \in DOMAIN queue[i] |-> [queue[i][m] EXCEPT !.op = NoOp]]
    BY DEF LoseMemory, Disown
  <2>3. n \in DOMAIN queue[i] /\ queue'[i][n] = [queue[i][n] EXCEPT !.op = NoOp]
    BY <2>2
  <2>4. queue[i] \in Seq(Writes)
    BY DEF TypeInv, FavoritesTypeOK, FirestoreTypeOK
  <2>5. queue[i][n] \in Writes
    BY <2>3, <2>4, ElementOfSeq
  <2> QED BY <2>3, <2>5 DEF Writes
<1>3. NoOp \notin Toggles \cup Setups
  BY FavoritesAssumption, FirestoreAssumption
<1> QED BY <1>1, <1>2, <1>3 DEF OneWritePerWaiter

\* An operation issues its write and starts to wait.
LEMMA WriteIssued ==
  ASSUME TypeInv, OneWritePerWaiter, NEW o \in Toggles \cup Setups, NEW w \in Writes,
         w.op = o, Enqueue(user, w), ~Waits(o), Waits(o)', OthersAsBefore(o)
  PROVE  OneWritePerWaiter'
<1>0. user \in Identities /\ queue \in [Identities -> Seq(Writes)]
  BY DEF TypeInv, FavoritesTypeOK, AccountTypeOK, FirestoreTypeOK
<1> DEFINE last == Len(queue[user]) + 1
<1>1. /\ queue' = [queue EXCEPT ![user] = Append(queue[user], w)]
      /\ queue[user] \in Seq(Writes) /\ Len(queue[user]) \in Nat
      /\ DOMAIN queue[user] = 1..Len(queue[user])
  BY <1>0, LenProperties DEF Enqueue
<1>2. /\ Append(queue[user], w) \in Seq(Writes)
      /\ Len(Append(queue[user], w)) = last
      /\ Append(queue[user], w)[last] = w
      /\ \A n \in 1..Len(queue[user]) : Append(queue[user], w)[n] = queue[user][n]
  BY <1>1, AppendProperties
<1>3. DOMAIN Append(queue[user], w) = 1..last
  BY <1>2, LenProperties
<1>4. queue'[user] = Append(queue[user], w)
      /\ \A i \in Identities : i # user => queue'[i] = queue[i]
  BY <1>0, <1>1
<1>5. last \in DOMAIN queue'[user] /\ queue'[user][last] = w
  BY <1>1, <1>2, <1>3, <1>4
<1>6. \A i \in Identities : \A n \in DOMAIN queue[i] :
        n \in DOMAIN queue'[i] /\ queue'[i][n] = queue[i][n]
  BY <1>1, <1>2, <1>3, <1>4
<1>7. \A i \in Identities : \A n \in DOMAIN queue'[i] :
        n \in DOMAIN queue[i] \/ (i = user /\ n = last)
  BY <1>1, <1>3, <1>4
<1>8. \A i \in Identities : \A n \in DOMAIN queue[i] : queue[i][n].op # o
  BY DEF OneWritePerWaiter
<1> HIDE DEF last
<1>9. SUFFICES ASSUME NEW p \in Toggles \cup Setups
               PROVE  /\ Waits(p)' <=> \E i \in Identities : \E n \in DOMAIN queue'[i] :
                                         queue'[i][n].op = p
                      /\ \A i, j \in Identities : \A n \in DOMAIN queue'[i], m \in DOMAIN queue'[j] :
                           queue'[i][n].op = p /\ queue'[j][m].op = p => i = j /\ n = m
  BY DEF OneWritePerWaiter
<1>10. CASE p = o
  BY <1>0, <1>5, <1>6, <1>7, <1>8, <1>10
<1>11. CASE p # o
  <2>1. Waits(p)' <=> Waits(p)
    BY <1>11 DEF OthersAsBefore
  <2>2. \A i \in Identities : \A n \in DOMAIN queue'[i] :
          queue'[i][n].op = p => n \in DOMAIN queue[i] /\ queue[i][n].op = p
    BY <1>5, <1>6, <1>7, <1>11
  <2> QED BY <1>6, <2>1, <2>2 DEF OneWritePerWaiter
<1> QED BY <1>10, <1>11

\* The tail of a queue holds its later entries, one place earlier.
LEMMA TailEntries ==
  ASSUME NEW S, NEW q \in Seq(S), q # << >>
  PROVE  /\ 1 \in DOMAIN q /\ Head(q) = q[1]
         /\ \A n \in DOMAIN Tail(q) :
              n + 1 \in DOMAIN q /\ n + 1 # 1 /\ Tail(q)[n] = q[n + 1]
         /\ \A n \in DOMAIN q :
              n # 1 => n - 1 \in DOMAIN Tail(q) /\ Tail(q)[n - 1] = q[n]
<1>1. Len(q) \in Nat /\ DOMAIN q = 1..Len(q) /\ Len(q) # 0
  BY LenProperties, EmptySeq
<1>2. /\ Tail(q) \in Seq(S)
      /\ Head(q) = q[1]
      /\ Len(Tail(q)) = Len(q) - 1
      /\ \A n \in 1..Len(Tail(q)) : Tail(q)[n] = q[n + 1]
  BY HeadTailProperties
<1>3. DOMAIN Tail(q) = 1..Len(Tail(q))
  BY <1>2, LenProperties
<1>4. ASSUME NEW k \in Nat, k # 0
      PROVE  /\ 1 \in 1..k
             /\ \A n \in 1..(k - 1) : n + 1 \in 1..k /\ n + 1 # 1
             /\ \A n \in 1..k : n # 1 => n - 1 \in 1..(k - 1) /\ (n - 1) + 1 = n
  BY <1>4
<1>5. 1 \in DOMAIN q /\ \A n \in DOMAIN Tail(q) : n + 1 \in DOMAIN q /\ n + 1 # 1
  BY <1>1, <1>2, <1>3, <1>4
<1>6. \A n \in DOMAIN q : n # 1 => n - 1 \in DOMAIN Tail(q) /\ (n - 1) + 1 = n
  BY <1>1, <1>2, <1>3, <1>4
<1>7. \A n \in DOMAIN Tail(q) : Tail(q)[n] = q[n + 1]
  BY <1>2, <1>3
<1>8. \A n \in DOMAIN q : n # 1 => Tail(q)[n - 1] = q[n]
  <2>1. SUFFICES ASSUME NEW n \in DOMAIN q, n # 1 PROVE Tail(q)[n - 1] = q[n]
    OBVIOUS
  <2>2. n - 1 \in DOMAIN Tail(q) /\ (n - 1) + 1 = n
    BY <1>6, <2>1
  <2>3. Tail(q)[n - 1] = q[(n - 1) + 1]
    BY <1>7, <2>2
  <2> QED BY <2>2, <2>3
<1> QED BY <1>2, <1>5, <1>6, <1>7, <1>8

\* The head of the user's queue is settled, and who waited for it waits no more.
LEMMA WriteSettled ==
  ASSUME TypeInv, OneWritePerWaiter, queue[user] # << >>,
         queue' = [queue EXCEPT ![user] = Tail(@)],
         OthersAsBefore(Head(queue[user]).op),
         \A o \in Toggles \cup Setups : o = Head(queue[user]).op => ~Waits(o)'
  PROVE  OneWritePerWaiter'
<1>0. user \in Identities /\ queue \in [Identities -> Seq(Writes)]
  BY DEF TypeInv, FavoritesTypeOK, AccountTypeOK, FirestoreTypeOK
<1>1. queue[user] \in Seq(Writes)
  BY <1>0
<1>2. /\ 1 \in DOMAIN queue[user] /\ Head(queue[user]) = queue[user][1]
      /\ \A n \in DOMAIN Tail(queue[user]) :
           n + 1 \in DOMAIN queue[user] /\ n + 1 # 1 /\ Tail(queue[user])[n] = queue[user][n + 1]
      /\ \A n \in DOMAIN queue[user] :
           n # 1 => n - 1 \in DOMAIN Tail(queue[user]) /\ Tail(queue[user])[n - 1] = queue[user][n]
  BY <1>1, TailEntries
<1>3. Tail(queue[user]) \in Seq(Writes)
  BY <1>1, HeadTailProperties
<1>4. queue'[user] = Tail(queue[user])
      /\ \A i \in Identities : i # user => queue'[i] = queue[i]
  BY <1>0
<1>5. DOMAIN queue'[user] \subseteq Nat
  BY <1>3, <1>4, LenProperties
<1>6. \A n \in DOMAIN queue'[user] :
        n + 1 \in DOMAIN queue[user] /\ n + 1 # 1 /\ queue'[user][n] = queue[user][n + 1]
  BY <1>2, <1>4, Zenon
<1>7. \A n \in DOMAIN queue[user] :
        n # 1 => n - 1 \in DOMAIN queue'[user] /\ queue'[user][n - 1] = queue[user][n]
  BY <1>2, <1>4, Zenon
<1>8. \A n, m \in DOMAIN queue'[user] : n + 1 = m + 1 => n = m
  BY <1>5
<1>9. SUFFICES ASSUME NEW p \in Toggles \cup Setups
               PROVE  /\ Waits(p)' <=> \E i \in Identities : \E n \in DOMAIN queue'[i] :
                                         queue'[i][n].op = p
                      /\ \A i, j \in Identities : \A n \in DOMAIN queue'[i], m \in DOMAIN queue'[j] :
                           queue'[i][n].op = p /\ queue'[j][m].op = p => i = j /\ n = m
  BY DEF OneWritePerWaiter
<1>10. /\ Waits(p) <=> \E i \in Identities : \E n \in DOMAIN queue[i] : queue[i][n].op = p
       /\ \A i, j \in Identities : \A n \in DOMAIN queue[i], m \in DOMAIN queue[j] :
            queue[i][n].op = p /\ queue[j][m].op = p => i = j /\ n = m
  BY DEF OneWritePerWaiter
<1>11. \A i, j \in Identities : \A n \in DOMAIN queue'[i], m \in DOMAIN queue'[j] :
         queue'[i][n].op = p /\ queue'[j][m].op = p => i = j /\ n = m
  <2>1. SUFFICES ASSUME NEW i \in Identities, NEW j \in Identities,
                        NEW n \in DOMAIN queue'[i], NEW m \in DOMAIN queue'[j],
                        queue'[i][n].op = p, queue'[j][m].op = p
                 PROVE  i = j /\ n = m
    OBVIOUS
  <2>2. CASE i = user /\ j = user
    BY <1>6, <1>8, <1>10, <2>1, <2>2
  <2>3. CASE i # user /\ j # user
    BY <1>4, <1>10, <2>1, <2>3
  <2>4. CASE i = user /\ j # user
    BY <1>4, <1>6, <1>10, <2>1, <2>4
  <2>5. CASE i # user /\ j = user
    BY <1>4, <1>6, <1>10, <2>1, <2>5
  <2> QED BY <2>2, <2>3, <2>4, <2>5
<1>12. CASE p = Head(queue[user]).op
  <2>1. \A i \in Identities : \A n \in DOMAIN queue[i] :
          queue[i][n].op = p => i = user /\ n = 1
    BY <1>0, <1>2, <1>10, <1>12
  <2>2. \A i \in Identities : \A n \in DOMAIN queue'[i] : queue'[i][n].op # p
    BY <1>4, <1>6, <2>1
  <2> QED BY <1>11, <1>12, <2>2
<1>13. CASE p # Head(queue[user]).op
  <2>1. Waits(p)' <=> Waits(p)
    BY <1>13 DEF OthersAsBefore
  <2>2. ASSUME NEW i \in Identities, NEW n \in DOMAIN queue[i], queue[i][n].op = p
        PROVE  \E m \in DOMAIN queue'[i] : queue'[i][m].op = p
    <3>1. CASE i # user
      BY <1>4, <2>2, <3>1
    <3>2. CASE i = user
      <4>1. n # 1
        BY <1>2, <1>13, <2>2, <3>2
      <4> QED BY <1>7, <2>2, <3>2, <4>1
    <3> QED BY <3>1, <3>2
  <2>3. ASSUME NEW i \in Identities, NEW n \in DOMAIN queue'[i], queue'[i][n].op = p
        PROVE  \E m \in DOMAIN queue[i] : queue[i][m].op = p
    BY <1>4, <1>6, <2>3
  <2> QED BY <1>10, <1>11, <2>1, <2>2, <2>3
<1> QED BY <1>12, <1>13

\* A toggle, or a setup, changes its record, and nobody else's.
LEMMA ToggleSet ==
  ASSUME TypeInv, NEW t \in Toggles, NEW r, toggles' = [toggles EXCEPT ![t] = r], UNCHANGED setups
  PROVE  OthersAsBefore(t) /\ (Waits(t)' <=> r.stage \in {"save", "delete"})
BY FavoritesAssumption DEF TypeInv, FavoritesTypeOK, OthersAsBefore, Waits

LEMMA SetupSet ==
  ASSUME TypeInv, NEW s \in Setups, NEW r, setups' = [setups EXCEPT ![s] = r], UNCHANGED toggles
  PROVE  OthersAsBefore(s) /\ (Waits(s)' <=> r.stage \in {"create", "batch"})
BY FavoritesAssumption DEF TypeInv, FavoritesTypeOK, OthersAsBefore, Waits

\* A step of one operation that waits neither before nor after it.
LEMMA QuietOperation ==
  ASSUME OneWritePerWaiter, UNCHANGED queue, NEW o \in Toggles \cup Setups,
         ~Waits(o), ~Waits(o)', OthersAsBefore(o)
  PROVE  OneWritePerWaiter'
<1>1. \A p \in Toggles \cup Setups : Waits(p)' <=> Waits(p)
  BY DEF OthersAsBefore
<1> QED BY <1>1, QueuesAsBefore

\* The manager is made or dropped: only an idle setup starts.
LEMMA ManagerChange ==
  ASSUME TypeInv, OneWritePerWaiter, UNCHANGED <<toggles, queue>>,
         \/ SetupFirestoreManager
         \/ DeleteFirestoreManager
         \/ UNCHANGED setups
  PROVE  OneWritePerWaiter'
<1>0. setups \in [Setups -> SetupRecords] /\ toggles' = toggles
  BY DEF TypeInv, FavoritesTypeOK
<1>1. \A s \in Setups : setups'[s].stage \in {"create", "batch"}
                          <=> setups[s].stage \in {"create", "batch"}
  <2>1. CASE setups' = Disowned \/ setups' = setups
    BY <1>0, <2>1 DEF Disowned, SetupRecords
  <2>2. ASSUME NEW s \in Setups, setups[s].stage = "idle",
               setups' = [Disowned EXCEPT ![s] =
                            [NoSetup EXCEPT !.stage = "check", !.user = user', !.own = TRUE]]
        PROVE  \A z \in Setups : setups'[z].stage \in {"create", "batch"}
                                   <=> setups[z].stage \in {"create", "batch"}
    <3>1. /\ setups'[s].stage = "check"
          /\ \A z \in Setups : z # s => setups'[z].stage = setups[z].stage
      BY <1>0, <2>2 DEF Disowned, NoSetup, SetupRecords
    <3> QED BY <2>2, <3>1
  <2> QED BY <2>1, <2>2 DEF SetupFirestoreManager, DeleteFirestoreManager
<1>2. \A o \in Toggles \cup Setups : Waits(o)' <=> Waits(o)
  BY <1>0, <1>1, FavoritesAssumption DEF Waits
<1> QED BY <1>2, QueuesAsBefore

\* A setup's step changes its own record only.
LEMMA SetupStep ==
  ASSUME TypeInv, TypeInv', OneWritePerWaiter, NEW s \in Setups, SetupNext(s)
  PROVE  OneWritePerWaiter'
<1>0. /\ setups \in [Setups -> SetupRecords]
      /\ setups[s] \in SetupRecords
      /\ Waits(s) <=> setups[s].stage \in {"create", "batch"}
  BY FavoritesAssumption DEF TypeInv, FavoritesTypeOK, Waits
<1>1. ASSUME NEW r, setups' = [setups EXCEPT ![s] = r], UNCHANGED <<toggles, queue>>,
             setups[s].stage \in {"check", "getAll"},
             r.stage \notin {"create", "batch"}
      PROVE  OneWritePerWaiter'
  BY <1>0, <1>1, SetupSet, QuietOperation
<1>2. ASSUME NEW r, setups' = [setups EXCEPT ![s] = r], UNCHANGED toggles,
             NEW w \in Writes, w.op = s, Enqueue(user, w),
             setups[s].stage \in {"check", "getAll"}, r.stage \in {"create", "batch"}
      PROVE  OneWritePerWaiter'
  BY <1>0, <1>2, SetupSet, WriteIssued
<1>3. ASSUME EndSetup(s), UNCHANGED <<toggles, queue>>, setups[s].stage \in {"check", "getAll"}
      PROVE  OneWritePerWaiter'
  <2>1. NoSetup.stage \notin {"create", "batch"}
    BY DEF NoSetup
  <2> QED BY <1>1, <1>3, <2>1 DEF EndSetup
<1>4. CASE AnswerUserDoc(s)
  <2>1. PICK answer : setups' = [setups EXCEPT ![s].answer = answer]
    BY <1>4 DEF AnswerUserDoc
  <2>2. [setups[s] EXCEPT !.answer = answer].stage = "check"
    BY <1>0, <1>4 DEF AnswerUserDoc, SetupRecords
  <2> QED BY <1>1, <1>4, <2>1, <2>2 DEF AnswerUserDoc, storeVars
<1>5. CASE DeliverUserDoc(s)
  <2>1. CASE UNCHANGED queue /\ SetupFails(s)
    BY <1>3, <1>5, <2>1 DEF DeliverUserDoc, SetupFails
  <2>2. CASE UNCHANGED queue /\ Migrate(s)
    <3> DEFINE r == [setups[s] EXCEPT !.stage = "getAll", !.col = remote.user,
                                      !.snapshot = local, !.answer = "none"]
    <3>1. r.stage = "getAll"
      BY <1>0 DEF SetupRecords
    <3>2. EndSetup(s) \/ setups' = [setups EXCEPT ![s] = r]
      BY <2>2 DEF Migrate, MigrationEnds
    <3> HIDE DEF r
    <3> QED BY <1>1, <1>3, <1>5, <2>2, <3>1, <3>2 DEF DeliverUserDoc
  <2>3. CASE /\ setups' = [setups EXCEPT ![s] =
                             [@ EXCEPT !.stage = "create", !.answer = "none"]]
             /\ Enqueue(user, [kind |-> "user", col |-> setups[s].user,
                               docs |-> {}, op |-> s])
    <3> DEFINE r == [setups[s] EXCEPT !.stage = "create", !.answer = "none"]
    <3> DEFINE w == [kind |-> "user", col |-> setups[s].user, docs |-> {}, op |-> s]
    <3>1. r.stage = "create" /\ setups' = [setups EXCEPT ![s] = r]
      BY <1>0, <2>3 DEF SetupRecords
    <3>2. setups[s].user \in Users
      BY <1>5 DEF DeliverUserDoc, TypeInv, ManagerTyped
    <3>3. w \in Writes /\ w.op = s /\ Enqueue(user, w)
      BY <2>3, <3>2, WriteType
    <3> HIDE DEF r, w
    <3> QED BY <1>2, <1>5, <3>1, <3>3 DEF DeliverUserDoc
  <2> QED BY <1>5, <2>1, <2>2, <2>3 DEF DeliverUserDoc
<1>6. CASE AnswerGetAll(s)
  <2>0. setups[s].stage = "getAll" /\ UNCHANGED <<toggles, queue>>
    BY <1>6 DEF AnswerGetAll, storeVars
  <2>1. CASE setups' = [setups EXCEPT ![s].answer = "error"]
    <3>1. [setups[s] EXCEPT !.answer = "error"].stage = "getAll"
      BY <1>0, <2>0 DEF SetupRecords
    <3> QED BY <1>1, <2>0, <2>1, <3>1
  <2>2. ASSUME NEW docs \in Reads(user, setups[s].col),
               setups' = [setups EXCEPT ![s] = [@ EXCEPT !.answer = "found", !.docs = docs]]
        PROVE  OneWritePerWaiter'
    <3>1. [setups[s] EXCEPT !.answer = "found", !.docs = docs].stage = "getAll"
      BY <1>0, <2>0 DEF SetupRecords
    <3> QED BY <1>1, <2>0, <2>2, <3>1
  <2> QED BY <1>6, <2>1, <2>2 DEF AnswerGetAll
<1>7. CASE DeliverGetAll(s)
  <2>1. CASE ToSave(s) # {} /\ CollectionReady
    <3> DEFINE r == [setups[s] EXCEPT !.stage = "batch"]
    <3> DEFINE w == [kind |-> "put", col |-> remote.user, docs |-> ToSave(s), op |-> s]
    <3>1. r.stage = "batch" /\ setups' = [setups EXCEPT ![s] = r] /\ Enqueue(user, w)
      BY <1>0, <1>7, <2>1 DEF DeliverGetAll, SetupRecords
    <3>2. ToSave(s) \in SUBSET Docs
      BY <1>0 DEF ToSave, SetupRecords
    <3>3. w \in Writes /\ w.op = s
      BY <2>1, <3>2, ReadyUser, WriteType
    <3> HIDE DEF r, w
    <3> QED BY <1>2, <1>7, <3>1, <3>3 DEF DeliverGetAll
  <2>2. CASE MigrationEnds(s) /\ UNCHANGED queue
    BY <1>3, <1>7, <2>2 DEF DeliverGetAll, MigrationEnds
  <2> QED BY <1>7, <2>1, <2>2 DEF DeliverGetAll
<1>8. CASE RealmTrap(s)
  BY <1>8, NobodyWaits DEF RealmTrap
<1> QED BY <1>4, <1>5, <1>6, <1>7, <1>8 DEF SetupNext

\* So does a toggle's.
LEMMA ToggleStep ==
  ASSUME TypeInv, OneWritePerWaiter, NEW t \in Toggles, ToggleNext(t)
  PROVE  OneWritePerWaiter'
<1>0. /\ toggles \in [Toggles -> ToggleRecords]
      /\ toggles[t] \in ToggleRecords
      /\ Waits(t) <=> toggles[t].stage \in {"save", "delete"}
  BY DEF TypeInv, FavoritesTypeOK, Waits
<1>1. ASSUME NEW r, toggles' = [toggles EXCEPT ![t] = r], UNCHANGED <<setups, queue>>,
             toggles[t].stage \in {"idle", "check", "get"},
             r.stage \notin {"save", "delete"}
      PROVE  OneWritePerWaiter'
  BY <1>0, <1>1, ToggleSet, QuietOperation
<1>2. ASSUME NEW r, toggles' = [toggles EXCEPT ![t] = r], UNCHANGED setups,
             NEW w \in Writes, w.op = t, Enqueue(user, w),
             toggles[t].stage \in {"idle", "check", "get"}, r.stage \in {"save", "delete"}
      PROVE  OneWritePerWaiter'
  BY <1>0, <1>2, ToggleSet, WriteIssued
<1>3. ASSUME EndToggle(t), UNCHANGED <<setups, queue>>, toggles[t].stage \in {"check", "get"}
      PROVE  OneWritePerWaiter'
  <2>1. NoToggle.stage \notin {"save", "delete"}
    BY DEF NoToggle
  <2> QED BY <1>1, <1>3, <2>1 DEF EndToggle
<1>4. ASSUME NEW d \in Docs, CollectionReady, IssueDelete(t, d), UNCHANGED setups,
             toggles[t].stage \in {"idle", "get"}
      PROVE  OneWritePerWaiter'
  <2> DEFINE r == [NoToggle EXCEPT !.stage = "delete", !.origin = d.origin, !.col = remote.user]
  <2> DEFINE w == [kind |-> "delete", col |-> remote.user, docs |-> {d}, op |-> t]
  <2>1. r.stage = "delete" /\ toggles' = [toggles EXCEPT ![t] = r] /\ Enqueue(user, w)
    BY <1>4 DEF IssueDelete, NoToggle
  <2>2. w \in Writes /\ w.op = t
    BY <1>4, ReadyUser, WriteType
  <2> HIDE DEF r, w
  <2> QED BY <1>2, <1>4, <2>1, <2>2
<1>5. ASSUME NEW p \in Proverbs, StartToggle(t, p) PROVE OneWritePerWaiter'
  <2>1. [NoToggle EXCEPT !.stage = "check", !.origin = p, !.col = remote.user].stage = "check"
    BY DEF NoToggle
  <2> QED BY <1>1, <1>5, <2>1 DEF StartToggle, storeVars
<1>6. CASE AnswerToggle(t)
  <2>0. toggles[t].stage \in {"check", "get"} /\ UNCHANGED <<setups, queue>>
    BY <1>6 DEF AnswerToggle, storeVars
  <2>1. CASE toggles' = [toggles EXCEPT ![t].answer = "error"]
    <3>1. [toggles[t] EXCEPT !.answer = "error"].stage = toggles[t].stage
      BY <1>0 DEF ToggleRecords
    <3> QED BY <1>1, <2>0, <2>1, <3>1
  <2>2. ASSUME NEW docs \in SUBSET Docs,
               toggles' = [toggles EXCEPT ![t] = [@ EXCEPT !.answer = "found", !.docs = docs]]
        PROVE  OneWritePerWaiter'
    <3>1. [toggles[t] EXCEPT !.answer = "found", !.docs = docs].stage = toggles[t].stage
      BY <1>0 DEF ToggleRecords
    <3> QED BY <1>1, <2>0, <2>2, <3>1
  <2>3. \A docs : OfOrigin(docs, toggles[t].origin) \in SUBSET docs
    BY DEF OfOrigin
  <2>4. \A docs \in Reads(user, toggles[t].col) : docs \in SUBSET Docs
    BY DEF Reads, Overlay
  <2> QED BY <1>6, <2>1, <2>2, <2>3, <2>4 DEF AnswerToggle
<1>7. CASE DeliverCheck(t)
  <2>0. toggles[t].stage = "check" /\ UNCHANGED setups
    BY <1>7 DEF DeliverCheck
  <2>1. ASSUME NEW id \in FreshIds, CollectionReady,
               Enqueue(user, [kind |-> "put", col |-> remote.user,
                              docs |-> {[id |-> id, origin |-> toggles[t].origin]}, op |-> t]),
               toggles' = [toggles EXCEPT ![t] = [@ EXCEPT !.stage = "save", !.col = remote.user]]
        PROVE  OneWritePerWaiter'
    <3> DEFINE r == [toggles[t] EXCEPT !.stage = "save", !.col = remote.user]
    <3> DEFINE w == [kind |-> "put", col |-> remote.user,
                     docs |-> {[id |-> id, origin |-> toggles[t].origin]}, op |-> t]
    <3>1. r.stage = "save" /\ toggles' = [toggles EXCEPT ![t] = r] /\ Enqueue(user, w)
      BY <1>0, <2>1 DEF ToggleRecords
    <3>2. {[id |-> id, origin |-> toggles[t].origin]} \in SUBSET Docs
      BY <1>0 DEF ToggleRecords, FreshIds, Docs
    <3>3. w \in Writes /\ w.op = t
      BY <2>1, <3>2, ReadyUser, WriteType
    <3> HIDE DEF r, w
    <3> QED BY <1>2, <2>0, <3>1, <3>3
  <2>2. CASE SaveProverb(t)
    BY <1>3, <2>0, <2>1, <2>2 DEF SaveProverb
  <2>3. CASE RemoveProverb(t)
    <3>1. [NoToggle EXCEPT !.stage = "dropped"].stage = "dropped"
      BY DEF NoToggle
    <3>2. [toggles[t] EXCEPT !.stage = "get", !.col = remote.user,
                             !.answer = "none", !.docs = {}].stage = "get"
      BY <1>0 DEF ToggleRecords
    <3> QED BY <1>1, <1>3, <2>0, <2>3, <3>1, <3>2 DEF RemoveProverb
  <2> QED BY <1>7, <2>2, <2>3 DEF DeliverCheck
<1>8. CASE DeliverGet(t)
  <2>1. toggles[t].docs \in SUBSET Docs
    BY <1>0 DEF ToggleRecords
  <2> QED BY <1>3, <1>4, <1>8, <2>1 DEF DeliverGet
<1>9. ASSUME NEW d \in Docs, DeleteRemoteFavorite(t, d) PROVE OneWritePerWaiter'
  BY <1>4, <1>9 DEF DeleteRemoteFavorite
<1> QED BY <1>5, <1>6, <1>7, <1>8, <1>9 DEF ToggleNext

\* The completion of the settled write ends the wait of its operation.
LEMMA SettleStep ==
  ASSUME TypeInv, OneWritePerWaiter, NEW ok \in BOOLEAN, SettleWrite(ok)
  PROVE  OneWritePerWaiter'
<1>0. PICK w : w = Head(queue[user])
  OBVIOUS
<1>1. queue[user] # << >> /\ queue' = [queue EXCEPT ![user] = Tail(@)]
  BY DEF SettleWrite, Settle
<1>2. Completed(w, ok)
  BY <1>0 DEF SettleWrite
<1>3. NoOp \notin Toggles \cup Setups
  BY FavoritesAssumption, FirestoreAssumption
<1>4. setups \in [Setups -> SetupRecords]
  BY DEF TypeInv, FavoritesTypeOK
<1> DEFINE Ended == OthersAsBefore(w.op) /\ (w.op \in Toggles \cup Setups => ~Waits(w.op)')
<1>5. Ended
  <2>1. ASSUME w.op \in Setups, EndSetup(w.op), UNCHANGED toggles PROVE Ended
    <3>1. NoSetup.stage \notin {"create", "batch"}
      BY DEF NoSetup
    <3> QED BY <2>1, <3>1, SetupSet DEF EndSetup
  <2>2. ASSUME w.op \in Setups, Migrate(w.op), UNCHANGED toggles PROVE Ended
    <3> DEFINE r == [setups[w.op] EXCEPT !.stage = "getAll", !.col = remote.user,
                                         !.snapshot = local, !.answer = "none"]
    <3>1. r.stage = "getAll"
      BY <1>4, <2>2 DEF SetupRecords
    <3>2. EndSetup(w.op) \/ setups' = [setups EXCEPT ![w.op] = r]
      BY <2>2 DEF Migrate, MigrationEnds
    <3> HIDE DEF r
    <3> QED BY <2>1, <2>2, <3>1, <3>2, SetupSet
  <2>3. ASSUME w.op \in Toggles, EndToggle(w.op), UNCHANGED setups PROVE Ended
    <3>1. NoToggle.stage \notin {"save", "delete"}
      BY DEF NoToggle
    <3> QED BY <2>3, <3>1, ToggleSet DEF EndToggle
  <2>4. ASSUME w.op = NoOp, UNCHANGED <<setups, toggles>> PROVE Ended
    BY <1>3, <2>4 DEF OthersAsBefore, Waits
  <2> QED BY <1>2, <2>1, <2>2, <2>3, <2>4 DEF Completed, SetupFails, MigrationEnds
<1> QED BY <1>0, <1>1, <1>5, WriteSettled

LEMMA OneWriteStep ==
  ASSUME TypeInv, OneWritePerWaiter, [FavoritesNext]_vars PROVE OneWritePerWaiter'
<1>1. CASE ManagerNext
  <2>1. CASE Terminate
    BY <2>1, NobodyWaits DEF Terminate
  <2>2. CASE \/ Launch
             \/ \E a \in SignIns : SignInDelivered(a)
             \/ \E ok \in BOOLEAN : SignOutPosted(ok)
             \/ UserExpelled
             \/ AccountOnly
    <3>1. UNCHANGED <<toggles, queue>>
      BY <2>2 DEF Launch, SignInDelivered, SignOutPosted, UserExpelled, AccountOnly, managerVars,
                  storeVars
    <3>2. \/ SetupFirestoreManager
          \/ DeleteFirestoreManager
          \/ UNCHANGED setups
      BY <2>2 DEF Launch, SignInDelivered, SignOutPosted, UserExpelled, AccountOnly, managerVars
    <3> QED BY <3>1, <3>2, ManagerChange
  <2> QED BY <1>1, <2>1, <2>2 DEF ManagerNext
<1>2. ASSUME NEW s \in Setups, SetupNext(s) PROVE OneWritePerWaiter'
  BY <1>2, SetupStep, TypeStep DEF FavoritesNext
<1>3. ASSUME NEW t \in Toggles, ToggleNext(t) PROVE OneWritePerWaiter'
  BY <1>3, ToggleStep
<1>4. ASSUME NEW ok \in BOOLEAN, SettleWrite(ok) PROVE OneWritePerWaiter'
  BY <1>4, SettleStep
<1>5. CASE \/ \E p \in Proverbs : ToggleLocal(p)
           \/ \E f \in Docs : DeleteLocalFavorite(f)
           \/ UNCHANGED vars
  <2>1. UNCHANGED <<setups, toggles, queue>>
    BY <1>5 DEF ToggleLocal, DeleteLocalFavorite, vars, managerVars, storeVars
  <2> QED BY <2>1, QueuesAsBefore DEF Waits
<1> QED BY <1>1, <1>2, <1>3, <1>4, <1>5 DEF FavoritesNext

\* Across sign-outs, switches of the user and restarts, every operation that
\* waits for a write has exactly one in the queues, and no other has any: no
\* completion is lost and none is called twice.
THEOREM OneWriteCorrect == FavoritesSpec => []OneWritePerWaiter
<1>1. FavoritesInit => OneWritePerWaiter
  BY FavoritesAssumption
  DEF FavoritesInit, FirestoreInit, OneWritePerWaiter, Waits, NoToggle, NoSetup
<1>2. FavoritesSpec => FavoritesInit /\ [][FavoritesNext]_vars
  BY DEF FavoritesSpec
<1> QED BY <1>1, <1>2, OneWriteStep, TypeInvariant, PTL

(***************************************************************************)
(* The migration hands its snapshot over                                   *)
(***************************************************************************)
\* What makes MigrationHandsOver inductive: a migration whose manager was not
\* replaced reads the collection of that manager.
ReadsOwn(s) == setups[s].own /\ setups[s].stage = "getAll" => setups[s].col = remote.user
MigrationInv == \A s \in Setups : ReadsOwn(s)

\* One setup goes on under the same manager.
LEMMA OneSetupMoves ==
  ASSUME TypeInv, MigrationInv, NEW s \in Setups, NEW r, setups' = [setups EXCEPT ![s] = r],
         remote'.user = remote.user,
         r.own /\ r.stage = "getAll" => r.col = remote.user
  PROVE  MigrationInv'
<1>1. setups \in [Setups -> SetupRecords]
  BY DEF TypeInv, FavoritesTypeOK
<1>2. setups'[s] = r /\ \A z \in Setups : z # s => setups'[z] = setups[z]
  BY <1>1
<1> QED BY <1>2 DEF MigrationInv, ReadsOwn

\* A setup ends, or goes on to the read of the collection.
LEMMA SetupMoves ==
  ASSUME TypeInv, MigrationInv, NEW s \in Setups,
         EndSetup(s) \/ SetupFails(s) \/ MigrationEnds(s) \/ Migrate(s),
         remote' \in {remote, [remote EXCEPT !.ready = FALSE]}
  PROVE  MigrationInv'
<1>0. /\ setups \in [Setups -> SetupRecords]
      /\ remote'.user = remote.user
  BY DEF TypeInv, FavoritesTypeOK
<1>1. CASE EndSetup(s)
  <2>1. ~NoSetup.own
    BY DEF NoSetup
  <2> QED BY <1>0, <1>1, <2>1, OneSetupMoves DEF EndSetup
<1>2. CASE Migrate(s) /\ ~EndSetup(s)
  <2> DEFINE r == [setups[s] EXCEPT !.stage = "getAll", !.col = remote.user,
                                    !.snapshot = local, !.answer = "none"]
  <2>1. r.col = remote.user
    BY <1>0 DEF SetupRecords
  <2>2. setups' = [setups EXCEPT ![s] = r]
    BY <1>2 DEF Migrate, MigrationEnds
  <2> HIDE DEF r
  <2> QED BY <1>0, <2>1, <2>2, OneSetupMoves
<1> QED BY <1>1, <1>2 DEF SetupFails, MigrationEnds

\* A new manager, or none, takes over from the setups under way.
LEMMA ManagerTakesOver ==
  ASSUME TypeInv, MigrationInv,
         \/ SetupFirestoreManager
         \/ DeleteFirestoreManager
         \/ UNCHANGED <<remote, setups>>
  PROVE  MigrationInv'
<1>0. setups \in [Setups -> SetupRecords]
  BY DEF TypeInv, FavoritesTypeOK
<1>1. CASE UNCHANGED <<remote, setups>>
  BY <1>1 DEF MigrationInv, ReadsOwn
<1>2. \A z \in Setups : ~Disowned[z].own
  BY <1>0 DEF Disowned, SetupRecords
<1>3. CASE DeleteFirestoreManager
  BY <1>2, <1>3 DEF DeleteFirestoreManager, MigrationInv, ReadsOwn
<1>4. ASSUME NEW s \in Setups,
             setups' = [Disowned EXCEPT ![s] =
                          [NoSetup EXCEPT !.stage = "check", !.user = user', !.own = TRUE]]
      PROVE  MigrationInv'
  <2>1. setups'[s].stage = "check"
    BY <1>4 DEF Disowned, NoSetup
  <2>2. \A z \in Setups : z # s => setups'[z] = Disowned[z]
    BY <1>4 DEF Disowned
  <2> QED BY <1>2, <2>1, <2>2 DEF MigrationInv, ReadsOwn
<1> QED BY <1>1, <1>3, <1>4 DEF SetupFirestoreManager

LEMMA MigrationForgotten ==
  ASSUME LoseMemory PROVE MigrationInv'
BY DEF LoseMemory, MigrationInv, ReadsOwn, NoSetup

LEMMA MigrationStep ==
  ASSUME TypeInv, MigrationInv, [FavoritesNext]_vars PROVE MigrationInv'
<1>0. setups \in [Setups -> SetupRecords]
  BY DEF TypeInv, FavoritesTypeOK
<1>1. CASE ManagerNext
  <2>1. CASE Terminate
    BY <2>1, MigrationForgotten DEF Terminate
  <2>2. CASE \/ Launch
             \/ \E a \in SignIns : SignInDelivered(a)
             \/ \E ok \in BOOLEAN : SignOutPosted(ok)
             \/ AccountOnly
    <3>1. \/ SetupFirestoreManager
          \/ DeleteFirestoreManager
          \/ UNCHANGED <<remote, setups>>
      BY <2>2 DEF Launch, SignInDelivered, SignOutPosted, AccountOnly, managerVars
    <3> QED BY <3>1, ManagerTakesOver
  <2>3. CASE UserExpelled
    BY <2>3, ExpelledKeeps DEF MigrationInv, ReadsOwn
  <2> QED BY <1>1, <2>1, <2>2, <2>3 DEF ManagerNext
<1>2. ASSUME NEW s \in Setups, SetupNext(s) PROVE MigrationInv'
  <2>0. setups[s] \in SetupRecords
    BY <1>0
  <2>1. ASSUME NEW r, setups' = [setups EXCEPT ![s] = r], UNCHANGED remote,
               r.stage # "getAll" \/ (r.own = setups[s].own /\ r.col = setups[s].col
                                      /\ setups[s].stage = "getAll")
        PROVE  MigrationInv'
    BY <2>1, OneSetupMoves DEF MigrationInv, ReadsOwn
  <2>2. CASE AnswerUserDoc(s)
    <3>1. PICK answer : setups' = [setups EXCEPT ![s].answer = answer]
      BY <2>2 DEF AnswerUserDoc
    <3>2. [setups[s] EXCEPT !.answer = answer].stage = "check"
      BY <2>0, <2>2 DEF AnswerUserDoc, SetupRecords
    <3> QED BY <2>1, <2>2, <3>1, <3>2 DEF AnswerUserDoc
  <2>3. CASE DeliverUserDoc(s)
    <3>1. CASE SetupFails(s) \/ Migrate(s)
      BY <2>3, <3>1, SetupMoves DEF SetupFails, Migrate
    <3>2. CASE /\ setups' = [setups EXCEPT ![s] =
                               [@ EXCEPT !.stage = "create", !.answer = "none"]]
               /\ UNCHANGED remote
      <4>1. [setups[s] EXCEPT !.stage = "create", !.answer = "none"].stage = "create"
        BY <2>0 DEF SetupRecords
      <4> QED BY <2>1, <3>2, <4>1
    <3> QED BY <2>3, <3>1, <3>2 DEF DeliverUserDoc
  <2>4. CASE AnswerGetAll(s)
    <3>0. setups[s].stage = "getAll" /\ UNCHANGED remote
      BY <2>4 DEF AnswerGetAll
    <3>1. CASE setups' = [setups EXCEPT ![s].answer = "error"]
      <4> DEFINE r == [setups[s] EXCEPT !.answer = "error"]
      <4>1. r.own = setups[s].own /\ r.col = setups[s].col
        BY <2>0 DEF SetupRecords
      <4> HIDE DEF r
      <4>2. setups' = [setups EXCEPT ![s] = r]
        BY <3>1 DEF r
      <4> QED BY <2>1, <3>0, <4>1, <4>2
    <3>2. ASSUME NEW docs \in Reads(user, setups[s].col),
                 setups' = [setups EXCEPT ![s] = [@ EXCEPT !.answer = "found", !.docs = docs]]
          PROVE  MigrationInv'
      <4> DEFINE r == [setups[s] EXCEPT !.answer = "found", !.docs = docs]
      <4>1. r.own = setups[s].own /\ r.col = setups[s].col
        BY <2>0 DEF SetupRecords
      <4> HIDE DEF r
      <4>2. setups' = [setups EXCEPT ![s] = r]
        BY <3>2 DEF r
      <4> QED BY <2>1, <3>0, <4>1, <4>2
    <3> QED BY <2>4, <3>1, <3>2 DEF AnswerGetAll
  <2>5. CASE DeliverGetAll(s)
    <3>1. [setups[s] EXCEPT !.stage = "batch"].stage = "batch"
      BY <2>0 DEF SetupRecords
    <3> QED BY <2>1, <2>5, <3>1, SetupMoves DEF DeliverGetAll
  <2>6. CASE RealmTrap(s)
    BY <2>6, MigrationForgotten DEF RealmTrap
  <2> QED BY <1>2, <2>2, <2>3, <2>4, <2>5, <2>6 DEF SetupNext
<1>3. ASSUME NEW t \in Toggles, ToggleNext(t) PROVE MigrationInv'
  <2>1. UNCHANGED <<remote, setups>>
    BY <1>3 DEF ToggleNext, StartToggle, AnswerToggle, DeliverCheck, DeliverGet,
                DeleteRemoteFavorite
  <2> QED BY <2>1, ManagerTakesOver
<1>4. ASSUME NEW ok \in BOOLEAN, SettleWrite(ok) PROVE MigrationInv'
  <2>1. PICK w : Completed(w, ok)
    BY <1>4 DEF SettleWrite
  <2> QED BY <2>1, SetupMoves, ManagerTakesOver
          DEF Completed, SetupFails, Migrate, MigrationEnds
<1>5. CASE \/ \E p \in Proverbs : ToggleLocal(p)
           \/ \E f \in Docs : DeleteLocalFavorite(f)
           \/ UNCHANGED vars
  <2>1. UNCHANGED <<remote, setups>>
    BY <1>5 DEF ToggleLocal, DeleteLocalFavorite, vars, managerVars
  <2> QED BY <2>1, ManagerTakesOver
<1> QED BY <1>1, <1>2, <1>3, <1>4, <1>5 DEF FavoritesNext

\* While the process lives, only the delivery of its read takes a migration
\* out of it: it waits for no write that could end it.
LEMMA OnlyDeliveryEndsRead ==
  ASSUME TypeInv, OneWritePerWaiter, FavoritesNext, NEW s \in Setups,
         setups[s].stage = "getAll", setups'[s].stage # "getAll", running'
  PROVE  DeliverGetAll(s)
<1>0. setups \in [Setups -> SetupRecords] /\ setups[s] \in SetupRecords
  BY DEF TypeInv, FavoritesTypeOK
<1>1. setups' # setups
  OBVIOUS
<1>2. ~ManagerNext
  <2>1. ~Terminate
    BY DEF Terminate, Kill, GoogleTrap, Dies
  <2>2. setups' # Disowned
    BY <1>0 DEF Disowned, SetupRecords
  <2>3. ASSUME NEW z \in Setups, setups[z].stage = "idle",
               setups' = [Disowned EXCEPT ![z] =
                            [NoSetup EXCEPT !.stage = "check", !.user = user', !.own = TRUE]]
        PROVE  FALSE
    <3>1. setups'[s] = Disowned[s]
      BY <2>3 DEF Disowned
    <3> QED BY <1>0, <3>1 DEF Disowned, SetupRecords
  <2>4. ~SetupFirestoreManager /\ ~DeleteFirestoreManager
    BY <1>1, <2>2, <2>3 DEF SetupFirestoreManager, DeleteFirestoreManager
  <2>5. ~UserExpelled
    BY <1>1 DEF UserExpelled
  <2> QED BY <1>1, <2>1, <2>4, <2>5
          DEF ManagerNext, Launch, SignInDelivered, SignOutPosted, AccountOnly, managerVars
<1>3. ASSUME NEW z \in Setups, SetupNext(z) PROVE DeliverGetAll(s)
  <2>1. ~RealmTrap(z)
    BY DEF RealmTrap, Kill, Dies
  <2>2. z = s
    <3>1. SUFFICES ASSUME z # s PROVE setups'[s] = setups[s]
      OBVIOUS
    <3> QED BY <1>0, <1>3, <2>1, <3>1
            DEF SetupNext, AnswerUserDoc, DeliverUserDoc, AnswerGetAll, DeliverGetAll,
                SetupFails, Migrate, MigrationEnds, EndSetup
  <2>3. ~AnswerGetAll(s)
    <3>1. [setups[s] EXCEPT !.answer = "error"].stage = "getAll"
      BY <1>0 DEF SetupRecords
    <3>2. ASSUME NEW docs \in Reads(user, setups[s].col)
          PROVE  [setups[s] EXCEPT !.answer = "found", !.docs = docs].stage = "getAll"
      BY <1>0 DEF SetupRecords
    <3> QED BY <1>0, <3>1, <3>2 DEF AnswerGetAll
  <2> QED BY <1>3, <2>1, <2>2, <2>3 DEF SetupNext, AnswerUserDoc, DeliverUserDoc
<1>4. \A t \in Toggles : ~ToggleNext(t)
  BY <1>1 DEF ToggleNext, StartToggle, AnswerToggle, DeliverCheck, DeliverGet,
              DeleteRemoteFavorite
<1>5. ASSUME NEW ok \in BOOLEAN, SettleWrite(ok) PROVE FALSE
  <2>1. PICK w : w = Head(queue[user]) /\ Completed(w, ok)
    BY <1>5 DEF SettleWrite
  <2>2. w.op # s
    <3>1. user \in Identities /\ queue[user] \in Seq(Writes) /\ queue[user] # << >>
      BY <1>5 DEF SettleWrite, TypeInv, FavoritesTypeOK, AccountTypeOK, FirestoreTypeOK
    <3>2. 1 \in DOMAIN queue[user] /\ w = queue[user][1]
      BY <2>1, <3>1, TailEntries
    <3>3. ~Waits(s)
      BY FavoritesAssumption DEF Waits
    <3> QED BY <3>1, <3>2, <3>3 DEF OneWritePerWaiter
  <2>3. setups'[s] = setups[s]
    BY <1>0, <2>1, <2>2
    DEF Completed, Migrate, SetupFails, MigrationEnds, EndSetup
  <2> QED BY <2>3
<1>6. ~\E p \in Proverbs : ToggleLocal(p)
  BY <1>1 DEF ToggleLocal, managerVars
<1>7. ~\E f \in Docs : DeleteLocalFavorite(f)
  BY <1>1 DEF DeleteLocalFavorite, managerVars
<1> QED BY <1>2, <1>3, <1>4, <1>5, <1>6, <1>7 DEF FavoritesNext

LEMMA HandOver ==
  ASSUME TypeInv, OneWritePerWaiter, MigrationInv, NEW s \in Setups, DeliverGetAll(s),
         CollectionReady, NEW f \in setups[s].snapshot
  PROVE  ~HasOrigin(setups[s].docs, f.origin) <=>
           \E n \in DOMAIN queue'[user] :
             /\ queue'[user][n].op = s
             /\ f \in queue'[user][n].docs
             /\ setups[s].own => queue'[user][n].col = setups[s].col
<1>0. /\ user \in Identities
      /\ queue \in [Identities -> Seq(Writes)]
      /\ queue[user] \in Seq(Writes)
      /\ setups[s].stage = "getAll"
      /\ ToSave(s) \in SUBSET Docs
  BY DEF TypeInv, FavoritesTypeOK, AccountTypeOK, FirestoreTypeOK, DeliverGetAll, ToSave,
         SetupRecords
<1>1. ~HasOrigin(setups[s].docs, f.origin) <=> f \in ToSave(s)
  BY DEF ToSave
<1>2. \A n \in DOMAIN queue[user] : queue[user][n].op # s
  <2>1. ~Waits(s)
    BY <1>0, FavoritesAssumption DEF Waits
  <2> QED BY <1>0, <2>1 DEF OneWritePerWaiter
<1>3. CASE ToSave(s) = {}
  BY <1>1, <1>2, <1>3 DEF DeliverGetAll
<1>4. CASE ToSave(s) # {}
  <2> DEFINE w == [kind |-> "put", col |-> remote.user, docs |-> ToSave(s), op |-> s]
  <2>1. queue' = [queue EXCEPT ![user] = Append(queue[user], w)]
    BY <1>4 DEF DeliverGetAll, Enqueue
  <2>2. w.col = remote.user /\ w.docs = ToSave(s) /\ w.op = s
    OBVIOUS
  <2>3. w \in Writes
    BY <1>0, ReadyUser, WriteType
  <2> HIDE DEF w
  <2>4. queue'[user] = Append(queue[user], w)
    BY <1>0, <2>1
  <2>5. /\ Len(queue[user]) \in Nat /\ DOMAIN queue[user] = 1..Len(queue[user])
        /\ Len(queue'[user]) = Len(queue[user]) + 1
        /\ queue'[user][Len(queue[user]) + 1] = w
        /\ \A n \in 1..Len(queue[user]) : queue'[user][n] = queue[user][n]
        /\ queue'[user] \in Seq(Writes)
    BY <1>0, <2>3, <2>4, AppendProperties, LenProperties
  <2>6. DOMAIN queue'[user] = 1..(Len(queue[user]) + 1)
    BY <2>5, LenProperties
  <2>7. PICK last : last \in DOMAIN queue'[user] /\ queue'[user][last] = w
    BY <2>5, <2>6
  <2>8. \A n \in DOMAIN queue'[user] : queue'[user][n].op = s => queue'[user][n] = w
    <3>1. \A n \in DOMAIN queue'[user] :
            n \in DOMAIN queue[user] \/ n = Len(queue[user]) + 1
      BY <2>5, <2>6
    <3> QED BY <1>2, <2>5, <3>1
  <2>9. setups[s].own => w.col = setups[s].col
    BY <1>0, <2>2 DEF MigrationInv, ReadsOwn
  <2> QED BY <1>1, <2>2, <2>7, <2>8, <2>9
<1> QED BY <1>3, <1>4

\* What the migration drops from the local store has been handed over, once
\* and to the right collection, whatever the managers and writes did meanwhile.
THEOREM MigrationCorrect == FavoritesSpec => MigrationHandsOver
<1>1. TypeInv /\ OneWritePerWaiter /\ MigrationInv /\ [FavoritesNext]_vars =>
        [\A s \in Setups :
           /\ setups[s].stage = "getAll" /\ setups'[s].stage # "getAll"
           /\ running' /\ CollectionReady
           => \A f \in setups[s].snapshot :
                ~HasOrigin(setups[s].docs, f.origin) <=>
                   \E n \in DOMAIN queue'[user] :
                     /\ queue'[user][n].op = s
                     /\ f \in queue'[user][n].docs
                     /\ setups[s].own => queue'[user][n].col = setups[s].col]_vars
  BY OnlyDeliveryEndsRead, HandOver
<1>2. FavoritesInit => MigrationInv
  BY DEF FavoritesInit, MigrationInv, ReadsOwn, NoSetup
<1>3. FavoritesSpec => FavoritesInit /\ [][FavoritesNext]_vars
  BY DEF FavoritesSpec
<1> QED BY <1>1, <1>2, <1>3, MigrationStep, OneWriteCorrect, TypeInvariant, PTL
        DEF MigrationHandsOver

(***************************************************************************)
(* The promise of the free version                                         *)
(***************************************************************************)
\* The inductive form of FreeVersionLimit: before the first purchase nothing
\* is under way that could still add a local favourite behind the check.
FreeInv ==
  /\ ~everPurchased => \A t \in Toggles : toggles[t].stage = "idle"
  /\ FreeVersionLimit

\* A purchase is never forgotten by the history variable.
LEMMA EverStays == [AccountNext]_accountVars /\ everPurchased => everPurchased'
  BY DEF AccountNext, AttemptNext, StoreNext, StartAccount, Kill, Dies, OpenSheet, CancelSheet,
         SignOut, ForcedSignOut, ChooseProvider, DismissUI, ProviderRefuses, ProviderAccepts,
         GoogleTrap, FirebaseAnswers, DeliverSignIn, OfferStore, WithdrawStore, StartStoreCall,
         StoreAnswers, CompleteTransactions, OnlySignIns, OnlyStore, accountVars

\* Fewer favourites break no promise.
LEMMA FewerLocal ==
  ASSUME local \in SUBSET Docs, FreeVersionLimit, everPurchased => everPurchased',
         local' \subseteq local
  PROVE  FreeVersionLimit'
<1>1. IsFiniteSet(local)
  BY FavoritesAssumption, FS_Subset
<1>2. Cardinality(local') <= Cardinality(local) /\ Cardinality(local') \in Nat
      /\ Cardinality(local) \in Nat
  BY <1>1, FS_Subset, FS_CardinalityType
<1> QED BY <1>2, FavoritesAssumption DEF FreeVersionLimit

\* A save below the limit, of a proverb that is no favourite yet.
LEMMA OneMoreLocal ==
  ASSUME local \in SUBSET Docs, FreeVersionLimit, everPurchased => everPurchased',
         ~everPurchased => ~purchased,
         NEW p \in Proverbs, ~HasOrigin(local, p), SaveLocal(p)
  PROVE  FreeVersionLimit'
<1>1. CASE AtFreeLimit
  BY <1>1, FewerLocal DEF SaveLocal
<1>2. CASE ~AtFreeLimit
  <2>1. SUFFICES ASSUME ~everPurchased'
                 PROVE  /\ Cardinality(local') <= FreeMax
                        /\ \A f, g \in local' : f.origin = g.origin => f = g
    BY DEF FreeVersionLimit
  <2>2. PICK id \in FreshIds : local' = local \cup {[id |-> id, origin |-> p]}
    BY <1>2 DEF SaveLocal
  <2>3. IsFiniteSet(local) /\ Cardinality(local) \in Nat
    BY FavoritesAssumption, FS_Subset, FS_CardinalityType
  <2>4. Cardinality(local) < FreeMax
    BY <1>2, <2>1, <2>3, FavoritesAssumption DEF AtFreeLimit
  <2>5. Cardinality(local') \in {Cardinality(local), Cardinality(local) + 1}
    BY <2>2, <2>3, FS_AddElement
  <2>6. \A f \in local : f.origin # p
    BY DEF HasOrigin, OfOrigin
  <2>7. \A f, g \in local : f.origin = g.origin => f = g
    BY <2>1 DEF FreeVersionLimit
  <2>8. \A f, g \in local' : f.origin = g.origin => f = g
    BY <2>2, <2>6, <2>7
  <2> QED BY <2>3, <2>4, <2>5, <2>8, FavoritesAssumption
<1> QED BY <1>1, <1>2

LEMMA FreeStep ==
  TypeInv /\ NeverPurchased /\ FreeInv /\ [FavoritesNext]_vars => FreeInv'
<1> SUFFICES ASSUME TypeInv, NeverPurchased, FreeInv, [FavoritesNext]_vars PROVE FreeInv'
  OBVIOUS
<1>0. /\ local \in SUBSET Docs
      /\ toggles \in [Toggles -> ToggleRecords]
      /\ FreeVersionLimit
      /\ everPurchased => everPurchased'
  BY AccountPart, EverStays DEF TypeInv, FavoritesTypeOK, FreeInv
<1>1. ASSUME local' \subseteq local,
             ~everPurchased => \A t \in Toggles : toggles'[t].stage = "idle"
      PROVE  FreeInv'
  BY <1>0, <1>1, FewerLocal DEF FreeInv
<1>2. ASSUME local' \subseteq local, UNCHANGED toggles PROVE FreeInv'
  BY <1>1, <1>2 DEF FreeInv
<1>3. ASSUME LoseMemory PROVE FreeInv'
  BY <1>1, <1>3 DEF LoseMemory, NoToggle
<1>4. CASE ManagerNext
  BY <1>2, <1>3, <1>4
  DEF ManagerNext, Launch, Terminate, SignInDelivered, SignOutPosted, UserExpelled,
      AccountOnly, managerVars, storeVars
<1>5. ASSUME NEW s \in Setups, SetupNext(s) PROVE FreeInv'
  <2>1. CASE RealmTrap(s)
    BY <1>3, <2>1 DEF RealmTrap
  <2>2. CASE AnswerUserDoc(s) \/ AnswerGetAll(s)
    BY <1>2, <2>2 DEF AnswerUserDoc, AnswerGetAll, storeVars
  <2>3. CASE DeliverUserDoc(s) \/ DeliverGetAll(s)
    BY <1>2, <2>3 DEF DeliverUserDoc, DeliverGetAll, SetupFails, Migrate, MigrationEnds
  <2> QED BY <1>5, <2>1, <2>2, <2>3 DEF SetupNext
\* An operation on the collection is under way, or starts: Full Access was
\* bought, and the free version promises nothing any more.
<1>6. ASSUME everPurchased PROVE FreeInv'
  BY <1>0, <1>6 DEF FreeInv, FreeVersionLimit
<1>7. ASSUME NEW t \in Toggles, ToggleNext(t) PROVE FreeInv'
  <2>1. CASE toggles[t].stage # "idle"
    BY <1>6, <2>1 DEF FreeInv
  <2>2. CASE ~IsLocalStorage
    BY <1>6, <2>2 DEF IsLocalStorage, NeverPurchased
  <2> QED BY <1>7, <2>1, <2>2
          DEF ToggleNext, StartToggle, AnswerToggle, DeliverCheck, DeliverGet,
              DeleteRemoteFavorite
<1>8. ASSUME NEW p \in Proverbs, ToggleLocal(p) PROVE FreeInv'
  <2>1. UNCHANGED toggles
    BY <1>8 DEF ToggleLocal, managerVars
  <2>2. CASE DeleteLocal(p)
    BY <1>2, <2>1, <2>2 DEF DeleteLocal
  <2>3. CASE ~HasOrigin(local, p) /\ SaveLocal(p)
    BY <1>0, <2>1, <2>3, OneMoreLocal DEF FreeInv, NeverPurchased
  <2> QED BY <1>8, <2>2, <2>3 DEF ToggleLocal
<1>9. ASSUME NEW ok \in BOOLEAN, SettleWrite(ok) PROVE FreeInv'
  <2>1. local' \subseteq local
    BY <1>9 DEF SettleWrite, Completed, Migrate, MigrationEnds, SetupFails
  <2>2. UNCHANGED toggles \/ \E t \in Toggles : EndToggle(t)
    BY <1>9 DEF SettleWrite, Completed
  <2>3. ~everPurchased => \A t \in Toggles : toggles'[t].stage = "idle"
    BY <1>0, <2>2 DEF EndToggle, NoToggle, FreeInv
  <2> QED BY <1>1, <2>1, <2>3
<1>10. CASE (\E f \in Docs : DeleteLocalFavorite(f)) \/ UNCHANGED vars
  BY <1>2, <1>10 DEF DeleteLocalFavorite, vars, managerVars, storeVars
<1> QED BY <1>4, <1>5, <1>7, <1>8, <1>9, <1>10 DEF FavoritesNext

\* Whoever never bought Full Access keeps at most freeMaxCount favourites, and
\* no proverb twice.
THEOREM FreeLimitCorrect == FavoritesSpec => []FreeVersionLimit
<1>1. FavoritesInit => FreeInv
  BY FS_EmptySet, FavoritesAssumption DEF FavoritesInit, FreeInv, FreeVersionLimit, NoToggle
<1>2. FreeInv => FreeVersionLimit
  BY DEF FreeInv
<1>3. FavoritesSpec => FavoritesInit /\ [][FavoritesNext]_vars
  BY DEF FavoritesSpec
<1> QED BY <1>1, <1>2, <1>3, FreeStep, TypeInvariant, AccountKept, PTL
=============================================================================
