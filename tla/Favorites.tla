------------------------------ MODULE Favorites ------------------------------
(***************************************************************************)
(* FavoriteProverbsManager with the stores behind it: the local favourites *)
(* in Realm, the FirestoreManager of the signed-in user, the migration of  *)
(* the first into the second, and the save/delete button of the proverb    *)
(* screens.  Composed with Account: its sign-in, sign-out and launch steps *)
(* post the notifications this manager reacts to in the same handler.      *)
(*                                                                         *)
(* A handler reads the plan, the manager and the stores when it RUNS, not  *)
(* when the operation began: every step below re-reads them as the code    *)
(* does.                                                                   *)
(***************************************************************************)
EXTENDS Account, Firestore, FiniteSets

CONSTANTS Toggles,     \* taps on a save button, or deletions, in flight (a bound)
          Setups,      \* setupFirestoreManager calls in flight (a bound)
          FreeMax,     \* FavoriteProverbsManager.freeMaxCount
          MaxBacklog,  \* unsettled writes at which new ones start (a bound)
          MaxAbandoned \* unsettled writes at which users are expelled (a bound)

ASSUME FavoritesAssumption ==
  /\ Toggles \cup Setups \subseteq Ops
  /\ Toggles \cap Setups = {}
  /\ FreeMax \in Nat
  /\ Proverbs # {}
  /\ IsFiniteSet(Docs)

VARIABLES
  local,    \* the RFavoriteProverb objects in Realm
  remote,   \* remoteStorage: its user, is its userDocument set, and
            \* (history) did Firebase sign a user out under it
  setups,   \* runs of setupFirestoreManager and the migration after it
  toggles   \* runs of checkAndSaveOrDeleteFavorite and deletions

managerVars == <<remote, setups, toggles>>
storeVars == <<local, server, userDocs, queue>>
vars == <<accountVars, managerVars, storeVars>>

NoManager == [user |-> NoUser, ready |-> FALSE, orphaned |-> FALSE]
AnswerKinds == {"none", "error", "missing", "found"}

\* check, create: the user document is read, created; getAll, batch: the
\* migration reads the collection, writes to it.  own: is the manager of this
\* setup still remoteStorage.  snapshot: the local favourites to migrate.
SetupRecords ==
  [stage : {"idle", "check", "create", "getAll", "batch"}, user : Identities,
   own : BOOLEAN, col : Identities, snapshot : SUBSET Docs,
   answer : AnswerKinds, docs : SUBSET Docs]
NoSetup == [stage |-> "idle", user |-> NoUser, own |-> FALSE, col |-> NoUser,
            snapshot |-> {}, answer |-> "none", docs |-> {}]

\* check: isFavorite asked; get: the document to delete is looked up; save,
\* delete: the write waits to be settled; dropped: delete found no manager
\* and will never call its completion.
ToggleRecords ==
  [stage : {"idle", "check", "get", "save", "delete", "dropped"},
   origin : Proverbs, col : Identities, answer : AnswerKinds, docs : SUBSET Docs]
NoToggle == [stage |-> "idle", origin |-> CHOOSE p \in Proverbs : TRUE,
             col |-> NoUser, answer |-> "none", docs |-> {}]

FavoritesTypeOK ==
  /\ AccountTypeOK
  /\ FirestoreTypeOK
  /\ local \in SUBSET Docs
  /\ remote \in [user : Identities, ready : BOOLEAN, orphaned : BOOLEAN]
  /\ setups \in [Setups -> SetupRecords]
  /\ toggles \in [Toggles -> ToggleRecords]

(***************************************************************************)
(* What the handlers read                                                  *)
(***************************************************************************)
\* Mutant: favourites are kept locally only in the free plan.
IsLocalStorageUnlessPaid == plan = "free"

IsLocalStorage == plan # "paidRegistered"

\* The collection of the manager can be addressed.
HasManager == remote # NoManager
CollectionReady == HasManager /\ remote.ready

HasOrigin(S, p) == OfOrigin(S, p) # {}

\* Identifiers are random: a new one is used nowhere else.
IdsOf(S) == {d.id : d \in S}
UsedIds ==
  {id \in Ids :
     \/ id \in IdsOf(local)
     \/ \E u \in Users : id \in IdsOf(server[u])
     \/ \E i \in Identities : \E n \in DOMAIN queue[i] : id \in IdsOf(queue[i][n].docs)
     \/ \E s \in Setups : id \in IdsOf(setups[s].docs \cup setups[s].snapshot)
     \/ \E t \in Toggles : id \in IdsOf(toggles[t].docs)}
FreshIds == Ids \ UsedIds

\* Bounds: room for one more operation beside those in flight.
Busy == {t \in Toggles : toggles[t].stage \in {"check", "get"}}
RoomForIds == Cardinality(FreshIds) > Cardinality(Busy)
RoomForWrites == \A i \in Identities : Len(queue[i]) <= MaxBacklog

(***************************************************************************)
(* The manager follows the account                                         *)
(***************************************************************************)
FavoritesInit ==
  /\ AccountInit
  /\ FirestoreInit
  /\ local = {}
  /\ remote = NoManager
  /\ setups = [s \in Setups |-> NoSetup]
  /\ toggles = [t \in Toggles |-> NoToggle]

Disowned == [s \in Setups |-> [setups[s] EXCEPT !.own = FALSE]]

\* setupFirestoreManager, for the user current at that moment if any: a new
\* manager, whose user document is read.
SetupFirestoreManager ==
  IF user' = NoUser THEN UNCHANGED <<remote, setups>>
  ELSE \E s \in Setups :
         /\ setups[s].stage = "idle"
         /\ remote' = [user |-> user', ready |-> TRUE, orphaned |-> FALSE]
         /\ setups' = [Disowned EXCEPT ![s] =
                          [NoSetup EXCEPT !.stage = "check", !.user = user', !.own = TRUE]]

\* Mutant: the manager of the user who leaves is kept.
KeepFirestoreManager == UNCHANGED <<remote, setups>>

DeleteFirestoreManager == remote' = NoManager /\ setups' = Disowned

\* Launch: UserManager.start before FavoriteProverbsManager.start, so that
\* the sign-out of a first launch is over when the manager is made.
Launch ==
  /\ StartAccount
  /\ SetupFirestoreManager
  /\ UNCHANGED <<toggles, storeVars>>

\* The process ends: nobody waits for the writes under way.
LoseMemory ==
  /\ remote' = NoManager
  /\ setups' = [s \in Setups |-> NoSetup]
  /\ toggles' = [t \in Toggles |-> NoToggle]
  /\ Disown
  /\ UNCHANGED <<local, server, userDocs>>

Terminate ==
  /\ RoomForWrites
  /\ Kill("none") \/ \E a \in SignIns : GoogleTrap(a)
  /\ LoseMemory

\* DidSignIn is posted after the plan is computed and the caller told.
SignInDelivered(a) ==
  /\ DeliverSignIn(a)
  /\ IF signIns[a].who = NoUser THEN UNCHANGED <<remote, setups>>
     ELSE SetupFirestoreManager
  /\ UNCHANGED <<toggles, storeVars>>

\* WillSignOut comes first and drops the manager, even when Firebase then
\* refuses to sign out.
SignOutPosted(ok) ==
  /\ RoomForWrites
  /\ SignOut(ok)
  /\ DeleteFirestoreManager
  /\ UNCHANGED <<toggles, storeVars>>

\* Firebase signs its user out by itself and posts nothing: the manager stays.
UserExpelled ==
  /\ \A i \in Identities : Len(queue[i]) <= MaxAbandoned
  /\ ForcedSignOut
  /\ remote' = IF HasManager THEN [remote EXCEPT !.orphaned = TRUE] ELSE remote
  /\ UNCHANGED <<setups, toggles, storeVars>>

\* The steps of the account that concern no favourite.
AccountOnly ==
  /\ \/ OpenSheet
     \/ CancelSheet
     \/ StoreNext
     \/ \E a \in SignIns :
          \/ \E p \in Providers : ChooseProvider(a, p)
          \/ DismissUI(a)
          \/ ProviderRefuses(a)
          \/ ProviderAccepts(a)
          \/ \E who \in Identities : FirebaseAnswers(a, who)
  /\ UNCHANGED <<managerVars, storeVars>>

(***************************************************************************)
(* The user document and the migration                                     *)
(***************************************************************************)
EndSetup(s) == setups' = [setups EXCEPT ![s] = NoSetup]

\* checkAndMigrateLocalFavoriteProverbs reports a result; setupFirestoreManager
\* ignores it and empties the local store.
MigrationEnds(s) == EndSetup(s) /\ local' = {}

\* The user document could not be had: this manager addresses nothing more.
SetupFails(s) ==
  /\ EndSetup(s)
  /\ remote' = IF setups[s].own THEN [remote EXCEPT !.ready = FALSE] ELSE remote
  /\ UNCHANGED local

\* The user document is there: the local favourites are listed and the
\* manager of the moment is asked for its collection.
Migrate(s) ==
  /\ remote' = remote
  /\ \/ local = {} /\ EndSetup(s) /\ UNCHANGED local
     \/ local # {} /\ ~CollectionReady /\ MigrationEnds(s)
     \/ /\ local # {} /\ CollectionReady
        /\ setups' = [setups EXCEPT ![s] = [@ EXCEPT
             !.stage = "getAll", !.col = remote.user, !.snapshot = local, !.answer = "none"]]
        /\ UNCHANGED local

\* The user document is on the server, or written here and on its way.
UserDocVisible(u) ==
  \/ u \in userDocs
  \/ \E n \in DOMAIN queue[user] : queue[user][n].kind = "user" /\ queue[user][n].col = u

\* getDocument on the user document is answered.
AnswerUserDoc(s) ==
  /\ running /\ setups[s].stage = "check" /\ setups[s].answer = "none"
  /\ \E answer \in {"error", IF UserDocVisible(setups[s].user) THEN "found" ELSE "missing"} :
       setups' = [setups EXCEPT ![s].answer = answer]
  /\ UNCHANGED <<accountVars, remote, toggles, storeVars>>

DeliverUserDoc(s) ==
  /\ running /\ setups[s].stage = "check" /\ setups[s].answer # "none"
  /\ \/ setups[s].answer = "error" /\ SetupFails(s) /\ UNCHANGED queue
     \/ setups[s].answer = "found" /\ Migrate(s) /\ UNCHANGED queue
     \/ /\ setups[s].answer = "missing"
        /\ setups' = [setups EXCEPT ![s] = [@ EXCEPT !.stage = "create", !.answer = "none"]]
        /\ Enqueue(user, [kind |-> "user", col |-> setups[s].user, docs |-> {}, op |-> s])
        /\ UNCHANGED <<remote, local>>
  /\ UNCHANGED <<accountVars, toggles, server, userDocs>>

AnswerGetAll(s) ==
  /\ running /\ setups[s].stage = "getAll" /\ setups[s].answer = "none"
  /\ \/ setups' = [setups EXCEPT ![s].answer = "error"]
     \/ \E docs \in Reads(user, setups[s].col) :
          setups' = [setups EXCEPT ![s] = [@ EXCEPT !.answer = "found", !.docs = docs]]
  /\ UNCHANGED <<accountVars, remote, toggles, storeVars>>

\* Mutant: the filter compares document identifiers, not origins.
ToSaveById(s) == {f \in setups[s].snapshot : ~SameId(f, setups[s].docs)}

\* What the migration has to write: after a failed read, or an empty
\* collection, everything.
ToSave(s) == {f \in setups[s].snapshot : ~HasOrigin(setups[s].docs, f.origin)}

\* Filtering and converting read the Realm objects of the snapshot, except
\* when there is neither a document to compare with nor a manager to save to.
ReadsSnapshot(s) == setups[s].docs # {} \/ HasManager
SnapshotValid(s) == setups[s].snapshot \subseteq local

DeliverGetAll(s) ==
  /\ running /\ setups[s].stage = "getAll" /\ setups[s].answer # "none"
  /\ ReadsSnapshot(s) => SnapshotValid(s)
  /\ IF ToSave(s) # {} /\ CollectionReady
       THEN /\ Enqueue(user, [kind |-> "put", col |-> remote.user,
                              docs |-> ToSave(s), op |-> s])
            /\ setups' = [setups EXCEPT ![s].stage = "batch"]
            /\ UNCHANGED local
       ELSE MigrationEnds(s) /\ UNCHANGED queue
  /\ UNCHANGED <<accountVars, remote, toggles, server, userDocs>>

\* A Realm object deleted since the snapshot is read: the process ends.
RealmTrap(s) ==
  /\ setups[s].stage = "getAll" /\ setups[s].answer # "none"
  /\ ReadsSnapshot(s) /\ ~SnapshotValid(s)
  /\ Kill("realm")
  /\ LoseMemory

(***************************************************************************)
(* Saving and deleting                                                     *)
(***************************************************************************)
EndToggle(t) == toggles' = [toggles EXCEPT ![t] = NoToggle]

\* Mutant: the limit of the free version is off by one.
AtFreeLimitOffByOne == ~purchased /\ Cardinality(local) > FreeMax

\* hasRestriction asks the purchase, not the plan.
AtFreeLimit == ~purchased /\ Cardinality(local) >= FreeMax

\* checkAndSaveLocal: no check for a favourite with the same origin.
SaveLocal(p) ==
  IF AtFreeLimit THEN UNCHANGED local
  ELSE \E id \in FreshIds : local' = local \cup {[id |-> id, origin |-> p]}

\* checkAndDeleteLocal: the first favourite of that origin, if any.
DeleteLocal(p) ==
  IF ~HasOrigin(local, p) THEN UNCHANGED local
  ELSE \E f \in OfOrigin(local, p) : local' = local \ {f}

\* With local favourites the whole tap runs in one handler.
ToggleLocal(p) ==
  /\ running /\ ScreenFree /\ IsLocalStorage /\ RoomForIds
  /\ IF HasOrigin(local, p) THEN DeleteLocal(p) ELSE SaveLocal(p)
  /\ UNCHANGED <<accountVars, managerVars, server, userDocs, queue>>

\* A tap on the save button: isFavorite asks the collection.  Without one
\* it answers FALSE, and the save that follows fails at once.
StartToggle(t, p) ==
  /\ running /\ ScreenFree /\ ~IsLocalStorage /\ CollectionReady
  /\ RoomForIds /\ RoomForWrites
  /\ toggles[t].stage = "idle"
  /\ toggles' = [toggles EXCEPT ![t] = [NoToggle EXCEPT
                   !.stage = "check", !.origin = p, !.col = remote.user]]
  /\ UNCHANGED <<accountVars, remote, setups, storeVars>>

\* isFavorite or getFavorite is answered with the documents of the origin.
AnswerToggle(t) ==
  /\ running /\ toggles[t].stage \in {"check", "get"} /\ toggles[t].answer = "none"
  /\ \/ toggles' = [toggles EXCEPT ![t].answer = "error"]
     \/ \E docs \in Reads(user, toggles[t].col) :
          toggles' = [toggles EXCEPT ![t] = [@ EXCEPT
            !.answer = "found", !.docs = OfOrigin(docs, toggles[t].origin)]]
  /\ UNCHANGED <<accountVars, remote, setups, storeVars>>

\* Mutant: save writes to the collection isFavorite was asked in.
SaveProverbWhereAsked(t) ==
  /\ \E id \in FreshIds :
       Enqueue(user, [kind |-> "put", col |-> toggles[t].col,
                      docs |-> {[id |-> id, origin |-> toggles[t].origin]}, op |-> t])
  /\ toggles' = [toggles EXCEPT ![t].stage = "save"]
  /\ UNCHANGED local

\* save, from the callback of isFavorite.
SaveProverb(t) ==
  LET p == toggles[t].origin IN
  \/ IsLocalStorage /\ SaveLocal(p) /\ EndToggle(t) /\ UNCHANGED queue
  \/ ~IsLocalStorage /\ ~CollectionReady /\ EndToggle(t) /\ UNCHANGED <<local, queue>>
  \/ /\ ~IsLocalStorage /\ CollectionReady
     /\ \E id \in FreshIds :
          Enqueue(user, [kind |-> "put", col |-> remote.user,
                         docs |-> {[id |-> id, origin |-> p]}, op |-> t])
     /\ toggles' = [toggles EXCEPT ![t] = [@ EXCEPT !.stage = "save", !.col = remote.user]]
     /\ UNCHANGED local

\* delete, from the callback of isFavorite: the document is looked up.
\* Without a manager the optional call does nothing and nobody is told.
RemoveProverb(t) ==
  /\ UNCHANGED queue
  /\ \/ IsLocalStorage /\ DeleteLocal(toggles[t].origin) /\ EndToggle(t)
     \/ /\ ~IsLocalStorage /\ HasManager /\ ~remote.ready
        /\ EndToggle(t) /\ UNCHANGED local
     \/ /\ ~IsLocalStorage /\ ~HasManager
        /\ toggles' = [toggles EXCEPT ![t] = [NoToggle EXCEPT !.stage = "dropped"]]
        /\ UNCHANGED local
     \/ /\ ~IsLocalStorage /\ CollectionReady
        /\ toggles' = [toggles EXCEPT ![t] = [@ EXCEPT
             !.stage = "get", !.col = remote.user, !.answer = "none", !.docs = {}]]
        /\ UNCHANGED local

\* The answer of isFavorite; a failed query counts as FALSE.
DeliverCheck(t) ==
  /\ running /\ toggles[t].stage = "check" /\ toggles[t].answer # "none"
  /\ IF toggles[t].docs # {} THEN RemoveProverb(t) ELSE SaveProverb(t)
  /\ UNCHANGED <<accountVars, remote, setups, server, userDocs>>

IssueDelete(t, d) ==
  /\ Enqueue(user, [kind |-> "delete", col |-> remote.user, docs |-> {d}, op |-> t])
  /\ toggles' = [toggles EXCEPT ![t] = [NoToggle EXCEPT
                   !.stage = "delete", !.origin = d.origin, !.col = remote.user]]

\* Mutant: the document is deleted without asking whether there is a manager.
DeliverGetUnguarded(t) ==
  /\ running /\ toggles[t].stage = "get" /\ toggles[t].answer # "none"
  /\ IF toggles[t].docs # {}
       THEN \E d \in toggles[t].docs : IssueDelete(t, d)
       ELSE EndToggle(t) /\ UNCHANGED queue
  /\ UNCHANGED <<accountVars, remote, setups, local, server, userDocs>>

\* The answer of getFavorite: one of the documents found is deleted.
DeliverGet(t) ==
  /\ running /\ toggles[t].stage = "get" /\ toggles[t].answer # "none"
  /\ IF CollectionReady /\ toggles[t].docs # {}
       THEN \E d \in toggles[t].docs : IssueDelete(t, d)
       ELSE EndToggle(t) /\ UNCHANGED queue
  /\ UNCHANGED <<accountVars, remote, setups, local, server, userDocs>>

\* A favourite is deleted from the favourites list or its own screen: its
\* identifier is known and no query is needed.
DeleteRemoteFavorite(t, d) ==
  /\ running /\ ScreenFree /\ ~IsLocalStorage /\ CollectionReady /\ RoomForWrites
  /\ toggles[t].stage = "idle"
  /\ d \in Overlay(user, remote.user, server[remote.user])
  /\ IssueDelete(t, d)
  /\ UNCHANGED <<accountVars, remote, setups, local, server, userDocs>>

DeleteLocalFavorite(f) ==
  /\ running /\ ScreenFree /\ IsLocalStorage
  /\ f \in local /\ local' = local \ {f}
  /\ UNCHANGED <<accountVars, managerVars, server, userDocs, queue>>

(***************************************************************************)
(* The server settles a write, and the completion runs                     *)
(***************************************************************************)
\* Mutant: the completion of a rejected save or delete is never called.
CompletedOnSuccess(w, ok) ==
  \/ /\ w.op \in Setups /\ w.kind = "user"
     /\ IF ok THEN Migrate(w.op) ELSE SetupFails(w.op)
     /\ UNCHANGED toggles
  \/ w.op \in Setups /\ w.kind = "put" /\ MigrationEnds(w.op) /\ UNCHANGED <<remote, toggles>>
  \/ /\ w.op \in Toggles
     /\ IF ok THEN EndToggle(w.op) ELSE UNCHANGED toggles
     /\ UNCHANGED <<remote, setups, local>>
  \/ w.op = NoOp /\ UNCHANGED <<remote, setups, toggles, local>>

\* Mutant: a rejected batch leaves the migration waiting.
CompletedUnlessBatchFails(w, ok) ==
  \/ /\ w.op \in Setups /\ w.kind = "user"
     /\ IF ok THEN Migrate(w.op) ELSE SetupFails(w.op)
     /\ UNCHANGED toggles
  \/ /\ w.op \in Setups /\ w.kind = "put"
     /\ IF ok THEN MigrationEnds(w.op) ELSE UNCHANGED <<setups, local>>
     /\ UNCHANGED <<remote, toggles>>
  \/ w.op \in Toggles /\ EndToggle(w.op) /\ UNCHANGED <<remote, setups, local>>
  \/ w.op = NoOp /\ UNCHANGED <<remote, setups, toggles, local>>

\* The completion of the write w; a batch ends the migration either way.
Completed(w, ok) ==
  \/ /\ w.op \in Setups /\ w.kind = "user"
     /\ IF ok THEN Migrate(w.op) ELSE SetupFails(w.op)
     /\ UNCHANGED toggles
  \/ w.op \in Setups /\ w.kind = "put" /\ MigrationEnds(w.op) /\ UNCHANGED <<remote, toggles>>
  \/ w.op \in Toggles /\ EndToggle(w.op) /\ UNCHANGED <<remote, setups, local>>
  \/ w.op = NoOp /\ UNCHANGED <<remote, setups, toggles, local>>

SettleWrite(ok) ==
  /\ running /\ queue[user] # << >>
  /\ Settle(user, ok)
  /\ Completed(Head(queue[user]), ok)
  /\ UNCHANGED accountVars

(***************************************************************************)
(* The specification                                                       *)
(***************************************************************************)
ManagerNext ==
  \/ Launch
  \/ Terminate
  \/ \E a \in SignIns : SignInDelivered(a)
  \/ \E ok \in BOOLEAN : SignOutPosted(ok)
  \/ UserExpelled
  \/ AccountOnly

SetupNext(s) ==
  \/ AnswerUserDoc(s)
  \/ DeliverUserDoc(s)
  \/ AnswerGetAll(s)
  \/ DeliverGetAll(s)
  \/ RealmTrap(s)

ToggleNext(t) ==
  \/ \E p \in Proverbs : StartToggle(t, p)
  \/ AnswerToggle(t)
  \/ DeliverCheck(t)
  \/ DeliverGet(t)
  \/ \E d \in Docs : DeleteRemoteFavorite(t, d)

FavoritesNext ==
  \/ ManagerNext
  \/ \E s \in Setups : SetupNext(s)
  \/ \E t \in Toggles : ToggleNext(t)
  \/ \E p \in Proverbs : ToggleLocal(p)
  \/ \E f \in Docs : DeleteLocalFavorite(f)
  \/ \E ok \in BOOLEAN : SettleWrite(ok)

\* The Firestore client answers every read and, while its user stays, settles
\* every write; the main queue runs the callbacks.  The user owes nothing.
FavoritesFairness ==
  /\ WF_vars(\E ok \in BOOLEAN : SettleWrite(ok))
  /\ \A s \in Setups :
       /\ WF_vars(AnswerUserDoc(s) \/ AnswerGetAll(s))
       /\ WF_vars(DeliverUserDoc(s) \/ DeliverGetAll(s) \/ RealmTrap(s))
  /\ \A t \in Toggles :
       /\ WF_vars(AnswerToggle(t))
       /\ WF_vars(DeliverCheck(t) \/ DeliverGet(t))

FavoritesSpec == FavoritesInit /\ [][FavoritesNext]_vars /\ FavoritesFairness

(***************************************************************************)
(* Properties                                                              *)
(***************************************************************************)
\* As long as Full Access was never bought, the free version keeps its
\* promise: at most freeMaxCount favourites, no proverb twice, whatever the
\* keychain held at the first launch and whatever sign-in or migration ran.
FreeVersionLimit ==
  ~everPurchased =>
    /\ Cardinality(local) <= FreeMax
    /\ \A f, g \in local : f.origin = g.origin => f = g

\* remoteStorage belongs to the current user, and there is none when nobody
\* is signed in, except between Firebase's switch of the user and its
\* callback on the main queue, and after Firebase signed its user out by
\* itself: then the old manager stays until somebody signs in.
ManagerFollowsUser ==
  running /\ (\A a \in SignIns : signIns[a].stage # "answered")
    => \/ ~HasManager
       \/ remote.user = user
       \/ remote.orphaned /\ user = NoUser

\* When the migration has read the collection, each favourite of its snapshot
\* either has its proverb among the documents read or goes out in the batch,
\* never both, and to the collection that was read unless the manager was
\* replaced meanwhile: what deleteAll drops from the snapshot has been handed
\* over, once.  Only a manager without a user document hands over nothing.
MigrationHandsOver ==
  [][\A s \in Setups :
       /\ setups[s].stage = "getAll" /\ setups'[s].stage # "getAll"
       /\ running' /\ CollectionReady
       => \A f \in setups[s].snapshot :
            ~HasOrigin(setups[s].docs, f.origin) <=>
               \E n \in DOMAIN queue'[user] :
                 /\ queue'[user][n].op = s
                 /\ f \in queue'[user][n].docs
                 /\ setups[s].own => queue'[user][n].col = setups[s].col]_vars

\* Every operation that waits for a write has exactly one write in the
\* queues, and no other operation has any: its completion is neither lost nor
\* called twice, across sign-outs, switches of the user and restarts.
Waits(o) == IF o \in Toggles THEN toggles[o].stage \in {"save", "delete"}
            ELSE setups[o].stage \in {"create", "batch"}

OneWritePerWaiter ==
  \A o \in Toggles \cup Setups :
    /\ Waits(o) <=> \E i \in Identities : \E n \in DOMAIN queue[i] : queue[i][n].op = o
    /\ \A i, j \in Identities : \A n \in DOMAIN queue[i], m \in DOMAIN queue[j] :
         queue[i][n].op = o /\ queue[j][m].op = o => i = j /\ n = m

\* Outside the moment between Firebase's switch of the user and its callback,
\* a favourite is written and deleted only in the collection of the user
\* whose identity the write goes out under, whichever user the operation
\* began with.  The manager of a user whom Firebase signed out by itself goes
\* on writing to that user's collection, under no identity; to no other.
WritesStayHome ==
  [][\A i \in Identities :
       LET w == queue'[i][Len(queue'[i])] IN
       /\ Len(queue'[i]) > Len(queue[i])
       /\ w.kind # "user"
       /\ \A a \in SignIns : signIns[a].stage # "answered"
       => \/ w.col = i
          \/ i = NoUser /\ remote.orphaned /\ w.col = remote.user]_vars

\* FirestoreManager.isFavorite logs "We have too many favorite proverbs!"
\* when it meets a second document of an origin: from collections that hold
\* none, none arises.
AtMostOneDocPerOrigin ==
  \A u \in Users, p \in Proverbs : Cardinality(OfOrigin(server[u], p)) <= 1

\* A tap on the save button comes to an end while its user stays signed in:
\* its completion is called, or was dropped for want of a manager.
ToggleEnds ==
  \A t \in Toggles, u \in Users :
    (/\ user = u
     /\ \/ toggles[t].stage \in {"check", "get"}
        \/ \E n \in DOMAIN queue[u] : queue[u][n].op = t)
      ~> (toggles[t].stage \in {"idle", "dropped"} \/ user # u)

\* A migration comes to an end while its user stays signed in.
SetupEnds ==
  \A s \in Setups, u \in Users :
    (/\ user = u
     /\ \/ setups[s].stage \in {"check", "getAll"}
        \/ \E n \in DOMAIN queue[u] : queue[u][n].op = s)
      ~> (setups[s].stage = "idle" \/ user # u)
=============================================================================
