# Verification of Proverbs

Proverbs is an iOS app that shows proverbs and keeps a list of favourites,
locally in Realm or, for a signed-in user who bought Full Access, in Firestore.
This directory holds TLA+ specifications of its stateful parts, the TLC
configurations that check them, and TLAPS proofs about them. Paths below are
relative to `src/Proverbs/Proverbs/`.

- [Inventory](#inventory)
- [Modules](#modules)
- [Runs and bounds](#runs-and-bounds)
- [Fairness](#fairness)
- [Proofs](#proofs)
- [Findings](#findings)
- [Not modelled](#not-modelled)
- [Plan](#plan)

## Inventory

| part | state | operations | what makes it correct |
| --- | --- | --- | --- |
| `UserManager` | current Firebase user (keychain), `currentPlan`, `googleCompletion` | `start`, `signIn`, `signOut`, the SDK callbacks | the plan is that of the user and the purchase; every completion is called once |
| `IAPController` | `isPurchased` (UserDefaults) | `purchase`, `restore`, `completeTransactions` | a purchase raises the plan at once |
| `FavoriteProverbsManager` | local favourites (Realm), the `FirestoreManager` of the user | `isFavorite`, `save`, `delete`, `getAll`, setup, migration | no favourite in another user's collection; the migration hands over all it drops; the free limit |
| `FirestoreManager` | user document, the user's collection | one SDK call per operation, each with a completion | one document per proverb; one completion per write |
| favourites list | the array, the table, the swiped cell, reads and deletions in flight | open, refresh, sort, delete by swipe, `DidDelete` | array and table are one list, and it shows the favourites |
| proverb screens | the button's image, the progress, the enabled controls, calls in flight | next, save or delete, `DidSave`, `DidDelete` | the button keeps an image and tells the truth; the controls come back |
| `ProverbsManager`, `ProverbsStorage` | the library in Realm, `_viewed`, the population flag | populate, next random, sort | the draw finds a proverb, none comes back within a cycle |
| `RemindersManager`, settings screen | flag and time (UserDefaults), the request iOS keeps, the switch | set, check and request the permission | request, flag, switch and permission agree |
| `ShareToUnlock` | unlock, count, last date (UserDefaults) | count a share | one count a day; a complete count is unlocked |
| menu, action sheet | what is on screen | decide which calls can be made | |
| `NetworkActivityIndicatorManager` | a counter of operations | start, finish | the indicator is on exactly while something is under way |
| colour randomizer, reachability, ads, views, extensions | presentation only | | |

The parts talk in three ways: by direct calls; by completions, which the SDKs
call on, or are moved to, the main queue; and by `NotificationCenter` posts,
which are synchronous, so that the observer runs inside the handler that posts.
Hence the granularity of all the models: **a handler on the main queue is one
step, with everything its posts trigger; what an SDK does between a call and its
completion is a step of its own; and anything may happen in between**. A closure
reads the plan, the manager and the stores when it runs, not when it was made,
and the models do the same.

The hard behaviour is in the answers. A user signs out, another signs in, the
plan changes, a second tap comes or the process is killed between a call and its
answer; a write is settled much later, or in another life of the process; a file
or a write fails and nobody looks. `PROJECT.json` lists these hazards at their
lines, with the properties that would catch them, or with the reason why none does:
where the code is known to go wrong and no text says that it should not, a property
excuses the circumstance by name and the hazard counts as not covered.

## Modules

| module | models | builds on |
| --- | --- | --- |
| `Identity` | the Firebase identities | |
| `Membership` | what the app may rely on about an account (abstract) | |
| `Account` | `UserManager`, `IAPController`, the menu's part in them | `Identity`; implements `Membership` |
| `Firestore` | the Firestore client, external, as `FirestoreManager` uses it | `Identity` |
| `Favorites` | `FavoriteProverbsManager`, `FirestoreManager`, Realm's favourites | composes `Account` and `Firestore` |
| `ShareToUnlock` | `ShareToUnlock` and the share callback of `BaseViewController` | |
| `Library` | `ProverbsManager`, `ProverbsStorage`, Realm's opening and reset | |
| `Reminders` | `RemindersManager`, the settings screen, `applicationDidBecomeActive` | |
| `NetworkActivity` | `NetworkActivityIndicatorManager`, beside every caller of it | extends `Account` |
| `FavoritesList` | `FavoritesProverbsViewController`, `ProverbViewController` as its details screen | |
| `ProverbScreen` | `RandomProverbViewController`, `ObliqueButton.inProgress` | |
| `...Proofs` (`Account`, `NetworkActivity`, `Favorites`, `FavoritesList`, `ShareToUnlock`, `Library`, `Reminders`, `ProverbScreen`) | theorems | the module of that name; `NetworkActivityProofs` also on `AccountProofs` |
| `MC...` (`Account`, `Favorites`, `FavoritesList`, `ProverbScreen`, `ShareToUnlock`, `Library`, `Reminders`) | the small instances | the module of that name; `MCAccount` on `NetworkActivity` |

Operators named in a comment as a mutant are not part of a model. Each is a
plausible bug of the definition after it, kept to show that a property notices.

### Account

`user` is `Auth.currentUser`, which survives the process in the keychain, as
`purchased` and `launchedBefore` do in UserDefaults. `plan` is a cache that only
`updateCurrentPlan` refreshes; `UpdateCurrentPlan` appears in exactly the actions
whose handlers call it. A sign-in attempt is a record that goes through the
stages `ui` (the provider's screen is on top), `provider` (its answer is due),
`auth` (Firebase was asked) and `answered` (Firebase has switched the user, its
callback waits for the main queue). What the caller of `signIn` waits for is not
the attempt but its completion, and with Google the two part: `googleCompletion`
names the call whose closure the single property holds, the delegate serves that
one whichever attempt was answered (`Reached`, `serves`), and a later google
attempt overwrites it. `completions` keeps what became of each: due, called
(`none`), or `lost`. `SignOut(FALSE)` is the branch where
`Auth.signOut` throws after `WillSignOut` was posted. `GoogleTrap` is the
assertion and forced unwrap of the google delegate. `ForcedSignOut`
is Firebase signing its user out by itself: every stream of Firestore begins with a
fetch of the user's token, and one that learns that the account is deleted,
disabled or no longer trusted clears the current user, here and in the keychain
(`FIRUser.m:982-1000`, `:1462-1471` and `FIRAuth.m:1380-1385` of the vendored
FirebaseAuth). The app registers no listener for it, so that the plan stays.
`lapses` names the two changes after which the plan is not recomputed, this one
(`expelled`) and a cleared purchase flag (`withdrawn`), until the next step that
does recompute it. `offered` and `sheet` say
which buttons can be pushed. `CompleteTransactions` is StoreKit's report at
launch, which sets the flag once per transaction.

`Membership` is the contract towards the rest of the app: buying raises the plan
at once, a user who signs out lowers it at once, a sign-in counts only after a
later settle, losing the purchase never touches the plan, and a user whom Firebase
expels leaves it lapsed until the account changes next. `ImplementsMembership` is
the refinement, with `member <- user, paid <- purchased, granted <- plan,
up <- running` and `lapsed` for the plan of an expelled user.

### Firestore and Favorites

`Firestore` keeps, per identity, the queue of writes not settled. Persistence is
enabled, so a write is visible to this device's reads when issued (`Overlay`),
outlives the process, moves only while its user is signed in, and has its
completion called when the server settles it, if the process that issued it
still lives. Reads see the server or, offline, the cache under the same queue.

`Favorites` adds the local store, `remote` (the `FirestoreManager` and whether
its user document is set), the runs of `setupFirestoreManager` with the migration
they start, and the runs of `checkAndSaveOrDeleteFavorite` and of deletions.
`SignInDelivered` and `SignOutPosted` are the account's steps joined with what
the observers do in the same handler; `UserExpelled` is Firebase's forced sign-out,
which posts nothing, so that the manager stays (`orphaned`), and its writes with
it, now under no identity. A user document is found once it is on the server or
written here (`UserDocVisible`). Every `Answer...` is the SDK reading, every
`Deliver...` the completion running later and reading the plan and the manager
afresh. `RealmTrap` is the use of a Realm object that was deleted while the
migration held it; `dropped` is the completion that `checkAndDeleteRemote` never
calls. `AtFreeLimit` is checked where the code checks it.

### ShareToUnlock

`Share` asks TrueTime for the date. `FetchIfNeeded` and `Finish(ok)` are its
client: it answers at once while it is synchronised (`finished`), otherwise it
queues the request, and one result, success or failure, goes to all who wait. It
also ends a synchronisation when nothing can be reached. `DeliverDate(written)`
is the completion on the main queue: TrueTime's date or, after a failure, the
device's. The three defaults are written in the
code's order, and the process may end after any of them. `now` runs in half
days, `offset` is the error of the device's clock.

### Library

`Populate` and `SetPopulated` are the two halves of the first launch, and
`PopulateFails` every way the copy is lost without notice. `ResetRealm` erases
the file when Realm does not open. `Draw` is `getNextRandom` with the outcome of
its two writes; `DrawTraps` is its forced unwrap; `DrawCutShort` a kill between
the two writes.

### Reminders

`asked` counts the questions iOS has not looked at yet, `answers` is the main
queue. `ReadStatus` and `Authorize` are iOS reading the permission (or asking the
user once, or failing to: `requestAuthorization` may report an error without a
decision) and queueing the answer; `Deliver...` are the closures. iOS is taken
to hand its answers over in the order in which it read the permission; without
that an old answer could have the last word. Setting `enabled` to a new value
replaces iOS's request and, by its notification, moves the switch of the settings
screen in the same step.

Setting either value anew replaces the request, so `torn`, which remembers a kill
inside a setter, ends with the next assignment that does.

### NetworkActivity

Every action of `Account` appears once, joined with what its handler does to the
counter: `networkOperationStarted` in `signIn`, `purchase` and `restore`,
`networkOperationFinished` in their completions. Facebook and Twitter end their
operation before Firebase is asked, Google after Firebase has answered, and its
refusals end it only through the stored completion. The calls of
`FirestoreManager` all have one form and are counted by `firestoreCalls`.
`overlapped` remembers that Google was asked while it owed an answer.

### FavoritesList

`list` holds the array (`proverbs`), the cells the table was told of, whether
the rows are live Realm objects, and the trap that ended the process if one did:
an index out of range, a table update that does not add up, a deleted Realm
object. A deletion keeps what the code's closures capture: the index found when
the button was pushed and the IndexPath found when the cell was swiped (rows are
counted from 1, 0 is the code's -1). `AfterDidDelete` is the observer, which acts
only on a list that is not on screen; `AfterDeletion` is the completion, which
removes the remembered index. Both run in the step that settles the deletion, in
that order. `PopDetails` is the details screen's observer, which leaves it
whichever favourite was deleted. `Switch` is anything that moves the favourites
to another store.

`excuses` names each circumstance under which the code is known to go wrong; the
properties say that there is no other. `left`: the list had been left when a
swiped deletion was answered, and the row is removed twice. `moved`: the array
had changed since the swipe or the push. `switched`: the favourites are in
another store, and the objects shown may be deleted. `parted`: Firestore's
refusal counts as deleted, a read was overtaken by a write, a deletion on the
details screen was answered on the list (which ignores it), one of two favourites
of a proverb was deleted, or a save came late (the list observes no `DidSave`).

### ProverbScreen

`screen` is the proverb shown, the button (`image`, `savedImage`,
`progressView`), the two flags the controls depend on and the animations whose
completions are still to come. `Progress` is `inProgress`, which puts the image
away or back at once and whose completion comes with the end of the animation, or
never if the progress was shown already. `Finish` is the order on which
everything rests: notification, end of the progress (which restores the image of
before the tap), an explicit image after an error, and a new check. `checks` are
the questions of `checkAndUpdateAddToFavoritesButton`, answered in order but
delivered to whatever proverb is there. `excuses` again names what may make the
image wrong: a failed query, answers that overtake one another, a failed write of
another screen or a second favourite of the proverb, another store.

## Runs and bounds

| run | asks | instance |
| --- | --- | --- |
| `account` | types; the plan honours the purchase and, unless Firebase expelled the user, has one; the google completion is due; each due completion has one holder and does not stay due; the network indicator is balanced and honest; `Membership` is implemented | two users, two attempts, Facebook and Google, one StoreKit call of a kind, one Firestore call |
| `google_overlap` | the code's own assertion, violated when two attempts overlap | one user, two attempts |
| `fav_users` | types; the manager follows the account; writes stay in the collection of their user; every waiting operation has exactly one write; a google attempt that overlaps no other finds its completion | two users, one google attempt, one tap, one setup |
| `fav_migration` | the free limit; the migration hands over what it drops | one user, two proverbs, two migrations at once, offline reads, any earlier collection |
| `fav_settles` | taps and migrations end | one tap, one setup |
| `fav_duplicates` | one document per proverb, violated | two taps, empty collections |
| `share_days` | types; a complete count is unlocked; one count a day with a right clock | three days, two dates asked for at once, five days of time, a clock a day off either way |
| `share_clock` | the days announced are days, violated by a clock that is a day behind | the same, with one date asked for at a time |
| `library` | types; draws find a proverb; no repeat in a cycle; the last draws cannot be foreseen | five proverbs, a new cycle below two |
| `reminders` | types; request, switch and flag agree; the permission decides in the end | two times, three questions waiting at once |
| `favorites_list` | types; array and table stay one list and nothing traps; the rows are the favourites, in order | three favourites, two of one proverb, dates against the alphabet; two deletions and one read in flight; empty or full stores |
| `proverb_screen` | types; the button keeps an image; the controls come back; the image tells the truth | two proverbs, two favourites of one; two taps, two checks, one write, three animations in flight |

The bounds are constants. `SignIns`, `Toggles` and `Setups` are slots for
operations in flight: two are enough for every overlap of two callers, and no
handler looks at more than its own operation and the shared state. A slot is
free for the next `signIn` when its attempt is over and its completion is no
longer due. `MaxStoreCalls` bounds the unanswered StoreKit calls, whose answers
do not depend on one another. `MaxBacklog` says at how many unsettled writes a
new one may start, `MaxAbandoned` at how many a user may be expelled (the queue
of a user who is gone does not move, and only a restart ends those who wait for
it), `RoomForWrites` and `RoomForIds` are the guards that apply it and the
finite set of random identifiers; they only delay a user's step. `FreeMax` is 1
instead of the code's five, so the limit is met at once. The code's five days
are three, its threshold of ten is two: the proofs cover every value. `LastTick`
leaves more days than are required. `MaxWaiting` allows three questions not
answered yet: two activations, where an old status meets a new one, and a
request for the permission beside them; and settings open again only when the
questions of the last screen are answered. `FirestoreInit` starts from any user
documents and any collection in `Stored`. `MaxLoading` is large enough for every
operation `account` can have in flight, so that it never delays one.
`MaxFirestoreCalls` is one: the calls are alike, and sign-ins and store calls
supply the overlap.

`favorites_list` does not follow a list further once it has trapped, once
`left` or `moved` arose or once it was both switched and parted (`Alive`), and
allows one `Switch` and one late save per list. `proverb_screen` follows a screen
whose image may be wrong only after a switch (`Followed`) and allows one switch
until all is quiet; one answer waits on the main queue at a time
(`MainQueueFree`). These two runs therefore end in states without a successor and
do not check deadlock; all the others do. One write in flight is enough for
`proverb_screen`: the server settles writes in order, and what the screen does
with a second one depends only on the proverb shown by then, which `ShowNext`
changes anyway.

`fav_users` uses symmetry in users and identifiers, `fav_migration` in identifiers
and setups, `library` in proverbs, `proverb_screen` in taps; no liveness property is checked under symmetry.

Each property of a passing run has a mutant in `PROJECT.json` that violates it.

## Fairness

Only answers are fair. `AccountFairness`: a provider whose screen is done,
Firebase and the main queue answer every attempt, because the SDKs call each
completion once and the queue runs what it holds. `SignInSettles` concludes that a
completion is not due for ever, and it may end `lost`: an overlapped google
attempt never calls it (see Findings), and the property does not hide that behind
the attempt's own end. `FavoritesFairness`: Firestore
answers each read, the main queue runs each completion, and writes of the
signed-in user are settled. Firestore retries while the user stays, hence
`ToggleEnds` and `SetupEnds` conclude "or the user is gone". Weak fairness
suffices: each answer stays enabled until it is given or the process ends.
Nothing is assumed of the user, the store, the launches or the tokens: Firebase may
expel a user at any time or never. The other modules
state no liveness and have no fairness.

## Proofs

All theorems hold for every value of the constants that satisfies the named
assumptions of the modules (`IdentityAssumption`, `AccountAssumption`,
`FirestoreAssumption`, `FavoritesAssumption`, `ShareAssumption`,
`LibraryAssumption`, `RemindersAssumption`, `ProverbScreenAssumption`,
`FavoritesListAssumption`, `NetworkActivityAssumption`), which TLC evaluates on
every run.

**Account.** `AccountInv` is the conjunction of the type invariant, the four
safety invariants, `DeadIsFree` (a dead process has the free plan, which
`RegisteredHasUser` needs at a launch) and `ServedByFirebase` (only an attempt
that Firebase was asked for holds a completion of its own, which
`CompletionHeldOnce` needs when one is called). The argument goes through
`PlanStep`: in each step the plan is recomputed, or neither it nor what it depends
on moves, or the step is one of the named exceptions: Firebase's switch of the
user, its forced sign-out, a withdrawn purchase. `CompletionsCorrect` follows each
completion from `signIn` through `googleCompletion` to one call of Firebase.
`AccountImplementsMembership` maps each action to one of `Membership`'s or to a
stutter. `OneAttemptNoTrap` strengthens the google invariant to "a google attempt
that is due has its completion stored", inductive with at most one attempt; with
two it is false, which is `google_overlap`.

**Favorites.** `AccountKept` first shows that a step of the composition is a step
of `Account` or a stutter, so that everything proved of `Account` carries over.
`FavoritesTypeCorrect` needs `ManagerTyped` beside the types: a manager with a
document has a user. `ManagerCorrect` rests on `ManagerInv`, which replaces "no
callback waits" by `Pending`, a waiting callback that will make a manager: only
such a callback may leave the manager behind the user, and only an `orphaned` one
is there with nobody signed in. `WritesCorrect` splits the
steps into those that queue nothing for a collection (`QuietStep`) and the three
that write to the current manager's collection, where `ManagerInv` applies.
`OneWriteCorrect` is inductive with the types: a write is appended in the step
that makes its operation wait (`WriteIssued`), settled in the step that ends the
wait (`WriteSettled`), and orphaned with everybody else's when the process dies
(`NobodyWaits`). `MigrationCorrect` uses it: a migration that reads its collection
has no write that could end it, so that only the delivery of the read does
(`OnlyDeliveryEndsRead`), and no older write can pass for the batch. It also needs
`MigrationInv`: a migration whose manager was not replaced reads the collection of
that manager. `FreeLimitCorrect` needs `FreeInv`: before the first purchase no
operation is in flight that could add a local favourite behind the limit's check.

**ShareToUnlock.** `ClientOK` is the type of TrueTime's client.
`DaysLeftCorrect` is inductive as it stands. `OneCountCorrect` needs `CountInv`:
while the clock is right the last share lies in the past and no day counted is
later than its day, so the next count, which is later and of another day, adds a
new one.

**Library.** `DrawFindsCorrect` rests on `WholeInv` (while nothing was lost a
ready process has all of the library), `NoRepeatCorrect` on `CycleInv` (what was
shown is marked, unless its marks went with a file that nobody fills again), and
`ManyToChooseCorrect` on both and on `ChoiceInv` (marks and shown agree until
something fails) with the cardinality facts of finite sets.

**Reminders.** `RequestIsTheSettings` and `SwitchIsHonest` are inductive with the
types, given that a switch screen not there is off. `PermissionIsFollowed` needs
an invariant over the queue of answers: in an active app whose user has not used
the switch, a question that matters is still with iOS; or the last answer on the
queue that matters carries the present permission; or no such answer is left and
the flag agrees already. Lemmas on appending to and taking from such a queue
carry it through each step.

**ProverbScreen.** `ImageIsKept` and `ControlsDoComeBack` rest on one invariant:
the image is where the progress says (`HasImage`), the value the last animation
will set is that of the progress (`LastAnimation`), nothing disables the controls
when no label is typed, no animation runs and no progress shows (`Released`), and
the progress is shown only while a tap has not ended (`Held`).
`ImageIsTrue` speaks of a quiet screen only and is not inductive. `Truth` says who
will put the image right while the screen is not quiet. Away from the collection
nothing is ever under way and the image is true at once. With the collection the
question asked last is about the proverb on the screen; when no tap is left to ask
again and no write of that proverb is left to notify, the answer to that question,
or the image if there is none, is true. The argument needs the order of the calls
in `Finish` (the question comes after the progress has put the old image back) and
that an answer waits on the main queue alone (`MainQueueFree`). It holds for any
number of writes in the queue, where the run has one.

**FavoritesList.** `TableAlwaysFollowsArray` needs that every row looked up earlier
is still where it was found: a swiped cell or a deletion in flight is `Placed` in
the rows or marked as moved, and its array index and its table row agree
(`Found`); that the rows keep the chosen order (`Ordered`), from which follows
that no favourite is in them twice; and that Realm objects on display exist until
the favourites move to another store (`RealmInv`). `ListShowsFavorites` needs
`FaithInv`, what the rows are to the favourites while something is in flight. Away
from the collection nothing is, and the rows are those of Realm, or none. With it
the rows of a list on top are documents of the collection, and with no read in
flight every favourite not being deleted has its proverb among them
(`RemoteShown`); and no other document holds the proverb of one that is being
deleted (`OnlyCopy`), or the row removed might not be the one that went.
The lemmas on `RemoveAt`, `SetToSeqs` and `SelectInSeq` are about sequences in
general. `Sorted` is any sequence, in the order asked for, of the favourites that
are to be rows: what the code's sorting returns, without how. The order in which a
read gives its objects (`SetToSeq`) is a sequence of them only if they are finitely
many, which is why `FavoritesListAssumption` says that `Docs` is finite.

**NetworkActivity.** `ActivityIsAccount` shows that the counter only watches, so
that the invariants of `AccountProofs` can be used. `OperationsAreCounted` needs
that until two google attempts overlap at most one is due and its completion is
stored, and the cardinality facts of finite sets for the attempts under way.

Every safety invariant and every action property that a passing run checks is a
theorem. Model-checked only: liveness (`SignInSettles`, `ToggleEnds`,
`SetupEnds`), which is out of the prover's reach, and the violated properties,
which are false.

## Findings

- `google_overlap`: two overlapping google attempts break the assertion of
  `UserManager.swift:169`. One property holds the completion of both.
- `fav_duplicates`: overlapping taps, or a tap after a failed check, store two
  documents of one proverb, which `FirestoreManager.swift:209` logs as too many.
- `share_clock`: with a clock that is a day behind, and that nobody sets, two shares
  of one day are counted, though the network dated both and the menu asks for
  shares on that many days. The date of the first is never the device's "today".

Also shown by the models, where no text of the repository says otherwise: a
user whom Firebase signs out by itself leaves the registered plan behind, until the
next sign-in, purchase or launch, and the Firestore manager, until the next sign-in
or launch; a purchase flag that is cleared
leaves the plan behind in the same way; a
migration drops the local favourites whatever became of its batch; a deletion
without a manager never calls its completion; live Realm objects held across a
read can trap; reminders switched off in the app come back with the next
activation while iOS allows them; a population that failed once is never
repeated. Leaving the list of favourites with a swiped deletion in flight removes
its row twice, and an IndexPath captured by a swipe is not looked up again; any
deletion, of whichever favourite, closes the screen of another one
(`ProverbViewController.swift:162-166`); a favourite that Firestore refuses to
delete disappears from the list; an open list touches Realm objects that a
migration deleted; and a second google sign-in leaves the network indicator on
for the rest of the process.

## Not modelled

- Partial offline caches, writes of other devices during a run (only their traces
  in `Stored`), and Firestore's security rules.
- The list of the whole library, the search and the screen of a library proverb
  (`ProverbViewController` with an `RProverb`): they show reads that change no
  state, or repeat `checkAndSaveOrDeleteFavorite`, which `Favorites` and
  `ProverbScreen` model.
- The key of `sortAlphabetically`, a section and a text after its last bracket:
  `FavoritesList` keeps what matters of it, that equal texts are filed once. The
  1962 proverbs of `FinalProverbs.plist` have distinct keys, so that distinct
  proverbs are never filed under one.
- `FavoritesList` and `ProverbScreen` see the account only as a store that
  changes (`Switch`). Why it changes is in `Account` and `Favorites`; a
  composition would repeat their states in each screen and is beyond TLC. A manager
  left by a forced sign-out is followed there and not in the screens, for which it
  is a store whose writes are settled late, refused or never settled.
- The age at which TrueTime polls again: nobody waits while it is synchronised, so
  that polling again is the step of a failure that answers nobody (`Finish(FALSE)`).
- Time zones and daylight saving in `isToday`; a day is a calendar day.
- Realm's schema migration; `hardReset` also erases the local favourites, which
  `Favorites` does not follow.
- Display, drawing, ads, reachability, share SDKs, the action sheet but for its
  modality, the colour randomizer: callbacks that show or hide something and keep
  no state a property would be about.
- The vendored pods (Firebase, BoringSSL, gRPC, Realm and others), which are
  nearly all of the C and C++ in the repository. They are third-party code; the
  parts the app relies on are modelled from its use of them and marked external.
  The app itself is some 6 800 lines of Swift, and it is these that the modules
  map.

## Plan

Done, in this order: `Account` with `Membership`, `Firestore` and `Favorites`,
their proofs, `ShareToUnlock`, `Library`, `Reminders`; then `NetworkActivity`,
`FavoritesList`, `ProverbScreen`, and the proofs of `Reminders`, `ProverbScreen`
and `NetworkActivity`, of `OneWritePerWaiter` and of `MigrationHandsOver`; then the
proofs of `ImageTellsTruth` and of `FavoritesList`, with which every safety
property the passing runs check is proved. Next:

1. Under which circumstances `AtMostOneDocPerOrigin` holds, as `OneAttemptNoTrap`
   does for the google completion: which overlaps and which failed reads are all
   that can put a second document of a proverb into a collection.
2. An abstract specification of the favourites, one set per user and one local
   set, implemented by `Favorites`: an accepted write is a stutter of what the
   device shows.
3. A process-wide composition of `Library` and `Favorites` over one Realm file,
   for the reset that erases both.
