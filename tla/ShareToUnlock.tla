---------------------------- MODULE ShareToUnlock ----------------------------
(***************************************************************************)
(* Sharing a proverb on five days unlocks the list of all proverbs.  A     *)
(* share asks TrueTime for the date and is counted, once a day, when the   *)
(* answer comes: the network's date, or the device's when the network      *)
(* fails.  TrueTime gives everybody who waits the same result, and answers *)
(* by itself as long as it has synchronised with the network.  Three       *)
(* entries of UserDefaults keep the unlock, the count and the date of the  *)
(* last counted share; each is written on its own.                         *)
(***************************************************************************)
EXTENDS Integers, FiniteSets, Sequences

CONSTANTS RequiredShareDays, \* requiredShareDays
          Offsets,           \* what the device's clock may be off by, in ticks
          Never,             \* lastShareDate == nil
          MaxFetches,        \* dates asked for and not delivered (a bound)
          LastTick           \* the end of time (a bound)

ASSUME ShareAssumption ==
  /\ RequiredShareDays \in Nat \ {0}
  /\ Offsets \subseteq Int /\ 0 \in Offsets
  /\ Never \notin Int
  /\ MaxFetches \in Nat /\ LastTick \in Nat

VARIABLES now,               \* the true time
          offset,            \* the device's clock minus the true time
          running,
          isPurchased,       \* IAPController.isPurchased
          isUnlocked,
          currentShareCount,
          lastShareDate,
          finished,          \* NTPClient: has the clock been synchronised
          asked,             \* NTPClient.completionCallbacks, how many wait
          answers,           \* their results on the main queue: TRUE is success
          countedDays,       \* history: the true days a share was counted on
          errors             \* history: the errors the device's clock had

environment == <<now, offset, isPurchased, errors>>
defaults == <<isUnlocked, currentShareCount, lastShareDate>>
client == <<finished, asked, answers>>
vars == <<environment, defaults, running, client, countedDays>>

\* Two moments of a day are enough to tell a later one of the same day.
Day(tick) == tick \div 2

TypeOK ==
  /\ now \in 0..LastTick
  /\ offset \in Offsets
  /\ running \in BOOLEAN
  /\ isPurchased \in BOOLEAN
  /\ isUnlocked \in BOOLEAN
  /\ currentShareCount \in Nat
  /\ lastShareDate \in Int \cup {Never}
  /\ finished \in BOOLEAN
  /\ asked \in Nat
  /\ answers \in Seq(BOOLEAN)
  /\ asked + Len(answers) <= MaxFetches
  /\ countedDays \in SUBSET (0..LastTick)
  /\ errors \in SUBSET Offsets

Init ==
  /\ now = 0
  /\ offset \in Offsets
  /\ running = FALSE
  /\ isPurchased = FALSE
  /\ isUnlocked = FALSE
  /\ currentShareCount = 0
  /\ lastShareDate = Never
  /\ finished = FALSE /\ asked = 0 /\ answers = << >>
  /\ countedDays = {}
  /\ errors = {offset}

\* The device's clock has always been right.
ClockRight == errors \subseteq {0}

daysLeftToUnlock == RequiredShareDays - currentShareCount

(***************************************************************************)
(* The world around the app                                                *)
(***************************************************************************)
Tick == /\ now < LastTick /\ now' = now + 1
        /\ UNCHANGED <<offset, isPurchased, errors, defaults, running, client, countedDays>>

SetClock == /\ offset' \in Offsets \ {offset}
            /\ errors' = errors \cup {offset'}
            /\ UNCHANGED <<now, isPurchased, defaults, running, client, countedDays>>

\* Full Access is bought or lost (see Account).
Purchase == /\ running /\ isPurchased' = ~isPurchased
            /\ UNCHANGED <<now, offset, errors, defaults, running, client, countedDays>>

Launch == /\ ~running /\ running' = TRUE
          /\ UNCHANGED <<environment, defaults, client, countedDays>>

ClientGone == finished' = FALSE /\ asked' = 0 /\ answers' = << >>

Kill == /\ running /\ running' = FALSE /\ ClientGone
        /\ UNCHANGED <<environment, defaults, countedDays>>

(***************************************************************************)
(* TrueTime                                                                *)
(***************************************************************************)
\* fetchIfNeeded: answered at once with the time at hand, or queued.
FetchIfNeeded ==
  /\ asked + Len(answers) < MaxFetches
  /\ IF finished THEN answers' = Append(answers, TRUE) /\ UNCHANGED asked
                 ELSE asked' = asked + 1 /\ UNCHANGED answers
  /\ UNCHANGED finished

\* Mutant: the callbacks that were answered stay queued.
FinishKeepsCallbacks(ok) ==
  /\ running /\ (ok => ~finished)
  /\ answers' = answers \o [n \in 1..asked |-> ok]
  /\ finished' = ok
  /\ UNCHANGED <<environment, defaults, running, asked, countedDays>>

\* finish: the servers were heard, or nobody can be reached, at whatever time
\* that is learnt.  Everybody who waits gets the one result; a failure also
\* ends a synchronisation, as the poll interval does when nobody waits.
Finish(ok) ==
  /\ running /\ (ok => ~finished)
  /\ answers' = answers \o [n \in 1..asked |-> ok]
  /\ asked' = 0
  /\ finished' = ok
  /\ UNCHANGED <<environment, defaults, running, countedDays>>

(***************************************************************************)
(* Counting                                                                *)
(***************************************************************************)
\* contentShareHelperDidShare and checkAndChangeCounter: a share to Facebook
\* or Twitter asks for the date, unless everything is unlocked already.
Share == /\ running /\ ~isPurchased /\ ~isUnlocked
         /\ FetchIfNeeded
         /\ UNCHANGED <<environment, defaults, running, countedDays>>

\* getCurrentDate: TrueTime's date, or the device's.
CurrentDate(ok) == IF ok THEN now ELSE now + offset

\* Mutant: any later share counts, also one of the same day.
IsNextShareLater(date) == lastShareDate # Never => date > lastShareDate

\* isToday asks the device's calendar.
IsNextShare(date) ==
  lastShareDate # Never =>
    Day(lastShareDate) # Day(now + offset) /\ date > lastShareDate

Unlocks == currentShareCount + 1 >= RequiredShareDays

\* Mutant: the count is written before the unlock.
WriteCountFirst(date, written) ==
  /\ lastShareDate' = IF written >= 1 THEN date ELSE lastShareDate
  /\ currentShareCount' = IF written >= 2 THEN currentShareCount + 1 ELSE currentShareCount
  /\ isUnlocked' = IF written >= 3 /\ Unlocks THEN TRUE ELSE isUnlocked

\* updateLastShareDate writes the date, the unlock when it is due, the count;
\* the process may end after some of the three writes.
Write(date, written) ==
  /\ lastShareDate' = IF written >= 1 THEN date ELSE lastShareDate
  /\ isUnlocked' = IF written >= 2 /\ Unlocks THEN TRUE ELSE isUnlocked
  /\ currentShareCount' = IF written >= 3 THEN currentShareCount + 1 ELSE currentShareCount

\* The date is delivered; short of the third write, the process ends.
DeliverDate(written) ==
  /\ running /\ answers # << >>
  /\ LET date == CurrentDate(Head(answers)) IN
     \/ /\ IsNextShare(date)
        /\ Write(date, written)
        /\ countedDays' = IF written = 0 THEN countedDays ELSE countedDays \cup {Day(now)}
     \/ /\ ~IsNextShare(date) /\ written = 3
        /\ UNCHANGED <<defaults, countedDays>>
  /\ running' = IF written = 3 THEN running ELSE FALSE
  /\ IF written = 3 THEN answers' = Tail(answers) /\ UNCHANGED <<finished, asked>>
                    ELSE ClientGone
  /\ UNCHANGED environment

Next ==
  \/ Tick \/ SetClock \/ Purchase \/ Launch \/ Kill \/ Share
  \/ \E ok \in BOOLEAN : Finish(ok)
  \/ \E written \in 0..3 : DeliverDate(written)

Spec == Init /\ [][Next]_vars

(***************************************************************************)
(* Properties                                                              *)
(***************************************************************************)
\* Whoever is still asked to share has at least one day left: no kill
\* between the writes leaves a complete count without its unlock, after
\* which checkAndChangeCounter would go on counting below zero.
DaysLeftToShare == ~isUnlocked => daysLeftToUnlock > 0

\* With a right clock, every counted share has a day of its own and nothing
\* is unlocked before the shares of RequiredShareDays days, whatever is asked
\* at once, answered late or cut short by a kill.
OneCountPerDay ==
  ClockRight =>
    /\ currentShareCount <= Cardinality(countedDays)
    /\ isUnlocked => Cardinality(countedDays) >= RequiredShareDays

\* MenuViewController.swift:169 asks to share "for N days to unlock it":
\* the days counted are that many different days, also when the device's
\* clock is wrong, at least as long as nobody sets it.
ClockSteady == Cardinality(errors) = 1

CountsDays == ClockSteady => currentShareCount <= Cardinality(countedDays)
=============================================================================
