------------------------ MODULE ShareToUnlockProofs ------------------------
(***************************************************************************)
(* What holds of ShareToUnlock for every number of days, every error of    *)
(* the device's clock and any number of dates asked for at once.           *)
(***************************************************************************)
EXTENDS ShareToUnlock, FiniteSetTheorems, SequenceTheorems, TLAPS

\* What TypeOK says of TrueTime: those who ask are within the bound.
ClientOK == /\ finished \in BOOLEAN
            /\ asked \in Nat
            /\ answers \in Seq(BOOLEAN)
            /\ asked + Len(answers) <= MaxFetches

LEMMA TypeInit == Init => TypeOK
<1> SUFFICES ASSUME Init PROVE TypeOK
  OBVIOUS
<1>1. now \in 0..LastTick /\ currentShareCount \in Nat
  BY ShareAssumption DEF Init
<1>2. countedDays \in SUBSET (0..LastTick) /\ errors \in SUBSET Offsets
  BY DEF Init
<1>3. running \in BOOLEAN /\ isPurchased \in BOOLEAN /\ isUnlocked \in BOOLEAN
  BY DEF Init
<1>4. offset \in Offsets /\ lastShareDate \in Int \cup {Never}
  BY DEF Init
<1>5. ClientOK
  <2>1. finished = FALSE /\ asked = 0 /\ answers = << >>
    BY DEF Init
  <2>2. answers \in Seq(BOOLEAN) /\ Len(answers) = 0
    BY <2>1, EmptySeq
  <2>3. asked + Len(answers) <= MaxFetches
    BY <2>1, <2>2, ShareAssumption
  <2>4. finished \in BOOLEAN
    BY <2>1
  <2> QED BY <2>1, <2>2, <2>3, <2>4 DEF ClientOK
<1> QED BY <1>1, <1>2, <1>3, <1>4, <1>5 DEF TypeOK, ClientOK

\* The days counted are finitely many, and lie in the past.
LEMMA DayType == \A tick \in 0..LastTick : Day(tick) \in 0..LastTick
  BY ShareAssumption DEF Day

\* Nobody is answered twice and nobody is forgotten: as many wait after a
\* fetch, a result and a delivery as the calls in flight allow.
LEMMA ClientStep ==
  ASSUME ClientOK,
         \/ UNCHANGED client
         \/ ClientGone
         \/ FetchIfNeeded
         \/ \E ok \in BOOLEAN : Finish(ok)
         \/ answers # << >> /\ answers' = Tail(answers) /\ UNCHANGED <<finished, asked>>
  PROVE  ClientOK'
<1>0. /\ asked \in Nat /\ MaxFetches \in Nat
      /\ answers \in Seq(BOOLEAN) /\ Len(answers) \in Nat
  BY ShareAssumption, LenProperties DEF ClientOK
<1>1. CASE UNCHANGED client
  BY <1>1 DEF client, ClientOK
<1>2. CASE ClientGone
  <2>1. answers' \in Seq(BOOLEAN) /\ Len(answers') = 0
    BY <1>2, EmptySeq DEF ClientGone
  <2>2. asked' + Len(answers') <= MaxFetches /\ asked' \in Nat
    BY <1>0, <1>2, <2>1 DEF ClientGone
  <2>3. finished' \in BOOLEAN
    BY <1>2 DEF ClientGone
  <2> QED BY <2>1, <2>2, <2>3 DEF ClientOK
<1>3. CASE FetchIfNeeded
  <2>1. CASE finished
    <3>1. answers' = Append(answers, TRUE) /\ UNCHANGED <<asked, finished>>
      BY <1>3, <2>1 DEF FetchIfNeeded
    <3>2. answers' \in Seq(BOOLEAN) /\ Len(answers') = Len(answers) + 1
      BY <1>0, <3>1, AppendProperties
    <3> QED BY <1>0, <1>3, <3>1, <3>2 DEF FetchIfNeeded, ClientOK
  <2>2. CASE ~finished
    BY <1>0, <1>3, <2>2 DEF FetchIfNeeded, ClientOK
  <2> QED BY <2>1, <2>2
<1>4. ASSUME NEW ok \in BOOLEAN, Finish(ok) PROVE ClientOK'
  <2> DEFINE results == [n \in 1..asked |-> ok]
  <2>1. results \in Seq(BOOLEAN) /\ Len(results) = asked
    BY <1>0
  <2>2. answers' = answers \o results /\ asked' = 0 /\ finished' \in BOOLEAN
    BY <1>4 DEF Finish
  <2> HIDE DEF results
  <2>3. answers' \in Seq(BOOLEAN) /\ Len(answers') = Len(answers) + asked
    BY <1>0, <2>1, <2>2, ConcatProperties
  <2> QED BY <1>0, <2>2, <2>3 DEF ClientOK
<1>5. CASE answers # << >> /\ answers' = Tail(answers) /\ UNCHANGED <<finished, asked>>
  <2>1. answers' \in Seq(BOOLEAN) /\ Len(answers') = Len(answers) - 1
    BY <1>0, <1>5, HeadTailProperties
  <2> QED BY <1>0, <1>5, <2>1 DEF ClientOK
<1> QED BY <1>1, <1>2, <1>3, <1>4, <1>5

LEMMA TypeStep == TypeOK /\ [Next]_vars => TypeOK'
<1> SUFFICES ASSUME TypeOK, [Next]_vars PROVE TypeOK'
  OBVIOUS
<1>0. ClientOK'
  <2>1. ClientOK
    BY DEF TypeOK, ClientOK
  <2>2. \/ UNCHANGED client
        \/ ClientGone
        \/ FetchIfNeeded
        \/ \E ok \in BOOLEAN : Finish(ok)
        \/ answers # << >> /\ answers' = Tail(answers) /\ UNCHANGED <<finished, asked>>
    BY DEF Next, Tick, SetClock, Purchase, Launch, Kill, Share, DeliverDate, vars
  <2> QED BY <2>1, <2>2, ClientStep
<1> USE ShareAssumption
<1>1. /\ now' \in 0..LastTick /\ offset' \in Offsets /\ errors' \in SUBSET Offsets
  <2>1. CASE Tick
    BY <2>1 DEF Tick, TypeOK
  <2>2. CASE SetClock
    BY <2>2 DEF SetClock, TypeOK
  <2>3. CASE UNCHANGED <<now, offset, errors>>
    BY <2>3 DEF TypeOK
  <2> QED BY <2>1, <2>2, <2>3
          DEF Next, Purchase, Launch, Kill, Share, Finish, DeliverDate, vars, environment
<1>2. running' \in BOOLEAN
  <2>1. ASSUME NEW written \in 0..3, DeliverDate(written) PROVE running' \in BOOLEAN
    <3>1. CASE written = 3
      BY <2>1, <3>1 DEF DeliverDate, TypeOK
    <3>2. CASE written # 3
      BY <2>1, <3>2 DEF DeliverDate
    <3> QED BY <3>1, <3>2
  <2>2. CASE Launch
    BY <2>2 DEF Launch
  <2>3. CASE Kill
    BY <2>3 DEF Kill
  <2>4. CASE UNCHANGED running
    BY <2>4 DEF TypeOK
  <2> QED BY <2>1, <2>2, <2>3, <2>4
          DEF Next, Tick, SetClock, Purchase, Share, Finish, vars
<1>3. isPurchased' \in BOOLEAN
  <2>1. CASE Purchase
    BY <2>1 DEF Purchase
  <2>2. CASE ~Purchase
    <3>1. UNCHANGED isPurchased
      BY <2>2 DEF Next, Tick, SetClock, Launch, Kill, Share, Finish, DeliverDate, vars, environment
    <3> QED BY <3>1 DEF TypeOK
  <2> QED BY <2>1, <2>2
<1>4. ASSUME UNCHANGED <<defaults, countedDays>> PROVE TypeOK'
  BY <1>0, <1>1, <1>2, <1>3, <1>4 DEF defaults, ClientOK, TypeOK
<1>5. ASSUME NEW written \in 0..3, DeliverDate(written) PROVE TypeOK'
  <2>1. /\ now \in Int /\ offset \in Int
        /\ lastShareDate \in Int \cup {Never}
        /\ currentShareCount \in Nat /\ isUnlocked \in BOOLEAN
        /\ countedDays \in SUBSET (0..LastTick)
    BY DEF TypeOK
  <2>2. PICK date : /\ date = CurrentDate(Head(answers))
                    /\ \/ UNCHANGED <<defaults, countedDays>>
                       \/ /\ Write(date, written)
                          /\ countedDays' = IF written = 0 THEN countedDays
                                            ELSE countedDays \cup {Day(now)}
    BY <1>5 DEF DeliverDate
  <2>3. date \in Int
    <3>1. \A ok : CurrentDate(ok) \in Int
      BY <2>1 DEF CurrentDate
    <3> QED BY <2>2, <3>1
  <2>4. lastShareDate' \in Int \cup {Never}
    BY <2>1, <2>2, <2>3 DEF Write, defaults
  <2>5. currentShareCount' \in Nat
    <3>1. currentShareCount' = currentShareCount \/ currentShareCount' = currentShareCount + 1
      BY <2>2 DEF Write, defaults
    <3> QED BY <2>1, <3>1
  <2>6. isUnlocked' \in BOOLEAN
    BY <2>1, <2>2 DEF Write, defaults
  <2>7. countedDays' \in SUBSET (0..LastTick)
    BY <2>1, <2>2, DayType DEF TypeOK
  <2> QED BY <1>0, <1>1, <1>2, <1>3, <2>4, <2>5, <2>6, <2>7 DEF ClientOK, TypeOK
<1> QED BY <1>4, <1>5
        DEF Next, Tick, SetClock, Purchase, Launch, Kill, Share, Finish, vars

\* The defaults and the calls in flight keep their types.
THEOREM ShareTypeCorrect == Spec => []TypeOK
<1>1. Spec => Init /\ [][Next]_vars
  BY DEF Spec
<1> QED BY <1>1, TypeInit, TypeStep, PTL

\* A step that counts nothing leaves the defaults alone.
LEMMA QuietStep ==
  ASSUME TypeOK, [Next]_vars
  PROVE  \/ UNCHANGED <<defaults, countedDays>>
         \/ \E ok \in BOOLEAN, written \in 0..3 :
              /\ IsNextShare(CurrentDate(ok))
              /\ Write(CurrentDate(ok), written)
              /\ countedDays' = IF written = 0 THEN countedDays
                                ELSE countedDays \cup {Day(now)}
              /\ UNCHANGED environment
<1>1. ASSUME NEW written \in 0..3, DeliverDate(written), ~UNCHANGED <<defaults, countedDays>>
      PROVE  \E ok \in BOOLEAN :
               /\ IsNextShare(CurrentDate(ok))
               /\ Write(CurrentDate(ok), written)
               /\ countedDays' = IF written = 0 THEN countedDays ELSE countedDays \cup {Day(now)}
               /\ UNCHANGED environment
  <2>1. Head(answers) \in BOOLEAN
    BY <1>1, HeadTailProperties DEF DeliverDate, TypeOK
  <2> QED BY <1>1, <2>1 DEF DeliverDate
<1> QED BY <1>1 DEF Next, Tick, SetClock, Purchase, Launch, Kill, Share, Finish, vars

LEMMA DaysLeftStep == TypeOK /\ DaysLeftToShare /\ [Next]_vars => DaysLeftToShare'
<1> SUFFICES ASSUME TypeOK, DaysLeftToShare, [Next]_vars PROVE DaysLeftToShare'
  OBVIOUS
<1> USE ShareAssumption DEF TypeOK, DaysLeftToShare, daysLeftToUnlock
<1>1. CASE UNCHANGED <<defaults, countedDays>>
  BY <1>1 DEF defaults
<1>2. ASSUME NEW ok \in BOOLEAN, NEW written \in 0..3, Write(CurrentDate(ok), written)
      PROVE  DaysLeftToShare'
  BY <1>2 DEF Write, Unlocks
<1> QED BY <1>1, <1>2, QuietStep

\* A complete count is always unlocked, wherever a kill falls.
THEOREM DaysLeftCorrect == Spec => []DaysLeftToShare
<1>1. Init => DaysLeftToShare
  BY ShareAssumption DEF Init, DaysLeftToShare, daysLeftToUnlock
<1>2. Spec => Init /\ [][Next]_vars
  BY DEF Spec
<1> QED BY <1>1, <1>2, DaysLeftStep, ShareTypeCorrect, PTL

(***************************************************************************)
(* One count a day                                                         *)
(***************************************************************************)
\* The inductive form of OneCountPerDay: while the clock is right, the days
\* counted end with that of the last share.
CountInv ==
  /\ OneCountPerDay
  /\ ClockRight =>
       /\ offset = 0
       /\ lastShareDate # Never => lastShareDate <= now
       /\ \A d \in countedDays : lastShareDate # Never /\ d <= Day(lastShareDate)

LEMMA LaterDay ==
  \A s, t \in Int : Day(s) # Day(t) /\ t > s => Day(t) > Day(s)
  BY DEF Day

\* Counting a share adds a day.
LEMMA CountedStep ==
  ASSUME TypeOK, CountInv, ClockRight, NEW ok \in BOOLEAN, NEW written \in 0..3,
         IsNextShare(CurrentDate(ok)), Write(CurrentDate(ok), written), UNCHANGED environment,
         countedDays' = IF written = 0 THEN countedDays ELSE countedDays \cup {Day(now)}
  PROVE  CountInv'
<1> USE ShareAssumption DEF TypeOK
<1>1. CurrentDate(ok) = now /\ now \in Int /\ Day(now) \in Int /\ offset = 0
  BY DEF CurrentDate, CountInv, Day
<1>2. Day(now) \notin countedDays
  <2>1. SUFFICES ASSUME Day(now) \in countedDays PROVE FALSE
    OBVIOUS
  <2>2. lastShareDate \in Int /\ Day(now) <= Day(lastShareDate) /\ Day(lastShareDate) \in Int
    BY <2>1 DEF CountInv, Day
  <2>3. Day(lastShareDate) # Day(now) /\ now > lastShareDate
    BY <1>1, <2>2 DEF IsNextShare
  <2> QED BY <1>1, <2>2, <2>3, LaterDay
<1>3. IsFiniteSet(countedDays) /\ Cardinality(countedDays) \in Nat
  <2>1. IsFiniteSet(0..LastTick)
    BY FS_Interval
  <2>2. IsFiniteSet(countedDays)
    BY <2>1, FS_Subset
  <2> QED BY <2>2, FS_CardinalityType
<1>4. Cardinality(countedDays \cup {Day(now)}) = Cardinality(countedDays) + 1
  BY <1>2, <1>3, FS_AddElement
<1>5. CASE written = 0
  BY <1>1, <1>5 DEF Write, CountInv, OneCountPerDay, environment
<1>6. CASE written # 0
  <2>1. lastShareDate' = now /\ now' = now /\ offset' = 0
    BY <1>1, <1>6 DEF Write, environment
  <2>2. \A d \in countedDays' : d <= Day(now)
    <3>1. SUFFICES ASSUME NEW d \in countedDays PROVE d <= Day(now)
      BY <1>1, <1>6
    <3>2. lastShareDate \in Int /\ lastShareDate <= now /\ d <= Day(lastShareDate)
          /\ Day(lastShareDate) \in Int
      BY DEF CountInv, Day
    <3>3. Day(lastShareDate) <= Day(now)
      BY <1>1, <3>2, LaterDay
    <3> QED BY <1>1, <3>2, <3>3
  <2>3. OneCountPerDay'
    BY <1>3, <1>4, <1>6 DEF Write, Unlocks, CountInv, OneCountPerDay, environment
  <2> QED BY <1>1, <2>1, <2>2, <2>3 DEF CountInv
<1> QED BY <1>5, <1>6

LEMMA CountStep == TypeOK /\ CountInv /\ [Next]_vars => CountInv'
<1> SUFFICES ASSUME TypeOK, CountInv, [Next]_vars PROVE CountInv'
  OBVIOUS
<1>1. /\ ClockRight' => ClockRight /\ (offset' = offset \/ offset' = 0)
      /\ now' >= now
  <2>1. CASE UNCHANGED <<errors, offset>> /\ now' \in {now, now + 1}
    BY <2>1 DEF TypeOK, ClockRight
  <2>2. CASE SetClock
    BY <2>2 DEF TypeOK, SetClock, ClockRight
  <2> QED BY <2>1, <2>2
       DEF Next, Tick, Purchase, Launch, Kill, Share, Finish, DeliverDate, vars, environment
<1>2. CASE ~ClockRight
  BY <1>1, <1>2 DEF CountInv, OneCountPerDay
<1>3. CASE ClockRight /\ UNCHANGED <<defaults, countedDays>>
  <2>1. OneCountPerDay'
    BY <1>3 DEF CountInv, OneCountPerDay, defaults
  <2>2. ClockRight' => offset' = 0
    BY <1>1, <1>3 DEF CountInv
  <2>3. ASSUME lastShareDate' # Never PROVE lastShareDate' <= now'
    <3>1. lastShareDate \in Int /\ lastShareDate <= now /\ lastShareDate' = lastShareDate
      BY <1>3, <2>3 DEF TypeOK, CountInv, defaults
    <3>2. now \in Int /\ now' \in Int
      BY TypeStep DEF TypeOK
    <3> QED BY <1>1, <3>1, <3>2
  <2>4. \A d \in countedDays' : lastShareDate' # Never /\ d <= Day(lastShareDate')
    BY <1>3 DEF CountInv, defaults
  <2> QED BY <2>1, <2>2, <2>3, <2>4 DEF CountInv
<1> QED BY <1>2, <1>3, CountedStep, QuietStep

\* With a right clock the list is unlocked by shares on that many days.
THEOREM OneCountCorrect == Spec => []OneCountPerDay
<1>1. ASSUME Init PROVE CountInv
  <2>1. Cardinality(countedDays) = 0 /\ currentShareCount = 0 /\ ~isUnlocked
    BY <1>1, FS_EmptySet DEF Init
  <2>2. ClockRight => offset = 0
    BY <1>1 DEF Init, ClockRight
  <2>3. lastShareDate = Never /\ countedDays = {}
    BY <1>1 DEF Init
  <2> QED BY <2>1, <2>2, <2>3 DEF CountInv, OneCountPerDay
<1>2. CountInv => OneCountPerDay
  BY DEF CountInv
<1>3. Spec => Init /\ [][Next]_vars
  BY DEF Spec
<1> QED BY <1>1, <1>2, <1>3, CountStep, ShareTypeCorrect, PTL
=============================================================================
