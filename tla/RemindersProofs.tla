--------------------------- MODULE RemindersProofs ---------------------------
(***************************************************************************)
(* What the runs of Reminders check on a small instance, for any times and *)
(* any number of questions in flight.                                      *)
(***************************************************************************)
EXTENDS Reminders, TLAPS

Answers == [kind : Questions, status : Statuses]

(***************************************************************************)
(* Types: the questions and answers in flight stay within the bound        *)
(***************************************************************************)
TypeInv == RemindersTypeOK /\ Waiting <= MaxWaiting

Flight == /\ asked' \in [Questions -> 0..MaxWaiting] /\ answers' \in Seq(Answers)
          /\ Waiting' <= MaxWaiting

\* Each count is a number, and their sum is.
LEMMA Counts ==
  ASSUME TypeInv
  PROVE  /\ \A q \in Questions : asked[q] \in Nat /\ asked[q] <= Asked
         /\ Asked \in Nat /\ Len(answers) \in Nat
         /\ Waiting = Len(answers) + Asked /\ Waiting <= MaxWaiting
         /\ MaxWaiting \in Nat
<1>1. MaxWaiting \in Nat /\ Waiting <= MaxWaiting
  BY RemindersAssumption DEF TypeInv
<1>2. asked \in [Questions -> 0..MaxWaiting]
  BY DEF TypeInv, RemindersTypeOK
<1>3. \A q \in Questions : asked[q] \in Nat
  BY <1>1, <1>2
<1>4. /\ asked["active"] \in Nat /\ asked["launch"] \in Nat /\ asked["setup"] \in Nat
      /\ asked["switch"] \in Nat /\ asked["register"] \in Nat
  BY <1>3 DEF Questions, Checks
<1>5. Len(answers) \in Nat
  BY DEF TypeInv, RemindersTypeOK
<1>6. Asked \in Nat /\ Waiting = Len(answers) + Asked
  <2>1. Asked \in Nat
    BY <1>4 DEF Asked
  <2> QED BY <2>1 DEF Waiting
<1>7. \A q \in Questions : asked[q] <= Asked
  BY <1>4 DEF Asked, Questions, Checks
<1> QED BY <1>1, <1>3, <1>5, <1>6, <1>7

\* One question more, or one fewer.
LEMMA OneAsked ==
  ASSUME TypeInv, NEW q \in Questions, NEW n \in {-1, 1}, asked[q] + n \in Nat,
         asked' = [asked EXCEPT ![q] = @ + n]
  PROVE  Asked' = Asked + n /\ \A r \in Questions : asked'[r] \in Nat /\ asked'[r] <= Asked'
<1>1. \A r \in Questions : asked[r] \in Nat
  BY Counts
<1>2. \A r \in Questions : asked'[r] = IF r = q THEN asked[q] + n ELSE asked[r]
  BY DEF TypeInv, RemindersTypeOK
<1>3. /\ asked["active"] \in Nat /\ asked["launch"] \in Nat /\ asked["setup"] \in Nat
      /\ asked["switch"] \in Nat /\ asked["register"] \in Nat
  BY <1>1 DEF Questions, Checks
<1>4. \A r \in Questions : asked'[r] \in Nat
  BY <1>1, <1>2
<1>5. /\ asked'["active"] \in Nat /\ asked'["launch"] \in Nat /\ asked'["setup"] \in Nat
      /\ asked'["switch"] \in Nat /\ asked'["register"] \in Nat
  BY <1>4 DEF Questions, Checks
<1>6. \A r \in Questions : asked'[r] <= Asked'
  BY <1>5 DEF Asked, Questions, Checks
<1>7. Asked' = Asked + n
  <2>1. CASE q = "active"
    BY <2>1, <1>2, <1>3 DEF Asked, Questions, Checks
  <2>2. CASE q = "launch"
    BY <2>2, <1>2, <1>3 DEF Asked, Questions, Checks
  <2>3. CASE q = "setup"
    BY <2>3, <1>2, <1>3 DEF Asked, Questions, Checks
  <2>4. CASE q = "switch"
    BY <2>4, <1>2, <1>3 DEF Asked, Questions, Checks
  <2>5. CASE q = "register"
    BY <2>5, <1>2, <1>3 DEF Asked, Questions, Checks
  <2> QED BY <2>1, <2>2, <2>3, <2>4, <2>5 DEF Questions, Checks
<1> QED BY <1>4, <1>6, <1>7

\* What the counts and the queue are after a step.
LEMMA FlightFrom ==
  ASSUME TypeInv, answers' \in Seq(Answers), Len(answers') + Asked' <= MaxWaiting,
         Asked' \in Nat,
         \A r \in Questions : asked'[r] \in Nat /\ asked'[r] <= Asked',
         asked' \in [Questions -> Nat]
  PROVE  Flight
<1>1. Len(answers') \in Nat /\ MaxWaiting \in Nat
  BY RemindersAssumption
<1>2. \A r \in Questions : asked'[r] \in 0..MaxWaiting
  BY <1>1
<1>3. asked' \in [Questions -> 0..MaxWaiting]
  BY <1>2
<1> QED BY <1>3 DEF Flight, Waiting

\* A question is asked when there is room, or when an answer was just taken.
LEMMA AskType ==
  ASSUME TypeInv, NEW q \in Questions, Ask(q),
         \/ Room /\ UNCHANGED answers
         \/ answers # <<>> /\ answers' = Tail(answers)
  PROVE  Flight
<1>1. answers \in Seq(Answers) /\ DOMAIN asked = Questions
  BY DEF TypeInv, RemindersTypeOK, Answers
<1>2. answers' \in Seq(Answers)
  BY <1>1
<1>3. Len(answers') + Asked < MaxWaiting
  <2>1. CASE Room /\ UNCHANGED answers
    BY <2>1, Counts DEF Room
  <2>2. CASE answers # <<>> /\ answers' = Tail(answers)
    <3>1. Len(answers') = Len(answers) - 1
      BY <2>2, <1>1
    <3> QED BY <3>1, Counts
  <2> QED BY <2>1, <2>2
<1>4. asked' = [asked EXCEPT ![q] = @ + 1] /\ asked[q] + 1 \in Nat
  BY Counts DEF Ask
<1>5. Asked' = Asked + 1 /\ \A r \in Questions : asked'[r] \in Nat /\ asked'[r] <= Asked'
  BY <1>4, OneAsked
<1>6. Len(answers') + Asked' <= MaxWaiting /\ Asked' \in Nat
  <2>1. Len(answers') \in Nat
    BY <1>2
  <2> QED BY <2>1, <1>3, <1>5, Counts
<1>7. asked' \in [Questions -> Nat]
  BY <1>1, <1>4, <1>5
<1> QED BY <1>2, <1>5, <1>6, <1>7, FlightFrom

\* iOS answers a question.
LEMMA AnswerType ==
  ASSUME TypeInv, NEW q \in Questions, asked[q] > 0, NEW s \in Statuses,
         asked' = [asked EXCEPT ![q] = @ - 1],
         answers' = Append(answers, [kind |-> q, status |-> s])
  PROVE  Flight
<1>1. answers \in Seq(Answers) /\ DOMAIN asked = Questions
  BY DEF TypeInv, RemindersTypeOK, Answers
<1>2. answers' \in Seq(Answers) /\ Len(answers') = Len(answers) + 1
  BY <1>1 DEF Answers
<1>3. asked[q] + (-1) \in Nat /\ asked[q] - 1 = asked[q] + (-1)
  BY Counts
<1>4. asked' = [asked EXCEPT ![q] = @ + (-1)]
  BY <1>3
<1>5. Asked' = Asked + (-1) /\ \A r \in Questions : asked'[r] \in Nat /\ asked'[r] <= Asked'
  BY <1>3, <1>4, OneAsked
<1>6. Asked >= 1
  BY Counts
<1>7. Len(answers') + Asked' <= MaxWaiting /\ Asked' \in Nat
  BY <1>2, <1>5, <1>6, Counts
<1>8. asked' \in [Questions -> Nat]
  BY <1>1, <1>5
<1> QED BY <1>2, <1>5, <1>7, <1>8, FlightFrom

\* An answer is taken, and nothing asked.
LEMMA TakenType ==
  ASSUME TypeInv, answers # <<>>, answers' = Tail(answers), UNCHANGED asked
  PROVE  Flight
<1>1. /\ asked \in [Questions -> 0..MaxWaiting] /\ answers \in Seq(Answers)
      /\ Len(answers) \in Nat
  BY DEF TypeInv, RemindersTypeOK, Answers
<1>2. answers' \in Seq(Answers) /\ Len(answers') = Len(answers) - 1
  BY <1>1
<1>3. Waiting' <= MaxWaiting
  <2>1. Asked' = Asked
    BY DEF Asked
  <2> QED BY <2>1, <1>2, Counts DEF Waiting
<1> QED BY <1>1, <1>2, <1>3 DEF Flight

\* The setters keep the settings typed.
LEMMA SetEnabledType ==
  ASSUME RemindersTypeOK, NEW value \in BOOLEAN, SetEnabled(value)
  PROVE  /\ enabled' \in BOOLEAN /\ reminderTime' \in Times
         /\ pending' \in Times \cup {NoRequest} /\ isOn' \in BOOLEAN /\ torn' \in BOOLEAN
  BY DEF RemindersTypeOK, SetEnabled, Schedules, settings

Rest == /\ permission' \in Statuses /\ process' \in {"dead", "background", "active"}
        /\ timer' \in BOOLEAN /\ screen' \in BOOLEAN /\ touched' \in BOOLEAN
Store == /\ enabled' \in BOOLEAN /\ reminderTime' \in Times
         /\ pending' \in Times \cup {NoRequest} /\ isOn' \in BOOLEAN /\ torn' \in BOOLEAN

LEMMA PartsType == Rest /\ Store /\ Flight => TypeInv'
  BY DEF Rest, Store, Flight, TypeInv, RemindersTypeOK, Answers

LEMMA TypeInit == Init => TypeInv
<1> SUFFICES ASSUME Init PROVE TypeInv
  OBVIOUS
<1>1. asked = [q \in Questions |-> 0] /\ answers = <<>>
  BY DEF Init
<1>2. Waiting = 0
  BY <1>1 DEF Waiting, Asked, Questions, Checks
<1>3. /\ asked \in [Questions -> 0..MaxWaiting] /\ answers \in Seq(Answers)
      /\ Waiting <= MaxWaiting
  BY <1>1, <1>2, RemindersAssumption
<1>4. /\ permission \in Statuses /\ reminderTime \in Times
      /\ pending \in Times \cup {NoRequest}
      /\ process \in {"dead", "background", "active"}
  BY RemindersAssumption DEF Init, Statuses
<1>5. timer \in BOOLEAN /\ enabled \in BOOLEAN /\ screen \in BOOLEAN /\ isOn \in BOOLEAN
      /\ touched \in BOOLEAN /\ torn \in BOOLEAN
  BY DEF Init
<1> QED BY <1>3, <1>4, <1>5 DEF TypeInv, RemindersTypeOK, Answers

LEMMA TypeStep == TypeInv /\ [Next]_vars => TypeInv'
<1> SUFFICES ASSUME TypeInv, [Next]_vars PROVE TypeInv'
  OBVIOUS
<1>0. RemindersTypeOK
  BY DEF TypeInv
<1>1. UNCHANGED questions => Flight
  BY <1>0 DEF questions, Flight, TypeInv, RemindersTypeOK, Waiting, Asked, Answers
<1>2. UNCHANGED <<settings, isOn, torn>> => Store
  BY <1>0 DEF settings, Store, RemindersTypeOK
<1>3. UNCHANGED <<permission, process, timer, screen, touched>> => Rest
  BY <1>0 DEF Rest, RemindersTypeOK
<1>4. ASSUME ClearMemory PROVE Flight
  <2>1. asked' = [q \in Questions |-> 0] /\ answers' = <<>>
    BY <1>4 DEF ClearMemory
  <2>2. Waiting' = 0
    BY <2>1 DEF Waiting, Asked, Questions, Checks
  <2> QED BY <2>1, <2>2, RemindersAssumption DEF Flight
<1>5. CASE Launch
  <2>1. Rest
    BY <1>0, <1>5 DEF Launch, Rest, RemindersTypeOK, display, history
  <2> QED BY <2>1, <1>1, <1>2, <1>5, PartsType DEF Launch, display, history
<1>6. CASE BecomeActive
  <2>1. Rest
    BY <1>0, <1>6 DEF BecomeActive, Rest, RemindersTypeOK, display, history
  <2>2. Flight
    BY <1>6, AskType DEF BecomeActive, Questions, Checks
  <2> QED BY <2>1, <2>2, <1>2, <1>6, PartsType DEF BecomeActive, display
<1>7. CASE LeaveApp
  <2>1. Rest
    BY <1>0, <1>7 DEF LeaveApp, Rest, RemindersTypeOK, display, history
  <2> QED BY <2>1, <1>1, <1>2, <1>7, PartsType DEF LeaveApp, display, history
<1>8. CASE Kill \/ KillInSetter
  <2>1. Rest
    BY <1>0, <1>8 DEF Kill, KillInSetter, ClearMemory, Rest, RemindersTypeOK
  <2>2. Store
    BY <1>0, <1>8 DEF Kill, KillInSetter, ClearMemory, Store, RemindersTypeOK, settings
  <2> QED BY <2>1, <2>2, <1>4, <1>8, PartsType DEF Kill, KillInSetter
<1>9. CASE ChangePermission
  <2>1. Rest
    BY <1>0, <1>9 DEF ChangePermission, Rest, RemindersTypeOK, display, history, Statuses
  <2> QED BY <2>1, <1>1, <1>2, <1>9, PartsType DEF ChangePermission, display, history
<1>10. CASE LaunchTimer
  <2>1. Rest
    BY <1>0, <1>10 DEF LaunchTimer, Rest, RemindersTypeOK, display, history
  <2>2. Flight
    BY <1>10, AskType DEF LaunchTimer, Flight, Questions, Checks
  <2> QED BY <2>1, <2>2, <1>2, <1>10, PartsType DEF LaunchTimer, display, history
<1>11. ASSUME NEW q \in Checks, ReadStatus(q) PROVE TypeInv'
  <2>1. Flight
    BY <1>0, <1>11, AnswerType DEF ReadStatus, Flight, Questions, RemindersTypeOK
  <2> QED BY <2>1, <1>2, <1>3, <1>11, PartsType DEF ReadStatus, display, history
<1>12. CASE Authorize
  <2>1. permission' \in Statuses
    BY <1>0, <1>12 DEF Authorize, RemindersTypeOK, Statuses
  <2>2. Flight
    BY <2>1, <1>12, AnswerType DEF Authorize, Flight, Questions
  <2>3. Rest
    BY <2>1, <1>0, <1>12 DEF Authorize, Rest, RemindersTypeOK, display, history
  <2> QED BY <2>2, <2>3, <1>2, <1>12, PartsType DEF Authorize, display, history
<1>13. ASSUME NEW q \in Questions, NextAnswer(q), UNCHANGED asked PROVE Flight
  BY <1>13, TakenType DEF NextAnswer, Flight
<1>14. ASSUME NEW q \in Questions, NextAnswer(q), Ask("register") PROVE Flight
  BY <1>14, AskType DEF NextAnswer, Flight, Questions
<1>15. CASE DeliverActive
  <2>1. Store
    BY <1>0, <1>2, <1>15, SetEnabledType DEF DeliverActive, Follow, Store
  <2> QED BY <2>1, <1>3, <1>13, <1>15, PartsType DEF DeliverActive, Questions, Checks
<1>16. CASE DeliverRegister
  <2>1. (status = "authorized") \in BOOLEAN
    OBVIOUS
  <2>2. Store
    BY <2>1, <1>0, <1>16, SetEnabledType DEF DeliverRegister, Store
  <2> QED BY <2>2, <1>3, <1>13, <1>16, PartsType DEF DeliverRegister, Questions
<1>17. CASE DeliverLaunch
  <2>1. Flight
    BY <1>13, <1>14, <1>17 DEF DeliverLaunch, Questions, Checks
  <2> QED BY <2>1, <1>2, <1>3, <1>17, PartsType DEF DeliverLaunch, display, history
<1>18. CASE DeliverSetup
  <2>1. Flight
    BY <1>13, <1>14, <1>18 DEF DeliverSetup, Questions, Checks
  <2>2. Store
    BY <1>0, <1>18 DEF DeliverSetup, Store, settings, history, RemindersTypeOK
  <2> QED BY <2>1, <2>2, <1>3, <1>18, PartsType DEF DeliverSetup, history
<1>19. CASE DeliverSwitch
  <2>1. Store
    BY <1>0, <1>19 DEF DeliverSwitch, Store, settings, history, RemindersTypeOK
  <2> QED BY <2>1, <1>3, <1>13, <1>19, PartsType DEF DeliverSwitch, history, Questions, Checks
<1>20. CASE OpenSettings
  <2>1. Flight
    BY <1>20, AskType DEF OpenSettings, Flight, Questions, Checks
  <2>2. Rest /\ Store
    BY <1>0, <1>20 DEF OpenSettings, Rest, Store, settings, history, RemindersTypeOK
  <2> QED BY <2>1, <2>2, PartsType
<1>21. CASE CloseSettings
  <2>1. Rest /\ Store
    BY <1>0, <1>21 DEF CloseSettings, Rest, Store, settings, history, RemindersTypeOK
  <2> QED BY <2>1, <1>1, <1>21, PartsType DEF CloseSettings
<1>22. CASE UseSwitch
  <2>1. Flight
    <3>1. CASE isOn
      BY <3>1, <1>1, <1>22 DEF UseSwitch, questions
    <3>2. CASE ~isOn
      BY <3>2, <1>22, AskType DEF UseSwitch, Flight, Questions, Checks
    <3> QED BY <3>1, <3>2
  <2>2. Rest /\ Store
    BY <1>0, <1>22 DEF UseSwitch, Rest, Store, Schedules, RemindersTypeOK
  <2> QED BY <2>1, <2>2, PartsType
<1>23. ASSUME NEW time \in Times, ChooseTime(time) PROVE TypeInv'
  <2>1. Rest /\ Store
    BY <1>0, <1>23
    DEF ChooseTime, SetReminderTime, Rest, Store, Schedules, display, RemindersTypeOK
  <2> QED BY <2>1, <1>1, <1>23, PartsType DEF ChooseTime
<1>24. CASE UNCHANGED vars
  BY <1>1, <1>2, <1>3, <1>24, PartsType DEF vars, display, history
<1> QED
  BY <1>5, <1>6, <1>7, <1>8, <1>9, <1>10, <1>11, <1>12, <1>15, <1>16, <1>17, <1>18, <1>19,
     <1>20, <1>21, <1>22, <1>23, <1>24
  DEF Next

LEMMA TypeInvariant == Spec => []TypeInv
  BY TypeInit, TypeStep, PTL DEF Spec

\* Every reachable state of the reminders is typed, and no more questions are
\* in flight than the bound allows.
THEOREM RemindersTypeCorrect == Spec => []RemindersTypeOK
<1>1. TypeInv => RemindersTypeOK
  BY DEF TypeInv
<1> QED BY <1>1, TypeInvariant, PTL

(***************************************************************************)
(* The request and the switch                                              *)
(***************************************************************************)
\* A setter leaves no request, or the one of the new settings.
LEMMA SetEnabledRequest ==
  ASSUME RemindersTypeOK, RequestMatchesSettings, NEW value \in BOOLEAN, SetEnabled(value)
  PROVE  RequestMatchesSettings'
<1>1. CASE UNCHANGED <<settings, torn>>
  BY <1>1 DEF RequestMatchesSettings, settings
<1>2. CASE /\ enabled' = value /\ pending' \in Schedules(value, reminderTime)
           /\ UNCHANGED reminderTime
  BY <1>2 DEF RequestMatchesSettings, Schedules
<1> QED BY <1>1, <1>2 DEF SetEnabled

LEMMA SetEnabledSwitch ==
  ASSUME RemindersTypeOK, SwitchHonest, NEW value \in BOOLEAN, SetEnabled(value),
         UNCHANGED screen
  PROVE  SwitchHonest'
<1>1. CASE UNCHANGED <<settings, isOn>>
  BY <1>1 DEF SwitchHonest, settings
<1>2. CASE enabled' = value /\ isOn' = IF screen THEN value ELSE isOn
  BY <1>2 DEF SwitchHonest
<1> QED BY <1>1, <1>2 DEF SetEnabled

LEMMA FollowSets ==
  ASSUME NEW s, Follow(s)
  PROVE  (\E value \in BOOLEAN : SetEnabled(value)) \/ UNCHANGED <<settings, isOn, torn>>
  BY DEF Follow

LEMMA RequestStep ==
  ASSUME RemindersTypeOK, RequestMatchesSettings, [Next]_vars
  PROVE  RequestMatchesSettings'
<1>1. CASE UNCHANGED <<settings, torn>>
  BY <1>1 DEF RequestMatchesSettings, settings
<1>2. CASE KillInSetter
  BY <1>2 DEF KillInSetter, RequestMatchesSettings
<1>3. ASSUME NEW value \in BOOLEAN, SetEnabled(value) PROVE RequestMatchesSettings'
  BY <1>3, SetEnabledRequest
<1>4. CASE DeliverActive
  BY <1>1, <1>3, <1>4, FollowSets DEF DeliverActive
<1>5. CASE DeliverRegister
  BY <1>3, <1>5 DEF DeliverRegister
<1>6. CASE UseSwitch
  <2>1. CASE UNCHANGED <<pending, torn>> /\ enabled' = enabled /\ UNCHANGED reminderTime
    BY <2>1 DEF RequestMatchesSettings
  <2>2. CASE /\ enabled' = ~isOn /\ pending' \in Schedules(~isOn, reminderTime)
             /\ UNCHANGED reminderTime
    BY <2>2 DEF RequestMatchesSettings, Schedules
  <2> QED BY <2>1, <2>2, <1>6 DEF UseSwitch
<1>7. ASSUME NEW time \in Times, ChooseTime(time) PROVE RequestMatchesSettings'
  BY <1>7 DEF ChooseTime, SetReminderTime, Schedules, RequestMatchesSettings
<1> QED
  BY <1>1, <1>2, <1>4, <1>5, <1>6, <1>7
  DEF Next, vars, history, Launch, BecomeActive, LeaveApp, Kill, ChangePermission, LaunchTimer,
      ReadStatus, Authorize, DeliverLaunch, DeliverSetup, DeliverSwitch, OpenSettings,
      CloseSettings

\* iOS keeps no reminder that was switched off or has another time than the
\* one set (notifications(schedule:) is called by both setters), but for what
\* a process that ended inside a setter left until the next assignment.
THEOREM RequestIsTheSettings == Spec => []RequestMatchesSettings
<1>1. Init => RequestMatchesSettings
  BY DEF Init, RequestMatchesSettings
<1>2. TypeInv /\ RequestMatchesSettings /\ [Next]_vars => RequestMatchesSettings'
  BY RequestStep DEF TypeInv
<1> QED BY <1>1, <1>2, TypeInvariant, PTL DEF Spec

LEMMA SwitchStep ==
  ASSUME RemindersTypeOK, SwitchHonest, [Next]_vars
  PROVE  SwitchHonest'
<1>1. CASE UNCHANGED <<settings, display>>
  BY <1>1 DEF SwitchHonest, settings, display
<1>2. CASE Kill \/ KillInSetter
  BY <1>2 DEF Kill, KillInSetter, ClearMemory, SwitchHonest
<1>3. ASSUME NEW value \in BOOLEAN, SetEnabled(value), UNCHANGED screen PROVE SwitchHonest'
  BY <1>3, SetEnabledSwitch
<1>4. CASE DeliverActive
  BY <1>1, <1>3, <1>4, FollowSets DEF DeliverActive, display
<1>5. CASE DeliverRegister
  BY <1>3, <1>5 DEF DeliverRegister
<1>6. CASE DeliverSetup
  BY <1>6 DEF DeliverSetup, SwitchHonest, settings
<1>7. CASE DeliverSwitch
  BY <1>7 DEF DeliverSwitch, SwitchHonest, settings
<1>8. CASE OpenSettings \/ CloseSettings
  BY <1>8 DEF OpenSettings, CloseSettings, SwitchHonest
<1>9. CASE UseSwitch
  BY <1>9 DEF UseSwitch, SwitchHonest
<1>10. ASSUME NEW time \in Times, ChooseTime(time) PROVE SwitchHonest'
  BY <1>10 DEF ChooseTime, SetReminderTime, display, SwitchHonest
<1> QED
  BY <1>1, <1>2, <1>4, <1>5, <1>6, <1>7, <1>8, <1>9, <1>10
  DEF Next, vars, Launch, BecomeActive, LeaveApp, ChangePermission, LaunchTimer,
      ReadStatus, Authorize, DeliverLaunch

\* The switch of the settings never shows reminders that are off, whichever of
\* its answers comes late (setupViews, reminderSwitcherChanged).
THEOREM SwitchIsHonest == Spec => []SwitchHonest
<1>1. Init => SwitchHonest
  BY DEF Init, SwitchHonest
<1>2. TypeInv /\ SwitchHonest /\ [Next]_vars => SwitchHonest'
  BY SwitchStep DEF TypeInv
<1> QED BY <1>1, <1>2, TypeInvariant, PTL DEF Spec

(***************************************************************************)
(* The permission                                                          *)
(*                                                                         *)
(* The answers that set the flag are those of the activation and of the    *)
(* request.  While one of them is asked for, or the last of them on the    *)
(* queue says what iOS would say now, the flag will be right; with none of *)
(* them under way it is.                                                   *)
(***************************************************************************)
Carries(a) == a.kind \in {"active", "register"}
NoWord == \A n \in DOMAIN answers : ~Carries(answers[n])
LastWord == \E n \in DOMAIN answers :
  /\ Carries(answers[n]) /\ answers[n].status = permission
  /\ \A m \in DOMAIN answers : m > n => ~Carries(answers[m])
Agrees == IF permission = "authorized" THEN enabled ELSE ~enabled
Coming == asked["active"] > 0 \/ asked["register"] > 0 \/ LastWord \/ (NoWord /\ Agrees)
UnderWay == process = "active" /\ ~touched /\ permission # "notDetermined" => Coming

LEMMA AnswerLast ==
  ASSUME RemindersTypeOK, NEW q \in Questions, NEW s \in Statuses,
         answers' = Append(answers, [kind |-> q, status |-> s])
  PROVE  /\ q \in {"active", "register"} /\ permission' = s => LastWord'
         /\ q \notin {"active", "register"} /\ UNCHANGED permission /\ LastWord => LastWord'
         /\ q \notin {"active", "register"} /\ NoWord => NoWord'
<1> DEFINE a == [kind |-> q, status |-> s]
<1>1. answers \in Seq(Answers) /\ a \in Answers
  BY DEF RemindersTypeOK, Answers
<1>2. /\ DOMAIN answers = 1..Len(answers) /\ Len(answers) \in Nat
      /\ DOMAIN answers' = 1..(Len(answers) + 1)
      /\ answers'[Len(answers) + 1] = a
      /\ \A n \in DOMAIN answers : answers'[n] = answers[n]
  BY <1>1
<1>3. a.kind = q /\ a.status = s
  OBVIOUS
<1>4. ASSUME q \in {"active", "register"}, permission' = s PROVE LastWord'
  <2>1. Len(answers) + 1 \in DOMAIN answers'
    BY <1>2
  <2>2. Carries(answers'[Len(answers) + 1]) /\ answers'[Len(answers) + 1].status = permission'
    BY <1>2, <1>3, <1>4 DEF Carries
  <2>3. \A m \in DOMAIN answers' : ~(m > Len(answers) + 1)
    BY <1>2
  <2> QED BY <2>1, <2>2, <2>3 DEF LastWord
<1>5. ASSUME q \notin {"active", "register"}, UNCHANGED permission, LastWord PROVE LastWord'
  <2>1. PICK n \in DOMAIN answers :
          /\ Carries(answers[n]) /\ answers[n].status = permission
          /\ \A m \in DOMAIN answers : m > n => ~Carries(answers[m])
    BY <1>5 DEF LastWord
  <2>2. n \in DOMAIN answers' /\ answers'[n] = answers[n]
    BY <1>2
  <2>3. ~Carries(answers'[Len(answers) + 1])
    BY <1>2, <1>3, <1>5 DEF Carries
  <2>4. \A m \in DOMAIN answers' : m > n => ~Carries(answers'[m])
    BY <1>2, <2>1, <2>3
  <2> QED BY <2>1, <2>2, <2>4, <1>5 DEF LastWord
<1>6. ASSUME q \notin {"active", "register"}, NoWord PROVE NoWord'
  <2>1. ~Carries(answers'[Len(answers) + 1])
    BY <1>2, <1>3, <1>6 DEF Carries
  <2> QED BY <2>1, <1>2, <1>6 DEF NoWord
<1> QED BY <1>4, <1>5, <1>6

LEMMA AnswerTaken ==
  ASSUME RemindersTypeOK, answers # <<>>, answers' = Tail(answers), UNCHANGED permission
  PROVE  /\ LastWord => \/ LastWord'
                        \/ /\ Carries(Head(answers)) /\ Head(answers).status = permission
                           /\ NoWord'
         /\ NoWord => NoWord' /\ ~Carries(Head(answers))
<1>1. answers \in Seq(Answers)
  BY DEF RemindersTypeOK, Answers
<1>2. /\ DOMAIN answers = 1..Len(answers) /\ Len(answers) \in Nat /\ Len(answers) >= 1
      /\ DOMAIN answers' = 1..(Len(answers) - 1) /\ Head(answers) = answers[1]
      /\ \A n \in DOMAIN answers' : answers'[n] = answers[n + 1]
  BY <1>1
<1>3. ASSUME NoWord PROVE NoWord' /\ ~Carries(Head(answers))
  BY <1>2, <1>3 DEF NoWord
<1>4. ASSUME LastWord
      PROVE \/ LastWord'
            \/ /\ Carries(Head(answers)) /\ Head(answers).status = permission
               /\ NoWord'
  <2>1. PICK n \in DOMAIN answers :
          /\ Carries(answers[n]) /\ answers[n].status = permission
          /\ \A m \in DOMAIN answers : m > n => ~Carries(answers[m])
    BY <1>4 DEF LastWord
  <2>2. CASE n = 1
    <3>1. \A m \in DOMAIN answers' : ~Carries(answers'[m])
      BY <1>2, <2>1, <2>2
    <3> QED BY <3>1, <2>1, <2>2, <1>2 DEF NoWord
  <2>3. CASE n # 1
    <3>1. n - 1 \in DOMAIN answers' /\ answers'[n - 1] = answers[n]
      BY <1>2, <2>3
    <3>2. \A m \in DOMAIN answers' : m > n - 1 => ~Carries(answers'[m])
      BY <1>2, <2>1
    <3> QED BY <3>1, <3>2, <2>1 DEF LastWord
  <2> QED BY <2>2, <2>3
<1> QED BY <1>3, <1>4

\* A question that does not set the flag leaves those that do.
LEMMA OtherAsked ==
  ASSUME TypeInv, NEW q \in Questions, NEW n \in {-1, 1}, asked[q] + n \in Nat,
         asked' = [asked EXCEPT ![q] = @ + n]
  PROVE  /\ n = 1 => \A r \in Questions : asked[r] > 0 => asked'[r] > 0
         /\ n = 1 => asked'[q] > 0
         /\ \A r \in Questions : r # q => asked'[r] = asked[r]
  BY Counts DEF TypeInv, RemindersTypeOK

LEMMA Asking ==
  ASSUME TypeInv, NEW q \in Questions, Ask(q)
  PROVE  /\ asked["active"] > 0 => asked'["active"] > 0
         /\ asked["register"] > 0 => asked'["register"] > 0
         /\ asked'[q] > 0
<1>1. asked[q] + 1 \in Nat /\ asked' = [asked EXCEPT ![q] = @ + 1]
  BY Counts DEF Ask
<1> QED BY <1>1, OtherAsked DEF Questions, Checks

\* An answer that does not set the flag is taken.
LEMMA OtherTaken ==
  ASSUME TypeInv, UnderWay, NEW q \in {"launch", "setup", "switch"}, NextAnswer(q),
         UNCHANGED asked \/ Ask("register"), UNCHANGED <<permission, process, enabled, touched>>
  PROVE  UnderWay'
<1>1. ~Carries(Head(answers)) /\ answers # <<>> /\ answers' = Tail(answers)
  BY DEF NextAnswer, Carries
<1>2. RemindersTypeOK
  BY DEF TypeInv
<1>3. (LastWord => LastWord') /\ (NoWord => NoWord')
  BY <1>1, <1>2, AnswerTaken
<1>4. /\ asked["active"] > 0 => asked'["active"] > 0
      /\ asked["register"] > 0 => asked'["register"] > 0
  BY Asking DEF Questions
<1> QED BY <1>3, <1>4 DEF UnderWay, Coming, Agrees

\* An answer that sets the flag is taken.
LEMMA WordTaken ==
  ASSUME TypeInv, UnderWay, NEW q \in {"active", "register"}, NextAnswer(q),
         permission # "notDetermined" /\ Head(answers).status = permission => Agrees',
         UNCHANGED <<asked, permission, process, touched>>
  PROVE  UnderWay'
<1>1. Carries(Head(answers)) /\ answers # <<>> /\ answers' = Tail(answers)
  BY DEF NextAnswer, Carries
<1>2. RemindersTypeOK
  BY DEF TypeInv
<1>3. ~NoWord
  BY <1>1, <1>2, AnswerTaken
<1>4. LastWord => LastWord' \/ (Head(answers).status = permission /\ NoWord')
  BY <1>1, <1>2, AnswerTaken
<1> QED BY <1>3, <1>4 DEF UnderWay, Coming

LEMMA SetEnabledSets ==
  ASSUME NEW value \in BOOLEAN, RemindersTypeOK, SetEnabled(value)
  PROVE  enabled' = value
  BY DEF SetEnabled, settings, RemindersTypeOK

LEMMA UnderWayStep ==
  ASSUME TypeInv, UnderWay, [Next]_vars
  PROVE  UnderWay'
<1>0. RemindersTypeOK
  BY DEF TypeInv
<1>1. CASE process' # "active" \/ touched'
  BY <1>1 DEF UnderWay
<1>2. CASE UNCHANGED <<permission, process, enabled, asked, answers, touched>>
  BY <1>2 DEF UnderWay, Coming, LastWord, NoWord, Agrees
<1>3. CASE BecomeActive
  BY <1>3, Asking DEF BecomeActive, UnderWay, Coming, Questions, Checks
<1>4. ASSUME NEW q \in {"launch", "setup", "switch"}, Ask(q),
             UNCHANGED <<permission, process, enabled, answers, touched>>
      PROVE  UnderWay'
  <2>1. /\ asked["active"] > 0 => asked'["active"] > 0
        /\ asked["register"] > 0 => asked'["register"] > 0
    BY <1>4, Asking DEF Questions, Checks
  <2> QED BY <2>1, <1>4 DEF UnderWay, Coming, LastWord, NoWord, Agrees
<1>5. ASSUME NEW q \in Checks, ReadStatus(q) PROVE UnderWay'
  <2>1. /\ UNCHANGED <<permission, process, enabled, touched>> /\ permission \in Statuses
        /\ q \in Questions /\ answers' = Append(answers, [kind |-> q, status |-> permission])
    BY <1>0, <1>5 DEF ReadStatus, settings, history, Questions, RemindersTypeOK
  <2>2. CASE q = "active"
    <3>1. LastWord'
      BY <1>0, <2>1, <2>2, AnswerLast
    <3> QED BY <3>1 DEF UnderWay, Coming
  <2>3. CASE q # "active"
    <3>1. q \notin {"active", "register"}
      BY <2>3 DEF Checks
    <3>2. (LastWord => LastWord') /\ (NoWord => NoWord')
      BY <1>0, <2>1, <3>1, AnswerLast
    <3>3. asked[q] + (-1) \in Nat /\ asked[q] - 1 = asked[q] + (-1)
      BY <1>5, <2>1, Counts DEF ReadStatus
    <3>4. asked' = [asked EXCEPT ![q] = @ + (-1)]
      BY <3>3, <1>5 DEF ReadStatus
    <3>5. asked'["active"] = asked["active"] /\ asked'["register"] = asked["register"]
      BY <3>1, <3>3, <3>4, <2>1, OtherAsked DEF Questions, Checks
    <3> QED BY <3>2, <3>5, <2>1 DEF UnderWay, Coming, Agrees
  <2> QED BY <2>2, <2>3
<1>6. CASE Authorize
  <2>1. permission' \in Statuses
    BY <1>0, <1>6 DEF Authorize, RemindersTypeOK, Statuses
  <2>2. LastWord'
    BY <1>0, <1>6, <2>1, AnswerLast DEF Authorize, Questions
  <2> QED BY <2>2 DEF UnderWay, Coming
<1>7. CASE DeliverActive
  <2>1. ASSUME permission # "notDetermined", Head(answers).status = permission
        PROVE  Agrees'
    <3>1. \/ SetEnabled(TRUE) /\ permission = "authorized"
          \/ SetEnabled(FALSE) /\ permission = "denied"
      BY <2>1, <1>0, <1>7 DEF DeliverActive, Follow, status, RemindersTypeOK, Statuses
    <3>2. permission' = permission
      BY <1>7 DEF DeliverActive
    <3> QED BY <3>1, <3>2, <1>0, SetEnabledSets DEF Agrees
  <2> QED BY <2>1, <1>7, WordTaken DEF DeliverActive
<1>8. CASE DeliverRegister
  <2>1. ASSUME Head(answers).status = permission PROVE Agrees'
    <3>1. SetEnabled(permission = "authorized") /\ permission' = permission
      BY <2>1, <1>8 DEF DeliverRegister, status
    <3>2. enabled' = (permission = "authorized")
      BY <3>1, <1>0, SetEnabledSets
    <3> QED BY <3>1, <3>2 DEF Agrees
  <2> QED BY <2>1, <1>8, WordTaken DEF DeliverRegister
<1>9. CASE DeliverLaunch
  BY <1>9, OtherTaken DEF DeliverLaunch, settings, history
<1>10. CASE DeliverSetup
  BY <1>10, OtherTaken DEF DeliverSetup, settings, history
<1>11. CASE DeliverSwitch
  BY <1>11, OtherTaken DEF DeliverSwitch, settings, history
<1>12. CASE LaunchTimer
  BY <1>4, <1>12 DEF LaunchTimer, settings, history
<1>13. CASE OpenSettings
  BY <1>4, <1>13 DEF OpenSettings, settings, history
<1>14. CASE UseSwitch
  BY <1>1, <1>14 DEF UseSwitch
<1>15. ASSUME NEW time \in Times, ChooseTime(time) PROVE UnderWay'
  BY <1>2, <1>15 DEF ChooseTime, SetReminderTime, questions
<1>16. CASE Launch \/ LeaveApp \/ Kill \/ KillInSetter \/ ChangePermission
  BY <1>1, <1>16 DEF Launch, LeaveApp, Kill, KillInSetter, ClearMemory, ChangePermission
<1>17. CASE CloseSettings \/ UNCHANGED vars
  BY <1>2, <1>17 DEF CloseSettings, vars, settings, questions, history
<1> QED
  BY <1>3, <1>5, <1>6, <1>7, <1>8, <1>9, <1>10, <1>11, <1>12, <1>13, <1>14, <1>15, <1>16, <1>17
  DEF Next

\* In an active app that waits for no answer the reminders are what iOS
\* allows (checkIfUserChangedSettings, registerNotifications), unless the
\* switch was used since the app became active.
THEOREM PermissionIsFollowed == Spec => []PermissionFollowed
<1>1. Init => UnderWay
  BY DEF Init, UnderWay
<1>2. TypeInv /\ UnderWay => PermissionFollowed
  <2> SUFFICES ASSUME TypeInv, UnderWay, process = "active", ~touched,
                      permission # "notDetermined", Waiting = 0
               PROVE  enabled = (permission = "authorized")
    BY DEF PermissionFollowed
  <2>1. Asked = 0 /\ Len(answers) = 0
    BY Counts
  <2>2. asked["active"] <= 0 /\ asked["active"] \in Nat
        /\ asked["register"] <= 0 /\ asked["register"] \in Nat
    BY <2>1, Counts DEF Questions, Checks
  <2>3. ~LastWord
    <3>1. DOMAIN answers = {}
      BY <2>1 DEF TypeInv, RemindersTypeOK
    <3> QED BY <3>1 DEF LastWord
  <2>4. Agrees
    BY <2>2, <2>3 DEF UnderWay, Coming
  <2> QED BY <2>4 DEF Agrees, TypeInv, RemindersTypeOK
<1>3. TypeInv /\ UnderWay /\ [Next]_vars => UnderWay'
  BY UnderWayStep
<1> QED BY <1>1, <1>2, <1>3, TypeInvariant, PTL DEF Spec
=============================================================================
