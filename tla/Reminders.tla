------------------------------ MODULE Reminders ------------------------------
(***************************************************************************)
(* The daily reminder: a flag and a time in UserDefaults, the request that *)
(* iOS keeps, the permission the user gives or takes away, and the switch  *)
(* of the settings screen.  The permission is only known through questions *)
(* that iOS answers later, on the main queue: when the app becomes active, *)
(* ninety seconds after a launch, when the settings open and when the      *)
(* switch is turned on.                                                    *)
(***************************************************************************)
EXTENDS Integers, Sequences, FiniteSets

CONSTANTS Times,        \* the times of day a reminder can have
          DefaultTime,  \* 13:00
          NoRequest,    \* iOS keeps no request
          MaxWaiting    \* questions not answered yet (a bound)

Statuses == {"notDetermined", "denied", "authorized"}

\* The four reads of the settings, and the request for the permission.
Checks == {"active", "launch", "setup", "switch"}
Questions == Checks \cup {"register"}

ASSUME RemindersAssumption ==
  /\ DefaultTime \in Times /\ NoRequest \notin Times
  /\ MaxWaiting \in Nat \ {0}

VARIABLES permission,   \* what iOS would answer
          process,
          timer,        \* is the check of the launch still to come?
          enabled, reminderTime,
          pending,      \* the time of the request iOS keeps
          screen, isOn, \* the settings, and their switch
          asked,        \* how many questions of each kind wait for iOS
          answers,      \* the main queue: answers not yet taken
          touched,      \* history: was the switch used since the last activation?
          torn          \* history: did a process end inside a setter, and has no
                \* later assignment replaced the request since?

settings == <<enabled, reminderTime, pending>>
display == <<screen, isOn>>
questions == <<asked, answers>>
history == <<touched, torn>>
vars == <<permission, process, timer, settings, display, questions, history>>

RemindersTypeOK ==
  /\ permission \in Statuses
  /\ process \in {"dead", "background", "active"}
  /\ timer \in BOOLEAN
  /\ enabled \in BOOLEAN
  /\ reminderTime \in Times
  /\ pending \in Times \cup {NoRequest}
  /\ screen \in BOOLEAN
  /\ isOn \in BOOLEAN
  /\ asked \in [Questions -> 0..MaxWaiting]
  /\ answers \in Seq([kind : Questions, status : Statuses])
  /\ touched \in BOOLEAN
  /\ torn \in BOOLEAN

Init ==
  /\ permission = "notDetermined" /\ process = "dead" /\ timer = FALSE
  /\ enabled = FALSE /\ reminderTime = DefaultTime /\ pending = NoRequest
  /\ screen = FALSE /\ isOn = FALSE
  /\ asked = [q \in Questions |-> 0] /\ answers = <<>>
  /\ touched = FALSE /\ torn = FALSE

Asked == asked["active"] + asked["launch"] + asked["setup"] + asked["switch"]
         + asked["register"]
Waiting == Len(answers) + Asked
Room == Waiting < MaxWaiting

Ask(q) == asked' = [asked EXCEPT ![q] = @ + 1]

(***************************************************************************)
(* The setters                                                             *)
(***************************************************************************)
\* notifications(schedule:) removes the request and adds the new one, which
\* iOS may refuse.
Schedules(on, time) == IF on THEN {time, NoRequest} ELSE {NoRequest}

\* Mutant: the switch is not told.
SetEnabledUnannounced(value) ==
  IF enabled = value
    THEN UNCHANGED <<settings, isOn, torn>>
    ELSE /\ enabled' = value /\ pending' \in Schedules(value, reminderTime)
         /\ torn' = FALSE
         /\ UNCHANGED <<reminderTime, isOn>>

\* The setter of enabled; the settings screen, if there, follows it.
SetEnabled(value) ==
  IF enabled = value
    THEN UNCHANGED <<settings, isOn, torn>>
    ELSE /\ enabled' = value /\ pending' \in Schedules(value, reminderTime)
         /\ torn' = FALSE
         /\ isOn' = IF screen THEN value ELSE isOn
         /\ UNCHANGED reminderTime

\* Mutant: the request of the old time stays.
SetReminderTimeOnly(time) ==
  reminderTime' = time /\ torn' = FALSE /\ UNCHANGED <<enabled, pending>>

SetReminderTime(time) == /\ reminderTime' = time
                         /\ pending' \in Schedules(enabled, time)
                         /\ torn' = FALSE
                         /\ UNCHANGED enabled

(***************************************************************************)
(* The process                                                             *)
(***************************************************************************)
\* start: the check of the launch is set for later.
Launch == /\ process = "dead" /\ process' = "background" /\ timer' = TRUE
          /\ UNCHANGED <<permission, settings, display, questions, history>>

\* applicationDidBecomeActive.
BecomeActive == /\ process = "background" /\ process' = "active"
                /\ Room /\ Ask("active") /\ touched' = FALSE
                /\ UNCHANGED <<permission, timer, settings, display, answers, torn>>

LeaveApp == /\ process = "active" /\ process' = "background"
            /\ UNCHANGED <<permission, timer, settings, display, questions, history>>

ClearMemory == /\ process' = "dead" /\ timer' = FALSE
               /\ screen' = FALSE /\ isOn' = FALSE
               /\ asked' = [q \in Questions |-> 0] /\ answers' = <<>>
               /\ touched' = FALSE

Kill == /\ process # "dead" /\ ClearMemory
        /\ UNCHANGED <<permission, settings, torn>>

\* The process ends between the write of a setter and its request.
KillInSetter ==
  /\ process # "dead" /\ ClearMemory
  /\ \/ enabled' = ~enabled /\ UNCHANGED reminderTime
     \/ screen /\ reminderTime' \in Times /\ UNCHANGED enabled
  /\ torn' = TRUE
  /\ UNCHANGED <<permission, pending>>

\* In the settings of iOS, which leaving the app leads to.
ChangePermission == /\ process # "active" /\ permission # "notDetermined"
                    /\ permission' \in {"denied", "authorized"} \ {permission}
                    /\ UNCHANGED <<process, timer, settings, display, questions, history>>

LaunchTimer == /\ process # "dead" /\ timer /\ timer' = FALSE
               /\ Room /\ Ask("launch")
               /\ UNCHANGED <<permission, process, settings, display, answers, history>>

(***************************************************************************)
(* iOS                                                                     *)
(***************************************************************************)
\* Mutant: iOS answers a question nobody asked.
ReadStatusUnasked(q) ==
  /\ q \in Checks
  /\ asked' = [asked EXCEPT ![q] = @ - 1]
  /\ answers' = Append(answers, [kind |-> q, status |-> permission])
  /\ UNCHANGED <<permission, process, timer, settings, display, history>>

\* The status is read and handed to the main queue.
ReadStatus(q) ==
  /\ q \in Checks /\ asked[q] > 0
  /\ asked' = [asked EXCEPT ![q] = @ - 1]
  /\ answers' = Append(answers, [kind |-> q, status |-> permission])
  /\ UNCHANGED <<permission, process, timer, settings, display, history>>

\* requestAuthorization asks the user once, then answers what was chosen; an
\* error answers FALSE and leaves the choice open.
Authorize ==
  /\ asked["register"] > 0
  /\ permission' \in IF permission = "notDetermined" THEN Statuses ELSE {permission}
  /\ permission' # permission => process = "active"
  /\ asked' = [asked EXCEPT !["register"] = @ - 1]
  /\ answers' = Append(answers, [kind |-> "register", status |-> permission'])
  /\ UNCHANGED <<process, timer, settings, display, history>>

(***************************************************************************)
(* The answers                                                             *)
(***************************************************************************)
\* Mutant: a permission taken away is not noticed.
FollowGrantsOnly(status) == IF status = "authorized" THEN SetEnabled(TRUE)
                            ELSE UNCHANGED <<settings, isOn, torn>>

\* checkIfUserChangedSettings.
Follow(status) ==
  CASE status = "authorized" -> SetEnabled(TRUE)
    [] status = "denied" -> SetEnabled(FALSE)
    [] OTHER -> UNCHANGED <<settings, isOn, torn>>

NextAnswer(q) == /\ process # "dead" /\ answers # <<>> /\ Head(answers).kind = q
                 /\ answers' = Tail(answers)

status == Head(answers).status

DeliverActive == /\ NextAnswer("active") /\ Follow(status)
                 /\ UNCHANGED <<permission, process, timer, screen, asked, touched>>

\* registerNotifications.
DeliverRegister == /\ NextAnswer("register") /\ SetEnabled(status = "authorized")
                   /\ UNCHANGED <<permission, process, timer, screen, asked, touched>>

\* waitAndCheckNotifications.
DeliverLaunch == /\ NextAnswer("launch")
                 /\ IF status = "notDetermined" THEN Ask("register") ELSE UNCHANGED asked
                 /\ UNCHANGED <<permission, process, timer, settings, display, history>>

\* setupViews, also when the screen has gone.
DeliverSetup == /\ NextAnswer("setup")
                /\ IF status = "notDetermined"
                     THEN Ask("register") /\ UNCHANGED isOn
                     ELSE isOn' = (screen /\ enabled) /\ UNCHANGED asked
                /\ UNCHANGED <<permission, process, timer, settings, screen, history>>

\* The answer to the switch only moves it back.
DeliverSwitch == /\ NextAnswer("switch")
                 /\ isOn' = (isOn /\ status # "denied")
                 /\ UNCHANGED <<permission, process, timer, settings, screen, asked, history>>

(***************************************************************************)
(* The settings screen                                                     *)
(***************************************************************************)
\* The switch of a new screen is off.  Bound: the answers of an earlier
\* screen have come.
OpenSettings == /\ process = "active" /\ ~screen /\ screen' = TRUE /\ isOn' = FALSE
                /\ Room /\ Ask("setup")
                /\ \A q \in {"setup", "switch"} :
                     asked[q] = 0 /\ \A i \in DOMAIN answers : answers[i].kind # q
                /\ UNCHANGED <<permission, process, timer, settings, answers, history>>

CloseSettings == /\ process = "active" /\ screen /\ screen' = FALSE /\ isOn' = FALSE
                 /\ UNCHANGED <<permission, process, timer, settings, questions, history>>

\* reminderSwitcherChanged.
UseSwitch == /\ process = "active" /\ screen
             /\ IF isOn THEN UNCHANGED asked ELSE Room /\ Ask("switch")
             /\ isOn' = ~isOn /\ enabled' = ~isOn
             /\ IF enabled = ~isOn THEN UNCHANGED <<pending, torn>>
                ELSE pending' \in Schedules(~isOn, reminderTime) /\ torn' = FALSE
             /\ touched' = TRUE
             /\ UNCHANGED <<permission, process, timer, reminderTime, screen, answers>>

\* datePickerChangedValue, and the picker's last value when it closes.
ChooseTime(time) == /\ process = "active" /\ screen /\ SetReminderTime(time)
                    /\ UNCHANGED <<permission, process, timer, display, questions, touched>>

Next ==
  \/ Launch \/ BecomeActive \/ LeaveApp \/ Kill \/ KillInSetter \/ ChangePermission
  \/ LaunchTimer \/ \E q \in Checks : ReadStatus(q) \/ Authorize
  \/ DeliverActive \/ DeliverRegister \/ DeliverLaunch \/ DeliverSetup \/ DeliverSwitch
  \/ OpenSettings \/ CloseSettings \/ UseSwitch
  \/ \E time \in Times : ChooseTime(time)

Spec == Init /\ [][Next]_vars

(***************************************************************************)
(* Properties                                                              *)
(***************************************************************************)
\* iOS keeps no reminder that was switched off or that has another time than
\* the one set, whatever answers come late.  What a kill inside a setter leaves
\* behind lasts until the next assignment that changes the flag, or any of the
\* time, and no longer.
RequestMatchesSettings ==
  ~torn /\ pending # NoRequest => enabled /\ pending = reminderTime

\* The switch never shows reminders that are off.
SwitchHonest == isOn => screen /\ enabled

\* In an active app that waits for no answer the reminders are what iOS
\* allows, also after a permission given, refused or taken away while answers
\* were under way, unless the user has used the switch since.
PermissionFollowed ==
  /\ process = "active" /\ ~touched /\ permission # "notDetermined" /\ Waiting = 0
  => enabled = (permission = "authorized")
=============================================================================
