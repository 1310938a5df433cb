---------------------------- MODULE ProverbScreen ----------------------------
(***************************************************************************)
(* The screen that shows a random proverb (RandomProverbViewController)    *)
(* with its save button (ObliqueButton): which image the button shows,     *)
(* when the controls are disabled, and everything that changes either      *)
(* later: answers of isFavorite, completions of saves and deletions, ends  *)
(* of animations, and the DidSave and DidDelete notifications.             *)
(*                                                                         *)
(* Nothing ties an answer to the proverb or the tap it belongs to.  What   *)
(* keeps the screen right is the order of the calls: a completion first    *)
(* posts its notification, then ends the progress, which puts the image of *)
(* before the tap back, and only then asks again.                          *)
(***************************************************************************)
EXTENDS Naturals, SequencesExt

CONSTANTS Proverbs,
          Docs,         \* favourites: copy tells those of one origin apart
          Stored,       \* what the stores may hold at first
          Taps,         \* taps on the save button in flight (a bound)
          Elsewhere,    \* not a tap: the writes of the other screens
          MaxChecks, MaxWrites, MaxAnimations  \* bounds on what is in flight

ASSUME ProverbScreenAssumption ==
  /\ \A d \in Docs : d.origin \in Proverbs
  /\ Stored \subseteq SUBSET Docs /\ Elsewhere \notin Taps
  /\ MaxChecks \in Nat \ {0} /\ MaxWrites \in Nat /\ MaxAnimations \in Nat

VARIABLES
  where,         \* where the favourites are: local, remote or none (no manager)
  local, server, \* the favourites in Realm and in the user's collection
  screen,        \* see Screens
  taps,          \* checkAndSaveOrDeleteFavorite, per tap
  checks,        \* checkAndUpdateAddToFavoritesButton: questions not delivered
  writes,        \* Firestore writes not settled, in order
  excuses        \* history: why the image may be wrong

vars == <<where, local, server, screen, taps, checks, writes, excuses>>

Images == {"favorite", "unfavorite", "blank"}
\* inProgress: isProverbInProgress, which disables the buttons; progressView,
\* image and savedImage are the save button's; animations: what their
\* completions will set inProgress to; typing: labels still being typed.
Screens == [proverb : Proverbs, image : Images, savedImage : Images,
            progressView : BOOLEAN, inProgress : BOOLEAN,
            animations : Seq(BOOLEAN), typing : 0..2]

\* check: isFavorite asked; get: the document to delete is looked up; write:
\* a save or a deletion waits; dropped: delete found no manager.
TapRecords == [stage : {"idle", "check", "get", "write", "dropped"},
               proverb : Proverbs, answer : {"none", "failed", "read"},
               docs : SUBSET Docs]
NoTap == [stage |-> "idle", proverb |-> CHOOSE p \in Proverbs : TRUE,
          answer |-> "none", docs |-> {}]
CheckRecords == [proverb : Proverbs, answer : {"none", "favorite", "unfavorite"}]
WriteRecords == [kind : {"save", "delete"}, doc : Docs, tap : Taps \cup {Elsewhere}]

\* failed: a query failed, which counts as "no favourite"; overtaken: a check
\* was delivered before one asked earlier; elsewhere: another screen's save or
\* deletion was rejected, or left a second favourite of its proverb; switched:
\* the favourites are in another store.
ExcuseKinds == {"failed", "overtaken", "elsewhere", "switched"}

ProverbScreenTypeOK ==
  /\ where \in {"local", "remote", "none"}
  /\ local \in SUBSET Docs /\ server \in SUBSET Docs
  /\ screen \in Screens /\ Len(screen.animations) <= MaxAnimations
  /\ taps \in [Taps -> TapRecords]
  /\ checks \in Seq(CheckRecords) /\ Len(checks) <= MaxChecks
  /\ writes \in Seq(WriteRecords) /\ Len(writes) <= MaxWrites
  /\ excuses \in SUBSET ExcuseKinds

(***************************************************************************)
(* The favourites                                                          *)
(***************************************************************************)
WrittenBy(kind, queue) == {queue[n].doc : n \in {m \in DOMAIN queue : queue[m].kind = kind}}

\* The collection as this device sees it, with the writes under way.
Seen == (server \cup WrittenBy("save", writes)) \ WrittenBy("delete", writes)

Kept == CASE where = "local" -> local [] where = "remote" -> Seen [] OTHER -> {}

Of(p, S) == {d \in S : d.origin = p}
ImageFor(p, S) == IF Of(p, S) # {} THEN "favorite" ELSE "unfavorite"

\* A new favourite has an identifier of its own.
New(p) == Of(p, Docs \ (local \cup server \cup {writes[n].doc : n \in DOMAIN writes}))

(***************************************************************************)
(* The screen and its button                                               *)
(***************************************************************************)
\* Mutant: showing the progress that is shown already saves the image again.
ProgressUnchecked(s, show) ==
  [s EXCEPT !.progressView = show,
            !.savedImage = IF show THEN s.image ELSE "blank",
            !.image = IF show THEN "blank" ELSE s.savedImage,
            !.animations = Append(@, show)]

\* ObliqueButton.inProgress: the image is put away, or put back; the
\* completion comes when the animation ends, and not at all if there is none.
Progress(s, show) ==
  IF s.progressView = show THEN s
  ELSE [s EXCEPT !.progressView = show,
                 !.savedImage = IF show THEN s.image ELSE "blank",
                 !.image = IF show THEN "blank" ELSE s.savedImage,
                 !.animations = Append(@, show)]

\* didSave... and didDeleteFavoriteProverbNotification.
Noticed(s, kind, p) ==
  IF p # s.proverb THEN s
  ELSE [s EXCEPT !.image = IF kind = "save" THEN "favorite" ELSE "unfavorite"]

\* checkAndUpdateAddToFavoritesButton for the screen s: Firestore is asked,
\* or the answer is there at once.
CheckButton(s, objects) ==
  IF where = "remote"
  THEN /\ Len(checks) < MaxChecks
       /\ checks' = Append(checks, [proverb |-> s.proverb, answer |-> "none"])
       /\ screen' = s
  ELSE /\ screen' = [s EXCEPT !.image =
           ImageFor(s.proverb, IF where = "local" THEN objects ELSE {})]
       /\ UNCHANGED checks

\* Mutant: after a success the notification has set the image already.
FinishOnce(s, kind, p, ok) ==
  LET ended == Progress(IF ok THEN Noticed(s, kind, p) ELSE s, FALSE)
  IN  IF ok THEN screen' = ended /\ UNCHANGED checks
      ELSE CheckButton(ended, local')

\* Mutant: a failure leaves the progress on.
FinishOnSuccess(s, kind, p, ok) ==
  LET undone == IF kind = "save" THEN "unfavorite" ELSE "favorite"
  IN  CheckButton(IF ok THEN Progress(Noticed(s, kind, p), FALSE)
                  ELSE [s EXCEPT !.image = undone], local')

\* The completion of a save or a deletion, with its notification before it.
Finish(s, kind, p, ok) ==
  LET ended == Progress(IF ok THEN Noticed(s, kind, p) ELSE s, FALSE)
      undone == IF kind = "save" THEN "unfavorite" ELSE "favorite"
  IN  CheckButton(IF ok THEN ended ELSE [ended EXCEPT !.image = undone], local')

Free == ~screen.inProgress /\ Len(screen.animations) + 2 <= MaxAnimations

Quiet == /\ checks = << >> /\ writes = << >>
         /\ \A t \in Taps : taps[t].stage \in {"idle", "dropped"}

\* Firestore's callbacks run on the main queue in the order of its answers.
\* One waits there at a time (a bound).
MainQueueFree == /\ \A n \in DOMAIN checks : checks[n].answer = "none"
                 /\ \A t \in Taps : taps[t].answer = "none"

Excused(S) == excuses' = excuses \cup S
\* What is asked when nothing else is under way starts afresh.
Forgive == excuses' = IF Quiet THEN {} ELSE excuses

(***************************************************************************)
(* Showing a proverb                                                       *)
(***************************************************************************)
\* viewDidLoad shows a first proverb; the storyboard gives the button an image.
Init ==
  /\ where \in {"local", "remote", "none"}
  /\ local \in Stored /\ server \in Stored
  /\ \E p \in Proverbs :
       /\ screen = [proverb |-> p, savedImage |-> "blank", progressView |-> FALSE,
                    image |-> IF where = "remote" THEN "unfavorite" ELSE ImageFor(p, Kept),
                    inProgress |-> TRUE, animations |-> << >>, typing |-> 2]
       /\ checks = IF where = "remote" THEN <<[proverb |-> p, answer |-> "none"]>> ELSE << >>
  /\ taps = [t \in Taps |-> NoTap] /\ writes = << >> /\ excuses = {}

\* showNextProverb.  Labels still being typed start again, and the count with
\* them.
ShowNext(p) ==
  /\ Free
  /\ CheckButton([screen EXCEPT !.proverb = p, !.inProgress = TRUE, !.typing = 2], local)
  /\ Forgive
  /\ UNCHANGED <<where, local, server, taps, writes>>

\* Mutant: a label's timer fires once more after the end.
TypedAgain ==
  /\ screen' = [screen EXCEPT !.typing = @ - 1,
                              !.inProgress = IF screen.typing = 1 THEN FALSE ELSE @]
  /\ UNCHANGED <<where, local, server, taps, checks, writes, excuses>>

\* A label is typed; the second one enables the buttons.
Typed ==
  /\ screen.typing > 0
  /\ screen' = [screen EXCEPT !.typing = @ - 1,
                              !.inProgress = IF screen.typing = 1 THEN FALSE ELSE @]
  /\ UNCHANGED <<where, local, server, taps, checks, writes, excuses>>

AnimationEnds ==
  /\ screen.animations # << >>
  /\ screen' = [screen EXCEPT !.inProgress = Head(screen.animations),
                              !.animations = Tail(@)]
  /\ UNCHANGED <<where, local, server, taps, checks, writes, excuses>>

\* viewDidAppear, after another screen or the menu.
Appear ==
  /\ CheckButton(screen, local) /\ Forgive
  /\ UNCHANGED <<where, local, server, taps, writes>>

AnswerCheck(n) ==
  /\ MainQueueFree /\ n \in DOMAIN checks
  /\ \/ /\ checks' = [checks EXCEPT ![n].answer = ImageFor(checks[n].proverb, Seen)]
        /\ UNCHANGED excuses
     \/ /\ checks' = [checks EXCEPT ![n].answer = "unfavorite"]
        /\ Excused({"failed"})
  /\ UNCHANGED <<where, local, server, screen, taps, writes>>

\* The answer goes to the button of whatever proverb is on the screen.
DeliverCheck(n) ==
  /\ n \in DOMAIN checks /\ checks[n].answer # "none"
  /\ screen' = [screen EXCEPT !.image = checks[n].answer]
  /\ checks' = RemoveAt(checks, n)
  /\ Excused(IF n = 1 THEN {} ELSE {"overtaken"})
  /\ UNCHANGED <<where, local, server, taps, writes>>

(***************************************************************************)
(* Saving and deleting                                                     *)
(***************************************************************************)
\* The manager's save for the tap t of proverb p, whose progress s shows.
Save(t, p, s) ==
  \/ /\ where = "local"                  \* refused at the limit
     /\ \/ \E d \in New(p) : local' = local \cup {d} /\ Finish(s, "save", p, TRUE)
        \/ UNCHANGED local /\ Finish(s, "save", p, FALSE)
     /\ taps' = [taps EXCEPT ![t] = NoTap] /\ UNCHANGED <<server, writes>>
  \/ /\ where = "remote" /\ Len(writes) < MaxWrites
     /\ \E d \in New(p) :
          writes' = Append(writes, [kind |-> "save", doc |-> d, tap |-> t])
     /\ taps' = [taps EXCEPT ![t] = [NoTap EXCEPT !.stage = "write", !.proverb = p]]
     /\ screen' = s /\ UNCHANGED <<local, server, checks>>
  \/ /\ where = "none" /\ UNCHANGED <<local, server, writes>>
     /\ Finish(s, "save", p, FALSE)
     /\ taps' = [taps EXCEPT ![t] = NoTap]

\* The manager's delete.  Without a manager nobody is told; with one that has
\* no user document the look-up fails at once.
Delete(t, p, s) ==
  \/ /\ where = "local"
     /\ \/ \E d \in Of(p, local) : local' = local \ {d} /\ Finish(s, "delete", p, TRUE)
        \/ Of(p, local) = {} /\ UNCHANGED local /\ Finish(s, "delete", p, FALSE)
     /\ taps' = [taps EXCEPT ![t] = NoTap] /\ UNCHANGED <<server, writes>>
  \/ /\ where = "remote"
     /\ taps' = [taps EXCEPT ![t] = [NoTap EXCEPT !.stage = "get", !.proverb = p]]
     /\ screen' = s /\ UNCHANGED <<local, server, checks, writes>>
  \/ /\ where = "none" /\ UNCHANGED <<local, server, writes>>
     /\ \/ /\ taps' = [taps EXCEPT ![t] = [NoTap EXCEPT !.stage = "dropped", !.proverb = p]]
           /\ screen' = s /\ UNCHANGED checks
        \/ /\ Finish(s, "delete", p, FALSE)
           /\ taps' = [taps EXCEPT ![t] = NoTap]

\* The save button.  The buttons stay enabled until its animation ends, so
\* that it can be pushed again.
Tap(t) ==
  /\ Free /\ taps[t].stage = "idle"
  /\ LET s == Progress(screen, TRUE)
         p == screen.proverb
     IN  IF where = "remote"
         THEN /\ taps' = [taps EXCEPT ![t] = [NoTap EXCEPT !.stage = "check", !.proverb = p]]
              /\ screen' = s /\ UNCHANGED <<local, server, checks, writes>>
         ELSE IF Of(p, Kept) # {} THEN Delete(t, p, s) ELSE Save(t, p, s)
  /\ UNCHANGED <<where, excuses>>

AnswerTap(t) ==
  /\ taps[t].stage \in {"check", "get"} /\ MainQueueFree
  /\ \/ taps' = [taps EXCEPT ![t].answer = "failed"]
     \/ taps' = [taps EXCEPT ![t] = [@ EXCEPT !.answer = "read",
                                              !.docs = Of(taps[t].proverb, Seen)]]
  /\ UNCHANGED <<where, local, server, screen, checks, writes, excuses>>

DeliverTapCheck(t) ==
  /\ taps[t].stage = "check" /\ taps[t].answer # "none"
  /\ IF taps[t].docs # {} THEN Delete(t, taps[t].proverb, screen)
     ELSE Save(t, taps[t].proverb, screen)
  /\ UNCHANGED <<where, excuses>>

\* getFavorite is answered: a document is deleted, if there is a manager
\* (whatever the plan says), or the tap has failed.
DeliverTapGet(t) ==
  /\ taps[t].stage = "get" /\ taps[t].answer # "none"
  /\ UNCHANGED <<where, local, server, excuses>>
  /\ \/ /\ taps[t].docs # {} /\ where # "none" /\ Len(writes) < MaxWrites
        /\ \E d \in taps[t].docs :
               writes' = Append(writes, [kind |-> "delete", doc |-> d, tap |-> t])
        /\ taps' = [taps EXCEPT ![t] = [NoTap EXCEPT !.stage = "write",
                                                     !.proverb = taps[t].proverb]]
        /\ UNCHANGED <<screen, checks>>
     \/ /\ taps[t].docs = {} \/ where # "remote"
        /\ Finish(screen, "delete", taps[t].proverb, FALSE)
        /\ taps' = [taps EXCEPT ![t] = NoTap]
        /\ UNCHANGED writes

(***************************************************************************)
(* Firestore, the other screens and the account                            *)
(***************************************************************************)
\* The oldest write is settled, once its user is signed in, whatever the plan:
\* the notification goes out if it was accepted, and the completion runs.
SettleWrite(ok) ==
  /\ MainQueueFree /\ writes # << >>
  /\ UNCHANGED <<where, local>>
  /\ LET w == Head(writes)
         p == w.doc.origin
     IN  /\ writes' = Tail(writes)
         /\ server' = IF ~ok THEN server
                      ELSE IF w.kind = "save" THEN server \cup {w.doc} ELSE server \ {w.doc}
         /\ IF w.tap = Elsewhere
            THEN /\ screen' = IF ok THEN Noticed(screen, w.kind, p) ELSE screen
                 /\ Excused(IF ~ok \/ Of(p, Seen \ {w.doc}) # {} THEN {"elsewhere"} ELSE {})
                 /\ UNCHANGED <<taps, checks>>
            ELSE /\ Finish(screen, w.kind, p, ok)
                 /\ taps' = [taps EXCEPT ![w.tap] = NoTap] /\ UNCHANGED excuses

\* The list of favourites or a proverb's own screen saves or deletes.
OtherScreenWrites(kind, d) ==
  /\ IF kind = "save" THEN d \in New(d.origin) ELSE d \in Kept
  /\ \/ /\ where = "remote" /\ Len(writes) < MaxWrites
        /\ writes' = Append(writes, [kind |-> kind, doc |-> d, tap |-> Elsewhere])
        /\ UNCHANGED <<local, screen, excuses>>
     \/ /\ where = "local" /\ UNCHANGED writes
        /\ local' = IF kind = "save" THEN local \cup {d} ELSE local \ {d}
        /\ screen' = Noticed(screen, kind, d.origin)
        /\ Excused(IF Of(d.origin, local \ {d}) # {} THEN {"elsewhere"} ELSE {})
  /\ UNCHANGED <<where, server, taps, checks>>

\* A sign-in or -out, a purchase, a manager dropped.  What a migration carries
\* over is no matter of the screen's.  Once until all is quiet (a bound).
Switch ==
  /\ "switched" \notin excuses
  /\ where' \in {"local", "remote", "none"} \ {where}
  /\ Excused({"switched"})
  /\ UNCHANGED <<local, server, screen, taps, checks, writes>>

\* A screen whose image may be wrong is followed only after a switch (a bound).
Followed == excuses \subseteq {"switched"}

Next ==
  /\ Followed
  /\ \/ \E p \in Proverbs : ShowNext(p)
     \/ Typed \/ AnimationEnds \/ Appear \/ Switch
     \/ \E n \in 1..MaxChecks : AnswerCheck(n) \/ DeliverCheck(n)
     \/ \E t \in Taps : Tap(t) \/ AnswerTap(t) \/ DeliverTapCheck(t) \/ DeliverTapGet(t)
     \/ \E ok \in BOOLEAN : SettleWrite(ok)
     \/ \E kind \in {"save", "delete"}, d \in Docs : OtherScreenWrites(kind, d)

Spec == Init /\ [][Next]_vars

(***************************************************************************)
(* Properties                                                              *)
(***************************************************************************)
\* The save button never loses its image: it shows one, or keeps one behind
\* the progress to put back, however taps, answers and
\* notifications overlap.
ButtonKeepsImage ==
  IF screen.progressView THEN screen.savedImage # "blank"
  ELSE screen.image # "blank" /\ screen.savedImage = "blank"

\* When every tap has ended no progress is shown, and once the labels are typed
\* and the animations over the buttons can be pushed again, whichever end came
\* last; only a deletion that met no manager keeps them disabled.
ControlsComeBack ==
  (\A t \in Taps : taps[t].stage = "idle") =>
    /\ ~screen.progressView
    /\ screen.typing = 0 /\ screen.animations = << >> => ~screen.inProgress

\* When nothing is under way the image tells whether the proverb on the screen
\* is a favourite, although answers are given to whatever proverb is there,
\* unless one of the listed circumstances arose.
ImageTellsTruth ==
  Quiet /\ ~screen.progressView /\ excuses = {} => screen.image = ImageFor(screen.proverb, Kept)
=============================================================================
