------------------------- MODULE ProverbScreenProofs -------------------------
(***************************************************************************)
(* The screen of the random proverb, for any proverbs, any number of taps  *)
(* in flight and any bounds on what waits: types, the image of the save    *)
(* button, the controls that come back, and what the image tells.          *)
(***************************************************************************)
EXTENDS ProverbScreen, SequenceTheorems, TLAPS

(***************************************************************************)
(* What each change of the screen keeps                                    *)
(***************************************************************************)
HasImage(s) == IF s.progressView THEN s.savedImage # "blank"
               ELSE s.image # "blank" /\ s.savedImage = "blank"

\* Room is left for the animation that ends the progress.
Fits(s) == /\ Len(s.animations) <= MaxAnimations
           /\ s.progressView => Len(s.animations) + 1 <= MaxAnimations

\* The last animation to end sets inProgress to what the progress is; without
\* labels and animations to wait for, nothing is disabled but by the progress.
LastAnimation(s) ==
  s.animations # << >> /\ ~s.progressView => ~s.animations[Len(s.animations)]
Released(s) ==
  s.animations = << >> /\ s.typing = 0 /\ ~s.progressView => ~s.inProgress

Good(s) == s \in Screens /\ HasImage(s) /\ Fits(s) /\ LastAnimation(s) /\ Released(s)

LEMMA GoodProgress ==
  ASSUME NEW s, Good(s), NEW show \in BOOLEAN,
         show => Len(s.animations) + 2 <= MaxAnimations
  PROVE  /\ Good(Progress(s, show))
         /\ Progress(s, show).progressView = show
         /\ Progress(s, show).proverb = s.proverb
         /\ Len(Progress(s, show).animations) <= Len(s.animations) + 1
<1> DEFINE r == Progress(s, show)
<1>0. /\ s \in Screens /\ Len(s.animations) \in Nat /\ s.animations \in Seq(BOOLEAN)
      /\ s.progressView \in BOOLEAN /\ MaxAnimations \in Nat
  BY ProverbScreenAssumption DEF Good, Screens
<1>1. CASE s.progressView = show
  BY <1>0, <1>1 DEF Progress
<1>2. CASE s.progressView # show
  <2>1. r = [s EXCEPT !.progressView = show,
                      !.savedImage = IF show THEN s.image ELSE "blank",
                      !.image = IF show THEN "blank" ELSE s.savedImage,
                      !.animations = Append(s.animations, show)]
    BY <1>0, <1>2 DEF Progress, Screens
  <2>2. /\ r.progressView = show /\ r.animations = Append(s.animations, show)
        /\ r.savedImage = IF show THEN s.image ELSE "blank"
        /\ r.image = IF show THEN "blank" ELSE s.savedImage
        /\ r.inProgress = s.inProgress /\ r.typing = s.typing /\ r.proverb = s.proverb
    BY <1>0, <2>1 DEF Screens
  <2>3. /\ r.animations \in Seq(BOOLEAN) /\ Len(r.animations) = Len(s.animations) + 1
        /\ r.animations[Len(r.animations)] = show /\ r.animations # << >>
    BY <1>0, <2>2
  <2>4. r \in Screens
    BY <1>0, <2>1, <2>3 DEF Screens, Images
  <2>5. HasImage(r)
    BY <1>0, <1>2, <2>2 DEF Good, HasImage
  <2>6. Fits(r)
    <3>1. CASE show
      <4>1. Len(s.animations) + 2 <= MaxAnimations
        BY <3>1
      <4>2. Len(s.animations) \in Nat /\ MaxAnimations \in Nat
        BY <1>0
      <4>3. Len(r.animations) = Len(s.animations) + 1
        BY <2>3
      <4>4. Len(r.animations) + 1 <= MaxAnimations /\ Len(r.animations) <= MaxAnimations
        BY <4>1, <4>2, <4>3
      <4> QED BY <4>4 DEF Fits
    <3>2. CASE ~show
      <4>1. s.progressView /\ ~r.progressView
        BY <3>2, <1>0, <1>2, <2>2
      <4>2. Len(s.animations) + 1 <= MaxAnimations
        BY <4>1 DEF Good, Fits
      <4> QED BY <4>1, <4>2, <2>3 DEF Fits
    <3> QED BY <3>1, <3>2
  <2>7. LastAnimation(r) /\ Released(r)
    BY <2>2, <2>3 DEF LastAnimation, Released
  <2>8. Good(r)
    BY <2>4, <2>5, <2>6, <2>7 DEF Good
  <2> QED BY <1>0, <2>2, <2>3, <2>8
<1> QED BY <1>1, <1>2

\* An image for the button.
LEMMA GoodImage ==
  ASSUME NEW s, Good(s), NEW image \in {"favorite", "unfavorite"}
  PROVE  /\ Good([s EXCEPT !.image = image])
         /\ [s EXCEPT !.image = image].progressView = s.progressView
<1> DEFINE r == [s EXCEPT !.image = image]
<1>1. s \in Screens
  BY DEF Good
<1>2. /\ r.image = image /\ r.savedImage = s.savedImage /\ r.progressView = s.progressView
      /\ r.animations = s.animations /\ r.inProgress = s.inProgress /\ r.typing = s.typing
  BY <1>1 DEF Screens
<1>3. r \in Screens
  BY <1>1 DEF Screens, Images
<1>4. HasImage(r)
  BY <1>2 DEF Good, HasImage
<1>5. Fits(r) /\ LastAnimation(r) /\ Released(r)
  BY <1>2 DEF Good, Fits, LastAnimation, Released
<1> QED BY <1>2, <1>3, <1>4, <1>5 DEF Good

LEMMA GoodNoticed ==
  ASSUME NEW s, Good(s), NEW kind, NEW p
  PROVE  Good(Noticed(s, kind, p)) /\ Noticed(s, kind, p).progressView = s.progressView
  BY GoodImage DEF Noticed

LEMMA TypingType ==
  ASSUME NEW s \in Screens, NEW n \in 0..2
  PROVE  [s EXCEPT !.typing = n] \in Screens
<1> DEFINE D == 0..2
<1>1. s \in [proverb : Proverbs, image : Images, savedImage : Images,
             progressView : BOOLEAN, inProgress : BOOLEAN,
             animations : Seq(BOOLEAN), typing : D] /\ n \in D
  BY DEF Screens
<1> HIDE DEF D
<1>2. [s EXCEPT !.typing = n] \in
            [proverb : Proverbs, image : Images, savedImage : Images,
             progressView : BOOLEAN, inProgress : BOOLEAN,
             animations : Seq(BOOLEAN), typing : D]
  BY <1>1
<1> QED BY <1>2 DEF Screens, D

\* A proverb to be typed: it replaces the screen's, and the controls are off.
LEMMA GoodTyping ==
  ASSUME NEW s, Good(s), NEW p \in Proverbs
  PROVE  Good([s EXCEPT !.proverb = p, !.inProgress = TRUE, !.typing = 2])
<1> DEFINE r == [s EXCEPT !.proverb = p, !.inProgress = TRUE, !.typing = 2]
<1>1. s \in Screens
  BY DEF Good
<1>2. /\ r.image = s.image /\ r.savedImage = s.savedImage /\ r.progressView = s.progressView
      /\ r.animations = s.animations /\ r.typing = 2
  BY <1>1 DEF Screens
<1>3. r \in Screens
  <2>1. [s EXCEPT !.proverb = p] \in Screens
    BY <1>1 DEF Screens
  <2>2. [[s EXCEPT !.proverb = p] EXCEPT !.inProgress = TRUE] \in Screens
    BY <2>1 DEF Screens
  <2>3. 2 \in 0..2
    OBVIOUS
  <2>4. [[[s EXCEPT !.proverb = p] EXCEPT !.inProgress = TRUE] EXCEPT !.typing = 2] \in Screens
    BY <2>2, <2>3, TypingType
  <2> QED BY <2>4, Zenon
<1>4. HasImage(r)
  BY <1>2 DEF Good, HasImage
<1>5. Fits(r) /\ LastAnimation(r)
  BY <1>2 DEF Good, Fits, LastAnimation
<1>6. Released(r)
  BY <1>2 DEF Released
<1> QED BY <1>3, <1>4, <1>5, <1>6 DEF Good

(***************************************************************************)
(* What the parts of the handlers keep                                     *)
(***************************************************************************)
StoresOK == /\ where \in {"local", "remote", "none"}
            /\ local \in SUBSET Docs /\ server \in SUBSET Docs
TapsOK == taps \in [Taps -> TapRecords]
ChecksOK == checks \in Seq(CheckRecords) /\ Len(checks) <= MaxChecks
WritesOK == writes \in Seq(WriteRecords) /\ Len(writes) <= MaxWrites
ExcusesOK == excuses \in SUBSET ExcuseKinds

\* A progress that is shown has a tap to end it.
Held == screen.progressView => \E t \in Taps : taps[t].stage # "idle"

Inv == StoresOK /\ Good(screen) /\ TapsOK /\ ChecksOK /\ WritesOK /\ ExcusesOK /\ Held

LEMMA CheckDone ==
  ASSUME NEW s, Good(s), ChecksOK, NEW objects, CheckButton(s, objects)
  PROVE  Good(screen') /\ screen'.progressView = s.progressView /\ ChecksOK'
<1>1. s.proverb \in Proverbs
  BY DEF Good, Screens
<1>2. CASE where = "remote"
  <2> DEFINE c == [proverb |-> s.proverb, answer |-> "none"]
  <2>1. c \in CheckRecords
    BY <1>1 DEF CheckRecords
  <2>2. checks' = Append(checks, c) /\ Len(checks) < MaxChecks /\ screen' = s
    BY <1>2 DEF CheckButton
  <2>3. ChecksOK'
    BY <2>1, <2>2, ProverbScreenAssumption DEF ChecksOK
  <2> QED BY <2>2, <2>3
<1>3. CASE where # "remote"
  <2> DEFINE image == ImageFor(s.proverb, IF where = "local" THEN objects ELSE {})
  <2>1. screen' = [s EXCEPT !.image = image] /\ checks' = checks
    BY <1>3 DEF CheckButton
  <2>2. image \in {"favorite", "unfavorite"}
    BY DEF ImageFor
  <2>3. Good(screen') /\ screen'.progressView = s.progressView
    BY <2>1, <2>2, GoodImage
  <2> QED BY <2>1, <2>3 DEF ChecksOK
<1> QED BY <1>2, <1>3

\* A completion ends the progress, and leaves a good screen.
LEMMA Finished ==
  ASSUME NEW s, Good(s), ChecksOK, NEW kind, NEW p, NEW ok \in BOOLEAN,
         Finish(s, kind, p, ok)
  PROVE  Good(screen') /\ ~screen'.progressView /\ ChecksOK'
<1> DEFINE noticed == IF ok THEN Noticed(s, kind, p) ELSE s
           ended == Progress(noticed, FALSE)
           undone == IF kind = "save" THEN "unfavorite" ELSE "favorite"
           final == IF ok THEN ended ELSE [ended EXCEPT !.image = undone]
<1>1. Good(noticed)
  BY GoodNoticed
<1>2. Good(ended) /\ ~ended.progressView
  <2> HIDE DEF noticed
  <2> QED BY <1>1, GoodProgress
<1>3. undone \in {"favorite", "unfavorite"}
  OBVIOUS
<1>4. Good(final) /\ ~final.progressView
  <2> HIDE DEF ended, undone
  <2> QED BY <1>2, <1>3, GoodImage
<1>5. CheckButton(final, local')
  BY DEF Finish
<1> HIDE DEF final
<1> QED BY <1>4, <1>5, CheckDone

LEMMA TapTypes ==
  ASSUME NEW p \in Proverbs
  PROVE  /\ NoTap \in TapRecords
         /\ \A st \in {"get", "write", "dropped", "check"} :
              /\ [NoTap EXCEPT !.stage = st, !.proverb = p] \in TapRecords
              /\ [NoTap EXCEPT !.stage = st, !.proverb = p].stage = st
<1>1. (CHOOSE q \in Proverbs : TRUE) \in Proverbs
  OBVIOUS
<1>2. NoTap \in TapRecords
  BY <1>1 DEF NoTap, TapRecords
<1> QED BY <1>2 DEF TapRecords

\* The tap t ends, or goes on with a record of another stage.
LEMMA TapStep ==
  ASSUME TapsOK, NEW t \in Taps, NEW record \in TapRecords,
         taps' = [taps EXCEPT ![t] = record]
  PROVE  TapsOK' /\ taps'[t] = record
  BY DEF TapsOK

LEMMA WriteStep ==
  ASSUME WritesOK, Len(writes) < MaxWrites, NEW kind \in {"save", "delete"}, NEW d \in Docs,
         NEW tap \in Taps \cup {Elsewhere},
         writes' = Append(writes, [kind |-> kind, doc |-> d, tap |-> tap])
  PROVE  WritesOK'
<1>1. [kind |-> kind, doc |-> d, tap |-> tap] \in WriteRecords
  BY DEF WriteRecords
<1> QED BY <1>1, ProverbScreenAssumption DEF WritesOK

LEMMA NewDocs == \A p : New(p) \subseteq Docs
  BY DEF New, Of

\* After save or delete the tap goes on, or the progress is over.
After(t) == screen'.progressView => taps'[t].stage # "idle"

LEMMA SaveKeeps ==
  ASSUME StoresOK, TapsOK, ChecksOK, WritesOK, NEW s, Good(s), NEW t \in Taps,
         NEW p \in Proverbs, Save(t, p, s), UNCHANGED where
  PROVE  StoresOK' /\ Good(screen') /\ TapsOK' /\ ChecksOK' /\ WritesOK' /\ After(t)
<1>0. NoTap \in TapRecords
  BY TapTypes
<1>1. ASSUME where = "local",
             \/ \E d \in New(p) : local' = local \cup {d} /\ Finish(s, "save", p, TRUE)
             \/ UNCHANGED local /\ Finish(s, "save", p, FALSE),
             taps' = [taps EXCEPT ![t] = NoTap], UNCHANGED <<server, writes>>
      PROVE  StoresOK' /\ Good(screen') /\ TapsOK' /\ ChecksOK' /\ WritesOK' /\ After(t)
  <2>1. Good(screen') /\ ~screen'.progressView /\ ChecksOK'
    BY <1>1, Finished
  <2>2. StoresOK'
    BY <1>1, NewDocs DEF StoresOK
  <2>3. TapsOK'
    BY <1>0, <1>1, TapStep
  <2> QED BY <2>1, <2>2, <2>3, <1>1 DEF After, WritesOK
<1>2. ASSUME where = "remote", Len(writes) < MaxWrites,
             NEW d \in New(p), writes' = Append(writes, [kind |-> "save", doc |-> d, tap |-> t]),
             taps' = [taps EXCEPT ![t] = [NoTap EXCEPT !.stage = "write", !.proverb = p]],
             screen' = s, UNCHANGED <<local, server, checks>>
      PROVE  StoresOK' /\ Good(screen') /\ TapsOK' /\ ChecksOK' /\ WritesOK' /\ After(t)
  <2>1. TapsOK' /\ taps'[t].stage = "write"
    BY <1>2, TapTypes, TapStep
  <2>2. WritesOK'
    BY <1>2, NewDocs, WriteStep
  <2> QED BY <2>1, <2>2, <1>2 DEF After, StoresOK, ChecksOK
<1>3. ASSUME where = "none", UNCHANGED <<local, server, writes>>,
             Finish(s, "save", p, FALSE), taps' = [taps EXCEPT ![t] = NoTap]
      PROVE  StoresOK' /\ Good(screen') /\ TapsOK' /\ ChecksOK' /\ WritesOK' /\ After(t)
  <2>1. Good(screen') /\ ~screen'.progressView /\ ChecksOK'
    BY <1>3, Finished
  <2>2. TapsOK'
    BY <1>0, <1>3, TapStep
  <2> QED BY <2>1, <2>2, <1>3 DEF After, StoresOK, WritesOK
<1> QED BY <1>1, <1>2, <1>3 DEF Save

LEMMA DeleteKeeps ==
  ASSUME StoresOK, TapsOK, ChecksOK, WritesOK, NEW s, Good(s), NEW t \in Taps,
         NEW p \in Proverbs, Delete(t, p, s), UNCHANGED where
  PROVE  StoresOK' /\ Good(screen') /\ TapsOK' /\ ChecksOK' /\ WritesOK' /\ After(t)
<1>0. NoTap \in TapRecords
  BY TapTypes
<1>1. ASSUME NEW ok \in BOOLEAN, Finish(s, "delete", p, ok),
             taps' = [taps EXCEPT ![t] = NoTap]
      PROVE  Good(screen') /\ TapsOK' /\ ChecksOK' /\ After(t)
  <2>1. Good(screen') /\ ~screen'.progressView /\ ChecksOK'
    BY <1>1, Finished
  <2>2. TapsOK'
    BY <1>0, <1>1, TapStep
  <2> QED BY <2>1, <2>2 DEF After
<1>2. ASSUME NEW st \in {"get", "dropped"}, screen' = s, UNCHANGED checks,
             taps' = [taps EXCEPT ![t] = [NoTap EXCEPT !.stage = st, !.proverb = p]]
      PROVE  Good(screen') /\ TapsOK' /\ ChecksOK' /\ After(t)
  <2>1. TapsOK' /\ taps'[t].stage = st
    BY <1>2, TapTypes, TapStep
  <2> QED BY <2>1, <1>2 DEF After, ChecksOK
<1>3. Good(screen') /\ TapsOK' /\ ChecksOK' /\ After(t)
  BY <1>1, <1>2 DEF Delete
<1>4. StoresOK' /\ WritesOK'
  BY DEF Delete, StoresOK, WritesOK
<1> QED BY <1>3, <1>4

(***************************************************************************)
(* The invariant                                                           *)
(***************************************************************************)
LEMMA KeepsImage == Inv => ButtonKeepsImage
  BY DEF Inv, Good, HasImage, ButtonKeepsImage

LEMMA Types == Inv => ProverbScreenTypeOK
  BY DEF Inv, Good, Fits, StoresOK, TapsOK, ChecksOK, WritesOK, ExcusesOK, ProverbScreenTypeOK

LEMMA ComesBack == Inv => ControlsComeBack
  BY DEF Inv, Good, Released, Held, ControlsComeBack

LEMMA InvInit == Init => Inv
<1> SUFFICES ASSUME Init PROVE Inv
  OBVIOUS
<1>1. PICK p \in Proverbs :
        /\ screen = [proverb |-> p, savedImage |-> "blank", progressView |-> FALSE,
                     image |-> IF where = "remote" THEN "unfavorite" ELSE ImageFor(p, Kept),
                     inProgress |-> TRUE, animations |-> << >>, typing |-> 2]
        /\ checks = IF where = "remote" THEN <<[proverb |-> p, answer |-> "none"]>> ELSE << >>
  BY DEF Init
<1>2. StoresOK
  BY ProverbScreenAssumption DEF Init, StoresOK
<1>3. Good(screen)
  <2> DEFINE image == IF where = "remote" THEN "unfavorite" ELSE ImageFor(p, Kept)
  <2>1. image \in Images /\ image # "blank"
    BY DEF ImageFor, Images
  <2>2. << >> \in Seq(BOOLEAN) /\ Len(<< >>) = 0 /\ 2 \in 0..2 /\ "blank" \in Images
    BY DEF Images
  <2> HIDE DEF image
  <2>3. screen.animations = << >> /\ screen.progressView = FALSE /\ screen.typing = 2
        /\ screen.savedImage = "blank" /\ screen.image = image
    BY <1>1 DEF image
  <2>4. screen \in Screens
    <3> DEFINE D == 0..2
               two == 2
    <3>1. /\ screen = [proverb |-> p, savedImage |-> "blank", progressView |-> FALSE,
                       image |-> image, inProgress |-> TRUE, animations |-> << >>,
                       typing |-> two]
          /\ two \in D /\ Screens = [proverb : Proverbs, image : Images,
                savedImage : Images, progressView : BOOLEAN, inProgress : BOOLEAN,
                animations : Seq(BOOLEAN), typing : D]
      BY <1>1, <2>2 DEF Screens, image
    <3> HIDE DEF D, two
    <3> QED BY <3>1, <2>1, <2>2
  <2>5. Fits(screen)
    BY <2>2, <2>3, ProverbScreenAssumption DEF Fits
  <2>6. HasImage(screen) /\ LastAnimation(screen)
    BY <2>1, <2>3 DEF HasImage, LastAnimation
  <2>7. Released(screen)
    BY <2>3 DEF Released
  <2> QED BY <2>4, <2>5, <2>6, <2>7 DEF Good
<1>4. TapsOK
  BY TapTypes, <1>1 DEF Init, TapsOK
<1>5. ChecksOK
  <2>1. CASE where = "remote"
    <3> DEFINE c == [proverb |-> p, answer |-> "none"]
    <3>1. c \in CheckRecords /\ checks = <<c>>
      BY <2>1, <1>1 DEF CheckRecords
    <3> HIDE DEF c
    <3>2. checks \in Seq(CheckRecords) /\ Len(checks) = 1
      BY <3>1
    <3> QED BY <3>2, ProverbScreenAssumption DEF ChecksOK
  <2>2. CASE where # "remote"
    BY <2>2, <1>1, ProverbScreenAssumption DEF ChecksOK
  <2> QED BY <2>1, <2>2
<1>6. WritesOK /\ ExcusesOK
  BY ProverbScreenAssumption DEF Init, WritesOK, ExcusesOK
<1>7. Held
  BY <1>1 DEF Held
<1> QED BY <1>2, <1>3, <1>4, <1>5, <1>6, <1>7 DEF Inv

LEMMA ExcusedOK ==
  ASSUME ExcusesOK, NEW S \in SUBSET ExcuseKinds, Excused(S)
  PROVE  ExcusesOK'
  BY DEF ExcusesOK, Excused

LEMMA ForgiveOK == ExcusesOK /\ Forgive => ExcusesOK'
  BY DEF ExcusesOK, Forgive

\* A label is typed.
LEMMA GoodTyped ==
  ASSUME Inv, Typed
  PROVE  Good(screen') /\ screen'.progressView = screen.progressView
<1> DEFINE n == screen.typing - 1
           off == IF screen.typing = 1 THEN FALSE ELSE screen.inProgress
<1>1. screen \in Screens /\ Good(screen) /\ off \in BOOLEAN
  BY DEF Inv, Good, Screens
<1>2. screen.typing \in 0..2
  BY <1>1 DEF Screens
<1>3. n \in 0..2
  BY <1>2 DEF Typed
<1>4. n = 0 => screen.typing = 1
  BY <1>2
<1> HIDE DEF n
<1>5. screen' = [screen EXCEPT !.typing = n, !.inProgress = off]
  BY DEF Typed, n
<1>6. /\ screen'.typing = n /\ screen'.inProgress = off /\ screen'.image = screen.image
      /\ screen'.savedImage = screen.savedImage /\ screen'.progressView = screen.progressView
      /\ screen'.animations = screen.animations
  BY <1>1, <1>5 DEF Screens
<1>7. screen' \in Screens
  <2>1. [screen EXCEPT !.typing = n] \in Screens
    BY <1>1, <1>3, TypingType
  <2>2. [[screen EXCEPT !.typing = n] EXCEPT !.inProgress = off] \in Screens
    BY <2>1, <1>1 DEF Screens
  <2> QED BY <2>2, <1>5, Zenon
<1>8. n = 0 => ~off
  BY <1>4
<1>9. Released(screen')
  BY <1>6, <1>8 DEF Released
<1> QED BY <1>1, <1>6, <1>7, <1>9 DEF Good, HasImage, Fits, LastAnimation

LEMMA HeadAndTail ==
  ASSUME NEW S, NEW q \in Seq(S), q # << >>
  PROVE  /\ Head(q) \in S /\ Tail(q) \in Seq(S) /\ Len(Tail(q)) = Len(q) - 1
         /\ Tail(q) # << >> => Tail(q)[Len(Tail(q))] = q[Len(q)]
         /\ Tail(q) = << >> => Head(q) = q[Len(q)]
<1>1. /\ Head(q) \in S /\ Tail(q) \in Seq(S) /\ Len(Tail(q)) = Len(q) - 1
      /\ Len(q) \in Nat /\ Len(q) >= 1 /\ Head(q) = q[1]
  OBVIOUS
<1>2. ASSUME Tail(q) # << >> PROVE Tail(q)[Len(Tail(q))] = q[Len(q)]
  <2>1. Len(Tail(q)) \in 1..(Len(q) - 1)
    BY <1>1, <1>2
  <2>2. \A i \in 1..(Len(q) - 1) : Tail(q)[i] = q[i + 1]
    BY <1>1
  <2>3. Len(Tail(q)) + 1 = Len(q)
    BY <1>1
  <2> QED BY <2>1, <2>2, <2>3
<1>3. ASSUME Tail(q) = << >> PROVE Head(q) = q[Len(q)]
  <2>1. Len(<< >>) = 0
    OBVIOUS
  <2>2. Len(Tail(q)) = 0
    BY <1>3, <2>1, Zenon
  <2>3. Len(q) - 1 = 0 /\ Len(q) \in Nat
    BY <1>1, <2>2, Zenon
  <2>4. Len(q) = 1
    BY <2>3
  <2> QED BY <1>1, <2>4
<1> QED BY <1>1, <1>2, <1>3

LEMMA WithoutOne ==
  ASSUME NEW S, NEW q \in Seq(S), NEW n \in DOMAIN q
  PROVE  RemoveAt(q, n) \in Seq(S) /\ Len(RemoveAt(q, n)) = Len(q) - 1
<1> DEFINE u == SubSeq(q, 1, n - 1)
           v == SubSeq(q, n + 1, Len(q))
<1>1. Len(q) \in Nat /\ n \in 1..Len(q)
  OBVIOUS
<1>2. u \in Seq(S) /\ Len(u) = n - 1 /\ v \in Seq(S) /\ Len(v) = Len(q) - n
  BY <1>1
<1>3. RemoveAt(q, n) = u \o v
  BY DEF RemoveAt
<1> HIDE DEF u, v
<1>4. u \o v \in Seq(S) /\ Len(u \o v) = Len(u) + Len(v)
  BY <1>2, ConcatProperties
<1> QED BY <1>1, <1>2, <1>3, <1>4

\* An animation ends.
LEMMA GoodEnd ==
  ASSUME Inv, AnimationEnds
  PROVE  Good(screen') /\ screen'.progressView = screen.progressView
<1> DEFINE q == screen.animations
<1>1. screen \in Screens /\ Good(screen)
  BY DEF Inv, Good
<1>2. q \in Seq(BOOLEAN) /\ q # << >>
  BY <1>1 DEF Screens, AnimationEnds
<1>3. Head(q) \in BOOLEAN /\ Tail(q) \in Seq(BOOLEAN)
  BY <1>2, HeadAndTail
<1>4. screen' = [screen EXCEPT !.inProgress = Head(q), !.animations = Tail(q)]
  BY DEF AnimationEnds
<1>5. /\ screen'.inProgress = Head(q) /\ screen'.animations = Tail(q)
      /\ screen'.typing = screen.typing /\ screen'.image = screen.image
      /\ screen'.savedImage = screen.savedImage /\ screen'.progressView = screen.progressView
  BY <1>1, <1>4 DEF Screens
<1>6. screen' \in Screens
  BY <1>1, <1>3, <1>4 DEF Screens
<1>7. Len(Tail(q)) = Len(q) - 1 /\ Len(q) \in Nat /\ MaxAnimations \in Nat
  BY <1>2, HeadAndTail, ProverbScreenAssumption
<1>8. HasImage(screen')
  BY <1>1, <1>5 DEF Good, HasImage
<1>9. Fits(screen')
  BY <1>1, <1>5, <1>7 DEF Good, Fits
<1>10. Tail(q) # << >> => Tail(q)[Len(Tail(q))] = q[Len(q)]
  BY <1>2, HeadAndTail
<1>11. Tail(q) = << >> => Head(q) = q[Len(q)]
  BY <1>2, HeadAndTail
<1>12. ~screen.progressView => ~q[Len(q)]
  BY <1>1, <1>2 DEF Good, LastAnimation
<1>13. LastAnimation(screen') /\ Released(screen')
  BY <1>5, <1>10, <1>11, <1>12 DEF LastAnimation, Released
<1> QED BY <1>5, <1>6, <1>8, <1>9, <1>13 DEF Good

LEMMA HeldSame ==
  ASSUME Held, UNCHANGED taps, screen'.progressView = screen.progressView
  PROVE  Held'
  BY DEF Held

LEMMA HeldAfter ==
  ASSUME NEW t \in Taps, After(t)
  PROVE  Held'
  BY DEF Held, After

LEMMA InvAnswerCheck ==
  ASSUME Inv, NEW n \in 1..MaxChecks, AnswerCheck(n)
  PROVE  Inv'
<1> DEFINE answered(a) == [checks EXCEPT ![n].answer = a]
<1>1. checks \in Seq(CheckRecords) /\ n \in DOMAIN checks /\ Len(checks) <= MaxChecks
  BY DEF Inv, ChecksOK, AnswerCheck
<1>2. ASSUME NEW a \in {"favorite", "unfavorite"}, checks' = answered(a)
      PROVE  ChecksOK'
  <2>1. checks[n] \in CheckRecords
    BY <1>1
  <2>2. [checks[n] EXCEPT !.answer = a] \in CheckRecords
    BY <2>1 DEF CheckRecords
  <2>3. checks' = [checks EXCEPT ![n] = [checks[n] EXCEPT !.answer = a]]
    BY <1>2
  <2>4. checks' \in Seq(CheckRecords) /\ Len(checks') = Len(checks)
    BY <1>1, <2>2, <2>3
  <2> QED BY <1>1, <2>4 DEF ChecksOK
<1>3. ImageFor(checks[n].proverb, Seen) \in {"favorite", "unfavorite"}
  BY DEF ImageFor
<1>4. ChecksOK'
  BY <1>2, <1>3 DEF AnswerCheck
<1>5. ExcusesOK'
  BY ExcusedOK DEF AnswerCheck, Inv, ExcuseKinds, ExcusesOK
<1>6. UNCHANGED <<where, local, server, screen, taps, writes>>
  BY DEF AnswerCheck
<1> QED BY <1>4, <1>5, <1>6 DEF Inv, StoresOK, TapsOK, WritesOK, Held

LEMMA InvDeliverCheck ==
  ASSUME Inv, NEW n \in 1..MaxChecks, DeliverCheck(n)
  PROVE  Inv'
<1>1. checks \in Seq(CheckRecords) /\ n \in DOMAIN checks /\ Len(checks) <= MaxChecks
  BY DEF Inv, ChecksOK, DeliverCheck
<1>2. checks[n].answer \in {"favorite", "unfavorite"}
  <2>1. checks[n] \in CheckRecords
    BY <1>1
  <2> QED BY <2>1 DEF DeliverCheck, CheckRecords
<1>3. Good(screen') /\ screen'.progressView = screen.progressView
  BY <1>2, GoodImage DEF DeliverCheck, Inv
<1>4. ChecksOK'
  <2>1. checks' \in Seq(CheckRecords) /\ Len(checks') = Len(checks) - 1
    BY <1>1, WithoutOne DEF DeliverCheck
  <2>2. Len(checks) \in Nat /\ MaxChecks \in Nat
    BY <1>1, ProverbScreenAssumption
  <2> QED BY <2>1, <2>2, <1>1 DEF ChecksOK
<1>5. ExcusesOK'
  BY ExcusedOK DEF DeliverCheck, Inv, ExcuseKinds
<1>6. UNCHANGED <<where, local, server, taps, writes>>
  BY DEF DeliverCheck
<1> QED BY <1>3, <1>4, <1>5, <1>6, HeldSame DEF Inv, StoresOK, TapsOK, WritesOK

LEMMA InvShowing ==
  ASSUME Inv, (\E p \in Proverbs : ShowNext(p)) \/ Appear
  PROVE  Inv'
<1>1. PICK s : /\ Good(s) /\ s.progressView = screen.progressView
               /\ CheckButton(s, local)
  <2>1. ASSUME NEW p \in Proverbs, ShowNext(p)
        PROVE  \E s : /\ Good(s) /\ s.progressView = screen.progressView
                      /\ CheckButton(s, local)
    <3> DEFINE s == [screen EXCEPT !.proverb = p, !.inProgress = TRUE, !.typing = 2]
    <3>1. Good(s)
      BY GoodTyping DEF Inv
    <3>2. s.progressView = screen.progressView
      BY DEF Inv, Good, Screens
    <3>3. CheckButton(s, local)
      BY <2>1 DEF ShowNext
    <3> QED BY <3>1, <3>2, <3>3
  <2> QED BY <2>1 DEF Appear, Inv
<1>2. Good(screen') /\ screen'.progressView = screen.progressView /\ ChecksOK'
  BY <1>1, CheckDone DEF Inv
<1>3. UNCHANGED <<where, local, server, taps, writes>> /\ ExcusesOK'
  BY ForgiveOK DEF ShowNext, Appear, Inv
<1> QED BY <1>2, <1>3, HeldSame DEF Inv, StoresOK, TapsOK, WritesOK

LEMMA InvScreenOnly ==
  ASSUME Inv, Typed \/ AnimationEnds
  PROVE  Inv'
<1>1. Good(screen') /\ screen'.progressView = screen.progressView
  BY GoodTyped, GoodEnd
<1>2. UNCHANGED <<where, local, server, taps, checks, writes, excuses>>
  BY DEF Typed, AnimationEnds
<1> QED BY <1>1, <1>2, HeldSame DEF Inv, StoresOK, TapsOK, ChecksOK, WritesOK, ExcusesOK

LEMMA InvTap ==
  ASSUME Inv, NEW t \in Taps, Tap(t)
  PROVE  Inv'
<1> DEFINE s == Progress(screen, TRUE)
           p == screen.proverb
<1>1. Good(s) /\ p \in Proverbs
  BY GoodProgress DEF Inv, Tap, Free, Good, Screens
<1> HIDE DEF s
<1>2. UNCHANGED where /\ ExcusesOK'
  BY DEF Tap, Inv, ExcusesOK
<1>3. CASE where = "remote"
  <2>1. /\ taps' = [taps EXCEPT ![t] = [NoTap EXCEPT !.stage = "check", !.proverb = p]]
        /\ screen' = s /\ UNCHANGED <<local, server, checks, writes>>
    BY <1>3 DEF Tap, s
  <2>2. TapsOK' /\ taps'[t].stage = "check"
    BY <1>1, <2>1, TapTypes, TapStep DEF Inv
  <2>3. Held'
    BY <2>2, HeldAfter DEF After
  <2> QED BY <1>1, <1>2, <2>1, <2>2, <2>3 DEF Inv, StoresOK, ChecksOK, WritesOK
<1>4. CASE where # "remote"
  <2>1. Save(t, p, s) \/ Delete(t, p, s)
    BY <1>4 DEF Tap, s
  <2>2. /\ StoresOK' /\ Good(screen') /\ TapsOK' /\ ChecksOK' /\ WritesOK' /\ After(t)
    BY <1>1, <1>2, <2>1, SaveKeeps, DeleteKeeps DEF Inv
  <2> QED BY <1>2, <2>2, HeldAfter DEF Inv
<1> QED BY <1>3, <1>4

LEMMA InvAnswerTap ==
  ASSUME Inv, NEW t \in Taps, AnswerTap(t)
  PROVE  Inv'
<1>1. taps \in [Taps -> TapRecords] /\ taps[t] \in TapRecords
  BY DEF Inv, TapsOK
<1>2. Of(taps[t].proverb, Seen) \in SUBSET Docs
  <2>1. WrittenBy("save", writes) \subseteq Docs
    <3>1. \A n \in DOMAIN writes : writes[n] \in WriteRecords
      BY DEF Inv, WritesOK
    <3>2. \A n \in DOMAIN writes : writes[n].doc \in Docs
      BY <3>1 DEF WriteRecords
    <3> QED BY <3>2 DEF WrittenBy
  <2> QED BY <2>1 DEF Of, Seen, Inv, StoresOK
<1>3. PICK record \in TapRecords :
        record.stage = taps[t].stage /\ taps' = [taps EXCEPT ![t] = record]
  <2>1. CASE taps' = [taps EXCEPT ![t].answer = "failed"]
    <3> DEFINE record == [taps[t] EXCEPT !.answer = "failed"]
    <3>1. record \in TapRecords /\ record.stage = taps[t].stage
      BY <1>1 DEF TapRecords
    <3>2. taps' = [taps EXCEPT ![t] = record]
      BY <2>1, <1>1
    <3> QED BY <3>1, <3>2
  <2>2. CASE taps' = [taps EXCEPT ![t] = [@ EXCEPT !.answer = "read",
                                                   !.docs = Of(taps[t].proverb, Seen)]]
    <3> DEFINE docs == Of(taps[t].proverb, Seen)
               record == [taps[t] EXCEPT !.answer = "read", !.docs = docs]
    <3>1. taps' = [taps EXCEPT ![t] = record]
      BY <2>2, <1>1
    <3>2. docs \in SUBSET Docs
      BY <1>2
    <3> HIDE DEF docs
    <3>3. record \in TapRecords /\ record.stage = taps[t].stage
      BY <1>1, <3>2 DEF TapRecords
    <3> QED BY <3>1, <3>3
  <2> QED BY <2>1, <2>2 DEF AnswerTap
<1>4. TapsOK' /\ \A u \in Taps : taps'[u].stage = taps[u].stage
  BY <1>1, <1>3 DEF TapsOK
<1>5. UNCHANGED <<where, local, server, screen, checks, writes, excuses>>
  BY DEF AnswerTap
<1>6. Held'
  BY <1>4, <1>5 DEF Inv, Held
<1> QED BY <1>4, <1>5, <1>6 DEF Inv, StoresOK, ChecksOK, WritesOK, ExcusesOK

LEMMA InvDeliverTapCheck ==
  ASSUME Inv, NEW t \in Taps, DeliverTapCheck(t)
  PROVE  Inv'
<1>1. taps[t].proverb \in Proverbs
  BY DEF Inv, TapsOK, TapRecords
<1>2. UNCHANGED <<where, excuses>>
  BY DEF DeliverTapCheck
<1>3. Save(t, taps[t].proverb, screen) \/ Delete(t, taps[t].proverb, screen)
  BY DEF DeliverTapCheck
<1>4. StoresOK' /\ Good(screen') /\ TapsOK' /\ ChecksOK' /\ WritesOK' /\ After(t)
  BY <1>1, <1>2, <1>3, SaveKeeps, DeleteKeeps DEF Inv
<1> QED BY <1>2, <1>4, HeldAfter DEF Inv, ExcusesOK

LEMMA InvDeliverTapGet ==
  ASSUME Inv, NEW t \in Taps, DeliverTapGet(t)
  PROVE  Inv'
<1>1. taps[t].proverb \in Proverbs /\ taps[t].docs \subseteq Docs
  BY DEF Inv, TapsOK, TapRecords
<1>2. UNCHANGED <<where, local, server, excuses>>
  BY DEF DeliverTapGet
<1>3. CASE Finish(screen, "delete", taps[t].proverb, FALSE)
           /\ taps' = [taps EXCEPT ![t] = NoTap] /\ UNCHANGED writes
  <2>1. Good(screen') /\ ~screen'.progressView /\ ChecksOK'
    BY <1>3, Finished DEF Inv
  <2>2. TapsOK'
    BY <1>1, <1>3, TapTypes, TapStep DEF Inv
  <2> QED BY <2>1, <2>2, <1>2, <1>3 DEF Inv, Held, StoresOK, WritesOK, ExcusesOK
<1>4. ASSUME NEW d \in taps[t].docs, Len(writes) < MaxWrites,
             writes' = Append(writes, [kind |-> "delete", doc |-> d, tap |-> t]),
             taps' = [taps EXCEPT ![t] = [NoTap EXCEPT !.stage = "write",
                                                       !.proverb = taps[t].proverb]],
             UNCHANGED <<screen, checks>>
      PROVE  Inv'
  <2>1. TapsOK' /\ taps'[t].stage = "write"
    BY <1>1, <1>4, TapTypes, TapStep DEF Inv
  <2>2. WritesOK'
    BY <1>1, <1>4, WriteStep DEF Inv
  <2>3. Held'
    BY <2>1, HeldAfter DEF After
  <2> QED BY <2>1, <2>2, <2>3, <1>2, <1>4 DEF Inv, StoresOK, ChecksOK, ExcusesOK
<1> QED BY <1>3, <1>4 DEF DeliverTapGet

LEMMA InvSettleWrite ==
  ASSUME Inv, NEW ok \in BOOLEAN, SettleWrite(ok)
  PROVE  Inv'
<1> DEFINE w == Head(writes)
<1>1. writes \in Seq(WriteRecords) /\ writes # << >> /\ Len(writes) <= MaxWrites
  BY DEF Inv, WritesOK, SettleWrite
<1>2. w \in WriteRecords /\ writes' \in Seq(WriteRecords) /\ Len(writes') = Len(writes) - 1
  BY <1>1, HeadAndTail DEF SettleWrite
<1>3. w.doc \in Docs /\ w.tap \in Taps \cup {Elsewhere} /\ w.doc.origin \in Proverbs
  BY <1>2, ProverbScreenAssumption DEF WriteRecords
<1> HIDE DEF w
<1>4. WritesOK'
  BY <1>1, <1>2, ProverbScreenAssumption DEF WritesOK
<1>5. StoresOK'
  <2>1. server' \subseteq server \cup {w.doc}
    BY DEF SettleWrite, w
  <2>2. UNCHANGED <<where, local>>
    BY DEF SettleWrite
  <2> QED BY <1>3, <2>1, <2>2 DEF Inv, StoresOK
<1>6. CASE w.tap = Elsewhere
  <2>1. /\ screen' = IF ok THEN Noticed(screen, w.kind, w.doc.origin) ELSE screen
        /\ Excused(IF ~ok \/ Of(w.doc.origin, Seen \ {w.doc}) # {} THEN {"elsewhere"} ELSE {})
        /\ UNCHANGED <<taps, checks>>
    BY <1>6 DEF SettleWrite, w
  <2>2. Good(screen') /\ screen'.progressView = screen.progressView
    BY <2>1, GoodNoticed DEF Inv
  <2>3. ExcusesOK'
    BY <2>1, ExcusedOK DEF Inv, ExcuseKinds
  <2> QED BY <1>4, <1>5, <2>1, <2>2, <2>3, HeldSame DEF Inv, TapsOK, ChecksOK
<1>7. CASE w.tap # Elsewhere
  <2>1. /\ Finish(screen, w.kind, w.doc.origin, ok)
        /\ taps' = [taps EXCEPT ![w.tap] = NoTap] /\ UNCHANGED excuses
    BY <1>7 DEF SettleWrite, w
  <2>2. Good(screen') /\ ~screen'.progressView /\ ChecksOK'
    BY <2>1, Finished DEF Inv
  <2>3. TapsOK'
    BY <1>3, <1>7, <2>1, TapTypes, TapStep DEF Inv
  <2> QED BY <1>4, <1>5, <2>1, <2>2, <2>3 DEF Inv, Held, ExcusesOK
<1> QED BY <1>6, <1>7

LEMMA InvOtherScreenWrites ==
  ASSUME Inv, NEW kind \in {"save", "delete"}, NEW d \in Docs, OtherScreenWrites(kind, d)
  PROVE  Inv'
<1>1. UNCHANGED <<where, server, taps, checks>>
  BY DEF OtherScreenWrites
<1>2. ASSUME Len(writes) < MaxWrites, UNCHANGED <<local, screen, excuses>>,
             writes' = Append(writes, [kind |-> kind, doc |-> d, tap |-> Elsewhere])
      PROVE  Inv'
  <2>1. WritesOK'
    BY <1>2, WriteStep DEF Inv
  <2> QED BY <2>1, <1>1, <1>2, HeldSame DEF Inv, StoresOK, TapsOK, ChecksOK, ExcusesOK
<1>3. ASSUME local' = IF kind = "save" THEN local \cup {d} ELSE local \ {d},
             screen' = Noticed(screen, kind, d.origin), UNCHANGED writes,
             Excused(IF Of(d.origin, local \ {d}) # {} THEN {"elsewhere"} ELSE {})
      PROVE  Inv'
  <2>1. Good(screen') /\ screen'.progressView = screen.progressView
    BY <1>3, GoodNoticed DEF Inv
  <2>2. ExcusesOK'
    BY <1>3, ExcusedOK DEF Inv, ExcuseKinds
  <2>3. StoresOK'
    BY <1>1, <1>3 DEF Inv, StoresOK
  <2> QED BY <2>1, <2>2, <2>3, <1>1, <1>3, HeldSame DEF Inv, TapsOK, ChecksOK, WritesOK
<1> QED BY <1>2, <1>3 DEF OtherScreenWrites

LEMMA InvSwitch ==
  ASSUME Inv, Switch
  PROVE  Inv'
<1>1. ExcusesOK'
  BY ExcusedOK DEF Inv, Switch, ExcuseKinds
<1>2. StoresOK'
  BY DEF Inv, Switch, StoresOK
<1> QED BY <1>1, <1>2, HeldSame DEF Inv, Switch, TapsOK, ChecksOK, WritesOK

LEMMA InvStep == Inv /\ [Next]_vars => Inv'
<1> SUFFICES ASSUME Inv, [Next]_vars PROVE Inv'
  OBVIOUS
<1>1. CASE UNCHANGED vars
  BY <1>1, HeldSame
  DEF vars, Inv, StoresOK, TapsOK, ChecksOK, WritesOK, ExcusesOK
<1> QED
  BY <1>1, InvShowing, InvScreenOnly, InvAnswerCheck, InvDeliverCheck, InvTap, InvAnswerTap,
     InvDeliverTapCheck, InvDeliverTapGet, InvSettleWrite, InvOtherScreenWrites, InvSwitch
  DEF Next

LEMMA ScreenInvariant == Spec => []Inv
  BY InvInit, InvStep, PTL DEF Spec

(***************************************************************************)
(* The image tells the truth                                               *)
(***************************************************************************)
Ended == \A t \in Taps : taps[t].stage \in {"idle", "dropped"}
Written(p) == \E n \in DOMAIN writes : writes[n].doc.origin = p
Right(s) == ~s.progressView => s.image = ImageFor(s.proverb, Kept)

\* The question asked last is about the proverb on the screen.
LastAsks == checks # << >> => checks[Len(checks)].proverb = screen.proverb

\* With the collection: a tap that has not ended asks again when it does, and
\* the write of another screen sets the image when it is settled.  When neither
\* is to come, the answer to the last question is true, or the image is.
RemoteTruth ==
  /\ LastAsks
  /\ Ended /\ ~Written(screen.proverb) =>
       IF checks = << >> THEN Right(screen)
       ELSE checks[Len(checks)].answer \in {"none", ImageFor(screen.proverb, Kept)}

\* Without it nothing is ever under way, and the image is true at once.
Truth == excuses = {} => IF where = "remote" THEN RemoteTruth ELSE Quiet /\ Right(screen)

LEMMA TellsTruth == Truth => ImageTellsTruth
<1> SUFFICES ASSUME Truth, Quiet, ~screen.progressView, excuses = {}
             PROVE  screen.image = ImageFor(screen.proverb, Kept)
  BY DEF ImageTellsTruth
<1>1. checks = << >> /\ writes = << >> /\ Ended
  BY DEF Quiet, Ended
<1>2. ~Written(screen.proverb)
  BY <1>1 DEF Written
<1> QED BY <1>1, <1>2 DEF Truth, RemoteTruth, Right

\* A question asked last says nothing false yet.
LEMMA AskedAgain ==
  ASSUME NEW s, ChecksOK, CheckButton(s, local'), where = "remote", UNCHANGED where
  PROVE  Truth'
<1> DEFINE c == [proverb |-> s.proverb, answer |-> "none"]
<1>1. checks' = Append(checks, c) /\ screen' = s /\ checks \in Seq(CheckRecords)
  BY DEF CheckButton, ChecksOK
<1>2. Len(checks') = Len(checks) + 1 /\ Len(checks) \in Nat /\ checks' # << >>
      /\ checks'[Len(checks) + 1] = c
  <2> HIDE DEF c
  <2> QED BY <1>1
<1>3. checks' # << >> /\ checks'[Len(checks')] = c
  BY <1>2
<1>4. LastAsks'
  BY <1>1, <1>3 DEF LastAsks
<1>5. RemoteTruth'
  BY <1>3, <1>4 DEF RemoteTruth
<1> QED BY <1>5 DEF Truth

\* Without the collection the image is set from the present favourites.
LEMMA ToldAtOnce ==
  ASSUME NEW s \in Screens, CheckButton(s, local'), where # "remote", UNCHANGED where
  PROVE  Right(screen)' /\ UNCHANGED checks
<1> DEFINE image == ImageFor(s.proverb, IF where = "local" THEN local' ELSE {})
<1>1. screen' = [s EXCEPT !.image = image] /\ UNCHANGED checks
  BY DEF CheckButton
<1>2. screen'.image = image /\ screen'.proverb = s.proverb
  <2> HIDE DEF image
  <2> QED BY <1>1 DEF Screens
<1>3. (IF where = "local" THEN local' ELSE {}) = Kept'
  BY DEF Kept
<1>4. image = ImageFor(s.proverb, Kept')
  BY <1>3
<1> HIDE DEF image
<1>5. ImageFor(s.proverb, Kept') = ImageFor(screen.proverb, Kept)'
  BY <1>2 DEF ImageFor, Of
<1> QED BY <1>1, <1>2, <1>4, <1>5 DEF Right

\* A completion asks again.
LEMMA FinishAsks ==
  ASSUME NEW s, Good(s), NEW kind, NEW p, NEW ok \in BOOLEAN, Finish(s, kind, p, ok)
  PROVE  \E r \in Screens : CheckButton(r, local')
<1> DEFINE noticed == IF ok THEN Noticed(s, kind, p) ELSE s
           ended == Progress(noticed, FALSE)
           undone == IF kind = "save" THEN "unfavorite" ELSE "favorite"
           final == IF ok THEN ended ELSE [ended EXCEPT !.image = undone]
<1>1. Good(noticed)
  BY GoodNoticed
<1>2. Good(ended)
  <2> HIDE DEF noticed
  <2> QED BY <1>1, GoodProgress
<1>3. undone \in {"favorite", "unfavorite"}
  OBVIOUS
<1>4. Good(final)
  <2> HIDE DEF ended, undone
  <2> QED BY <1>2, <1>3, GoodImage
<1>5. CheckButton(final, local')
  BY DEF Finish
<1> HIDE DEF final
<1> QED BY <1>4, <1>5 DEF Good

LEMMA FinishTells ==
  ASSUME NEW s, Good(s), ChecksOK, NEW kind, NEW p, NEW ok \in BOOLEAN,
         Finish(s, kind, p, ok), UNCHANGED where
  PROVE  IF where = "remote" THEN Truth' ELSE Right(screen)' /\ UNCHANGED checks
<1>1. PICK r \in Screens : CheckButton(r, local')
  BY FinishAsks
<1> QED BY <1>1, AskedAgain, ToldAtOnce

\* A tap in its place ends, or waits for nothing.
LEMMA StillQuiet ==
  ASSUME TapsOK, Quiet, NEW t \in Taps, NEW record \in TapRecords,
         record.stage \in {"idle", "dropped"},
         taps' = [taps EXCEPT ![t] = record], UNCHANGED <<checks, writes>>
  PROVE  Quiet'
  BY DEF TapsOK, Quiet

\* A tap that goes on: nothing is to be told before it ends.
LEMMA GoesOn ==
  ASSUME TapsOK, NEW t \in Taps, NEW p \in Proverbs, NEW st \in {"check", "get", "write"},
         taps' = [taps EXCEPT ![t] = [NoTap EXCEPT !.stage = st, !.proverb = p]],
         Truth, where = "remote", screen'.proverb = screen.proverb,
         UNCHANGED <<where, checks, excuses>>
  PROVE  Truth'
<1>1. taps'[t].stage = st
  BY TapTypes, TapStep
<1>2. ~Ended'
  BY <1>1 DEF Ended
<1>3. excuses = {} => LastAsks'
  BY DEF Truth, RemoteTruth, LastAsks
<1> QED BY <1>2, <1>3 DEF Truth, RemoteTruth

\* The completion that ends a tap.
LEMMA TapEnds ==
  ASSUME TapsOK, ChecksOK, Truth, NEW s, Good(s), NEW t \in Taps, NEW kind, NEW p,
         NEW ok \in BOOLEAN, Finish(s, kind, p, ok), taps' = [taps EXCEPT ![t] = NoTap],
         UNCHANGED <<where, writes, excuses>>
  PROVE  Truth'
<1>1. IF where = "remote" THEN Truth' ELSE Right(screen)' /\ UNCHANGED checks
  BY FinishTells
<1>2. CASE where # "remote" /\ excuses = {}
  <2>1. Quiet
    BY <1>2 DEF Truth
  <2>2. taps[t].proverb \in Proverbs
    BY DEF TapsOK, TapRecords
  <2>3. NoTap \in TapRecords /\ NoTap.stage = "idle"
    BY <2>2, TapTypes DEF NoTap
  <2>4. Quiet'
    BY <1>1, <1>2, <2>1, <2>3, StillQuiet
  <2> QED BY <1>1, <1>2, <2>4 DEF Truth
<1>3. CASE excuses # {}
  BY <1>3 DEF Truth
<1> QED BY <1>1, <1>2, <1>3

LEMMA SaveTells ==
  ASSUME TapsOK, ChecksOK, Truth, NEW s, Good(s), s.proverb = screen.proverb,
         NEW t \in Taps, NEW p \in Proverbs, Save(t, p, s), UNCHANGED <<where, excuses>>
  PROVE  Truth'
<1>1. CASE where = "remote"
  BY <1>1, GoesOn DEF Save
<1>2. CASE where # "remote"
  BY <1>2, TapEnds DEF Save
<1> QED BY <1>1, <1>2

LEMMA DeleteTells ==
  ASSUME TapsOK, ChecksOK, Truth, NEW s, Good(s), s.proverb = screen.proverb,
         where # "remote" => s.progressView,
         NEW t \in Taps, NEW p \in Proverbs, Delete(t, p, s), UNCHANGED <<where, excuses>>
  PROVE  Truth'
<1>1. CASE where = "remote"
  BY <1>1, GoesOn DEF Delete
<1>2. ASSUME where # "remote", screen' = s, UNCHANGED <<checks, writes>>,
             taps' = [taps EXCEPT ![t] = [NoTap EXCEPT !.stage = "dropped", !.proverb = p]]
      PROVE  Truth'
  <2>1. PICK record \in TapRecords :
          /\ record = [NoTap EXCEPT !.stage = "dropped", !.proverb = p]
          /\ record.stage = "dropped"
    BY TapTypes
  <2>2. excuses = {} => Quiet'
    BY <1>2, <2>1, StillQuiet DEF Truth
  <2>3. Right(screen)'
    BY <1>2 DEF Right
  <2> QED BY <1>2, <2>2, <2>3 DEF Truth
<1>3. CASE where # "remote"
  BY <1>2, <1>3, TapEnds DEF Delete
<1> QED BY <1>1, <1>3

(***************************************************************************)
(* Each step                                                               *)
(***************************************************************************)
LEMMA TruthInit == Init => Truth
<1> SUFFICES ASSUME Init PROVE Truth
  OBVIOUS
<1>1. PICK p \in Proverbs :
        /\ screen = [proverb |-> p, savedImage |-> "blank", progressView |-> FALSE,
                     image |-> IF where = "remote" THEN "unfavorite" ELSE ImageFor(p, Kept),
                     inProgress |-> TRUE, animations |-> << >>, typing |-> 2]
        /\ checks = IF where = "remote" THEN <<[proverb |-> p, answer |-> "none"]>> ELSE << >>
  BY DEF Init
<1>2. CASE where = "remote"
  <2> DEFINE c == [proverb |-> p, answer |-> "none"]
  <2>1. checks = <<c>> /\ screen.proverb = p
    BY <1>1, <1>2
  <2>2. c.proverb = p /\ c.answer = "none"
    OBVIOUS
  <2> HIDE DEF c
  <2>3. Len(checks) = 1 /\ checks[1] = c /\ checks # << >>
    BY <2>1
  <2> QED BY <1>2, <2>1, <2>2, <2>3 DEF Truth, RemoteTruth, LastAsks
<1>3. CASE where # "remote"
  <2>1. Right(screen)
    BY <1>1, <1>3 DEF Right
  <2>2. taps = [t \in Taps |-> NoTap] /\ writes = << >> /\ checks = << >>
    BY <1>1, <1>3 DEF Init
  <2>3. Quiet
    BY <2>2 DEF Quiet, NoTap
  <2> QED BY <1>3, <2>1, <2>3 DEF Truth
<1> QED BY <1>2, <1>3

\* What only touches the labels, the animations or a tap's answer.
LEMMA TruthSame ==
  ASSUME Truth, UNCHANGED <<where, local, server, checks, writes, excuses>>,
         /\ screen'.proverb = screen.proverb /\ screen'.image = screen.image
         /\ screen'.progressView = screen.progressView,
         \A t \in Taps : taps'[t].stage = taps[t].stage
  PROVE  Truth'
<1>1. Kept' = Kept
  BY DEF Kept, Seen, WrittenBy
<1>2. Right(screen)' <=> Right(screen)
  BY <1>1 DEF Right
<1>3. (Ended' <=> Ended) /\ (Quiet' <=> Quiet) /\ (LastAsks' <=> LastAsks)
  BY DEF Ended, Quiet, LastAsks
<1>4. Written(screen.proverb)' <=> Written(screen.proverb)
  BY DEF Written
<1>5. ImageFor(screen.proverb, Kept)' = ImageFor(screen.proverb, Kept)
  BY <1>1 DEF ImageFor, Of
<1>6. RemoteTruth' <=> RemoteTruth
  BY <1>2, <1>3, <1>4, <1>5 DEF RemoteTruth
<1> QED BY <1>2, <1>3, <1>6 DEF Truth

LEMMA TruthScreenOnly ==
  ASSUME Inv, Truth, Typed \/ AnimationEnds
  PROVE  Truth'
<1>1. screen \in Screens
  BY DEF Inv, Good
<1>2. /\ screen'.proverb = screen.proverb /\ screen'.image = screen.image
      /\ screen'.progressView = screen.progressView
  BY <1>1 DEF Typed, AnimationEnds, Screens
<1> QED BY <1>2, TruthSame DEF Typed, AnimationEnds

LEMMA TruthShowing ==
  ASSUME Inv, Truth, (\E p \in Proverbs : ShowNext(p)) \/ Appear
  PROVE  Truth'
<1>1. PICK s \in Screens : CheckButton(s, local)
  <2>1. ASSUME NEW p \in Proverbs, ShowNext(p)
        PROVE  \E s \in Screens : CheckButton(s, local)
    <3> DEFINE s == [screen EXCEPT !.proverb = p, !.inProgress = TRUE, !.typing = 2]
    <3>1. s \in Screens
      BY GoodTyping DEF Inv, Good
    <3>2. CheckButton(s, local)
      BY <2>1 DEF ShowNext
    <3> QED BY <3>1, <3>2
  <2> QED BY <2>1 DEF Appear, Inv, Good
<1>2. UNCHANGED <<where, local, server, taps, writes>> /\ Forgive
  BY DEF ShowNext, Appear
<1>3. CheckButton(s, local')
  BY <1>1, <1>2, Zenon
<1>4. CASE where = "remote"
  BY <1>2, <1>3, <1>4, AskedAgain DEF Inv
<1>5. CASE where # "remote"
  <2>1. Right(screen)' /\ UNCHANGED checks
    BY <1>2, <1>3, <1>5, ToldAtOnce
  <2>2. excuses' = {} => Quiet
    BY <1>2, <1>5 DEF Forgive, Truth
  <2>3. Quiet => Quiet'
    BY <1>2, <2>1 DEF Quiet
  <2> QED BY <1>2, <1>5, <2>1, <2>2, <2>3 DEF Truth
<1> QED BY <1>4, <1>5

LEMMA TruthAnswerCheck ==
  ASSUME Inv, Truth, NEW n \in 1..MaxChecks, AnswerCheck(n)
  PROVE  Truth'
<1> SUFFICES ASSUME excuses' = {} PROVE Truth'
  BY DEF Truth
<1> DEFINE answer == ImageFor(checks[n].proverb, Seen)
           last == Len(checks)
<1>1. /\ checks \in Seq(CheckRecords) /\ n \in DOMAIN checks /\ checks # << >>
      /\ last \in DOMAIN checks
  BY DEF Inv, ChecksOK, AnswerCheck
<1>2. UNCHANGED <<where, local, server, screen, taps, writes>>
  BY DEF AnswerCheck
<1>3. checks' = [checks EXCEPT ![n].answer = answer] /\ excuses = {}
  BY DEF AnswerCheck, Excused
<1>4. where = "remote"
  BY <1>1, <1>3 DEF Truth, Quiet
<1>5. checks[n] \in CheckRecords
  BY <1>1
<1>6. /\ Len(checks') = last /\ checks' # << >>
      /\ checks'[last].proverb = checks[last].proverb
      /\ n = last => checks'[last].answer = answer
      /\ n # last => checks'[last].answer = checks[last].answer
  <2> HIDE DEF answer
  <2>1. Len(checks') = last /\ checks' # << >>
    BY <1>1, <1>3
  <2>2. checks'[n] = [checks[n] EXCEPT !.answer = answer]
    BY <1>1, <1>3
  <2>3. n # last => checks'[last] = checks[last]
    BY <1>1, <1>3
  <2> QED BY <1>5, <2>1, <2>2, <2>3 DEF CheckRecords
<1>7. checks[last].proverb = screen.proverb
  BY <1>1, <1>3, <1>4 DEF Truth, RemoteTruth, LastAsks
<1>8. Kept = Seen /\ Kept' = Kept
  BY <1>2, <1>4 DEF Kept, Seen, WrittenBy
<1>9. LastAsks'
  BY <1>2, <1>6, <1>7 DEF LastAsks
<1>10. Ended' = Ended /\ (Written(screen.proverb)' <=> Written(screen.proverb))
       /\ ImageFor(screen.proverb, Kept)' = ImageFor(screen.proverb, Kept)
  BY <1>2, <1>8 DEF Ended, Written, ImageFor, Of
<1>11. ASSUME Ended, ~Written(screen.proverb)
       PROVE  checks'[last].answer \in {"none", ImageFor(screen.proverb, Kept)}
  <2>1. CASE n = last
    BY <1>6, <1>7, <1>8, <2>1
  <2>2. CASE n # last
    BY <1>1, <1>3, <1>4, <1>6, <1>11, <2>2 DEF Truth, RemoteTruth
  <2> QED BY <2>1, <2>2
<1> HIDE DEF last
<1>12. checks' # << >> /\ Len(checks') = last
  BY <1>6
<1>13. RemoteTruth'
  BY <1>9, <1>10, <1>11, <1>12 DEF RemoteTruth
<1> QED BY <1>2, <1>4, <1>13 DEF Truth

\* An answer delivered in its turn leaves the last question last, or was it.
LEMMA FirstGone ==
  ASSUME NEW S, NEW q \in Seq(S), q # << >>
  PROVE  /\ RemoveAt(q, 1) = << >> => Len(q) = 1
         /\ RemoveAt(q, 1) # << >> => RemoveAt(q, 1)[Len(RemoveAt(q, 1))] = q[Len(q)]
<1>1. RemoveAt(q, 1) = Tail(q)
  <2>1. Len(q) \in Nat /\ Len(q) >= 1 /\ SubSeq(q, 1, 1 - 1) = << >>
    OBVIOUS
  <2>2. SubSeq(q, 2, Len(q)) = Tail(q)
    OBVIOUS
  <2>3. << >> \o Tail(q) = Tail(q)
    OBVIOUS
  <2> QED BY <2>1, <2>2, <2>3 DEF RemoveAt
<1>2. Len(Tail(q)) = Len(q) - 1 /\ Len(q) \in Nat /\ Tail(q) \in Seq(S)
  OBVIOUS
<1>3. Tail(q) = << >> => Len(q) = 1
  <2> SUFFICES ASSUME Tail(q) = << >> PROVE Len(q) = 1
    OBVIOUS
  <2>1. Len(<< >>) = 0
    OBVIOUS
  <2>2. Len(q) - 1 = 0
    BY <1>2, <2>1, Zenon
  <2> QED BY <1>2, <2>2
<1>4. Tail(q) # << >> => Tail(q)[Len(Tail(q))] = q[Len(q)]
  BY HeadAndTail
<1> QED BY <1>1, <1>3, <1>4, Zenon

LEMMA TruthDeliverCheck ==
  ASSUME Inv, Truth, NEW n \in 1..MaxChecks, DeliverCheck(n)
  PROVE  Truth'
<1> SUFFICES ASSUME excuses' = {} PROVE Truth'
  BY DEF Truth
<1>1. checks \in Seq(CheckRecords) /\ n \in DOMAIN checks /\ checks # << >>
  BY DEF Inv, ChecksOK, DeliverCheck
<1>2. n = 1 /\ excuses = {}
  BY DEF DeliverCheck, Excused
<1>3. where = "remote"
  BY <1>1, <1>2 DEF Truth, Quiet
<1>4. /\ screen' = [screen EXCEPT !.image = checks[1].answer] /\ checks[1].answer # "none"
      /\ checks' = RemoveAt(checks, 1) /\ UNCHANGED <<where, local, server, taps, writes>>
  BY <1>2 DEF DeliverCheck
<1>5. /\ checks' = << >> => Len(checks) = 1
      /\ checks' # << >> => checks'[Len(checks')] = checks[Len(checks)]
  BY <1>1, <1>4, FirstGone
<1>6. screen'.image = checks[1].answer /\ screen'.proverb = screen.proverb
  BY <1>4 DEF Inv, Good, Screens
<1>7. LastAsks'
  BY <1>1, <1>2, <1>3, <1>5, <1>6 DEF Truth, RemoteTruth, LastAsks
<1>8. Kept' = Kept
  BY <1>4 DEF Kept, Seen, WrittenBy
<1>9. Ended' = Ended /\ (Written(screen.proverb)' <=> Written(screen.proverb))
      /\ ImageFor(screen.proverb, Kept)' = ImageFor(screen.proverb, Kept)
  BY <1>4, <1>6, <1>8 DEF Ended, Written, ImageFor, Of
<1>10. ASSUME Ended, ~Written(screen.proverb)
       PROVE  checks[Len(checks)].answer \in {"none", ImageFor(screen.proverb, Kept)}
  BY <1>1, <1>2, <1>3, <1>10 DEF Truth, RemoteTruth
<1>11. CASE checks' = << >>
  <2>1. Ended /\ ~Written(screen.proverb) => screen'.image = ImageFor(screen.proverb, Kept)
    BY <1>4, <1>5, <1>6, <1>10, <1>11
  <2> QED BY <1>3, <1>4, <1>6, <1>7, <1>9, <1>11, <2>1 DEF Truth, RemoteTruth, Right
<1>12. CASE checks' # << >>
  BY <1>3, <1>4, <1>5, <1>7, <1>9, <1>10, <1>12 DEF Truth, RemoteTruth
<1> QED BY <1>11, <1>12

LEMMA TruthTap ==
  ASSUME Inv, Truth, NEW t \in Taps, Tap(t)
  PROVE  Truth'
<1> DEFINE s == Progress(screen, TRUE)
           p == screen.proverb
<1>1. Good(s) /\ p \in Proverbs /\ s.proverb = screen.proverb /\ s.progressView
  BY GoodProgress DEF Inv, Tap, Free, Good, Screens
<1> HIDE DEF s
<1>2. UNCHANGED <<where, excuses>>
  BY DEF Tap
<1>3. CASE where = "remote"
  <2>1. /\ taps' = [taps EXCEPT ![t] = [NoTap EXCEPT !.stage = "check", !.proverb = p]]
        /\ screen' = s /\ UNCHANGED checks
    BY <1>3 DEF Tap, s
  <2> QED BY <1>1, <1>2, <1>3, <2>1, GoesOn DEF Inv
<1>4. CASE where # "remote"
  <2>1. Save(t, p, s) \/ Delete(t, p, s)
    BY <1>4 DEF Tap, s
  <2> QED BY <1>1, <1>2, <2>1, SaveTells, DeleteTells DEF Inv
<1> QED BY <1>3, <1>4

LEMMA TruthAnswerTap ==
  ASSUME Inv, Truth, NEW t \in Taps, AnswerTap(t)
  PROVE  Truth'
<1>1. taps \in [Taps -> TapRecords] /\ taps[t] \in TapRecords
  BY DEF Inv, TapsOK
<1>2. \A u \in Taps : taps'[u].stage = taps[u].stage
  <2> DEFINE docs == Of(taps[t].proverb, Seen)
  <2>1. CASE taps' = [taps EXCEPT ![t].answer = "failed"]
    BY <1>1, <2>1 DEF TapRecords
  <2>2. CASE taps' = [taps EXCEPT ![t] = [@ EXCEPT !.answer = "read", !.docs = docs]]
    <3> HIDE DEF docs
    <3> QED BY <1>1, <2>2 DEF TapRecords
  <2> QED BY <2>1, <2>2 DEF AnswerTap
<1> QED BY <1>2, TruthSame DEF AnswerTap

LEMMA TruthDeliverTapCheck ==
  ASSUME Inv, Truth, NEW t \in Taps, DeliverTapCheck(t)
  PROVE  Truth'
<1>1. taps[t].proverb \in Proverbs
  BY DEF Inv, TapsOK, TapRecords
<1>2. UNCHANGED <<where, excuses>> /\ taps[t].stage = "check"
  BY DEF DeliverTapCheck
<1>3. Save(t, taps[t].proverb, screen) \/ Delete(t, taps[t].proverb, screen)
  BY DEF DeliverTapCheck
<1>4. CASE where = "remote"
  BY <1>1, <1>2, <1>3, <1>4, SaveTells, DeleteTells DEF Inv
<1>5. CASE where # "remote"
  BY <1>2, <1>5 DEF Truth, Quiet
<1> QED BY <1>4, <1>5

LEMMA TruthDeliverTapGet ==
  ASSUME Inv, Truth, NEW t \in Taps, DeliverTapGet(t)
  PROVE  Truth'
<1>1. taps[t].proverb \in Proverbs
  BY DEF Inv, TapsOK, TapRecords
<1>2. UNCHANGED <<where, excuses>> /\ taps[t].stage = "get"
  BY DEF DeliverTapGet
<1>3. CASE where # "remote"
  BY <1>2, <1>3 DEF Truth, Quiet
<1>4. CASE where = "remote"
  BY <1>1, <1>2, <1>4, GoesOn, TapEnds DEF Inv, DeliverTapGet
<1> QED BY <1>3, <1>4

LEMMA TruthSwitch ==
  ASSUME Switch
  PROVE  Truth'
  BY DEF Switch, Excused, Truth

\* The writes of other proverbs do not touch those of p.
LEMMA OfSeen ==
  ASSUME NEW p, ~Written(p)
  PROVE  Of(p, Seen) = Of(p, server)
  BY DEF Written, Of, Seen, WrittenBy

LEMMA OfSeenNext ==
  ASSUME NEW p, ~(\E n \in DOMAIN writes' : writes'[n].doc.origin = p)
  PROVE  Of(p, Seen') = Of(p, server')
  BY DEF Of, Seen, WrittenBy

\* A queue is its head and the rest.
LEMMA HeadOrTail ==
  ASSUME NEW S, NEW q \in Seq(S), q # << >>, NEW n \in DOMAIN q
  PROVE  q[n] = Head(q) \/ \E m \in DOMAIN Tail(q) : Tail(q)[m] = q[n]
<1>1. Len(q) \in Nat /\ n \in 1..Len(q) /\ Head(q) = q[1] /\ Tail(q) \in Seq(S)
      /\ Len(Tail(q)) = Len(q) - 1
  OBVIOUS
<1>2. \A i \in 1..(Len(q) - 1) : Tail(q)[i] = q[i + 1]
  BY <1>1
<1>3. ASSUME n # 1 PROVE \E m \in DOMAIN Tail(q) : Tail(q)[m] = q[n]
  <2>1. n - 1 \in 1..(Len(q) - 1) /\ (n - 1) + 1 = n
    BY <1>1, <1>3
  <2>2. Tail(q)[n - 1] = q[n] /\ n - 1 \in DOMAIN Tail(q)
    BY <1>1, <1>2, <2>1
  <2> QED BY <2>2
<1> QED BY <1>1, <1>3

\* The write of another screen is accepted, the last one of its proverb p: the
\* image its notification sets is true.
LEMMA AcceptedTells ==
  ASSUME NEW w \in WriteRecords,
         \A n \in DOMAIN writes : writes[n] = w \/ \E m \in DOMAIN writes' : writes'[m] = writes[n],
         ~(\E n \in DOMAIN writes' : writes'[n].doc.origin = w.doc.origin),
         server' = IF w.kind = "save" THEN server \cup {w.doc} ELSE server \ {w.doc},
         Of(w.doc.origin, Seen \ {w.doc}) = {}
  PROVE  ImageFor(w.doc.origin, Seen') = IF w.kind = "save" THEN "favorite" ELSE "unfavorite"
<1> DEFINE p == w.doc.origin
<1>1. Of(p, Seen') = Of(p, server')
  BY OfSeenNext
<1>2. CASE w.kind = "save"
  <2>1. w.doc \in Of(p, server')
    BY <1>2 DEF Of
  <2> QED BY <1>1, <1>2, <2>1 DEF ImageFor
<1>3. CASE w.kind # "save"
  <2>1. \A n \in DOMAIN writes : writes[n].doc.origin = p => writes[n] = w
    OBVIOUS
  <2>2. ASSUME NEW d \in server, d.origin = p, d # w.doc
        PROVE  d \in Seen
    <3>1. d \notin WrittenBy("delete", writes)
      BY <2>1, <2>2 DEF WrittenBy
    <3> QED BY <2>2, <3>1 DEF Seen
  <2>3. Of(p, server') = {}
    BY <1>3, <2>2 DEF Of
  <2> QED BY <1>1, <1>3, <2>3 DEF ImageFor
<1> QED BY <1>2, <1>3

LEMMA TruthSettleWrite ==
  ASSUME Inv, Truth, NEW ok \in BOOLEAN, SettleWrite(ok)
  PROVE  Truth'
<1> SUFFICES ASSUME excuses' = {} PROVE Truth'
  BY DEF Truth
<1> DEFINE w == Head(writes)
           p == w.doc.origin
<1>1. writes \in Seq(WriteRecords) /\ writes # << >> /\ writes' = Tail(writes)
  BY DEF Inv, WritesOK, SettleWrite
<1>2. w \in WriteRecords /\ w.tap \in Taps \cup {Elsewhere}
  <2>1. Head(writes) \in WriteRecords
    BY <1>1
  <2> QED BY <2>1 DEF WriteRecords
<1>3. \A n \in DOMAIN writes : writes[n] = w \/ \E m \in DOMAIN writes' : writes'[m] = writes[n]
  BY <1>1, HeadOrTail
<1>4. /\ UNCHANGED <<where, local>> /\ MainQueueFree
      /\ server' = IF ~ok THEN server
                   ELSE IF w.kind = "save" THEN server \cup {w.doc} ELSE server \ {w.doc}
  BY DEF SettleWrite
<1>5. excuses = {}
  BY DEF SettleWrite, Excused
<1>6. where = "remote"
  BY <1>1, <1>5 DEF Truth, Quiet
<1> HIDE DEF w
<1>7. CASE w.tap # Elsewhere
  <2>1. Finish(screen, w.kind, p, ok)
    BY <1>7 DEF SettleWrite, w
  <2>2. Good(screen) /\ ChecksOK
    BY DEF Inv
  <2> QED BY <1>4, <1>6, <2>1, <2>2, FinishTells
<1>8. CASE w.tap = Elsewhere
  <2>1. /\ screen' = IF ok THEN Noticed(screen, w.kind, p) ELSE screen
        /\ Excused(IF ~ok \/ Of(p, Seen \ {w.doc}) # {} THEN {"elsewhere"} ELSE {})
        /\ UNCHANGED <<taps, checks>>
    BY <1>8 DEF SettleWrite, w
  <2>2. ok /\ Of(p, Seen \ {w.doc}) = {}
    BY <2>1 DEF Excused
  <2>3. screen' = Noticed(screen, w.kind, p) /\ screen \in Screens
    BY <2>1, <2>2 DEF Inv, Good
  <2>4. /\ screen'.proverb = screen.proverb /\ screen'.progressView = screen.progressView
        /\ p # screen.proverb => screen' = screen
        /\ p = screen.proverb =>
             screen'.image = IF w.kind = "save" THEN "favorite" ELSE "unfavorite"
    BY <2>3 DEF Noticed, Screens
  <2>5. LastAsks'
    BY <1>5, <1>6, <2>1, <2>4 DEF Truth, RemoteTruth, LastAsks
  <2>6. Kept = Seen /\ Kept' = Seen'
    BY <1>4, <1>6 DEF Kept
  <2>7. ASSUME checks # << >> PROVE checks'[Len(checks')].answer = "none"
    <3>1. checks \in Seq(CheckRecords)
      BY DEF Inv, ChecksOK
    <3>2. Len(checks) \in DOMAIN checks
      BY <2>7, <3>1
    <3> QED BY <1>4, <2>1, <3>2 DEF MainQueueFree
  <2>8. ASSUME Ended', ~Written(screen.proverb)', checks = << >>
        PROVE  Right(screen)'
    <3>1. ~(\E n \in DOMAIN writes' : writes'[n].doc.origin = screen.proverb)
      BY <2>4, <2>8 DEF Written
    <3>2. CASE p = screen.proverb
      <4>1. server' = IF w.kind = "save" THEN server \cup {w.doc} ELSE server \ {w.doc}
        BY <1>4, <2>2
      <4>2. ImageFor(p, Seen') = IF w.kind = "save" THEN "favorite" ELSE "unfavorite"
        BY <1>2, <1>3, <2>2, <3>1, <3>2, <4>1, AcceptedTells
      <4>3. ImageFor(screen.proverb, Kept)' = ImageFor(p, Seen')
        BY <2>4, <2>6, <3>2 DEF ImageFor, Of
      <4> QED BY <2>4, <3>2, <4>2, <4>3 DEF Right
    <3>3. CASE p # screen.proverb
      <4>1. ~Written(screen.proverb)
        BY <1>3, <3>1, <3>3 DEF Written
      <4>2. Of(screen.proverb, server') = Of(screen.proverb, server)
        BY <1>4, <2>2, <3>3 DEF Of
      <4>3. Of(screen.proverb, Seen') = Of(screen.proverb, Seen)
        BY <3>1, <4>1, <4>2, OfSeen, OfSeenNext
      <4>4. ImageFor(screen.proverb, Kept)' = ImageFor(screen.proverb, Kept)
        BY <2>4, <2>6, <4>3 DEF ImageFor, Of
      <4>5. Ended /\ Right(screen)
        <5>1. Ended
          BY <2>1, <2>8 DEF Ended
        <5> QED BY <1>5, <1>6, <2>8, <4>1, <5>1 DEF Truth, RemoteTruth
      <4> QED BY <2>4, <3>3, <4>4, <4>5 DEF Right
    <3> QED BY <3>2, <3>3
  <2>9. RemoteTruth'
    BY <2>1, <2>5, <2>7, <2>8 DEF RemoteTruth
  <2> QED BY <1>4, <1>6, <2>9 DEF Truth
<1> QED BY <1>7, <1>8

LEMMA TruthOtherScreenWrites ==
  ASSUME Inv, Truth, NEW kind \in {"save", "delete"}, NEW d \in Docs, OtherScreenWrites(kind, d)
  PROVE  Truth'
<1> SUFFICES ASSUME excuses' = {} PROVE Truth'
  BY DEF Truth
<1>1. UNCHANGED <<where, server, taps, checks>>
  BY DEF OtherScreenWrites
<1>2. CASE where = "remote"
  <2> DEFINE w == [kind |-> kind, doc |-> d, tap |-> Elsewhere]
  <2>1. writes' = Append(writes, w) /\ UNCHANGED <<screen, excuses>>
    BY <1>2 DEF OtherScreenWrites
  <2>2. writes \in Seq(WriteRecords)
    BY DEF Inv, WritesOK
  <2>3. w.doc = d
    OBVIOUS
  <2> HIDE DEF w
  <2>4. /\ \A n \in DOMAIN writes : n \in DOMAIN writes' /\ writes'[n] = writes[n]
        /\ \E n \in DOMAIN writes' : writes'[n] = w
    <3>1. Len(writes) \in Nat /\ DOMAIN writes = 1..Len(writes)
          /\ DOMAIN writes' = 1..(Len(writes) + 1)
      BY <2>1, <2>2
    <3>2. writes'[Len(writes) + 1] = w /\ \A n \in 1..Len(writes) : writes'[n] = writes[n]
      BY <2>1, <2>2
    <3> QED BY <3>1, <3>2
  <2>5. LastAsks' /\ screen' = screen
    BY <1>1, <1>2, <2>1 DEF Truth, RemoteTruth, LastAsks
  <2>6. ASSUME Ended', ~Written(screen.proverb)'
        PROVE  /\ Ended /\ ~Written(screen.proverb)
               /\ ImageFor(screen.proverb, Kept)' = ImageFor(screen.proverb, Kept)
    <3>1. ~(\E n \in DOMAIN writes' : writes'[n].doc.origin = screen.proverb)
      BY <2>1, <2>6 DEF Written
    <3>2. ~Written(screen.proverb) /\ Ended
      BY <1>1, <2>4, <2>6, <3>1 DEF Written, Ended
    <3>3. Of(screen.proverb, Seen') = Of(screen.proverb, Seen)
      BY <1>1, <3>1, <3>2, OfSeen, OfSeenNext
    <3>4. Kept = Seen /\ Kept' = Seen'
      BY <1>1, <1>2 DEF Kept
    <3> QED BY <2>5, <3>2, <3>3, <3>4 DEF ImageFor, Of
  <2>7. RemoteTruth'
    BY <1>1, <1>2, <2>1, <2>5, <2>6 DEF Truth, RemoteTruth, Right
  <2> QED BY <1>1, <1>2, <2>7 DEF Truth
<1>3. CASE where # "remote"
  <2>1. /\ where = "local" /\ UNCHANGED writes
        /\ local' = IF kind = "save" THEN local \cup {d} ELSE local \ {d}
        /\ screen' = Noticed(screen, kind, d.origin)
        /\ Excused(IF Of(d.origin, local \ {d}) # {} THEN {"elsewhere"} ELSE {})
    BY <1>3 DEF OtherScreenWrites
  <2>2. Of(d.origin, local \ {d}) = {} /\ excuses = {}
    BY <2>1 DEF Excused
  <2>3. Quiet /\ Right(screen)
    BY <1>3, <2>2 DEF Truth
  <2>4. Quiet'
    BY <1>1, <2>1, <2>3 DEF Quiet
  <2>5. Kept = local /\ Kept' = local' /\ screen \in Screens
    BY <1>1, <2>1 DEF Kept, Inv, Good
  <2>6. CASE d.origin # screen.proverb
    <3>1. screen' = screen
      BY <2>1, <2>6 DEF Noticed
    <3>2. Of(screen.proverb, local') = Of(screen.proverb, local)
      BY <2>1, <2>6 DEF Of
    <3> QED BY <1>1, <1>3, <2>3, <2>4, <2>5, <3>1, <3>2 DEF Truth, Right, ImageFor
  <2>7. CASE d.origin = screen.proverb
    <3>1. /\ screen'.proverb = screen.proverb
          /\ screen'.image = IF kind = "save" THEN "favorite" ELSE "unfavorite"
      BY <2>1, <2>5, <2>7 DEF Noticed, Screens
    <3>2. kind = "save" => d \in Of(screen.proverb, local')
      BY <2>1, <2>7 DEF Of
    <3>3. kind # "save" => Of(screen.proverb, local') = {}
      BY <2>1, <2>2, <2>7
    <3>4. screen'.image = ImageFor(screen.proverb, local')
      BY <3>1, <3>2, <3>3 DEF ImageFor
    <3>5. ImageFor(screen.proverb, local') = ImageFor(screen.proverb, Kept)'
      BY <2>5, <3>1 DEF ImageFor, Of
    <3> QED BY <1>1, <1>3, <2>4, <3>4, <3>5 DEF Truth, Right
  <2> QED BY <2>6, <2>7
<1> QED BY <1>2, <1>3

LEMMA TruthStep == Inv /\ Truth /\ [Next]_vars => Truth'
<1> SUFFICES ASSUME Inv, Truth, [Next]_vars PROVE Truth'
  OBVIOUS
<1>1. CASE UNCHANGED vars
  BY <1>1, TruthSame DEF vars
<1> QED
  BY <1>1, TruthShowing, TruthScreenOnly, TruthAnswerCheck, TruthDeliverCheck, TruthTap,
     TruthAnswerTap, TruthDeliverTapCheck, TruthDeliverTapGet, TruthSettleWrite,
     TruthOtherScreenWrites, TruthSwitch
  DEF Next

(***************************************************************************)
(* The theorems                                                            *)
(***************************************************************************)
\* Every reachable state is typed, and room is left in the queue of the
\* animations for the one that ends the progress.
THEOREM ProverbScreenTypeCorrect == Spec => []ProverbScreenTypeOK
  BY Types, ScreenInvariant, PTL

\* The save button never loses its image (ObliqueButton.inProgress puts it
\* away and back once), however taps, answers and notifications overlap.
THEOREM ImageIsKept == Spec => []ButtonKeepsImage
  BY KeepsImage, ScreenInvariant, PTL

\* When every tap has ended the progress is off, and the controls come back
\* with the last label and the last animation.
THEOREM ControlsDoComeBack == Spec => []ControlsComeBack
  BY ComesBack, ScreenInvariant, PTL

\* When nothing is under way the image of the save button tells whether the
\* proverb on the screen is a favourite, for any number of taps, checks and
\* writes in flight, unless one of the listed circumstances arose: although no
\* answer of checkAndUpdateAddToFavoritesButton knows its proverb.
THEOREM ImageIsTrue == Spec => []ImageTellsTruth
  BY InvInit, InvStep, TruthInit, TruthStep, TellsTruth, PTL DEF Spec
=============================================================================
