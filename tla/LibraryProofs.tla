---------------------------- MODULE LibraryProofs ----------------------------
(***************************************************************************)
(* What holds of Library for any library that is at least as large as the  *)
(* threshold of a new cycle.                                               *)
(***************************************************************************)
EXTENDS Library, FiniteSetTheorems, TLAPS

(***************************************************************************)
(* Types                                                                   *)
(***************************************************************************)
LEMMA TypeInit == Init => LibraryTypeOK
  BY DEF Init, LibraryTypeOK

LEMMA DrawType ==
  ASSUME LibraryTypeOK, NEW proverb \in Proverbs, NEW renewed \in BOOLEAN,
         NEW marked \in BOOLEAN, Draw(proverb, renewed, marked)
  PROVE  LibraryTypeOK'
<1> USE DEF LibraryTypeOK
<1>1. proverb \in stored /\ MarksAtDraw(renewed) \in SUBSET stored
  BY DEF Draw, MarksAtDraw, Found
<1>2. viewed' \in SUBSET stored
  BY <1>1 DEF Draw
<1>3. shown' \in SUBSET Proverbs /\ repeated' \in SUBSET shown'
  BY DEF Draw
<1>4. faults' \in SUBSET FaultKinds
  BY DEF Draw, FaultKinds
<1> QED BY <1>2, <1>3, <1>4 DEF Draw

LEMMA TypeStep == LibraryTypeOK /\ [Next]_vars => LibraryTypeOK'
<1> SUFFICES ASSUME LibraryTypeOK, [Next]_vars PROVE LibraryTypeOK'
  OBVIOUS
<1> USE DEF LibraryTypeOK
<1>1. CASE OpenRealm \/ Launch \/ SkipPopulation \/ Kill \/ SetPopulated \/ UNCHANGED vars
  BY <1>1 DEF OpenRealm, Launch, SkipPopulation, Kill, SetPopulated, vars, durable, history
<1>2. ASSUME NEW opens \in BOOLEAN, NEW erased \in BOOLEAN, ResetRealm(opens, erased)
      PROVE  LibraryTypeOK'
  <2>1. realm' \in {"open", "missing"} /\ faults' \in SUBSET FaultKinds
    BY <1>2 DEF ResetRealm, FaultKinds
  <2>2. stored' \in SUBSET Proverbs /\ viewed' \in SUBSET stored'
    BY <1>2 DEF ResetRealm
  <2> QED BY <1>2, <2>1, <2>2 DEF ResetRealm
<1>3. CASE Populate
  BY <1>3 DEF Populate, history
<1>4. CASE PopulateFails
  BY <1>4 DEF PopulateFails, durable, FaultKinds
<1>5. ASSUME NEW proverb \in Proverbs, NEW renewed \in BOOLEAN, NEW marked \in BOOLEAN,
             Draw(proverb, renewed, marked)
      PROVE  LibraryTypeOK'
  BY <1>5, DrawType
<1>6. CASE DrawCutShort
  BY <1>6 DEF DrawCutShort, MarksAtDraw
<1>7. ASSUME NEW renewed \in BOOLEAN, DrawTraps(renewed) PROVE LibraryTypeOK'
  BY <1>7 DEF DrawTraps, MarksAtDraw, FaultKinds
<1> QED BY <1>1, <1>2, <1>3, <1>4, <1>5, <1>6, <1>7 DEF Next

\* Realm's file, the flag and the marks keep their types.
THEOREM LibraryTypeCorrect == Spec => []LibraryTypeOK
<1>1. Spec => Init /\ [][Next]_vars
  BY DEF Spec
<1> QED BY <1>1, TypeInit, TypeStep, PTL

(***************************************************************************)
(* The forced unwrap                                                       *)
(***************************************************************************)
\* While the library was not lost, a ready process has all of it.
WholeInv ==
  /\ DrawFindsProverb
  /\ "library" \notin faults =>
       /\ realm # "missing"
       /\ process = "ready" => isInitialPopulated
       /\ isInitialPopulated \/ process = "populated" => stored = Proverbs

\* A draw of a whole library finds a proverb.
LEMMA WholeFinds ==
  ASSUME LibraryTypeOK, realm = "open", stored = Proverbs
  PROVE  Found \ MarksAtDraw(TRUE) # {}
<1>1. Found = Proverbs /\ IsFiniteSet(Proverbs \ viewed)
  BY LibraryAssumption, FS_Difference DEF Found
<1>2. Proverbs # {}
  BY LibraryAssumption, FS_EmptySet
<1>3. CASE Renews
  BY <1>1, <1>2, <1>3 DEF MarksAtDraw
<1>4. CASE ~Renews
  <2>1. Cardinality(Proverbs \ viewed) \in Nat
    BY <1>1, FS_CardinalityType
  <2>2. Cardinality(Proverbs \ viewed) # 0
    BY <1>1, <1>4, <2>1, LibraryAssumption DEF Renews, Unviewed
  <2> QED BY <1>1, <1>4, <2>2, FS_EmptySet DEF MarksAtDraw
<1> QED BY <1>3, <1>4

LEMMA WholeStep == LibraryTypeOK /\ WholeInv /\ [Next]_vars => WholeInv'
<1> SUFFICES ASSUME LibraryTypeOK, WholeInv, [Next]_vars PROVE WholeInv'
  OBVIOUS
<1> USE DEF WholeInv, DrawFindsProverb
<1>1. CASE OpenRealm
  BY <1>1 DEF OpenRealm, durable, history
<1>2. ASSUME NEW opens \in BOOLEAN, NEW erased \in BOOLEAN, ResetRealm(opens, erased)
      PROVE  WholeInv'
  BY <1>2 DEF ResetRealm
<1>3. CASE Launch
  BY <1>3 DEF Launch, durable, history
<1>4. CASE SkipPopulation
  BY <1>4 DEF SkipPopulation, durable, history
<1>5. CASE Populate
  BY <1>5 DEF Populate, history
<1>6. CASE PopulateFails
  BY <1>6 DEF PopulateFails
<1>7. CASE SetPopulated
  BY <1>7 DEF SetPopulated, history
<1>8. ASSUME NEW proverb \in Proverbs, NEW renewed \in BOOLEAN, NEW marked \in BOOLEAN,
             Draw(proverb, renewed, marked)
      PROVE  WholeInv'
  <2>1. faults \subseteq faults' /\ process = "ready"
    BY <1>8 DEF Draw
  <2> QED BY <1>8, <2>1 DEF Draw
<1>9. CASE DrawCutShort
  BY <1>9 DEF DrawCutShort
<1>10. ASSUME NEW renewed \in BOOLEAN, DrawTraps(renewed) PROVE WholeInv'
  <2>1. CASE renewed /\ "library" \notin faults
    <3>1. realm = "open" /\ stored = Proverbs
      BY <1>10, <2>1 DEF DrawTraps, LibraryTypeOK
    <3> QED BY <1>10, <2>1, <3>1, WholeFinds DEF DrawTraps
  <2>2. CASE "library" \in faults
    BY <1>10, <2>2 DEF DrawTraps
  <2>3. CASE ~renewed
    <3>1. "cycle" \in faults' /\ faults \subseteq faults'
      BY <1>10, <2>3 DEF DrawTraps
    <3> QED BY <1>10, <3>1 DEF DrawTraps
  <2> QED BY <2>1, <2>2, <2>3
<1>11. CASE Kill \/ UNCHANGED vars
  BY <1>11 DEF Kill, vars, durable, history
<1> QED BY <1>1, <1>2, <1>3, <1>4, <1>5, <1>6, <1>7, <1>8, <1>9, <1>10, <1>11 DEF Next

\* Only a lost library or a renewal that failed leaves randomElement nothing.
THEOREM DrawFindsCorrect == Spec => []DrawFindsProverb
<1>1. Init => WholeInv
  BY DEF Init, WholeInv, DrawFindsProverb
<1>2. WholeInv => DrawFindsProverb
  BY DEF WholeInv
<1>3. Spec => Init /\ [][Next]_vars
  BY DEF Spec
<1> QED BY <1>1, <1>2, <1>3, WholeStep, LibraryTypeCorrect, PTL

(***************************************************************************)
(* The cycle                                                               *)
(***************************************************************************)
\* What was shown in this cycle is marked, or its marks went with a file
\* that nobody fills again.
CycleInv ==
  /\ process = "ready" => isInitialPopulated
  /\ shown # {} => isInitialPopulated
  /\ "mark" \notin faults =>
       /\ repeated = {}
       /\ shown \subseteq viewed \/ (isInitialPopulated /\ stored = {})

\* A draw keeps what was shown under the marks.
LEMMA CycleDraw ==
  ASSUME LibraryTypeOK, CycleInv, NEW proverb \in Proverbs, NEW renewed \in BOOLEAN,
         NEW marked \in BOOLEAN, Draw(proverb, renewed, marked)
  PROVE  CycleInv'
<1>1. isInitialPopulated' /\ isInitialPopulated
  BY DEF Draw, CycleInv
<1>2. faults \subseteq faults' /\ (~marked => "mark" \in faults')
  BY DEF Draw
<1>3. ASSUME "mark" \notin faults' PROVE repeated' = {} /\ shown' \subseteq viewed'
  <2>1. marked /\ repeated = {} /\ shown \subseteq viewed
    BY <1>2, <1>3 DEF CycleInv, Draw, Found
  <2>2. proverb \in viewed'
    BY <2>1 DEF Draw
  <2>3. CASE Renews
    BY <2>2, <2>3 DEF Draw
  <2>4. CASE ~Renews
    <3>1. MarksAtDraw(renewed) = viewed
      BY <2>4 DEF MarksAtDraw
    <3>2. proverb \notin shown
      BY <2>1, <3>1 DEF Draw
    <3> QED BY <2>1, <2>4, <3>1, <3>2 DEF Draw
  <2> QED BY <2>3, <2>4
<1> QED BY <1>1, <1>3 DEF CycleInv

LEMMA CycleStep == LibraryTypeOK /\ CycleInv /\ [Next]_vars => CycleInv'
<1> SUFFICES ASSUME LibraryTypeOK, CycleInv, [Next]_vars PROVE CycleInv'
  OBVIOUS
<1>1. CASE OpenRealm
  BY <1>1 DEF CycleInv, OpenRealm, durable, history
<1>2. ASSUME NEW opens \in BOOLEAN, NEW erased \in BOOLEAN, ResetRealm(opens, erased)
      PROVE  CycleInv'
  <2>1. UNCHANGED <<isInitialPopulated, process, shown, repeated>> /\ faults \subseteq faults'
    BY <1>2 DEF ResetRealm
  <2>2. CASE erased
    <3>1. stored' = {} /\ viewed' = {}
      BY <1>2, <2>2 DEF ResetRealm
    <3> QED BY <2>1, <3>1 DEF CycleInv
  <2>3. CASE ~erased
    <3>1. stored' = stored /\ viewed' = viewed
      BY <1>2, <2>3 DEF ResetRealm
    <3> QED BY <2>1, <3>1 DEF CycleInv
  <2> QED BY <2>2, <2>3
<1>3. CASE Launch \/ SkipPopulation \/ Kill \/ UNCHANGED vars
  BY <1>3 DEF CycleInv, Launch, SkipPopulation, Kill, vars, durable, history
<1>4. CASE Populate
  <2>1. shown = {}
    BY <1>4 DEF CycleInv, Populate
  <2> QED BY <1>4, <2>1 DEF CycleInv, Populate, history
<1>5. CASE PopulateFails
  BY <1>5 DEF CycleInv, PopulateFails, durable
<1>6. CASE SetPopulated
  BY <1>6 DEF CycleInv, SetPopulated, history
<1>7. ASSUME NEW proverb \in Proverbs, NEW renewed \in BOOLEAN, NEW marked \in BOOLEAN,
             Draw(proverb, renewed, marked)
      PROVE  CycleInv'
  BY <1>7, CycleDraw
<1>8. CASE DrawCutShort
  BY <1>8 DEF CycleInv, DrawCutShort
<1>9. ASSUME NEW renewed \in BOOLEAN, DrawTraps(renewed) PROVE CycleInv'
  <2>1. viewed' = viewed
    <3>1. CASE Renews /\ renewed
      BY <1>9, <3>1 DEF DrawTraps, MarksAtDraw
    <3>2. CASE ~(Renews /\ renewed)
      BY <1>9, <3>2 DEF DrawTraps, MarksAtDraw
    <3> QED BY <3>1, <3>2
  <2>2. /\ UNCHANGED <<isInitialPopulated, stored, shown, repeated>>
        /\ faults \subseteq faults' /\ process' = "trapped"
    BY <1>9 DEF DrawTraps
  <2> QED BY <2>1, <2>2 DEF CycleInv
<1> QED BY <1>1, <1>2, <1>3, <1>4, <1>5, <1>6, <1>7, <1>8, <1>9 DEF Next

\* A proverb comes back only in a later cycle, unless a mark failed.
THEOREM NoRepeatCorrect == Spec => []NoRepeatInCycle
<1>1. Init => CycleInv
  BY DEF Init, CycleInv
<1>2. CycleInv => NoRepeatInCycle
  BY DEF CycleInv, NoRepeatInCycle
<1>3. Spec => Init /\ [][Next]_vars
  BY DEF Spec
<1> QED BY <1>1, <1>2, <1>3, CycleStep, LibraryTypeCorrect, PTL

(***************************************************************************)
(* The choice                                                              *)
(***************************************************************************)
\* While nothing failed, the marks are exactly what was shown.
ChoiceInv == faults = {} => viewed = shown /\ ManyToChoose

\* A draw without failures leaves MinUnviewed - 1 proverbs unviewed or more.
LEMMA ChoiceDraw ==
  ASSUME LibraryTypeOK, WholeInv, ChoiceInv, NEW proverb \in Proverbs, NEW renewed \in BOOLEAN,
         NEW marked \in BOOLEAN, Draw(proverb, renewed, marked)
  PROVE  ChoiceInv'
<1> SUFFICES ASSUME faults' = {} PROVE viewed' = shown' /\ ManyToChoose'
  BY DEF ChoiceInv
<1>1. faults = {} /\ marked /\ renewed
  BY DEF Draw
<1>2. Found = Proverbs /\ viewed = shown
  BY <1>1 DEF Draw, WholeInv, ChoiceInv, Found, LibraryTypeOK
<1>3. IsFiniteSet(shown) /\ Cardinality(shown) \in Nat /\ Cardinality(Proverbs) \in Nat
  BY LibraryAssumption, FS_Subset, FS_CardinalityType DEF LibraryTypeOK
<1>4. CASE Renews
  <2>1. viewed' = {proverb} /\ shown' = {proverb}
    BY <1>1, <1>2, <1>4 DEF Draw, MarksAtDraw, LibraryTypeOK
  <2>2. Cardinality(shown') = 1
    BY <2>1, FS_Singleton
  <2> QED BY <1>3, <2>1, <2>2, LibraryAssumption DEF ManyToChoose
<1>5. CASE ~Renews
  <2>1. viewed' = shown \cup {proverb} /\ shown' = shown \cup {proverb} /\ proverb \notin shown
    BY <1>1, <1>2, <1>5 DEF Draw, MarksAtDraw
  <2>2. Cardinality(shown') = Cardinality(shown) + 1
    BY <1>3, <2>1, FS_AddElement
  <2>3. Proverbs \cap shown = shown
    BY DEF LibraryTypeOK
  <2>4. Cardinality(Proverbs \ shown) = Cardinality(Proverbs) - Cardinality(shown)
    BY <2>3, FS_Difference, LibraryAssumption
  <2>5. Cardinality(Proverbs \ shown) >= MinUnviewed
    BY <1>2, <1>3, <1>5, <2>4, LibraryAssumption DEF Renews, Unviewed
  <2> QED BY <1>3, <2>1, <2>2, <2>4, <2>5, LibraryAssumption DEF ManyToChoose
<1> QED BY <1>4, <1>5

LEMMA ChoiceStep == LibraryTypeOK /\ WholeInv /\ CycleInv /\ ChoiceInv /\ [Next]_vars => ChoiceInv'
<1> SUFFICES ASSUME LibraryTypeOK, WholeInv, CycleInv, ChoiceInv, [Next]_vars PROVE ChoiceInv'
  OBVIOUS
<1>1. CASE UNCHANGED <<viewed, shown>> /\ faults \subseteq faults'
  BY <1>1 DEF ChoiceInv, ManyToChoose
<1>2. CASE Populate
  <2>1. shown = {} /\ shown' = {} /\ viewed' = {} /\ faults' = faults
    BY <1>2 DEF CycleInv, Populate, history
  <2> QED BY <2>1 DEF ChoiceInv, ManyToChoose
<1>3. ASSUME NEW proverb \in Proverbs, NEW renewed \in BOOLEAN, NEW marked \in BOOLEAN,
             Draw(proverb, renewed, marked)
      PROVE  ChoiceInv'
  BY <1>3, ChoiceDraw
<1>4. CASE DrawCutShort
  <2>1. ASSUME faults = {} PROVE viewed' = {}
    BY <1>4, <2>1 DEF DrawCutShort, WholeInv, MarksAtDraw, Found, LibraryTypeOK
  <2>2. shown' = {} /\ faults' = faults
    BY <1>4 DEF DrawCutShort
  <2>3. Cardinality({}) = 0 /\ Cardinality(Proverbs) \in Nat
    BY FS_EmptySet, FS_CardinalityType, LibraryAssumption
  <2> QED BY <2>1, <2>2, <2>3, LibraryAssumption DEF ChoiceInv, ManyToChoose
<1>5. ASSUME NEW opens \in BOOLEAN, NEW erased \in BOOLEAN, ResetRealm(opens, erased)
      PROVE  ChoiceInv'
  BY <1>5 DEF ResetRealm, ChoiceInv
<1>6. ASSUME NEW renewed \in BOOLEAN, DrawTraps(renewed) PROVE ChoiceInv'
  <2>1. viewed' = viewed
    BY <1>6 DEF DrawTraps, MarksAtDraw
  <2> QED BY <1>1, <1>6, <2>1 DEF DrawTraps
<1> QED BY <1>1, <1>2, <1>3, <1>4, <1>5, <1>6
     DEF Next, OpenRealm, Launch, SkipPopulation, PopulateFails, SetPopulated, Kill,
         vars, durable, history

\* Until something fails, each draw chooses among at least MinUnviewed.
THEOREM ManyToChooseCorrect == Spec => []ManyToChoose
<1>1. Init => WholeInv /\ CycleInv /\ ChoiceInv
  <2>1. Cardinality({}) = 0 /\ Cardinality(Proverbs) \in Nat
    BY FS_EmptySet, FS_CardinalityType, LibraryAssumption
  <2> QED BY <2>1, LibraryAssumption
       DEF Init, WholeInv, DrawFindsProverb, CycleInv, ChoiceInv, ManyToChoose
<1>2. ChoiceInv => ManyToChoose
  BY DEF ChoiceInv, ManyToChoose
<1>3. Spec => Init /\ [][Next]_vars
  BY DEF Spec
<1> QED BY <1>1, <1>2, <1>3, WholeStep, CycleStep, ChoiceStep, LibraryTypeCorrect, PTL
=============================================================================
