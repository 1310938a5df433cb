------------------------------- MODULE Library -------------------------------
(***************************************************************************)
(* The library of proverbs: copied once from the bundle to Realm, then     *)
(* drawn from at random.  A drawn proverb is marked as viewed, and a new   *)
(* cycle begins when few are left unviewed.  Realm's file may not open, in *)
(* which case it is erased, and any of its writes may fail; the copy and   *)
(* the flag in UserDefaults that says it was made are separate steps.      *)
(***************************************************************************)
EXTENDS Integers, FiniteSets

CONSTANTS Proverbs,     \* the proverbs of FinalProverbs.plist
          MinUnviewed   \* a new cycle begins below (10 in the code)

ASSUME LibraryAssumption ==
  /\ IsFiniteSet(Proverbs)
  /\ MinUnviewed \in Nat \ {0}
  /\ Cardinality(Proverbs) >= MinUnviewed

VARIABLES isInitialPopulated,
          stored,      \* the proverbs in Realm's file
          viewed,      \* those of them whose _viewed is set
          realm,       \* MainStorage.shared.realm, opened on its first use
          process,     \* where the process is in its life
          shown,       \* history: drawn since the cycle began
          repeated,    \* history: drawn twice or more since then
          faults       \* history: what has failed

durable == <<isInitialPopulated, stored, viewed>>
history == <<shown, repeated, faults>>
vars == <<durable, realm, process, history>>

\* What is lost with a fault: the library, the start of a cycle, a mark.
FaultKinds == {"library", "cycle", "mark"}

LibraryTypeOK ==
  /\ isInitialPopulated \in BOOLEAN
  /\ stored \in SUBSET Proverbs
  /\ viewed \in SUBSET stored
  /\ realm \in {"unopened", "open", "missing"}
  /\ process \in {"dead", "launching", "populated", "ready", "trapped"}
  /\ shown \in SUBSET Proverbs
  /\ repeated \in SUBSET shown
  /\ faults \in SUBSET FaultKinds

Init ==
  /\ isInitialPopulated = FALSE /\ stored = {} /\ viewed = {}
  /\ realm = "unopened" /\ process = "dead"
  /\ shown = {} /\ repeated = {} /\ faults = {}

(***************************************************************************)
(* Realm's file                                                            *)
(***************************************************************************)
\* currentThreadRealm on the main thread: Realm() is tried, and once more
\* after hardReset erased the file (which may fail too).
OpenRealm == /\ process \in {"launching", "ready"}
             /\ realm = "unopened" /\ realm' = "open"
             /\ UNCHANGED <<durable, process, history>>

ResetRealm(opens, erased) ==
  /\ process \in {"launching", "ready"}
  /\ realm = "unopened"
  /\ realm' = IF opens THEN "open" ELSE "missing"
  /\ stored' = IF erased THEN {} ELSE stored
  /\ viewed' = IF erased THEN {} ELSE viewed
  /\ faults' = faults \cup {"library"}
  /\ UNCHANGED <<isInitialPopulated, process, shown, repeated>>

\* Mutant: a query answers from a copy read before.
FoundCached == Proverbs

\* What a query finds.
Found == IF realm = "open" THEN stored ELSE {}

(***************************************************************************)
(* The first launch                                                        *)
(***************************************************************************)
Launch == /\ process = "dead" /\ process' = "launching" /\ realm' = "unopened"
          /\ UNCHANGED <<durable, history>>

\* checkAndPopulateProverbs: nothing to do.
SkipPopulation == /\ process = "launching" /\ isInitialPopulated
                  /\ process' = "ready"
                  /\ UNCHANGED <<durable, realm, history>>

\* populateLocalStorageWithProverbs: every proverb is added or updated, its
\* _viewed back to false, in one transaction.
Populate == /\ process = "launching" /\ ~isInitialPopulated /\ realm = "open"
            /\ stored' = Proverbs /\ viewed' = {}
            /\ process' = "populated"
            /\ UNCHANGED <<isInitialPopulated, realm, history>>

\* The plist is not read, there is no Realm, or its write fails: nobody looks.
PopulateFails == /\ process = "launching" /\ ~isInitialPopulated
                 /\ process' = "populated"
                 /\ faults' = faults \cup {"library"}
                 /\ UNCHANGED <<durable, realm, shown, repeated>>

\* Mutant: the flag is never set, and every launch populates again.
SetPopulatedNever == /\ process = "populated" /\ process' = "ready"
                     /\ UNCHANGED <<durable, realm, history>>

SetPopulated == /\ process = "populated" /\ process' = "ready"
                /\ isInitialPopulated' = TRUE
                /\ UNCHANGED <<stored, viewed, realm, history>>

(***************************************************************************)
(* getNextRandom                                                           *)
(***************************************************************************)
Unviewed == Found \ viewed

\* Mutant: a new cycle begins one proverb too late.
RenewsLate == Cardinality(Unviewed) < MinUnviewed - 1

Renews == Cardinality(Unviewed) < MinUnviewed

\* Mutant: the new cycle forgets to clear the marks.
MarksAtDrawKept(renewed) == viewed

\* The marks at the draw, after markAllAsUnviewed when a cycle begins.
MarksAtDraw(renewed) == IF Renews /\ renewed THEN viewed \ Found ELSE viewed

\* A proverb is drawn and, if the write succeeds, marked as viewed.
Draw(proverb, renewed, marked) ==
  /\ process = "ready" /\ realm # "unopened"
  /\ renewed \/ Renews
  /\ proverb \in Found \ MarksAtDraw(renewed)
  /\ viewed' = IF marked THEN MarksAtDraw(renewed) \cup {proverb} ELSE MarksAtDraw(renewed)
  /\ shown' = IF Renews THEN {proverb} ELSE shown \cup {proverb}
  /\ repeated' = IF Renews THEN {} ELSE repeated \cup ({proverb} \cap shown)
  /\ faults' = faults \cup (IF renewed THEN {} ELSE {"cycle"})
                      \cup (IF marked THEN {} ELSE {"mark"})
  /\ UNCHANGED <<isInitialPopulated, stored, realm, process>>

\* The process ends after markAllAsUnviewed, before anything is shown.
DrawCutShort == /\ process = "ready" /\ realm # "unopened" /\ Renews
                /\ viewed' = MarksAtDraw(TRUE)
                /\ shown' = {} /\ repeated' = {}
                /\ process' = "dead"
                /\ UNCHANGED <<isInitialPopulated, stored, realm, faults>>

\* randomElement()! finds nothing.
DrawTraps(renewed) == /\ process = "ready" /\ realm # "unopened"
                      /\ renewed \/ Renews
                      /\ Found \ MarksAtDraw(renewed) = {}
                      /\ viewed' = MarksAtDraw(renewed)
                      /\ process' = "trapped"
                      /\ faults' = faults \cup (IF renewed THEN {} ELSE {"cycle"})
                      /\ UNCHANGED <<isInitialPopulated, stored, realm, shown, repeated>>

Kill == /\ process # "dead" /\ process' = "dead"
        /\ UNCHANGED <<durable, realm, history>>

Next ==
  \/ OpenRealm \/ \E opens, erased \in BOOLEAN : ResetRealm(opens, erased)
  \/ Launch \/ SkipPopulation \/ Populate \/ PopulateFails \/ SetPopulated
  \/ \E proverb \in Proverbs, renewed, marked \in BOOLEAN : Draw(proverb, renewed, marked)
  \/ DrawCutShort \/ \E renewed \in BOOLEAN : DrawTraps(renewed)
  \/ Kill

Spec == Init /\ [][Next]_vars

(***************************************************************************)
(* Properties                                                              *)
(***************************************************************************)
\* The forced unwrap of randomElement finds a proverb: the threshold renews
\* the cycle in time, whatever marks are lost and wherever a kill falls.
\* Only a library that was lost, or a cycle whose renewal failed, traps.
DrawFindsProverb == process = "trapped" => faults \cap {"library", "cycle"} # {}

\* A proverb comes back only in a later cycle: no launch, no kill and no
\* second population forgets what was viewed, only a mark that failed does.
NoRepeatInCycle == "mark" \notin faults => repeated = {}

\* While nothing failed the last draws of a cycle cannot be foreseen: each
\* draw chooses among at least MinUnviewed proverbs.
ManyToChoose ==
  faults = {} => Cardinality(shown) + MinUnviewed <= Cardinality(Proverbs) + 1
=============================================================================
