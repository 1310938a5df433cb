---------------------------- MODULE FavoritesList ----------------------------
(***************************************************************************)
(* The screen that lists the favourites (FavoritesProverbsViewController)  *)
(* with the details screen it opens: the array of proverbs, the table that *)
(* is told of every change to it, the reads and the deletions in flight,   *)
(* and the DidDelete notifications both screens react to.                  *)
(*                                                                         *)
(* The favourites behind it are local (Realm objects, answered at once),   *)
(* remote (Firestore, answered later; a deletion is visible to this        *)
(* device's reads from the moment it is issued) or out of reach (the plan  *)
(* says remote, but there is no FirestoreManager).                         *)
(*                                                                         *)
(* The code removes a row by the index it found BEFORE the deletion was    *)
(* asked for.  `excuses' records every circumstance under which that is    *)
(* known to go wrong; the properties say that there is no other.           *)
(***************************************************************************)
EXTENDS Naturals, SequencesExt

CONSTANTS Docs,         \* favourites: id grows with the date, origin orders the texts
          Stored,       \* what the stores may hold at first
          NoDoc,
          Reads,        \* slots for getAll calls in flight (a bound)
          MaxDeletions  \* deletions in flight (a bound)

ASSUME FavoritesListAssumption ==
  /\ IsFiniteSet(Docs) /\ \A d \in Docs : d.id \in Nat /\ d.origin \in Nat
  /\ \A d, e \in Docs : d.id = e.id => d = e
  /\ NoDoc \notin Docs /\ Stored \subseteq SUBSET Docs
  /\ MaxDeletions \in Nat

VARIABLES
  where,       \* where the favourites are: local, remote or none
  local,       \* the RFavoriteProverb objects in Realm
  server,      \* the documents in the user's collection
  screen,      \* what is on top: list, details, or neither (new, popped)
  sortOption,  \* currentSortOption
  list,        \* proverbs, the cells of the table, are they Realm's; a trap
  swiped,      \* the cell with its delete button open: proverb and row
  details,     \* the proverb of the details screen
  deletions,   \* Firestore deletions in flight, in order
  reads,       \* Firestore reads in flight
  excuses      \* history: what has gone wrong since the list was opened

vars == <<where, local, server, screen, sortOption, list, swiped, details,
          deletions, reads, excuses>>

Lists == [rows : Seq(Docs), cells : Seq(Docs), realm : BOOLEAN,
          trap : {"none", "index", "table", "realm"}]
NewList == [rows |-> << >>, cells |-> << >>, realm |-> FALSE, trap |-> "none"]

Details == [doc : Docs, realm : BOOLEAN]
NoDetails == [doc |-> NoDoc, realm |-> FALSE]
Cells == [doc : Docs, row : Nat, moved : BOOLEAN]
NoCell == [doc |-> NoDoc, row |-> 0, moved |-> FALSE]

\* index: where the proverb was in the array; row: its IndexPath in the
\* table; both 0 for a deletion on the details screen.  moved: the array has
\* changed since they were looked up (history).
DeletionRecords == [doc : Docs, index : Nat, row : Nat, moved : BOOLEAN]
ReadRecords == [stage : {"idle", "asked", "found"}, docs : SUBSET Docs]
NoRead == [stage |-> "idle", docs |-> {}]

\* left, moved: a swiped deletion was answered when its list was not on screen,
\* or had changed since.  switched: the favourites are in another store.
\* parted: rows and favourites may differ, since Firestore refused something,
\* a read was overtaken, a deletion on the details screen was answered on the
\* list, one of two favourites of a proverb was deleted, or a save came late.
ExcuseKinds == {"left", "moved", "switched", "parted"}

FavoritesListTypeOK ==
  /\ where \in {"local", "remote", "none"}
  /\ local \in SUBSET Docs /\ server \in SUBSET Docs
  /\ screen \in {"new", "list", "details", "popped"}
  /\ sortOption \in {"alphabet", "date"}
  /\ list \in Lists
  /\ swiped \in Cells \cup {NoCell}
  /\ details \in IF screen = "details" THEN Details ELSE {NoDetails}
  /\ deletions \in Seq(DeletionRecords) /\ Len(deletions) <= MaxDeletions
  /\ reads \in [Reads -> ReadRecords]
  /\ excuses \in SUBSET ExcuseKinds

(***************************************************************************)
(* The array and the table                                                 *)
(***************************************************************************)
\* The collection as this device sees it: a pending deletion hides its document.
Seen == server \ {deletions[n].doc : n \in DOMAIN deletions}

Kept == CASE where = "local" -> local [] where = "remote" -> Seen [] OTHER -> {}

\* sortAlphabetically files the proverbs under their texts: of those with the
\* same text one stays, the last that the read happened to give.  The 1962
\* proverbs of FinalProverbs.plist have different texts after the bracket in
\* every section, so that only favourites of one proverb share a text.
OnePerText(S) ==
  {T \in SUBSET S : \A d \in S : \E e \in T : \A f \in T : f.origin = d.origin <=> f = e}

Before(option, d, e) == IF option = "date" THEN d.id > e.id ELSE d.origin < e.origin
Ordered(option, q) ==
  \A i, j \in DOMAIN q : i < j => Before(option, q[i], q[j])

Sorted(option, S) ==
  {q \in UNION {SetToSeqs(T) : T \in IF option = "date" THEN {S} ELSE OnePerText(S)} :
     Ordered(option, q)}

\* Realm objects that were deleted must not be touched.
Touchable(v, objects) == v.realm => ToSet(v.rows) \subseteq objects

\* updateListOrderAndReload.
SortedAndReloaded(v, option, objects) ==
  IF ~Touchable(v, objects) THEN {[v EXCEPT !.trap = "realm"]}
  ELSE {[v EXCEPT !.rows = rows, !.cells = rows] : rows \in Sorted(option, ToSet(v.rows))}

\* updateData: what becomes of the list, and is Firestore asked.
Updated(v, objects) ==
  CASE where = "remote" -> {[list |-> v, asks |-> TRUE]}
    [] where = "local"  -> {[list |-> w, asks |-> FALSE] : w \in
         SortedAndReloaded([v EXCEPT !.rows = SetToSeq(objects), !.realm = TRUE],
                           sortOption, objects)}
    [] OTHER -> {[list |-> w, asks |-> FALSE] : w \in SortedAndReloaded(v, sortOption, objects)}

Ask == \E r \in Reads : /\ reads[r].stage = "idle"
                        /\ reads' = [reads EXCEPT ![r] = [NoRead EXCEPT !.stage = "asked"]]

\* proverbs.remove(at:) ends the process when the index is out of range, and
\* deleteRows when the table and the array do not add up.
RowRemoved(v, index) ==
  IF index > Len(v.rows) THEN [v EXCEPT !.trap = "index"]
  ELSE [v EXCEPT !.rows = RemoveAt(@, index)]

CellRemoved(v, row) ==
  IF v.trap # "none" THEN v
  ELSE IF row > Len(v.cells) \/ Len(v.cells) # Len(v.rows) + 1
       THEN [v EXCEPT !.trap = "table"]
       ELSE [v EXCEPT !.cells = RemoveAt(@, row)]

Removed(v, index, row) == CellRemoved(RowRemoved(v, index), row)

Excused(S) == excuses' = excuses \cup S

\* History: rows looked up before the array changed are out of date.  Cells
\* made anew by reloadData have no button open.
Moved(pending) ==
  IF list'.rows = list.rows THEN pending
  ELSE [n \in DOMAIN pending |-> [pending[n] EXCEPT !.moved = TRUE]]
SwipeReset == swiped' = NoCell
SwipeKept == swiped' = IF swiped = NoCell \/ list'.rows = list.rows THEN swiped
                       ELSE [swiped EXCEPT !.moved = TRUE]

\* The model does not follow a list that has trapped, whose rows were taken
\* for others, or that was both switched and parted (bounds: little is claimed
\* of it any more).
Alive == /\ list.trap = "none" /\ excuses \cap {"left", "moved"} = {}
         /\ excuses # {"switched", "parted"}
Twin(d) == IF \E e \in Kept \ {d} : e.origin = d.origin THEN {"parted"} ELSE {}

(***************************************************************************)
(* Opening, refreshing and sorting                                         *)
(***************************************************************************)
Init ==
  /\ where \in {"local", "remote", "none"}
  /\ local \in Stored /\ server \in Stored
  /\ screen = "new" /\ sortOption = "alphabet"
  /\ list = NewList /\ swiped = NoCell
  /\ details = NoDetails
  /\ deletions = << >> /\ reads = [r \in Reads |-> NoRead]
  /\ excuses = {}

\* updateData of the list v as a step; nothing else in flight is touched.
UpdateData(v) ==
  \E u \in Updated(v, local) :
    /\ list' = u.list
    /\ IF u.asks THEN Ask /\ SwipeKept ELSE UNCHANGED reads /\ SwipeReset
    /\ deletions' = Moved(deletions)

\* viewDidLoad.  A list that is opened again has a controller of its own.
Open ==
  /\ Alive /\ screen = "new" /\ screen' = "list"
  /\ \E u \in Updated(NewList, local) :
       /\ list' = u.list
       /\ IF u.asks THEN Ask ELSE UNCHANGED reads
  /\ SwipeReset
  /\ UNCHANGED <<where, local, server, sortOption, details, deletions, excuses>>

\* Pull to refresh.
Refresh ==
  /\ Alive /\ screen = "list"
  /\ UpdateData(list)
  /\ UNCHANGED <<where, local, server, screen, sortOption, details, excuses>>

AnswerRead(r) ==
  /\ Alive /\ reads[r].stage = "asked"
  /\ reads' = [reads EXCEPT ![r] = [stage |-> "found", docs |-> Seen]]
  /\ UNCHANGED <<where, local, server, screen, sortOption, list, swiped, details,
                 deletions, excuses>>

\* A read that fails leaves the proverbs, which are sorted and shown again.
DeliverRead(r) ==
  /\ Alive /\ reads[r].stage \in {"asked", "found"}
  /\ LET found == reads[r].stage = "found"
         v == IF found THEN [list EXCEPT !.rows = SetToSeq(reads[r].docs), !.realm = FALSE]
              ELSE list
     IN  /\ list' \in SortedAndReloaded(v, sortOption, local)
         /\ Excused(IF ~found THEN {"parted"}
                    ELSE IF where # "remote" \/ reads[r].docs # Seen THEN {"parted"} ELSE {})
  /\ reads' = [reads EXCEPT ![r] = NoRead]
  /\ deletions' = Moved(deletions) /\ SwipeReset
  /\ UNCHANGED <<where, local, server, screen, sortOption, details>>

\* The sort sheet; currentSortOption's observer sorts only on a change.
ChangeSort ==
  /\ Alive /\ screen = "list"
  /\ sortOption' = IF sortOption = "date" THEN "alphabet" ELSE "date"
  /\ list' \in SortedAndReloaded(list, sortOption', local)
  /\ deletions' = Moved(deletions) /\ SwipeReset
  /\ UNCHANGED <<where, local, server, screen, details, reads, excuses>>

\* A row scrolls into view or is tapped, or a button of its details is
\* pushed, after its object was deleted.
TouchDeleted ==
  /\ Alive
  /\ \/ screen = "list" /\ ~Touchable(list, local)
     \/ screen = "details" /\ details.realm /\ details.doc \notin local
  /\ list' = [list EXCEPT !.trap = "realm"]
  /\ UNCHANGED <<where, local, server, screen, sortOption, swiped, details,
                 deletions, reads, excuses>>

(***************************************************************************)
(* Deleting                                                                *)
(***************************************************************************)
\* Nothing in flight holds the controller of the list.
Gone == /\ \A n \in DOMAIN deletions : deletions[n].row = 0
        /\ \A r \in Reads : reads[r].stage = "idle"

\* Where a proverb, or a favourite, is first found in the array; 0: nowhere.
RowOfText(rows, d) == SelectInSeq(rows, LAMBDA e : e.origin = d.origin)
RowOfId(rows, d) == SelectInSeq(rows, LAMBDA e : e.id = d.id)

\* Mutant: the list reacts to DidDelete while it is on screen, too.
AfterDidDeleteAlways(v, d, objects) ==
  LET n == RowOfText(v.rows, d) IN
  IF n = 0 \/ v.realm THEN Updated(v, objects)
  ELSE {[list |-> Removed(v, n, n), asks |-> FALSE]}

\* Mutant: the list searches its Realm objects for the one deleted.
AfterDidDeleteOfAny(v, d, objects) ==
  LET n == RowOfText(v.rows, d) IN
  IF screen = "list" THEN {[list |-> v, asks |-> FALSE]}
  ELSE IF ~Touchable(v, objects)
       THEN {[list |-> [v EXCEPT !.trap = "realm"], asks |-> FALSE]}
  ELSE IF n = 0 THEN Updated(v, objects)
  ELSE {[list |-> Removed(v, n, n), asks |-> FALSE]}

\* didDeleteFavoriteProverbNotification, for a list that is not on screen: a
\* list of Realm objects is read anew, any other loses the first row of the
\* proverb.
AfterDidDelete(v, d, objects) ==
  LET n == RowOfText(v.rows, d) IN
  IF screen = "list" \/ (screen = "popped" /\ Gone) THEN {[list |-> v, asks |-> FALSE]}
  ELSE IF n = 0 \/ v.realm THEN Updated(v, objects)
  ELSE {[list |-> Removed(v, n, n), asks |-> FALSE]}

\* Mutant: only the notification about its own proverb pops the screen, and
\* the proverb is let go of by any.
PopDetailsHalf == /\ screen' = IF screen = "details" /\ details.realm THEN "list" ELSE screen
                  /\ details' = NoDetails

\* The notification pops the details screen, whichever favourite it is about.
PopDetails == /\ screen' = IF screen = "details" THEN "list" ELSE screen
              /\ details' = NoDetails

\* The delete button of a cell comes out; it keeps its proverb and its row.
Swipe(n) ==
  /\ Alive /\ screen = "list" /\ n \in DOMAIN list.cells
  /\ swiped' = [doc |-> list.rows[n], row |-> n, moved |-> FALSE]
  /\ UNCHANGED <<where, local, server, screen, sortOption, list, details,
                 deletions, reads, excuses>>

\* Its row at once: a Realm favourite that is deleted, or one that the
\* manager calls no favourite, in a list shown before the plan changed.
DeleteRowNow(index) ==
  /\ list' = IF Touchable(list, local)
             THEN IF index = 0 THEN CellRemoved(list, swiped.row)
                  ELSE Removed(list, index, swiped.row)
             ELSE [list EXCEPT !.trap = "realm"]
  /\ local' = IF list'.trap # "realm" /\ list.realm /\ where = "local"
              THEN local \ {swiped.doc} ELSE local
  /\ Excused((IF swiped.moved THEN {"moved"} ELSE {}) \cup Twin(swiped.doc))
  /\ deletions' = Moved(deletions)
  /\ UNCHANGED server

\* The delete button is pushed: deleteFromFavorites looks the proverb up in
\* the array of this moment.  Without a manager, or when Realm fails to
\* delete, an alert is shown and everything stays.
PushSwiped ==
  /\ Alive /\ screen = "list" /\ swiped # NoCell
  /\ SwipeReset
  /\ LET index == RowOfId(list.rows, swiped.doc) IN
     \/ /\ where = "remote" /\ ~list.realm
        /\ Len(deletions) < MaxDeletions
        /\ deletions' = Append(deletions, [doc |-> swiped.doc, index |-> index,
                                          row |-> swiped.row, moved |-> swiped.moved])
        /\ Excused(Twin(swiped.doc))
        /\ UNCHANGED <<local, server, list>>
     \/ /\ list.realm \/ where = "local"
        /\ DeleteRowNow(index)
     \/ /\ \/ where = "none" /\ ~list.realm
           \/ where = "local" /\ list.realm /\ Touchable(list, local)
        /\ UNCHANGED <<local, server, list, deletions, excuses>>
  /\ UNCHANGED <<where, screen, sortOption, details, reads>>

\* A row is tapped, and its proverb's screen covers the list.
OpenDetails(n) ==
  /\ Alive /\ screen = "list" /\ n \in DOMAIN list.rows /\ Touchable(list, local)
  /\ screen' = "details"
  /\ details' = [doc |-> list.rows[n], realm |-> list.realm]
  /\ SwipeReset
  /\ UNCHANGED <<where, local, server, sortOption, list, deletions, reads, excuses>>

\* The save button of a local favourite: it is deleted, the list reads what
\* is left, and the screen goes.
DeleteLocalDetails ==
  /\ Alive /\ screen = "details" /\ details.realm /\ where = "local"
  /\ details.doc \in local
  /\ local' = local \ {details.doc}
  /\ \E u \in AfterDidDelete(list, details.doc, local') :
       /\ list' = u.list
       /\ IF u.asks THEN Ask ELSE UNCHANGED reads
  /\ PopDetails
  /\ Excused(Twin(details.doc)) /\ deletions' = Moved(deletions)
  /\ UNCHANGED <<where, server, sortOption, swiped>>

\* The same of a remote favourite: Firestore is asked.
DeleteRemoteDetails ==
  /\ Alive /\ screen = "details" /\ ~details.realm /\ where = "remote"
  /\ Len(deletions) < MaxDeletions
  /\ deletions' = Append(deletions, [doc |-> details.doc, index |-> 0, row |-> 0,
                                     moved |-> FALSE])
  /\ Excused(Twin(details.doc))
  /\ UNCHANGED <<where, local, server, screen, sortOption, list, swiped, details, reads>>

\* Back, from the details or from the list.  A controller that nothing
\* holds takes its list with it.
Back ==
  /\ Alive /\ screen \in {"list", "details"}
  /\ screen' = IF screen = "details" THEN "list" ELSE "popped"
  /\ list' = IF screen = "list" /\ Gone THEN NewList ELSE list
  /\ details' = NoDetails /\ SwipeReset
  /\ UNCHANGED <<where, local, server, sortOption, deletions, reads, excuses>>

\* The completion of a swiped deletion removes the row whether the document
\* is gone or Firestore reports an error, which is no error of the manager.
AfterDeletion(v, w) ==
  IF w.row = 0 \/ v.trap # "none" THEN v
  ELSE IF w.index = 0 THEN CellRemoved(v, w.row) ELSE Removed(v, w.index, w.row)

\* Firestore settles the oldest deletion, after the answers it gave before: the
\* notification first, if it was accepted, then the completion.
SettleDeletion(ok) ==
  /\ Alive /\ deletions # << >>
  /\ \A r \in Reads : reads[r].stage # "found"
  /\ LET w == Head(deletions) IN
     /\ server' = IF ok THEN server \ {w.doc} ELSE server
     /\ IF ok
          THEN \E u \in AfterDidDelete(list, w.doc, local) :
                 /\ list' = AfterDeletion(u.list, w)
                 /\ IF u.asks THEN Ask ELSE UNCHANGED reads
          ELSE list' = AfterDeletion(list, w) /\ UNCHANGED reads
     /\ Excused((IF w.row # 0 /\ w.moved THEN {"moved"} ELSE {})
                \cup (IF w.row # 0 /\ ok /\ screen # "list" THEN {"left"} ELSE {})
                \cup (IF w.row = 0 /\ ok /\ screen = "list" THEN {"parted"} ELSE {})
                \cup (IF ok THEN {} ELSE {"parted"}))
     /\ IF ok THEN PopDetails ELSE UNCHANGED <<screen, details>>
  /\ deletions' = Moved(Tail(deletions)) /\ SwipeKept
  /\ UNCHANGED <<where, local, sortOption>>

(***************************************************************************)
(* The account changes behind the list                                     *)
(***************************************************************************)
\* A sign-in answered late, a purchase, a manager dropped: the favourites
\* are elsewhere from now on.  A migration also empties the local ones.  Once
\* while a list is open (a bound).
Switch ==
  /\ Alive /\ "switched" \notin excuses
  /\ where' \in {"local", "remote", "none"} \ {where}
  /\ \/ UNCHANGED <<local, server>>
     \/ where' = "remote" /\ local' = {}
        /\ server' = server \cup {d \in local : \A e \in Seen : e.origin # d.origin}
  /\ Excused({"switched"})
  /\ UNCHANGED <<screen, sortOption, list, swiped, details, deletions, reads>>

\* A save asked for on the screen before is written only now; the list does
\* not observe DidSave.  Once while a list is open (a bound).
SaveArrives(d) ==
  /\ Alive /\ where = "remote" /\ "parted" \notin excuses /\ d \notin server \cup local
  /\ server' = server \cup {d}
  /\ Excused({"parted"})
  /\ UNCHANGED <<where, local, screen, sortOption, list, swiped, details, deletions, reads>>

Next ==
  \/ Open \/ Refresh \/ ChangeSort \/ TouchDeleted \/ Back \/ Switch
  \/ \E r \in Reads : AnswerRead(r) \/ DeliverRead(r)
  \/ \E n \in 1..Cardinality(Docs) : Swipe(n) \/ OpenDetails(n)
  \/ \E d \in Docs : SaveArrives(d)
  \/ PushSwiped \/ DeleteLocalDetails \/ DeleteRemoteDetails
  \/ \E ok \in BOOLEAN : SettleDeletion(ok)

Spec == Init /\ [][Next]_vars

(***************************************************************************)
(* Properties                                                              *)
(***************************************************************************)
\* The array and the table stay one list and nothing traps, unless a swiped
\* deletion was answered after its list had been left or had changed, or the
\* favourites moved to another store: one deletion at a time on a screen that
\* stays open is safe, and so is any number on the details screens.
TableFollowsArray ==
  /\ list.trap \in {"index", "table"} \/ list.cells # list.rows
       => excuses \cap {"left", "moved"} # {}
  /\ list.trap = "realm" => "switched" \in excuses

\* When everything asked for is answered the list shows favourites only, and
\* each proverb among them, in the order chosen, unless one of the listed
\* circumstances arose since it was opened.
RowsShowFavorites ==
  /\ screen = "list" /\ deletions = << >> /\ \A r \in Reads : reads[r].stage = "idle"
  /\ excuses = {}
  => /\ ToSet(list.rows) \subseteq Kept
     /\ \A d \in Kept : \E e \in ToSet(list.rows) : e.origin = d.origin
     /\ \A n \in 1..(Len(list.rows) - 1) : Before(sortOption, list.rows[n], list.rows[n + 1])
=============================================================================
