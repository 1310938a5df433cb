------------------------------ MODULE Firestore ------------------------------
(***************************************************************************)
(* The Firestore client as FirestoreManager uses it (external code).       *)
(*                                                                         *)
(* Persistence is enabled, so a write is visible to this device's reads as *)
(* soon as it is issued, is kept in a queue on disk that survives the      *)
(* process, and is sent in order.  The queue belongs to the user signed in *)
(* when the write was issued and moves only while that user is current.    *)
(* The completion of a write is called when the server has accepted or     *)
(* rejected it, if the process that issued it still lives.                 *)
(***************************************************************************)
EXTENDS Naturals, Sequences, Identity

CONSTANTS Proverbs,     \* origins: identifiers of the built-in proverbs
          Ids,          \* document identifiers, random UUIDs
          Ops,          \* operations of the app a completion belongs to
          NoOp,         \* nobody waits any more
          OfflineReads, \* may a collection be read from an empty cache
          Stored        \* the collections other devices may have left

VARIABLES server,    \* Users/<uid>/FavoriteProverbs on the server
          userDocs,  \* the users whose document exists on the server
          queue      \* the writes not settled yet, by the issuing identity

firestoreVars == <<server, userDocs, queue>>

Docs == [id : Ids, origin : Proverbs]

ASSUME FirestoreAssumption ==
  NoOp \notin Ops /\ OfflineReads \in BOOLEAN /\ Stored \subseteq SUBSET Docs

Writes == [kind : {"user", "put", "delete"}, col : Users,
           docs : SUBSET Docs, op : Ops \cup {NoOp}]

FirestoreTypeOK ==
  /\ server \in [Users -> SUBSET Docs]
  /\ userDocs \in SUBSET Users
  /\ queue \in [Identities -> Seq(Writes)]

FirestoreInit ==
  /\ server \in [Users -> Stored]
  /\ userDocs \in SUBSET Users
  /\ queue = [i \in Identities |-> << >>]

SameId(d, S) == \E e \in S : e.id = d.id
OfOrigin(S, p) == {d \in S : d.origin = p}

\* What the write w makes of the documents S of its collection.
Written(S, w) ==
  IF w.kind = "user" THEN S
  ELSE {d \in S : ~SameId(d, w.docs)} \cup (IF w.kind = "put" THEN w.docs ELSE {})

\* The queued writes of identity i that touch document d of collection col.
Touching(i, col, d) ==
  {n \in DOMAIN queue[i] : queue[i][n].col = col /\ SameId(d, queue[i][n].docs)}

\* The collection as identity i sees it over the stored documents S: the last
\* queued write to a document decides.
Overlay(i, col, S) ==
  {d \in Docs :
     IF Touching(i, col, d) = {} THEN d \in S
     ELSE \E n \in Touching(i, col, d) :
            /\ \A m \in Touching(i, col, d) : m <= n
            /\ queue[i][n].kind = "put" /\ d \in queue[i][n].docs}

\* The answers a successful read of a collection can give.
Reads(i, col) ==
  {Overlay(i, col, server[col])} \cup
  (IF OfflineReads THEN {Overlay(i, col, {})} ELSE {})

Enqueue(i, w) == queue' = [queue EXCEPT ![i] = Append(@, w)]

\* The head of i's queue is settled; accepted, it changes the server.
Settle(i, ok) ==
  LET w == Head(queue[i])
  IN  /\ queue' = [queue EXCEPT ![i] = Tail(@)]
      /\ server' = IF ok THEN [server EXCEPT ![w.col] = Written(@, w)]
                   ELSE server
      /\ userDocs' = IF ok /\ w.kind = "user" THEN userDocs \cup {w.col}
                     ELSE userDocs

\* The process is gone: the writes stay, nobody waits for them.
Disown == queue' = [i \in Identities |->
                      [n \in DOMAIN queue[i] |-> [queue[i][n] EXCEPT !.op = NoOp]]]
=============================================================================
