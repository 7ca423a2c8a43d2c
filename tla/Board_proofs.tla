---------------------------- MODULE Board_proofs ----------------------------
(***************************************************************************)
(* Proofs about what a board shows: its columns (Columns), its lists       *)
(* (ListOrder), the feed of its notes (NotesFeed), its calendar (Calendar) *)
(* and its toolbar (Agenda), and the chain of a repeating card (Repeats),  *)
(* for any positions, notes, instants, zones and page lengths, any number  *)
(* of requests at once and any bounds.                                     *)
(***************************************************************************)
EXTENDS ListOrder, NotesFeed, Calendar, Agenda, Repeats, FiniteSetTheorems, SequenceTheorems,
        WellFoundedInduction, NaturalsInduction, TLAPS


-----------------------------------------------------------------------------
(* Rows in an order, and the pages of them.                                *)
(* A page of the finite set S, read in the order R: the rows with fewer    *)
(* than k others before them.                                              *)
Ahead(S, R, c) == {d \in S : <<d, c>> \in R}
FirstIn(S, R, k) == {c \in S : Cardinality(Ahead(S, R, c)) < k}
Orders(R, S) ==
  /\ IsFiniteSet(S)
  /\ \A a \in S : <<a, a>> \notin R
  /\ \A a, b, c \in S : <<a, b>> \in R /\ <<b, c>> \in R => <<a, c>> \in R
Chains(R, S) == Orders(R, S) /\ \A a, b \in S : a = b \/ <<a, b>> \in R \/ <<b, a>> \in R

(* How many rows are before a row is a number. *)
LEMMA AheadIsFinite ==
  ASSUME NEW S, NEW R, Orders(R, S), NEW c \in S
  PROVE  /\ IsFiniteSet(Ahead(S, R, c)) /\ Cardinality(Ahead(S, R, c)) \in Nat
         /\ Ahead(S, R, c) \subseteq S
<1>1. Ahead(S, R, c) \in SUBSET S  BY DEF Ahead
<1>2. IsFiniteSet(S)  BY DEF Orders
<1> QED  BY <1>1, <1>2, FS_Subset, FS_CardinalityType

(* A row has more rows before it than any row before it. *)
LEMMA AheadGrows ==
  ASSUME NEW S, NEW R, Orders(R, S), NEW c \in S, NEW d \in S, <<d, c>> \in R
  PROVE  Cardinality(Ahead(S, R, d)) < Cardinality(Ahead(S, R, c))
<1>1. Ahead(S, R, d) \in SUBSET Ahead(S, R, c)  BY DEF Ahead, Orders
<1>2. d \in Ahead(S, R, c) /\ d \notin Ahead(S, R, d)  BY DEF Ahead, Orders
<1>3. Ahead(S, R, d) # Ahead(S, R, c)  BY <1>2
<1>4. IsFiniteSet(Ahead(S, R, c))  BY AheadIsFinite
<1>5. Cardinality(Ahead(S, R, d)) \in Nat /\ Cardinality(Ahead(S, R, c)) \in Nat  BY AheadIsFinite
<1>6. Cardinality(Ahead(S, R, d)) <= Cardinality(Ahead(S, R, c))  BY <1>1, <1>4, FS_Subset
<1>7. Cardinality(Ahead(S, R, d)) # Cardinality(Ahead(S, R, c))  BY <1>1, <1>3, <1>4, FS_Subset
<1> QED  BY <1>5, <1>6, <1>7

(* The least of some numbers. *)
LEMMA LeastNumber ==
  ASSUME NEW N \in SUBSET Nat, N # {} PROVE \E n \in N : \A m \in N : n <= m
<1>1. PICK n \in N : \A m \in N : ~(<<m, n>> \in OpToRel(<, Nat))
  BY NatLessThanWellFounded, WFMin
<1>2. ASSUME NEW m \in N PROVE n <= m
  <2>1. ~(<<m, n>> \in {ss \in Nat \X Nat : ss[1] < ss[2]})  BY <1>1 DEF OpToRel
  <2> QED  BY <2>1
<1> QED  BY <1>2

(* Some row of a set has none of the set before it. *)
LEMMA SomeFirst ==
  ASSUME NEW S, NEW R, Orders(R, S), NEW T \in SUBSET S, T # {}
  PROVE  \E c \in T : \A d \in T : <<d, c>> \notin R
<1> DEFINE N == {Cardinality(Ahead(S, R, c)) : c \in T}
<1>1. N \in SUBSET Nat  BY AheadIsFinite
<1>2. N # {}  OBVIOUS
<1>3. PICK n \in N : \A m \in N : n <= m
  <2> HIDE DEF N
  <2> QED  BY <1>1, <1>2, LeastNumber
<1>4. PICK c \in T : n = Cardinality(Ahead(S, R, c))  OBVIOUS
<1>5. ASSUME NEW d \in T, <<d, c>> \in R PROVE FALSE
  <2>1. Cardinality(Ahead(S, R, d)) < Cardinality(Ahead(S, R, c))  BY <1>5, AheadGrows
  <2>2. Cardinality(Ahead(S, R, c)) <= Cardinality(Ahead(S, R, d))  BY <1>3, <1>4
  <2>3. Cardinality(Ahead(S, R, d)) \in Nat /\ Cardinality(Ahead(S, R, c)) \in Nat  BY AheadIsFinite
  <2> QED  BY <2>1, <2>2, <2>3
<1> QED  BY <1>5

(* What is not on the page is not before what is. *)
LEMMA PageComesFirst ==
  ASSUME NEW S, NEW R, Orders(R, S), NEW k \in Nat,
         NEW c \in FirstIn(S, R, k), NEW d \in S, d \notin FirstIn(S, R, k)
  PROVE  <<d, c>> \notin R
<1>1. SUFFICES ASSUME <<d, c>> \in R PROVE FALSE  OBVIOUS
<1>2. c \in S  BY DEF FirstIn
<1>3. Cardinality(Ahead(S, R, d)) < Cardinality(Ahead(S, R, c))  BY <1>1, <1>2, AheadGrows
<1>4. Cardinality(Ahead(S, R, d)) \in Nat /\ Cardinality(Ahead(S, R, c)) \in Nat
  BY <1>2, AheadIsFinite
<1> QED  BY <1>3, <1>4 DEF FirstIn

(* A page that is not full holds all rows. *)
LEMMA ShortPageIsAll ==
  ASSUME NEW S, NEW R, Orders(R, S), NEW k \in Nat, Cardinality(FirstIn(S, R, k)) < k
  PROVE  FirstIn(S, R, k) = S
<1> DEFINE top == FirstIn(S, R, k)
<1>1. top \in SUBSET S  BY DEF FirstIn
<1>2. SUFFICES ASSUME S \ top # {} PROVE FALSE  BY <1>1
<1>3. PICK c \in S \ top : \A d \in S \ top : <<d, c>> \notin R  BY <1>2, SomeFirst
<1>4. Ahead(S, R, c) \in SUBSET top  BY <1>3 DEF Ahead
<1>5. IsFiniteSet(top)  BY <1>1, FS_Subset DEF Orders
<1>6. Cardinality(top) \in Nat  BY <1>5, FS_CardinalityType
<1>7. Cardinality(Ahead(S, R, c)) <= Cardinality(top)  BY <1>4, <1>5, FS_Subset
<1>8. Cardinality(Ahead(S, R, c)) \in Nat  BY AheadIsFinite
<1>9. ~(Cardinality(Ahead(S, R, c)) < k)  BY <1>3 DEF FirstIn
<1> QED  BY <1>6, <1>7, <1>8, <1>9

(* A set that fits on the page is the page. *)
LEMMA AllOnThePage ==
  ASSUME NEW S, NEW R, Orders(R, S), NEW k \in Nat, Cardinality(S) <= k
  PROVE  FirstIn(S, R, k) = S
<1> SUFFICES ASSUME NEW c \in S PROVE Cardinality(Ahead(S, R, c)) < k  BY DEF FirstIn
<1>1. Ahead(S, R, c) \in SUBSET S  BY DEF Ahead
<1>2. c \notin Ahead(S, R, c)  BY DEF Ahead, Orders
<1>3. Ahead(S, R, c) # S  BY <1>2
<1>4. IsFiniteSet(S)  BY DEF Orders
<1>5. Cardinality(Ahead(S, R, c)) <= Cardinality(S)  BY <1>1, <1>4, FS_Subset
<1>6. Cardinality(Ahead(S, R, c)) # Cardinality(S)  BY <1>1, <1>3, <1>4, FS_Subset
<1>7. Cardinality(S) \in Nat  BY <1>4, FS_CardinalityType
<1>8. Cardinality(Ahead(S, R, c)) \in Nat  BY AheadIsFinite
<1> QED  BY <1>5, <1>6, <1>7, <1>8

(* No page is longer than it may be when no two rows are at the same place. *)
LEMMA PageIsBounded ==
  ASSUME NEW S, NEW R, Chains(R, S), NEW k \in Nat
  PROVE  IsFiniteSet(FirstIn(S, R, k)) /\ Cardinality(FirstIn(S, R, k)) <= k
<1> DEFINE top == FirstIn(S, R, k)
           Later == {p \in S \X S : <<p[2], p[1]>> \in R}
<1>1. top \in SUBSET S  BY DEF FirstIn
<1>2. IsFiniteSet(top)  BY <1>1, FS_Subset DEF Orders, Chains
<1>3. CASE top = {}  BY <1>2, <1>3, FS_EmptySet
<1>4. CASE top # {}
  <2>1. Orders(Later, S)  BY DEF Orders, Chains
  <2>2. PICK c \in top : \A d \in top : <<d, c>> \notin Later  BY <1>1, <1>4, <2>1, SomeFirst
  <2>3. \A d \in top : d = c \/ <<d, c>> \in R  BY <1>1, <2>2 DEF Chains
  <2>4. top \in SUBSET (Ahead(S, R, c) \cup {c})  BY <1>1, <2>3 DEF Ahead
  <2>5. c \in S /\ Orders(R, S)  BY <1>1 DEF Chains
  <2>6. IsFiniteSet(Ahead(S, R, c)) /\ Cardinality(Ahead(S, R, c)) \in Nat  BY <2>5, AheadIsFinite
  <2>7. c \notin Ahead(S, R, c)  BY <2>5 DEF Ahead, Orders
  <2>8. /\ IsFiniteSet(Ahead(S, R, c) \cup {c})
        /\ Cardinality(Ahead(S, R, c) \cup {c}) = Cardinality(Ahead(S, R, c)) + 1
    BY <2>6, <2>7, FS_AddElement
  <2>9. Cardinality(top) <= Cardinality(Ahead(S, R, c)) + 1  BY <2>4, <2>8, FS_Subset
  <2>10. Cardinality(Ahead(S, R, c)) < k  BY DEF FirstIn
  <2>11. Cardinality(top) \in Nat  BY <1>2, FS_CardinalityType
  <2> QED  BY <1>2, <2>6, <2>9, <2>10, <2>11
<1> QED  BY <1>3, <1>4

-----------------------------------------------------------------------------
(* The feed of notes.                                                      *)
NoteRow == [card : FeedCards, at : Nat \ {0}]
Feed == [pc : {"rest", "next", "done"}, before : Nat, seen : SUBSET NoteIds,
         again : SUBSET NoteIds, stays : SUBSET NoteIds, ends : SUBSET Nat]

\* The rows, of which there are finitely many, all written by now.
NotesInv ==
  /\ taskNote \in [NoteIds -> NoteRow \cup {NoNote}] /\ IsFiniteSet(Exist)
  /\ onBoard \subseteq FeedCards /\ feedClock \in Nat \ {0}
  /\ \A n \in Exist : taskNote[n].at <= feedClock

\* What the client has seen is from the cursor on, and what it has not is before it.
ReaderInv ==
  /\ feed \in Feed
  /\ feed.stays \subseteq Visible /\ feed.again = {}
  /\ \A n \in feed.stays \ feed.seen :
       taskNote[n].at \in feed.ends \/ (feed.pc = "next" /\ n \in Older(feed.before))
  /\ feed.pc = "next" =>
       IF feed.before = 0 THEN feed.seen = {}
       ELSE /\ feed.before <= feedClock
            /\ \A n \in feed.seen \cap Exist : feed.before <= taskNote[n].at

FeedInv == NotesInv /\ ReaderInv

Newest == {p \in NoteIds \X NoteIds : NewerNote(p[1], p[2])}

(* Notes are ordered by time and id. *)
LEMMA NotesAreOrdered ==
  ASSUME NotesInv, NEW S \in SUBSET Exist
  PROVE  /\ Orders(Newest, S)
         /\ \A k \in Nat : FirstOf(S, k) = FirstIn(S, Newest, k)
<1>1. Exist \in SUBSET NoteIds /\ NoteIds \subseteq Nat  BY NotesFeedAssumption DEF Exist
<1>2. IsFiniteSet(S)  BY FS_Subset DEF NotesInv
<1>3. \A n \in S : taskNote[n].at \in Nat /\ n \in Nat  BY <1>1 DEF NotesInv, Exist, NoteRow
<1>4. \A n, m \in S : <<n, m>> \in Newest <=> NewerNote(n, m)  BY <1>1 DEF Newest
<1>5. Orders(Newest, S)
  <2>1. \A n \in S : ~NewerNote(n, n)  BY <1>3 DEF NewerNote
  <2>2. \A a, b, c \in S : NewerNote(a, b) /\ NewerNote(b, c) => NewerNote(a, c)
    BY <1>3 DEF NewerNote
  <2> QED  BY <1>2, <1>4, <2>1, <2>2 DEF Orders
<1>6. \A c \in S : Ahead(S, Newest, c) = {m \in S : NewerNote(m, c)}  BY <1>4 DEF Ahead
<1>7. ASSUME NEW k \in Nat PROVE FirstOf(S, k) = FirstIn(S, Newest, k)
  BY <1>6 DEF FirstOf, FirstIn
<1> QED  BY <1>5, <1>7

(* The cursor of a page is the time of the last note on it. *)
LEMMA EarliestIsLast ==
  ASSUME NotesInv, NEW S \in SUBSET Exist, S # {}
  PROVE  /\ Earliest(S) \in Nat \ {0} /\ Earliest(S) <= feedClock
         /\ \E n \in S : Earliest(S) = taskNote[n].at
         /\ \A n \in S : Earliest(S) <= taskNote[n].at
<1> DEFINE N == {taskNote[n].at : n \in S}
<1>1. N \in SUBSET (Nat \ {0})  BY DEF NotesInv, Exist, NoteRow
<1>2. N # {}  OBVIOUS
<1>3. \E t \in N : \A u \in N : t <= u
  <2> HIDE DEF N
  <2> QED  BY <1>1, <1>2, LeastNumber
<1>4. \E t \in N : \A n \in S : t <= taskNote[n].at  BY <1>3
<1>5. Earliest(S) \in N /\ \A n \in S : Earliest(S) <= taskNote[n].at  BY <1>4 DEF Earliest
<1>6. PICK n \in S : Earliest(S) = taskNote[n].at  BY <1>5
<1>7. taskNote[n].at <= feedClock  BY DEF NotesInv
<1> QED  BY <1>1, <1>5, <1>6, <1>7

(* What a page shows, and what it leaves for the next one. *)
LEMMA PageOfNotes ==
  ASSUME NotesInv, NEW before \in Nat, NEW rows, NEW shown,
         rows = findNotesOnBoard(before, FeedLimit + 1), shown = FirstOf(rows, FeedLimit)
  PROVE  /\ shown \subseteq Older(before)
         /\ nextCursor(rows) = 0 => shown = Older(before)
         /\ nextCursor(rows) # 0 =>
              /\ shown # {} /\ nextCursor(rows) = Earliest(shown)
              /\ \A n \in Older(before) \ shown : taskNote[n].at <= Earliest(shown)
<1> DEFINE all == Older(before)
<1>1. all \in SUBSET Exist  BY DEF Older, Visible
<1>2. FeedLimit \in Nat \ {0} /\ FeedLimit + 1 \in Nat  BY NotesFeedAssumption
<1>3. rows = FirstIn(all, Newest, FeedLimit + 1) /\ Orders(Newest, all)
  BY <1>1, <1>2, NotesAreOrdered DEF findNotesOnBoard
<1>4. rows \in SUBSET all /\ rows \in SUBSET Exist  BY <1>1, <1>3 DEF FirstIn
<1>5. shown = FirstIn(rows, Newest, FeedLimit) /\ Orders(Newest, rows)
  BY <1>2, <1>4, NotesAreOrdered
<1>6. shown \in SUBSET rows  BY <1>5 DEF FirstIn
<1>7. Cardinality(rows) \in Nat  BY <1>5, FS_CardinalityType DEF Orders
<1>8. CASE Cardinality(rows) <= FeedLimit
  <2>1. rows = all  BY <1>2, <1>3, <1>7, <1>8, ShortPageIsAll
  <2>2. shown = rows  BY <1>2, <1>5, <1>8, AllOnThePage
  <2>3. nextCursor(rows) = 0  BY <1>2, <1>7, <1>8 DEF nextCursor
  <2> QED  BY <2>1, <2>2, <2>3
<1>9. CASE Cardinality(rows) > FeedLimit
  <2>1. nextCursor(rows) = Earliest(shown)  BY <1>9 DEF nextCursor
  <2>2. shown # {}
    <3>1. SUFFICES ASSUME shown = {} PROVE FALSE  OBVIOUS
    <3>2. Cardinality(shown) < FeedLimit  BY <1>2, <3>1, FS_EmptySet
    <3>3. shown = rows  BY <1>2, <1>5, <3>2, ShortPageIsAll
    <3> QED  BY <1>2, <1>9, <3>1, <3>3, FS_EmptySet
  <2>3. PICK last \in shown : Earliest(shown) = taskNote[last].at
    BY <1>4, <1>6, <2>2, EarliestIsLast
  <2>4. ASSUME NEW n \in all \ shown PROVE taskNote[n].at <= Earliest(shown)
    <3>1. <<n, last>> \notin Newest
      <4>1. CASE n \in rows  BY <1>2, <1>5, <4>1, PageComesFirst
      <4>2. CASE n \notin rows
        <5>1. last \in FirstIn(all, Newest, FeedLimit + 1)  BY <1>3, <1>6
        <5> QED  BY <1>2, <1>3, <4>2, <5>1, PageComesFirst
      <4> QED  BY <4>1, <4>2
    <3>2. n \in Exist /\ last \in Exist  BY <1>1, <1>4, <1>6
    <3>3. taskNote[n].at \in Nat /\ taskNote[last].at \in Nat  BY <3>2 DEF NotesInv, Exist, NoteRow
    <3>4. ~NewerNote(n, last)  BY <3>1, <3>2 DEF Newest, Exist
    <3> QED  BY <2>3, <3>3, <3>4 DEF NewerNote
  <2>5. Earliest(shown) # 0  BY <1>4, <1>6, <2>2, EarliestIsLast
  <2> QED  BY <1>4, <1>6, <2>1, <2>2, <2>4, <2>5
<1> QED  BY <1>2, <1>7, <1>8, <1>9

(* Reading a page keeps FeedInv. *)
LEMMA NotesFeedStep ==
  ASSUME FeedInv, notesFeed PROVE FeedInv'
<1>1. PICK rows : rows = findNotesOnBoard(feed.before, FeedLimit + 1)  OBVIOUS
<1>2. PICK shown : shown = FirstOf(rows, FeedLimit)  OBVIOUS
<1>3. PICK cursor : cursor = nextCursor(rows)  OBVIOUS
<1>4. /\ feed' = [feed EXCEPT !.pc = IF cursor = 0 THEN "done" ELSE "next",
                             !.before = cursor, !.seen = @ \cup shown,
                             !.again = @ \cup (feed.seen \cap shown),
                             !.ends = IF shown = {} THEN @ ELSE @ \cup {Earliest(shown)}]
      /\ feed.pc = "next"
  BY <1>1, <1>2, <1>3 DEF notesFeed
<1>5. UNCHANGED <<taskNote, onBoard, feedClock>>  BY DEF notesFeed
<1>6. NotesInv'  BY <1>5 DEF FeedInv, NotesInv, Exist
<1>7. feed \in Feed /\ feed.before \in Nat  BY DEF FeedInv, ReaderInv, Feed
<1>8. /\ shown \subseteq Older(feed.before)
      /\ cursor = 0 => shown = Older(feed.before)
      /\ cursor # 0 => /\ shown # {} /\ cursor = Earliest(shown)
                       /\ \A n \in Older(feed.before) \ shown : taskNote[n].at <= Earliest(shown)
  BY <1>1, <1>2, <1>3, <1>7, PageOfNotes DEF FeedInv
<1>9. shown \subseteq Exist /\ shown \subseteq NoteIds  BY <1>8 DEF Older, Visible, Exist
<1>10. shown # {} => /\ Earliest(shown) \in Nat \ {0} /\ Earliest(shown) <= feedClock
                     /\ \A n \in shown : Earliest(shown) <= taskNote[n].at
  BY <1>9, EarliestIsLast DEF FeedInv
<1>11. \A n \in Exist : taskNote[n].at \in Nat  BY DEF FeedInv, NotesInv, Exist, NoteRow
<1>12. feedClock \in Nat  BY DEF FeedInv, NotesInv
<1>13. cursor \in Nat  BY <1>8, <1>10
<1>14. /\ feed'.pc = (IF cursor = 0 THEN "done" ELSE "next") /\ feed'.before = cursor
       /\ feed'.seen = feed.seen \cup shown /\ feed'.again = feed.again \cup (feed.seen \cap shown)
       /\ feed'.stays = feed.stays
       /\ feed'.ends = (IF shown = {} THEN feed.ends ELSE feed.ends \cup {Earliest(shown)})
  BY <1>4, <1>7 DEF Feed
<1>15. feed' \in Feed  BY <1>4, <1>7, <1>9, <1>10, <1>13 DEF Feed
<1>16. Visible' = Visible /\ Exist' = Exist  BY <1>5 DEF Visible, Exist
<1>17. feed.seen \cap shown = {}
  <2>1. \A n \in feed.seen \cap Exist :
          feed.before # 0 /\ feed.before <= taskNote[n].at
    BY <1>4 DEF FeedInv, ReaderInv
  <2> QED  BY <1>7, <1>8, <1>9, <1>11, <2>1 DEF Older
<1>18. ASSUME NEW n \in feed'.stays \ feed'.seen
       PROVE  taskNote'[n].at \in feed'.ends \/ (feed'.pc = "next" /\ n \in Older(feed.before)')
  <2>1. taskNote[n].at \in feed.ends \/ n \in Older(feed.before)
    BY <1>14 DEF FeedInv, ReaderInv
  <2>2. n \in Visible /\ n \in Exist  BY <1>14 DEF FeedInv, ReaderInv, Visible
  <2>3. CASE taskNote[n].at \in feed.ends  BY <1>5, <1>14, <2>3
  <2>4. CASE n \in Older(feed.before)
    <3>1. n \notin shown  BY <1>14
    <3>2. cursor # 0  BY <1>8, <2>4, <3>1
    <3>3. taskNote[n].at <= Earliest(shown)  BY <1>8, <2>4, <3>1, <3>2
    <3>4. taskNote[n].at \in Nat /\ Earliest(shown) \in Nat  BY <1>8, <1>10, <1>11, <2>2, <3>2
    <3>5. CASE taskNote[n].at = Earliest(shown)  BY <1>5, <1>8, <1>14, <3>2, <3>5
    <3>6. CASE taskNote[n].at < Earliest(shown)
      <4>1. n \in Older(feed.before)'  BY <1>5, <1>8, <1>14, <1>16, <2>2, <3>2, <3>6 DEF Older
      <4> QED  BY <1>14, <3>2, <4>1
    <3> QED  BY <3>3, <3>4, <3>5, <3>6
  <2> QED  BY <2>1, <2>3, <2>4
<1>19. feed'.pc = "next" =>
         IF feed'.before = 0 THEN feed'.seen = {}
         ELSE /\ feed'.before <= feedClock'
              /\ \A n \in feed'.seen \cap Exist' : feed'.before <= taskNote'[n].at
  <2>1. SUFFICES ASSUME cursor # 0 
                 PROVE  /\ feed'.before <= feedClock'
                        /\ \A n \in feed'.seen \cap Exist' : feed'.before <= taskNote'[n].at
    BY <1>14
  <2>2. feed'.before <= feedClock'  BY <1>5, <1>8, <1>10, <1>14, <2>1
  <2>3. ASSUME NEW n \in feed'.seen \cap Exist' PROVE feed'.before <= taskNote'[n].at
    <3>1. CASE n \in shown  BY <1>5, <1>8, <1>10, <1>14, <2>1, <3>1
    <3>2. CASE n \notin shown
      <4>1. n \in feed.seen \cap Exist  BY <1>14, <1>16, <3>2
      <4>2. feed.before # 0 /\ feed.before <= taskNote[n].at
        BY <1>4, <4>1 DEF FeedInv, ReaderInv
      <4>3. PICK m \in shown : TRUE  BY <1>8, <2>1
      <4>4. taskNote[m].at < feed.before /\ Earliest(shown) <= taskNote[m].at
        BY <1>8, <1>10, <4>2, <4>3 DEF Older
      <4>5. taskNote[m].at \in Nat /\ taskNote[n].at \in Nat  BY <1>9, <1>11, <4>1
      <4> QED  BY <1>5, <1>7, <1>8, <1>13, <1>14, <2>1, <4>2, <4>4, <4>5
    <3> QED  BY <3>1, <3>2
  <2> QED  BY <2>2, <2>3
<1>20. feed'.stays \subseteq Visible' /\ feed'.again = {}
  BY <1>14, <1>16, <1>17 DEF FeedInv, ReaderInv
<1> QED  BY <1>6, <1>15, <1>18, <1>19, <1>20 DEF FeedInv, ReaderInv

(* What is written meanwhile has the time of now, and keeps FeedInv. *)
LEMMA FeedChangesStep ==
  ASSUME FeedInv, FeedChanges PROVE FeedInv'
<1>1. taskNote \in [NoteIds -> NoteRow \cup {NoNote}] /\ feedClock \in Nat \ {0}
  BY DEF FeedInv, NotesInv
<1>2. /\ taskNote' \in [NoteIds -> NoteRow \cup {NoNote}] /\ onBoard' \subseteq FeedCards
      /\ IsFiniteSet(Exist')
      /\ \A n \in Exist' : (n \in Exist /\ taskNote'[n] = taskNote[n]) \/ taskNote'[n].at = feedClock
  <2>1. CASE insertNote
    <3>1. PICK c \in onBoard, n \in NoteIds \ Exist :
            taskNote' = [taskNote EXCEPT ![n] = [card |-> c, at |-> feedClock]]
      BY <2>1 DEF insertNote
    <3>2. c \in FeedCards /\ onBoard' = onBoard /\ onBoard \subseteq FeedCards
      BY <2>1 DEF insertNote, FeedInv, NotesInv
    <3>3. Exist' \in SUBSET (Exist \cup {n})  BY <1>1, <3>1 DEF Exist
    <3>4. IsFiniteSet(Exist')  BY <3>3, FS_AddElement, FS_Subset DEF FeedInv, NotesInv
    <3>5. taskNote' \in [NoteIds -> NoteRow \cup {NoNote}]  BY <1>1, <3>1, <3>2 DEF NoteRow
    <3>6. \A m \in Exist' : (m \in Exist /\ taskNote'[m] = taskNote[m])
                            \/ taskNote'[m].at = feedClock
      BY <1>1, <3>1, <3>3 DEF Exist
    <3> QED  BY <3>2, <3>4, <3>5, <3>6
  <2>2. CASE removeNote
    <3>1. PICK n \in Visible : taskNote' = [taskNote EXCEPT ![n] = NoNote]
      BY <2>2 DEF removeNote
    <3>2. Exist' \in SUBSET Exist  BY <1>1, <3>1 DEF Exist
    <3>3. IsFiniteSet(Exist')  BY <3>2, FS_Subset DEF FeedInv, NotesInv
    <3>4. \A m \in Exist' : m \in Exist /\ taskNote'[m] = taskNote[m]
      BY <1>1, <3>1, <3>2 DEF Exist
    <3> QED  BY <1>1, <2>2, <3>1, <3>3, <3>4 DEF removeNote, FeedInv, NotesInv
  <2>3. CASE LeaveBoard \/ ComeBack
    <3>1. taskNote' = taskNote  BY <2>3 DEF LeaveBoard, ComeBack
    <3>2. onBoard' \subseteq FeedCards  BY <2>3 DEF LeaveBoard, ComeBack, FeedInv, NotesInv
    <3>3. Exist' = Exist  BY <3>1 DEF Exist
    <3> QED  BY <1>1, <3>1, <3>2, <3>3 DEF FeedInv, NotesInv
  <2> QED  BY <2>1, <2>2, <2>3 DEF FeedChanges
<1>3. /\ feedClock' = feedClock
      /\ feed' = [feed EXCEPT !.stays = {n \in @ : n \in Visible' /\ taskNote'[n] = taskNote[n]}]
  BY DEF FeedChanges
<1>4. NotesInv'
  BY <1>1, <1>2, <1>3 DEF FeedInv, NotesInv
<1>5. feed \in Feed  BY DEF FeedInv, ReaderInv
<1>6. /\ feed'.pc = feed.pc /\ feed'.before = feed.before /\ feed'.seen = feed.seen
      /\ feed'.again = feed.again /\ feed'.ends = feed.ends
      /\ feed'.stays = {n \in feed.stays : n \in Visible' /\ taskNote'[n] = taskNote[n]}
  BY <1>3, <1>5 DEF Feed
<1>7. feed' \in Feed  BY <1>3, <1>5 DEF Feed
<1>8. ASSUME NEW n \in feed'.stays \ feed'.seen
      PROVE  taskNote'[n].at \in feed'.ends \/ (feed'.pc = "next" /\ n \in Older(feed.before)')
  <2>1. n \in feed.stays \ feed.seen /\ n \in Visible' /\ taskNote'[n] = taskNote[n]  BY <1>6
  <2>2. taskNote[n].at \in feed.ends \/ (feed.pc = "next" /\ n \in Older(feed.before))
    BY <2>1 DEF FeedInv, ReaderInv
  <2> QED  BY <1>6, <2>1, <2>2 DEF Older
<1>9. feed'.pc = "next" =>
         IF feed'.before = 0 THEN feed'.seen = {}
         ELSE /\ feed'.before <= feedClock'
              /\ \A n \in feed'.seen \cap Exist' : feed'.before <= taskNote'[n].at
  <2>1. SUFFICES ASSUME feed.pc = "next", feed.before # 0
                 PROVE  /\ feed.before <= feedClock
                        /\ \A n \in feed.seen \cap Exist' : feed.before <= taskNote'[n].at
    BY <1>3, <1>6 DEF FeedInv, ReaderInv
  <2>2. feed.before <= feedClock /\ \A n \in feed.seen \cap Exist : feed.before <= taskNote[n].at
    BY <2>1 DEF FeedInv, ReaderInv
  <2>3. ASSUME NEW n \in feed.seen \cap Exist' PROVE feed.before <= taskNote'[n].at
    BY <1>2, <2>2
  <2> QED  BY <2>2, <2>3
<1>10. feed'.stays \subseteq Visible' /\ feed'.again = {}
  BY <1>6 DEF FeedInv, ReaderInv
<1> QED  BY <1>4, <1>7, <1>8, <1>9, <1>10 DEF FeedInv, ReaderInv

(* FeedInv is inductive. *)
LEMMA FeedStep == FeedInv /\ [NotesFeedNext]_feedVars => FeedInv'
<1> SUFFICES ASSUME FeedInv, [NotesFeedNext]_feedVars PROVE FeedInv'  OBVIOUS
<1>1. CASE OpenFeed
  <2>1. feed' = [NoFeed EXCEPT !.pc = "next", !.stays = Visible]
        /\ UNCHANGED <<taskNote, onBoard, feedClock>>
    BY <1>1 DEF OpenFeed
  <2>2. NotesInv'  BY <2>1 DEF FeedInv, NotesInv, Exist
  <2>3. Visible' = Visible /\ Visible \subseteq NoteIds  BY <2>1 DEF Visible, Exist
  <2>4. feed' = [pc |-> "next", before |-> 0, seen |-> {}, again |-> {}, stays |-> Visible,
                 ends |-> {}]
    BY <2>1 DEF NoFeed
  <2>5. \A n \in Visible : n \in Older(feed.before)'  BY <2>3, <2>4 DEF Older
  <2> QED  BY <2>2, <2>3, <2>4, <2>5 DEF FeedInv, ReaderInv, Feed
<1>2. CASE notesFeed  BY <1>2, NotesFeedStep
<1>3. CASE FeedChanges  BY <1>3, FeedChangesStep
<1>4. CASE FeedTick
  <2>1. feedClock' = feedClock + 1 /\ UNCHANGED <<taskNote, onBoard, feed>>  BY <1>4 DEF FeedTick
  <2>2. Exist' = Exist /\ Visible' = Visible /\ Older(feed.before)' = Older(feed.before)
    BY <2>1 DEF Exist, Visible, Older
  <2>3. \A n \in Exist : taskNote[n].at \in Nat  BY DEF FeedInv, NotesInv, Exist, NoteRow
  <2>4. NotesInv'  BY <2>1, <2>2, <2>3 DEF FeedInv, NotesInv
  <2>5. feed.before \in Nat /\ feedClock \in Nat  BY DEF FeedInv, NotesInv, ReaderInv, Feed
  <2> QED  BY <2>1, <2>2, <2>4, <2>5 DEF FeedInv, ReaderInv
<1>5. CASE UNCHANGED feedVars
  <2>1. UNCHANGED <<taskNote, onBoard, feed, feedClock>>  BY <1>5 DEF feedVars
  <2>2. Exist' = Exist /\ Visible' = Visible /\ Older(feed.before)' = Older(feed.before)
    BY <2>1 DEF Exist, Visible, Older
  <2> QED  BY <2>1, <2>2 DEF FeedInv, NotesInv, ReaderInv
<1> QED  BY <1>1, <1>2, <1>3, <1>4, <1>5 DEF NotesFeedNext

(* FeedInv holds at the start. *)
LEMMA FeedStart == NotesFeedInit => FeedInv
<1> SUFFICES ASSUME NotesFeedInit PROVE FeedInv  OBVIOUS
<1>1. Exist = {}  BY DEF NotesFeedInit, Exist
<1>2. NotesInv  BY <1>1, FS_EmptySet DEF NotesFeedInit, NotesInv
<1>3. feed \in Feed  BY DEF NotesFeedInit, NoFeed, Feed
<1> QED  BY <1>2, <1>3 DEF NotesFeedInit, NoFeed, FeedInv, ReaderInv

(* Whoever scrolls to the end of the feed of notes has seen every note that *)
(* was there throughout, and none twice, except notes of the instant at     *)
(* which a page ended: for any cards and notes, in any number, and any size *)
(* of a page.                                                               *)
THEOREM FeedReadsOnce == NotesFeedSpec => []FeedSkipsOnlyTies
<1>1. FeedInv => FeedSkipsOnlyTies  BY DEF FeedInv, ReaderInv, FeedSkipsOnlyTies
<1> QED  BY <1>1, FeedStart, FeedStep, PTL DEF NotesFeedSpec

-----------------------------------------------------------------------------
(* The cards of a column, and what a request knows of them.                *)
CardRow == [column : Columns, position : Nat \ {0}, live : BOOLEAN]
Places == UNION {[C -> Nat \ {0}] : C \in SUBSET Nat}
CardRequest ==
  [pc : {"rest", "insert", "place", "renumber", "write"}, card : SUBSET Nat, to : Columns,
   want : Nat, beside : SUBSET Nat, order : Places]

RowsInv ==
  /\ row \in Seq(CardRow) /\ request \in [Requests -> CardRequest]
  /\ \A w \in Requests : /\ request[w].pc \in {"insert", "place"} => request[w].want # 0
                         /\ request[w].card \subseteq Cards
  /\ overtaken \subseteq Requests

\* What a request that nobody has overtaken is about to write: the column as it is, in its
\* order, or a free position beside the card that has the slot.
Fits(q, c, o) ==
  /\ o # c /\ o \in In(q.to)
  /\ \A d \in In(q.to) \ {c} :
       /\ row[d].position # q.want
       /\ ~(q.want < row[d].position /\ row[d].position < row[o].position)
       /\ ~(row[o].position < row[d].position /\ row[d].position < q.want)
Planned(q) ==
  /\ q.pc \in {"place", "renumber", "write"} =>
       /\ q.card \cap q.beside = {}
       /\ \A a, b \in q.beside : a = b
       /\ \A a, b \in q.card : a = b
  /\ q.pc = "write" => q.order = cardPositions(q.to)
  /\ q.pc = "place" => \A c \in q.card, o \in q.beside : Fits(q, c, o)
PlansInv == \A w \in Requests : w \notin overtaken => Planned(request[w])

CardOrder == {p \in Cards \X Cards : Before(p[1], p[2])}

(* A function on the places of a sequence is one. *)
LEMMA PlacesMakeSeq ==
  ASSUME NEW S, NEW s \in Seq(S), NEW f \in [DOMAIN s -> S]
  PROVE  f \in Seq(S) /\ DOMAIN f = DOMAIN s /\ Len(f) = Len(s)
OBVIOUS

(* The empty plan is one. *)
LEMMA NoPlan == <<>> \in Places
<1>1. <<>> \in [{} -> Nat \ {0}]  OBVIOUS
<1> QED  BY <1>1 DEF Places

(* The cards of a column stand in one order. *)
LEMMA CardsAreOrdered ==
  ASSUME row \in Seq(CardRow), NEW S \in SUBSET Cards
  PROVE  /\ Chains(CardOrder, S) /\ Orders(CardOrder, S)
         /\ \A c \in S : Ahead(S, CardOrder, c) = {d \in S : Before(d, c)}
<1>1. \A c \in S : c \in Nat /\ row[c].position \in Nat
  <2> TAKE c \in S
  <2>1. c \in DOMAIN row  BY DEF Cards
  <2>2. row[c] \in CardRow /\ c \in Nat  BY <2>1
  <2> QED  BY <2>2 DEF CardRow
<1>2. \A c, d \in S : <<c, d>> \in CardOrder <=> Before(c, d)  BY DEF CardOrder
<1>3. IsFiniteSet(S)
  <2>1. Cards = 1 .. Len(row) /\ Len(row) \in Nat  BY DEF Cards
  <2>2. IsFiniteSet(Cards)  BY <2>1, FS_Interval
  <2> QED  BY <2>2, FS_Subset
<1>4. \A c \in S : ~Before(c, c)  BY <1>1 DEF Before
<1>5. \A a, b, c \in S : Before(a, b) /\ Before(b, c) => Before(a, c)  BY <1>1 DEF Before
<1>6. \A a, b \in S : a = b \/ Before(a, b) \/ Before(b, a)  BY <1>1 DEF Before
<1>7. Orders(CardOrder, S)  BY <1>2, <1>3, <1>4, <1>5 DEF Orders
<1>8. Chains(CardOrder, S)  BY <1>2, <1>6, <1>7 DEF Chains
<1>9. \A c \in S : Ahead(S, CardOrder, c) = {d \in S : Before(d, c)}  BY <1>2 DEF Ahead
<1> QED  BY <1>7, <1>8, <1>9

(* The places in a column follow its order, each card at one of its own. *)
LEMMA PlacesFollowOrder ==
  ASSUME row \in Seq(CardRow), NEW column
  PROVE  /\ cardPositions(column) \in [In(column) -> Nat \ {0}]
         /\ cardPositions(column) \in Places
         /\ \A c, d \in In(column) :
              Before(c, d) => cardPositions(column)[c] < cardPositions(column)[d]
         /\ \A c, d \in In(column) :
              c # d => cardPositions(column)[c] # cardPositions(column)[d]
<1> DEFINE S == In(column)
<1>1. S \in SUBSET Cards  BY DEF In
<1>2. Orders(CardOrder, S)  BY <1>1, CardsAreOrdered
<1>3. \A c \in S : Rank(S, c) = Cardinality(Ahead(S, CardOrder, c))
  BY <1>1, CardsAreOrdered DEF Rank
<1>4. \A c \in S : Rank(S, c) \in Nat
  <2> TAKE c \in S
  <2>1. Cardinality(Ahead(S, CardOrder, c)) \in Nat  BY <1>2, AheadIsFinite
  <2> QED  BY <1>3, <2>1
<1>5. cardPositions(column) = [c \in S |-> Rank(S, c) + 1]  BY DEF cardPositions
<1>6. cardPositions(column) \in [S -> Nat \ {0}]
  <2> HIDE DEF S
  <2> QED  BY <1>4, <1>5
<1>7. cardPositions(column) \in Places
  <2>1. S \in SUBSET Nat  BY <1>1 DEF Cards
  <2> HIDE DEF S
  <2> QED  BY <1>6, <2>1 DEF Places
<1>8. ASSUME NEW c \in S, NEW d \in S, Before(c, d)
      PROVE  cardPositions(column)[c] < cardPositions(column)[d]
  <2>1. <<c, d>> \in CardOrder  BY <1>1, <1>8 DEF CardOrder
  <2>2. Rank(S, c) < Rank(S, d)  BY <1>2, <1>3, <2>1, AheadGrows
  <2>3. cardPositions(column)[c] = Rank(S, c) + 1 /\ cardPositions(column)[d] = Rank(S, d) + 1
    BY <1>5
  <2>4. Rank(S, c) \in Nat /\ Rank(S, d) \in Nat  BY <1>4
  <2> QED  BY <2>2, <2>3, <2>4
<1>9. ASSUME NEW c \in S, NEW d \in S, c # d
      PROVE  cardPositions(column)[c] # cardPositions(column)[d]
  <2>1. Before(c, d) \/ Before(d, c)
    <3>1. c \in Cards /\ d \in Cards  BY <1>1
    <3>2. c \in DOMAIN row /\ d \in DOMAIN row  BY <3>1 DEF Cards
    <3>3. c \in Nat /\ d \in Nat /\ row[c] \in CardRow /\ row[d] \in CardRow  BY <3>2
    <3> QED  BY <1>9, <3>3 DEF Before, CardRow
  <2>2. cardPositions(column)[c] \in Nat /\ cardPositions(column)[d] \in Nat  BY <1>6
  <2>3. cardPositions(column)[c] < cardPositions(column)[d]
        \/ cardPositions(column)[d] < cardPositions(column)[c]  BY <1>8, <2>1
  <2> QED  BY <2>2, <2>3
<1> QED  BY <1>6, <1>7, <1>8, <1>9

(* Finitely many numbers have a largest and a smallest one. *)
LEMMA LargestIsOne ==
  ASSUME NEW S \in SUBSET Nat, IsFiniteSet(S), S # {}
  PROVE  Largest(S) \in S /\ \A n \in S : n <= Largest(S)
<1> DEFINE Down == {p \in Nat \X Nat : p[2] < p[1]}
<1>1. Orders(Down, S)
  <2>1. \A a, b \in S : <<a, b>> \in Down <=> b < a  OBVIOUS
  <2>2. \A a \in S : a \in Nat  OBVIOUS
  <2> HIDE DEF Down
  <2>3. \A a \in S : <<a, a>> \notin Down  BY <2>1, <2>2
  <2>4. \A a, b, c \in S : <<a, b>> \in Down /\ <<b, c>> \in Down => <<a, c>> \in Down
    BY <2>1, <2>2
  <2> QED  BY <2>3, <2>4 DEF Orders
<1>2. \E m \in S : \A n \in S : <<n, m>> \notin Down
  <2>1. S \in SUBSET S  OBVIOUS
  <2> HIDE DEF Down
  <2> QED  BY <1>1, <2>1, SomeFirst
<1>3. PICK m \in S : \A n \in S : <<n, m>> \notin Down  BY <1>2
<1>4. ASSUME NEW n \in S PROVE n <= m
  <2>1. ~(m < n)  BY <1>3
  <2> QED  BY <2>1
<1> QED  BY <1>4 DEF Largest

(* A set of numbers has a smallest one. *)
LEMMA SmallestIsOne ==
  ASSUME NEW S \in SUBSET Nat, S # {}
  PROVE  Smallest(S) \in S /\ \A n \in S : Smallest(S) <= n
BY LeastNumber DEF Smallest

(* The multiples of the gap keep the order, and half a gap lies between two. *)
LEMMA GapsKeepOrder ==
  ASSUME NEW i \in Nat \ {0}, NEW j \in Nat \ {0}
  PROVE  /\ i * Gap \in Nat \ {0}
         /\ i < j => i * Gap < j * Gap
         /\ LET want == Midpoint((i - 1) * Gap, i * Gap)
            IN /\ want \in Nat \ {0} /\ want < i * Gap
               /\ (i - 1) * Gap < want
               /\ j < i => j * Gap <= (i - 1) * Gap
<1>1. Gap \in Nat /\ 2 < Gap  BY ColumnsAssumption
<1>2. PICK p : p = (i - 1) * Gap  OBVIOUS
<1>3. PICK q : q = i * Gap  OBVIOUS
<1>4. PICK r : r = j * Gap  OBVIOUS
<1>5. p \in Nat /\ q = p + Gap  BY <1>1, <1>2, <1>3
<1>6. r \in Nat  BY <1>1, <1>4
<1>7. i < j => q < r
  <2>1. SUFFICES ASSUME i < j PROVE q < r  OBVIOUS
  <2>2. PICK k \in Nat \ {0} : j = i + k
    <3>1. j - i \in Nat \ {0} /\ j = i + (j - i)  BY <2>1
    <3> QED  BY <3>1
  <2>3. r = q + k * Gap  BY <1>1, <1>3, <1>4, <2>2
  <2>4. k * Gap \in Nat \ {0}  BY <1>1, <2>2
  <2> QED  BY <1>1, <1>5, <2>3, <2>4
<1>8. j < i => r <= p
  <2>1. SUFFICES ASSUME j < i PROVE r <= p  OBVIOUS
  <2>2. PICK k \in Nat : i - 1 = j + k
    <3>1. (i - 1) - j \in Nat /\ i - 1 = j + ((i - 1) - j)  BY <2>1
    <3> QED  BY <3>1
  <2>3. p = r + k * Gap  BY <1>1, <1>2, <1>4, <2>2
  <2>4. k * Gap \in Nat  BY <1>1, <2>2
  <2> QED  BY <1>1, <1>6, <2>3, <2>4
<1>9. Midpoint(p, q) = (p + p + Gap) \div 2  BY <1>1, <1>5 DEF Midpoint
<1>10. Midpoint(p, q) \in Nat /\ p < Midpoint(p, q) /\ Midpoint(p, q) < q
  BY <1>1, <1>5, <1>9
<1> QED  BY <1>1, <1>2, <1>3, <1>4, <1>5, <1>7, <1>8, <1>10

-----------------------------------------------------------------------------
(* Requests on the cards of a column.                                      *)
\* What a step of the request w does: rows stay rows, and the request goes on as q.
StepsTo(w, q) ==
  /\ row' \in Seq(CardRow) /\ DOMAIN row \subseteq DOMAIN row'
  /\ q \in CardRequest /\ (q.pc \in {"insert", "place"} => q.want # 0) /\ q.card \subseteq Cards
  /\ request' = [request EXCEPT ![w] = q]
  /\ w \notin overtaken => Planned(q)'

(* A request at rest plans nothing. *)
LEMMA RestIsPlanned ==
  /\ AtRest \in CardRequest /\ AtRest.pc = "rest"
  /\ AtRest = [pc |-> "rest", card |-> {}, to |-> Inbox, want |-> 0, beside |-> {}, order |-> <<>>]
  /\ Inbox \in Columns /\ Gap \in Nat \ {0} /\ StartAt \subseteq Nat \ {0}
<1>1. AtRest = [pc |-> "rest", card |-> {}, to |-> Inbox, want |-> 0, beside |-> {}, order |-> <<>>]
  BY DEF AtRest
<1>2. Inbox \in Columns /\ Gap \in Nat \ {0} /\ StartAt \subseteq Nat \ {0}
  BY ColumnsAssumption DEF Columns
<1>3. AtRest \in CardRequest  BY <1>1, <1>2, NoPlan DEF CardRequest
<1> QED  BY <1>1, <1>2, <1>3

(* A card is made. *)
LEMMA MakeKeepsRows ==
  ASSUME row \in Seq(CardRow), NEW column \in Columns, NEW position \in Nat \ {0},
         Make(column, position)
  PROVE  row' \in Seq(CardRow) /\ DOMAIN row \subseteq DOMAIN row'
<1>1. [column |-> column, position |-> position, live |-> TRUE] \in CardRow  BY DEF CardRow
<1> QED  BY <1>1 DEF Make

(* Finitely many cards have finitely many positions. *)
LEMMA PositionsAreFinite ==
  ASSUME row \in Seq(CardRow), NEW S \in SUBSET Cards
  PROVE  /\ {row[c].position : c \in S} \in SUBSET (Nat \ {0})
         /\ IsFiniteSet({row[c].position : c \in S})
<1> DEFINE N == {row[c].position : c \in S}
           f == [c \in S |-> row[c].position]
<1>1. \A c \in S : row[c] \in CardRow  BY DEF Cards
<1>2. N \in SUBSET (Nat \ {0})  BY <1>1 DEF CardRow
<1>3. IsFiniteSet(S)  BY CardsAreOrdered DEF Orders
<1>4. f \in Surjection(S, N)  BY DEF Surjection
<1>5. IsFiniteSet(N)
  <2> HIDE DEF f, N
  <2> QED  BY <1>3, <1>4, FS_Surjection
<1> QED  BY <1>2, <1>5

(* The last position of a column is a number, and stands after all. *)
LEMMA LastIsNumber ==
  ASSUME row \in Seq(CardRow), NEW column PROVE lastPositionInList(column) \in Nat
<1> DEFINE N == {row[c].position : c \in In(column)}
<1>1. In(column) \in SUBSET Cards  BY DEF In
<1>2. N \in SUBSET Nat /\ IsFiniteSet(N)  BY <1>1, PositionsAreFinite
<1>3. In(column) # {} => N # {}  OBVIOUS
<1>4. In(column) # {} => Largest(N) \in Nat
  <2> HIDE DEF N
  <2> QED  BY <1>2, <1>3, LargestIsOne
<1> QED  BY <1>4 DEF lastPositionInList

(* Requests that read and write nothing yet, or make a card. *)
LEMMA CreateSteps ==
  ASSUME RowsInv, NEW w \in Requests,
         CreateReads(w) \/ CreateWrites(w) \/ CreateAt(w) \/ CreateUnplaced(w)
  PROVE  \E q : StepsTo(w, q)
<1>1. row \in Seq(CardRow) /\ request \in [Requests -> CardRequest]  BY DEF RowsInv
<1>2. request[w] \in CardRequest  BY <1>1
<1>3. Planned(AtRest)'  BY RestIsPlanned DEF Planned
<1>4. CASE CreateReads(w)
  <2>1. PICK column \in Columns :
          request' = [request EXCEPT ![w] = [AtRest EXCEPT !.pc = "insert", !.to = column,
                                             !.want = lastPositionInList(column) + Gap]]
    BY <1>4 DEF CreateReads
  <2>2. PICK want : want = lastPositionInList(column) + Gap  OBVIOUS
  <2>3. want \in Nat \ {0}  BY <1>1, <2>2, LastIsNumber, RestIsPlanned
  <2>4. PICK q : q = [AtRest EXCEPT !.pc = "insert", !.to = column, !.want = want]  OBVIOUS
  <2>5. q \in CardRequest /\ q.pc = "insert" /\ q.want = want /\ q.card = {}
    <3>1. AtRest \in CardRequest /\ AtRest.card = {}  BY RestIsPlanned DEF AtRest
    <3> QED  BY <2>3, <2>4, <3>1 DEF CardRequest
  <2>6. Planned(q)'  BY <2>5 DEF Planned
  <2>7. row' = row /\ q.want # 0  BY <1>4, <2>3, <2>5 DEF CreateReads
  <2> QED  BY <1>1, <2>1, <2>2, <2>4, <2>5, <2>6, <2>7 DEF StepsTo
<1>5. CASE CreateWrites(w)
  <2>1. request[w].pc = "insert" /\ Make(request[w].to, request[w].want) /\ Ends(w)
    BY <1>5 DEF CreateWrites
  <2>2. request[w].to \in Columns /\ request[w].want \in Nat \ {0}
    BY <1>2, <2>1 DEF RowsInv, CardRequest
  <2>3. row' \in Seq(CardRow) /\ DOMAIN row \subseteq DOMAIN row'
    BY <1>1, <2>1, <2>2, MakeKeepsRows
  <2> QED  BY <1>3, <2>1, <2>3, RestIsPlanned DEF StepsTo, Ends
<1>6. CASE CreateAt(w) \/ CreateUnplaced(w)
  <2>1. /\ \E column \in Columns, position \in Nat \ {0} : Make(column, position)
        /\ request' = request /\ request[w].pc = "rest"
    BY <1>6, RestIsPlanned DEF CreateAt, CreateUnplaced, Begins
  <2>2. row' \in Seq(CardRow) /\ DOMAIN row \subseteq DOMAIN row'
    BY <1>1, <2>1, MakeKeepsRows
  <2>3. PICK q : q = request[w]  OBVIOUS
  <2>4. Planned(q)' /\ q \in CardRequest /\ q.pc = "rest" /\ q.card \subseteq Cards
    BY <1>2, <2>1, <2>3 DEF Planned, RowsInv
  <2>5. request' = [request EXCEPT ![w] = q]  BY <1>1, <2>1, <2>3
  <2> QED  BY <2>2, <2>4, <2>5 DEF StepsTo
<1> QED  BY <1>4, <1>5, <1>6

(* Routes that write cards and plan nothing. *)
LEMMA PlainSteps ==
  ASSUME RowsInv, NEW w \in Requests,
         complete(w) \/ archiveListAndReleaseCards(w) \/ remove(w) \/ restore(w)
  PROVE  \E q : StepsTo(w, q)
<1>1. row \in Seq(CardRow) /\ request \in [Requests -> CardRequest]  BY DEF RowsInv
<1>2. request[w] \in CardRequest  BY <1>1
<1>3. Cards = DOMAIN row /\ row \in [DOMAIN row -> CardRow]  BY <1>1 DEF Cards
<1>4. row' \in [DOMAIN row -> CardRow]
  <2>1. CASE complete(w)
    <3>1. PICK c \in Cards, done \in Lists : row' = [row EXCEPT ![c].column = done]
      BY <2>1 DEF complete
    <3>2. done \in Columns  BY DEF Columns
    <3> QED  BY <1>3, <3>1, <3>2 DEF CardRow
  <2>2. CASE archiveListAndReleaseCards(w)
    <3>1. PICK l \in Lists : row' = [c \in Cards |-> IF row[c].column = l
                                       THEN [row[c] EXCEPT !.column = Inbox] ELSE row[c]]
      BY <2>2 DEF archiveListAndReleaseCards
    <3> QED  BY <1>3, <3>1, RestIsPlanned DEF CardRow
  <2>3. CASE remove(w)
    <3>1. PICK c \in Cards : row' = [row EXCEPT ![c].live = FALSE]  BY <2>3 DEF remove
    <3> QED  BY <1>3, <3>1 DEF CardRow
  <2>4. CASE restore(w)
    <3>1. PICK c \in Cards : row' = [row EXCEPT ![c].live = TRUE]  BY <2>4 DEF restore
    <3> QED  BY <1>3, <3>1 DEF CardRow
  <2> QED  BY <2>1, <2>2, <2>3, <2>4
<1>5. row' \in Seq(CardRow) /\ DOMAIN row' = DOMAIN row  BY <1>1, <1>4, PlacesMakeSeq
<1>6. request' = request /\ request[w].pc = "rest"
  BY DEF complete, archiveListAndReleaseCards, remove, restore, Begins
<1>7. PICK q : q = request[w]  OBVIOUS
<1>8. Planned(q)' /\ q \in CardRequest /\ q.pc = "rest" /\ q.card \subseteq Cards
  BY <1>2, <1>6, <1>7 DEF Planned, RowsInv
<1>9. request' = [request EXCEPT ![w] = q]  BY <1>1, <1>6, <1>7
<1> QED  BY <1>5, <1>8, <1>9 DEF StepsTo

(* The update of a move. *)
LEMMA MoveWritesStep ==
  ASSUME RowsInv, NEW w \in Requests, MoveWrites(w)
  PROVE  StepsTo(w, AtRest)
<1>1. row \in Seq(CardRow) /\ request[w] \in CardRequest  BY DEF RowsInv
<1>2. /\ request[w].pc = "place" /\ request' = [request EXCEPT ![w] = AtRest]
      /\ row' = [c \in Cards |-> IF c \in request[w].card
                             THEN [row[c] EXCEPT !.column = request[w].to,
                                                 !.position = request[w].want]
                             ELSE row[c]]
  BY DEF MoveWrites, Ends
<1>3. Cards = DOMAIN row /\ row \in [DOMAIN row -> CardRow]  BY <1>1 DEF Cards
<1>4. request[w].to \in Columns /\ request[w].want \in Nat \ {0}
  BY <1>1, <1>2 DEF RowsInv, CardRequest
<1>5. row' \in [DOMAIN row -> CardRow]  BY <1>2, <1>3, <1>4 DEF CardRow
<1>6. row' \in Seq(CardRow) /\ DOMAIN row' = DOMAIN row  BY <1>1, <1>5, PlacesMakeSeq
<1>7. Planned(AtRest)'  BY RestIsPlanned DEF Planned
<1> QED  BY <1>2, <1>6, <1>7, RestIsPlanned DEF StepsTo

(* A request to renumber, and the reading of the column. *)
LEMMA RenumberReadSteps ==
  ASSUME RowsInv, PlansInv, NEW w \in Requests, RebalanceRequest(w) \/ RenumberReads(w)
  PROVE  \E q : StepsTo(w, q)
<1>1. row \in Seq(CardRow) /\ request \in [Requests -> CardRequest]  BY DEF RowsInv
<1>2. row' = row  BY DEF RebalanceRequest, RenumberReads
<1>3. CASE RebalanceRequest(w)
  <2>1. PICK column \in Columns :
          request' = [request EXCEPT ![w] = [AtRest EXCEPT !.pc = "renumber", !.to = column]]
    BY <1>3 DEF RebalanceRequest
  <2>2. PICK q : q = [AtRest EXCEPT !.pc = "renumber", !.to = column]  OBVIOUS
  <2>3. q \in CardRequest /\ q.pc = "renumber" /\ q.card = {} /\ q.beside = {}
    <3>1. AtRest \in CardRequest /\ AtRest.card = {} /\ AtRest.beside = {}
      BY RestIsPlanned DEF AtRest
    <3> QED  BY <2>2, <3>1 DEF CardRequest
  <2>4. Planned(q)'  BY <2>3 DEF Planned
  <2> QED  BY <1>1, <1>2, <2>1, <2>2, <2>3, <2>4 DEF StepsTo
<1>4. CASE RenumberReads(w)
  <2>1. PICK order : order = cardPositions(request[w].to)  OBVIOUS
  <2>2. /\ request[w].pc = "renumber"
        /\ request' = [request EXCEPT ![w].pc = "write", ![w].order = order]
    BY <1>4, <2>1 DEF RenumberReads
  <2>3. order \in Places  BY <1>1, <2>1, PlacesFollowOrder
  <2>4. PICK q : q = [request[w] EXCEPT !.pc = "write", !.order = order]  OBVIOUS
  <2>5. request' = [request EXCEPT ![w] = q]  BY <1>1, <2>2, <2>4
  <2>6. /\ q \in CardRequest /\ q.pc = "write" /\ q.card = request[w].card
        /\ q.beside = request[w].beside /\ q.to = request[w].to /\ q.order = order
    <3>1. request[w] \in CardRequest  BY <1>1
    <3> QED  BY <2>3, <2>4, <3>1 DEF CardRequest
  <2>7. cardPositions(q.to)' = cardPositions(q.to)
    BY <1>2 DEF cardPositions, In, Rank, Before, Cards
  <2>8. w \notin overtaken => Planned(q)'
    <3>1. SUFFICES ASSUME w \notin overtaken PROVE Planned(q)'  OBVIOUS
    <3>2. Planned(request[w])  BY <3>1 DEF PlansInv
    <3>3. q.card \cap q.beside = {} /\ (\A a, b \in q.beside : a = b) /\ (\A a, b \in q.card : a = b)
      BY <2>2, <2>6, <3>2 DEF Planned
    <3>4. q.order = cardPositions(q.to)'  BY <2>1, <2>6, <2>7
    <3> QED  BY <2>6, <3>3, <3>4 DEF Planned
  <2>9. q.card \subseteq Cards  BY <2>6 DEF RowsInv
  <2> QED  BY <1>1, <1>2, <2>5, <2>6, <2>8, <2>9 DEF StepsTo
<1> QED  BY <1>3, <1>4

(* The reading of a move: the slot is free, or the card goes on to a place *)
(* of its own beside the occupant, or the column has to be renumbered.     *)
LEMMA MoveReadsStep ==
  ASSUME RowsInv, NEW w \in Requests, MoveReads(w)
  PROVE  \E q : StepsTo(w, q)
<1>1. row \in Seq(CardRow) /\ request \in [Requests -> CardRequest] /\ row' = row
  BY DEF RowsInv, MoveReads
<1> DEFINE Goes(moved, column, pc, want, beside) ==
             request' = [request EXCEPT ![w] = [AtRest EXCEPT !.pc = pc, !.card = {moved},
                            !.to = column, !.want = want, !.beside = beside]]
           There(moved, column, asked) == neighboursAt(moved, column, asked)
           Beyond(moved, column, asked, o) ==
             {row[c].position : c \in There(moved, column, asked) \ {o}}
<1>2. PICK moved \in Cards, column \in Columns, asked \in StartAt \cup {Gap} :
        \/ Goes(moved, column, "place", asked, {})
        \/ \E o \in {c \in There(moved, column, asked) : row[c].position = asked} :
             IF Beyond(moved, column, asked, o) = {}
             THEN Goes(moved, column, "place", asked + Gap, {o})
             ELSE IF HasRoom(asked, Smallest(Beyond(moved, column, asked, o)))
                  THEN Goes(moved, column, "place",
                            Midpoint(asked, Smallest(Beyond(moved, column, asked, o))), {o})
                  ELSE Goes(moved, column, "renumber", 0, {o})
  BY DEF MoveReads
<1> DEFINE there == There(moved, column, asked)
<1>3. asked \in Nat \ {0} /\ Gap \in Nat \ {0}  BY RestIsPlanned
<1>4. moved \in Nat  BY <1>1 DEF Cards
<1>5. /\ \A c \in In(column) : c \in Nat /\ row[c].position \in Nat
      /\ \A c \in there : /\ c \in In(column) \ {moved} /\ asked <= row[c].position
      /\ \A c \in In(column) \ {moved} : c \notin there => row[c].position < asked
  <2>1. \A c \in In(column) : c \in DOMAIN row  BY DEF In, Cards
  <2>2. \A c \in In(column) : c \in Nat /\ row[c] \in CardRow  BY <1>1, <2>1
  <2>3. \A c \in In(column) : c \in Nat /\ row[c].position \in Nat  BY <2>2 DEF CardRow
  <2>4. asked \in Nat  BY <1>3
  <2> QED  BY <2>3, <2>4 DEF neighboursAt
<1>6. ASSUME NEW pc \in {"place", "renumber"}, NEW want \in Nat, NEW beside \in SUBSET Nat,
             Goes(moved, column, pc, want, beside), pc = "place" => want # 0, moved \notin beside,
             \A a, b \in beside : a = b,
             pc = "place" => \A o \in beside :
               /\ o \in In(column)
               /\ \A d \in In(column) \ {moved} :
                    /\ row[d].position # want
                    /\ ~(want < row[d].position /\ row[d].position < row[o].position)
                    /\ ~(row[o].position < row[d].position /\ row[d].position < want)
      PROVE  \E q : StepsTo(w, q)
  <2>1. PICK base : base = [AtRest EXCEPT !.pc = pc, !.card = {moved}, !.to = column]  OBVIOUS
  <2>2. PICK q : q = [base EXCEPT !.want = want, !.beside = beside]  OBVIOUS
  <2>3. base \in CardRequest /\ base.pc = pc /\ base.card = {moved} /\ base.to = column
    <3>1. AtRest \in CardRequest /\ {moved} \in SUBSET Nat  BY <1>4, RestIsPlanned
    <3> QED  BY <2>1, <3>1 DEF CardRequest
  <2>4. /\ q \in CardRequest /\ q.pc = pc /\ q.card = {moved} /\ q.to = column
        /\ q.want = want /\ q.beside = beside
    BY <2>2, <2>3 DEF CardRequest
  <2>5. q = [AtRest EXCEPT !.pc = pc, !.card = {moved}, !.to = column, !.want = want,
                           !.beside = beside]
    BY <2>1, <2>2
  <2>6. Planned(q)
    <3>1. q.card \cap q.beside = {} /\ (\A a, b \in q.beside : a = b) /\ (\A a, b \in q.card : a = b)  BY <1>6, <2>4
    <3>2. q.pc = "place" => \A c \in q.card, o \in q.beside : Fits(q, c, o)
      BY <1>6, <2>4 DEF Fits
    <3> QED  BY <1>6, <2>4, <3>1, <3>2 DEF Planned
  <2>7. Planned(q)' = Planned(q)
    BY <1>1 DEF Planned, Fits, cardPositions, In, Rank, Before, Cards
  <2> QED  BY <1>1, <1>6, <2>4, <2>5, <2>6, <2>7 DEF StepsTo
<1>7. CASE Goes(moved, column, "place", asked, {})
  <2>1. \A o \in {} : FALSE  OBVIOUS
  <2>2. moved \notin {} /\ {} \in SUBSET Nat /\ (\A a, b \in {} : a = b)  OBVIOUS
  <2> HIDE DEF Goes
  <2> QED  BY <1>3, <1>6, <1>7, <2>1, <2>2
<1>8. ASSUME NEW o \in there, row[o].position = asked,
             Beyond(moved, column, asked, o) = {}, Goes(moved, column, "place", asked + Gap, {o})
      PROVE  \E q : StepsTo(w, q)
  <2>1. there = {o}  BY <1>8
  <2>2. o \in In(column) /\ moved \notin {o} /\ {o} \in SUBSET Nat /\ (\A a, b \in {o} : a = b)  BY <1>5, <1>8
  <2>3. \A d \in In(column) \ {moved} :
          /\ row[d].position # asked + Gap
          /\ ~(asked + Gap < row[d].position /\ row[d].position < row[o].position)
          /\ ~(row[o].position < row[d].position /\ row[d].position < asked + Gap)
    <3> TAKE d \in In(column) \ {moved}
    <3>1. row[d].position <= asked /\ row[d].position \in Nat  BY <1>5, <1>8, <2>1
    <3> QED  BY <1>3, <1>8, <3>1
  <2>4. asked + Gap \in Nat /\ asked + Gap # 0  BY <1>3
  <2> HIDE DEF Goes, There, Beyond
  <2> QED  BY <1>6, <1>8, <2>2, <2>3, <2>4
<1>9. ASSUME NEW o \in there, row[o].position = asked,
             NEW p, p = Smallest(Beyond(moved, column, asked, o)),
             Beyond(moved, column, asked, o) # {}, HasRoom(asked, p),
             Goes(moved, column, "place", Midpoint(asked, p), {o})
      PROVE  \E q : StepsTo(w, q)
  <2>1. /\ Beyond(moved, column, asked, o) \in SUBSET Nat
        /\ \A n \in Beyond(moved, column, asked, o) : asked <= n
    BY <1>5
  <2>2. p \in Nat /\ asked <= p /\ \A n \in Beyond(moved, column, asked, o) : p <= n
    <3> HIDE DEF Beyond
    <3> QED  BY <1>9, <2>1, SmallestIsOne
  <2>3. o \in In(column) /\ moved \notin {o} /\ {o} \in SUBSET Nat /\ (\A a, b \in {o} : a = b)  BY <1>5, <1>9
  <2>4. PICK want : want = Midpoint(asked, p)  OBVIOUS
  <2>5. want \in Nat \ {0} /\ asked < want /\ want < p
    <3>1. want = (asked + p) \div 2 /\ 2 <= MinGap /\ MinGap \in Nat
          /\ want - asked >= MinGap /\ p - want >= MinGap
      BY <1>9, <2>4, ColumnsAssumption DEF HasRoom, Midpoint
    <3>2. want \in Nat  BY <1>3, <2>2, <3>1
    <3> QED  BY <1>3, <2>2, <3>1, <3>2
  <2>6. \A d \in In(column) \ {moved} :
          /\ row[d].position # want
          /\ ~(want < row[d].position /\ row[d].position < row[o].position)
          /\ ~(row[o].position < row[d].position /\ row[d].position < want)
    <3> TAKE d \in In(column) \ {moved}
    <3>1. row[d].position \in Nat  BY <1>5
    <3>2. CASE d \notin there  BY <1>3, <1>5, <1>9, <2>5, <3>1, <3>2
    <3>3. CASE d = o  BY <1>3, <1>9, <2>5, <3>3
    <3>4. CASE d \in there \ {o}
      <4>1. p <= row[d].position  BY <2>2, <3>4
      <4> QED  BY <1>3, <1>9, <2>2, <2>5, <3>1, <4>1
    <3> QED  BY <3>2, <3>3, <3>4
  <2>7. Goes(moved, column, "place", want, {o})  BY <1>9, <2>4
  <2>8. want \in Nat /\ want # 0  BY <2>5
  <2> HIDE DEF Goes, There, Beyond
  <2> QED  BY <1>6, <2>3, <2>6, <2>7, <2>8
<1>10. ASSUME NEW o \in there, Goes(moved, column, "renumber", 0, {o})
       PROVE  \E q : StepsTo(w, q)
  <2>1. moved \notin {o} /\ {o} \in SUBSET Nat /\ (\A a, b \in {o} : a = b)  BY <1>5, <1>10
  <2> HIDE DEF Goes, There
  <2> QED  BY <1>6, <1>10, <2>1
<1> HIDE DEF Goes, There, Beyond
<1> QED  BY <1>2, <1>7, <1>8, <1>9, <1>10

(* The writes of a renumbering, and the place it leaves for the card.  *)
LEMMA RenumberWritesStep ==
  ASSUME RowsInv, PlansInv, NEW w \in Requests, RenumberWrites(w)
  PROVE  \E q : StepsTo(w, q)
<1>1. row \in Seq(CardRow) /\ request \in [Requests -> CardRequest]  BY DEF RowsInv
<1>2. PICK order : order = request[w].order  OBVIOUS
<1>3. request[w] \in CardRequest /\ request[w].pc = "write"  BY <1>1 DEF RenumberWrites
<1>4. /\ row' = [c \in Cards |-> IF c \in DOMAIN order
                                 THEN [row[c] EXCEPT !.position = order[c] * Gap]
                                 ELSE row[c]]
      /\ \/ Ends(w)
         \/ \E o \in request[w].beside \cap DOMAIN order :
              request' = [request EXCEPT ![w].pc = "place", ![w].order = <<>>,
                             ![w].want = Midpoint((order[o] - 1) * Gap, order[o] * Gap)]
  BY <1>2 DEF RenumberWrites
<1>5. \A c \in DOMAIN order : order[c] \in Nat \ {0}
  <2>1. order \in Places  BY <1>2, <1>3 DEF CardRequest
  <2> QED  BY <2>1 DEF Places
<1>6. Cards = DOMAIN row /\ row \in [DOMAIN row -> CardRow]  BY <1>1 DEF Cards
<1>7. row' \in [DOMAIN row -> CardRow]
  <2>1. \A c \in DOMAIN order : order[c] * Gap \in Nat \ {0}  BY <1>5, GapsKeepOrder
  <2>2. ASSUME NEW c \in DOMAIN row
        PROVE  (IF c \in DOMAIN order THEN [row[c] EXCEPT !.position = order[c] * Gap]
                ELSE row[c]) \in CardRow
    <3>1. row[c] \in CardRow  BY <1>6
    <3>2. CASE c \in DOMAIN order
      <4>1. PICK p \in Nat \ {0} : p = order[c] * Gap  BY <2>1, <3>2
      <4> QED  BY <3>1, <3>2, <4>1 DEF CardRow
    <3> QED  BY <3>1, <3>2
  <2> QED  BY <1>4, <1>6, <2>2
<1>8. row' \in Seq(CardRow) /\ DOMAIN row' = DOMAIN row  BY <1>1, <1>7, PlacesMakeSeq
<1>9. CASE Ends(w)
  <2>1. Planned(AtRest)'  BY RestIsPlanned DEF Planned
  <2> QED  BY <1>8, <1>9, <2>1, RestIsPlanned DEF StepsTo, Ends
<1>10. ASSUME NEW o \in request[w].beside \cap DOMAIN order,
              request' = [request EXCEPT ![w].pc = "place", ![w].order = <<>>,
                             ![w].want = Midpoint((order[o] - 1) * Gap, order[o] * Gap)]
       PROVE  \E q : StepsTo(w, q)
  <2>1. PICK want : want = Midpoint((order[o] - 1) * Gap, order[o] * Gap)  OBVIOUS
  <2>2. PICK none : none = <<>>  OBVIOUS
  <2>3. none \in Places  BY <2>2, NoPlan
  <2>4. /\ want \in Nat \ {0} /\ want < order[o] * Gap /\ (order[o] - 1) * Gap < want
        /\ \A j \in Nat \ {0} : j < order[o] => j * Gap <= (order[o] - 1) * Gap
    BY <1>5, <2>1, GapsKeepOrder
  <2>5. PICK q : q = [request[w] EXCEPT !.pc = "place", !.order = none, !.want = want]  OBVIOUS
  <2>6. request' = [request EXCEPT ![w] = q]  BY <1>1, <1>10, <2>1, <2>2, <2>5
  <2>7. /\ q \in CardRequest /\ q.pc = "place" /\ q.card = request[w].card
        /\ q.beside = request[w].beside /\ q.to = request[w].to /\ q.want = want
    BY <1>3, <2>3, <2>4, <2>5 DEF CardRequest
  <2>8. ASSUME w \notin overtaken PROVE Planned(q)'
    <3>1. Planned(request[w])  BY <2>8 DEF PlansInv
    <3>2. request[w].card \cap request[w].beside = {} /\ order = cardPositions(q.to)
      BY <1>2, <1>3, <2>7, <3>1 DEF Planned
    <3>3. DOMAIN order = In(q.to)  BY <3>2 DEF cardPositions
    <3>4. In(q.to)' = In(q.to)
      BY <1>4, <1>6, <1>8 DEF In, Cards, CardRow
    <3>5. \A d \in In(q.to) : row'[d].position = order[d] * Gap
      BY <1>4, <1>6, <3>3 DEF In, Cards, CardRow
    <3>6. \A d \in In(q.to) : d # o => order[d] # order[o]
      BY <1>1, <1>10, <3>2, <3>3, PlacesFollowOrder
    <3>7. ASSUME NEW d \in In(q.to)
          PROVE  /\ row'[d].position # want
                 /\ ~(want < row'[d].position /\ row'[d].position < row'[o].position)
                 /\ ~(row'[o].position < row'[d].position /\ row'[d].position < want)
      <4>1. order[d] \in Nat \ {0} /\ order[o] \in Nat \ {0}  BY <1>5, <1>10, <3>3
      <4>2. PICK p : p = order[d] * Gap  OBVIOUS
      <4>3. PICK q1 : q1 = order[o] * Gap  OBVIOUS
      <4>4. PICK q0 : q0 = (order[o] - 1) * Gap  OBVIOUS
      <4>5. p \in Nat /\ q1 \in Nat  BY <4>1, <4>2, <4>3, GapsKeepOrder
      <4>6. row'[d].position = p /\ row'[o].position = q1
        BY <1>10, <3>3, <3>5, <4>2, <4>3
      <4>7. want \in Nat /\ want < q1 /\ q0 < want  BY <2>4, <4>3, <4>4
      <4>8. q0 \in Nat
        <5>1. order[o] - 1 \in Nat /\ Gap \in Nat  BY <4>1, RestIsPlanned
        <5> QED  BY <4>4, <5>1
      <4>9. CASE order[d] = order[o]
        <5>1. p = q1  BY <4>2, <4>3, <4>9
        <5> QED  BY <4>5, <4>6, <4>7, <5>1
      <4>10. CASE order[d] < order[o]
        <5>1. p <= q0  BY <2>4, <4>1, <4>2, <4>4, <4>10
        <5> QED  BY <4>5, <4>6, <4>7, <4>8, <5>1
      <4>11. CASE order[o] < order[d]
        <5>1. q1 < p  BY <4>1, <4>2, <4>3, <4>11, GapsKeepOrder
        <5> QED  BY <4>5, <4>6, <4>7, <5>1
      <4> QED  BY <4>1, <4>9, <4>10, <4>11
    <3>8. q.card \cap q.beside = {} /\ (\A a, b \in q.beside : a = b) /\ (\A a, b \in q.card : a = b)
      BY <1>3, <2>7, <3>1 DEF Planned
    <3>9. ASSUME NEW c \in q.card, NEW b \in q.beside PROVE Fits(q, c, b)'
      <4>1. b = o /\ o # c  BY <1>10, <2>7, <3>8
      <4>2. o \in In(q.to)'  BY <1>10, <3>3, <3>4
      <4> QED  BY <2>7, <3>4, <3>7, <4>1, <4>2 DEF Fits
    <3> QED  BY <2>7, <3>8, <3>9 DEF Planned
  <2>9. q.card \subseteq Cards  BY <2>7 DEF RowsInv
  <2> QED  BY <1>8, <2>4, <2>6, <2>7, <2>8, <2>9 DEF StepsTo
<1> QED  BY <1>4, <1>9, <1>10

(* A page of a column, and what is left for the next one. *)
LEMMA PageOfColumn ==
  ASSUME row \in Seq(CardRow), NEW column, NEW cursor, NEW rows, NEW last,
         rows = pageOfList(column, cursor), last = Largest({row[c].position : c \in rows})
  PROVE  /\ rows \subseteq After(column, cursor)
         /\ Cardinality(rows) < Limit => rows = After(column, cursor)
         /\ ~(Cardinality(rows) < Limit) =>
              /\ last \in Nat /\ rows # {}
              /\ \A c \in rows : row[c].position <= last
              /\ \A c \in After(column, cursor) \ rows : last <= row[c].position
<1> DEFINE all == After(column, cursor)
<1>1. all \in SUBSET Cards  BY DEF After, In
<1>2. Limit \in Nat \ {0}  BY ColumnsAssumption
<1>3. Orders(CardOrder, all) /\ \A c \in all : Rank(all, c) = Cardinality(Ahead(all, CardOrder, c))
  BY <1>1, CardsAreOrdered DEF Rank
<1>4. rows = FirstIn(all, CardOrder, Limit)  BY <1>3 DEF pageOfList, FirstIn
<1>5. rows \in SUBSET all /\ rows \in SUBSET Cards  BY <1>1, <1>4 DEF FirstIn
<1>6. Cardinality(rows) < Limit => rows = all  BY <1>2, <1>3, <1>4, ShortPageIsAll
<1>7. ASSUME ~(Cardinality(rows) < Limit)
      PROVE  /\ last \in Nat /\ rows # {}
             /\ \A c \in rows : row[c].position <= last
             /\ \A c \in all \ rows : last <= row[c].position
  <2>1. rows # {}  BY <1>2, <1>7, FS_EmptySet
  <2> DEFINE N == {row[c].position : c \in rows}
  <2>2. N \in SUBSET Nat /\ IsFiniteSet(N) /\ N # {}  BY <1>5, <2>1, PositionsAreFinite
  <2>3. last \in N /\ \A n \in N : n <= last
    <3>1. last = Largest(N)  OBVIOUS
    <3> HIDE DEF N
    <3> QED  BY <2>2, <3>1, LargestIsOne
  <2>4. PICK b \in rows : last = row[b].position  BY <2>3
  <2>5. ASSUME NEW c \in all \ rows PROVE last <= row[c].position
    <3>1. <<c, b>> \notin CardOrder  BY <1>2, <1>3, <1>4, PageComesFirst
    <3>2. c \in DOMAIN row /\ b \in DOMAIN row  BY <1>1, <1>5 DEF Cards
    <3>3. row[c] \in CardRow /\ row[b] \in CardRow  BY <3>2
    <3>4. ~Before(c, b)  BY <3>1, <3>2 DEF CardOrder, Cards
    <3> QED  BY <2>4, <3>3, <3>4 DEF Before, CardRow
  <2> QED  BY <2>1, <2>2, <2>3, <2>5
<1> QED  BY <1>5, <1>6, <1>7

\* What the client of a column has seen stands up to the cursor, and what it has not, after it.
ColumnPage ==
  [pc : {"rest", "next", "done"}, column : Columns, cursor : Nat, cursors : SUBSET Nat,
   seen : SUBSET Nat, again : SUBSET Nat, stays : SUBSET Nat]
PageInv ==
  /\ page \in ColumnPage
  /\ page.stays \subseteq In(page.column) /\ page.stays \cap page.again = {}
  /\ page.pc = "next" => \A c \in page.stays \cap page.seen : row[c].position <= page.cursor
  /\ \A c \in page.stays \ page.seen :
       \/ row[c].position \in page.cursors
       \/ page.pc = "next" /\ page.cursor < row[c].position

ColumnsInv == RowsInv /\ PlansInv /\ PageInv

(* A request at work. *)
LEMMA WritesSteps ==
  ASSUME RowsInv, PlansInv, NEW w \in Requests, Writes(w)
  PROVE  \E q : StepsTo(w, q)
<1>1. \/ CreateReads(w) \/ CreateWrites(w) \/ CreateAt(w) \/ CreateUnplaced(w)
      \/ MoveReads(w) \/ MoveWrites(w)
      \/ RebalanceRequest(w) \/ RenumberReads(w) \/ RenumberWrites(w)
      \/ complete(w) \/ archiveListAndReleaseCards(w) \/ remove(w) \/ restore(w)
  BY DEF Writes
<1>2. CASE CreateReads(w) \/ CreateWrites(w) \/ CreateAt(w) \/ CreateUnplaced(w)
  BY <1>2, CreateSteps
<1>3. CASE complete(w) \/ archiveListAndReleaseCards(w) \/ remove(w) \/ restore(w)
  BY <1>3, PlainSteps
<1>4. CASE RebalanceRequest(w) \/ RenumberReads(w)  BY <1>4, RenumberReadSteps
<1>5. CASE MoveReads(w)  BY <1>5, MoveReadsStep
<1>6. CASE MoveWrites(w)  BY <1>6, MoveWritesStep
<1>7. CASE RenumberWrites(w)  BY <1>7, RenumberWritesStep
<1> QED  BY <1>1, <1>2, <1>3, <1>4, <1>5, <1>6, <1>7

(* A request on the cards keeps ColumnsInv. *)
LEMMA WritesStep ==
  ASSUME ColumnsInv, NEW w \in Requests, Writes(w)
  PROVE  ColumnsInv'
<1>1. RowsInv /\ PlansInv /\ PageInv  BY DEF ColumnsInv
<1>2. PICK q : StepsTo(w, q)  BY <1>1, WritesSteps
<1>3. /\ row' \in Seq(CardRow) /\ DOMAIN row \subseteq DOMAIN row'
      /\ q \in CardRequest /\ (q.pc \in {"insert", "place"} => q.want # 0) /\ q.card \subseteq Cards
      /\ request' = [request EXCEPT ![w] = q]
      /\ w \notin overtaken => Planned(q)'
  BY <1>2 DEF StepsTo
<1>4. /\ overtaken' = {v \in Requests : /\ request'[v].pc # "rest"
                                        /\ v \in overtaken \/ (v # w /\ row' # row)}
      /\ page' = [page EXCEPT !.stays = {c \in @ : row'[c] = row[c]}]
  BY DEF Writes
<1>5. request \in [Requests -> CardRequest]  BY <1>1 DEF RowsInv
<1>6. request' \in [Requests -> CardRequest] /\ request'[w] = q
      /\ \A v \in Requests : v # w => request'[v] = request[v]
  BY <1>3, <1>5
<1>7. RowsInv'
  <2>1. \A v \in Requests : /\ request'[v].pc \in {"insert", "place"} => request'[v].want # 0
                            /\ request'[v].card \subseteq Cards'
    BY <1>1, <1>3, <1>6 DEF RowsInv, Cards
  <2>2. overtaken' \subseteq Requests  BY <1>4
  <2> QED  BY <1>3, <1>6, <2>1, <2>2 DEF RowsInv
<1>8. PlansInv'
  <2>1. SUFFICES ASSUME NEW v \in Requests, v \notin overtaken' PROVE Planned(request[v])'
    BY DEF PlansInv
  <2>2. CASE request'[v].pc = "rest"  BY <2>2 DEF Planned
  <2>3. CASE request'[v].pc # "rest" /\ v = w
    <3>1. w \notin overtaken  BY <1>4, <2>1, <2>3
    <3>2. Planned(q)'  BY <1>3, <3>1
    <3>3. request'[v] = q  BY <1>6, <2>3
    <3> QED  BY <3>2, <3>3 DEF Planned, Fits
  <2>4. CASE request'[v].pc # "rest" /\ v # w
    <3>1. v \notin overtaken /\ row' = row  BY <1>4, <2>1, <2>4
    <3>2. Planned(request[v])  BY <1>1, <3>1 DEF PlansInv
    <3>3. request'[v] = request[v]  BY <1>6, <2>4
    <3> QED  BY <3>1, <3>2, <3>3 DEF Planned, Fits, cardPositions, In, Rank, Before, Cards
  <2> QED  BY <2>2, <2>3, <2>4
<1>9. PageInv'
  <2>1. page \in ColumnPage  BY <1>1 DEF PageInv
  <2>2. /\ page'.pc = page.pc /\ page'.column = page.column /\ page'.cursor = page.cursor
        /\ page'.cursors = page.cursors /\ page'.seen = page.seen /\ page'.again = page.again
        /\ page'.stays = {c \in page.stays : row'[c] = row[c]}
    BY <1>4, <2>1 DEF ColumnPage
  <2>3. PICK stays : stays = {c \in page.stays : row'[c] = row[c]}  OBVIOUS
  <2>4. stays \in SUBSET Nat  BY <2>1, <2>3 DEF ColumnPage
  <2>5. page' \in ColumnPage  BY <1>4, <2>1, <2>3, <2>4 DEF ColumnPage
  <2>6. page'.stays \subseteq In(page.column)'
    <3>1. \A c \in page.stays : c \in In(page.column)  BY <1>1 DEF PageInv
    <3> QED  BY <1>3, <2>2, <3>1 DEF In, Cards
  <2>7. \A c \in page'.stays : c \in page.stays /\ row'[c] = row[c]  BY <2>2
  <2> QED  BY <1>1, <2>2, <2>5, <2>6, <2>7 DEF PageInv
<1> QED  BY <1>7, <1>8, <1>9 DEF ColumnsInv

(* Reading the next page. *)
LEMMA NextPageStep ==
  ASSUME ColumnsInv, NextPage PROVE ColumnsInv'
<1>1. RowsInv /\ PlansInv /\ PageInv  BY DEF ColumnsInv
<1>2. PICK rows : rows = pageOfList(page.column, page.cursor)  OBVIOUS
<1>3. PICK last : last = Largest({row[c].position : c \in rows})  OBVIOUS
<1>4. PICK read : read = [page EXCEPT !.seen = @ \cup rows, !.again = @ \cup (page.seen \cap rows)]
  OBVIOUS
<1>5. /\ page.pc = "next" /\ UNCHANGED <<row, request, overtaken>>
      /\ page' = IF Cardinality(rows) < Limit THEN [read EXCEPT !.pc = "done"]
                 ELSE [read EXCEPT !.cursor = last, !.cursors = @ \cup {last}]
  BY <1>2, <1>3, <1>4 DEF NextPage
<1>6. RowsInv' /\ PlansInv'
  BY <1>1, <1>5 DEF RowsInv, PlansInv, Planned, Fits, cardPositions, In, Rank, Before, Cards
<1>7. page \in ColumnPage  BY <1>1 DEF PageInv
<1>8. row \in Seq(CardRow)  BY <1>1 DEF RowsInv
<1>9. /\ rows \subseteq After(page.column, page.cursor)
      /\ Cardinality(rows) < Limit => rows = After(page.column, page.cursor)
      /\ ~(Cardinality(rows) < Limit) =>
           /\ last \in Nat /\ rows # {}
           /\ \A c \in rows : row[c].position <= last
           /\ \A c \in After(page.column, page.cursor) \ rows : last <= row[c].position
  BY <1>2, <1>3, <1>8, PageOfColumn
<1>10. In(page.column) \subseteq DOMAIN row /\ \A c \in DOMAIN row : c \in Nat /\ row[c].position \in Nat
  <2>1. \A c \in DOMAIN row : c \in Nat /\ row[c] \in CardRow  BY <1>8
  <2> QED  BY <2>1 DEF In, Cards, CardRow
<1>11. rows \in SUBSET Nat  BY <1>9, <1>10 DEF After
<1>12. /\ read \in ColumnPage /\ read.pc = page.pc /\ read.column = page.column
       /\ read.cursor = page.cursor /\ read.cursors = page.cursors
       /\ read.seen = page.seen \cup rows /\ read.again = page.again \cup (page.seen \cap rows)
       /\ read.stays = page.stays
  BY <1>4, <1>7, <1>11 DEF ColumnPage
<1>13. page.stays \cap (page.again \cup (page.seen \cap rows)) = {}
  <2>1. ASSUME NEW c \in page.stays, c \in page.seen, c \in rows PROVE FALSE
    <3>1. row[c].position <= page.cursor  BY <1>1, <1>5, <2>1 DEF PageInv
    <3>2. c \in DOMAIN row /\ row[c].position > page.cursor  BY <1>9, <1>10, <2>1 DEF After
    <3>3. page.cursor \in Nat /\ row[c].position \in Nat  BY <1>7, <1>10, <3>2 DEF ColumnPage
    <3> QED  BY <3>1, <3>2, <3>3
  <2> QED  BY <1>1, <2>1 DEF PageInv
<1>14. \A c \in page.stays : c \in In(page.column) /\ c \in DOMAIN row  BY <1>1, <1>10 DEF PageInv
<1>15. \A c \in page.stays \ page.seen :
         \/ row[c].position \in page.cursors
         \/ c \in After(page.column, page.cursor)
  BY <1>1, <1>7, <1>10, <1>14 DEF PageInv, After, ColumnPage
<1>16. ASSUME page'.column = page.column, page'.stays = page.stays
       PROVE  page'.stays \subseteq In(page.column)'
  BY <1>1, <1>5, <1>16 DEF PageInv, In, Cards
<1>17. CASE Cardinality(rows) < Limit
  <2>1. page' = [read EXCEPT !.pc = "done"]  BY <1>5, <1>17
  <2>2. /\ page' \in ColumnPage /\ page'.pc = "done" /\ page'.column = page.column
        /\ page'.cursors = page.cursors /\ page'.seen = page.seen \cup rows
        /\ page'.again = page.again \cup (page.seen \cap rows) /\ page'.stays = page.stays
    BY <1>12, <2>1 DEF ColumnPage
  <2>3. \A c \in page'.stays \ page'.seen : row'[c].position \in page'.cursors
    BY <1>5, <1>9, <1>15, <1>17, <2>2
  <2> QED  BY <1>6, <1>13, <1>16, <2>2, <2>3 DEF ColumnsInv, PageInv
<1>18. CASE ~(Cardinality(rows) < Limit)
  <2>1. page' = [read EXCEPT !.cursor = last, !.cursors = @ \cup {last}]  BY <1>5, <1>18
  <2>2. last \in Nat  BY <1>9, <1>18
  <2>3. /\ page' \in ColumnPage /\ page'.pc = "next" /\ page'.column = page.column
        /\ page'.cursor = last
        /\ page'.cursors = page.cursors \cup {last} /\ page'.seen = page.seen \cup rows
        /\ page'.again = page.again \cup (page.seen \cap rows) /\ page'.stays = page.stays
    <3>1. PICK cursors : cursors = page.cursors \cup {last}  OBVIOUS
    <3>2. cursors \in SUBSET Nat  BY <1>7, <2>2, <3>1 DEF ColumnPage
    <3>3. page' = [read EXCEPT !.cursor = last, !.cursors = cursors]  BY <1>12, <2>1, <3>1
    <3> QED  BY <1>5, <1>12, <2>2, <3>1, <3>2, <3>3 DEF ColumnPage
  <2>4. ASSUME NEW c \in page.stays, c \notin page.seen, c \notin rows
        PROVE  row[c].position \in page.cursors \cup {last} \/ last < row[c].position
    <3>1. CASE row[c].position \in page.cursors  BY <3>1
    <3>2. CASE c \in After(page.column, page.cursor)
      <4>1. last <= row[c].position  BY <1>9, <1>18, <2>4, <3>2
      <4>2. row[c].position \in Nat  BY <1>10, <1>14
      <4> QED  BY <2>2, <4>1, <4>2
    <3> QED  BY <1>15, <2>4, <3>1, <3>2
  <2>5. ASSUME NEW c \in page.stays, c \in page.seen \cup rows PROVE row[c].position <= last
    <3>1. CASE c \in rows  BY <1>9, <1>18, <3>1
    <3>2. CASE c \in page.seen
      <4>1. row[c].position <= page.cursor  BY <1>1, <1>5, <3>2 DEF PageInv
      <4>2. PICK d \in rows : TRUE  BY <1>9, <1>18
      <4>3. page.cursor < row[d].position /\ d \in DOMAIN row
        <5>1. d \in After(page.column, page.cursor)  BY <1>9
        <5>2. d \in DOMAIN row /\ row[d].position > page.cursor  BY <1>10, <5>1 DEF After
        <5> QED  BY <5>2, <1>7, <1>10 DEF ColumnPage
      <4>4. row[d].position <= last  BY <1>9, <1>18
      <4>5. row[c].position \in Nat /\ row[d].position \in Nat /\ page.cursor \in Nat
        BY <1>7, <1>10, <1>14, <4>3 DEF ColumnPage
      <4> QED  BY <2>2, <4>1, <4>3, <4>4, <4>5
    <3> QED  BY <2>5, <3>1, <3>2
  <2>6. \A c \in page'.stays \ page'.seen :
          row'[c].position \in page'.cursors \/ (page'.pc = "next" /\ page'.cursor < row'[c].position)
    BY <1>5, <2>3, <2>4
  <2>7. \A c \in page'.stays \cap page'.seen : row'[c].position <= page'.cursor
    BY <1>5, <2>3, <2>5
  <2> QED  BY <1>6, <1>13, <1>16, <2>3, <2>6, <2>7 DEF ColumnsInv, PageInv
<1> QED  BY <1>17, <1>18

(* ColumnsInv is inductive. *)
LEMMA ColumnsStep == ColumnsInv /\ [ColumnsNext]_columnsVars => ColumnsInv'
<1> SUFFICES ASSUME ColumnsInv, [ColumnsNext]_columnsVars PROVE ColumnsInv'  OBVIOUS
<1>1. ASSUME NEW w \in Requests, Writes(w) PROVE ColumnsInv'  BY <1>1, WritesStep
<1>2. CASE OpenColumn
  <2>1. PICK column \in Columns :
          page' = [NoPage EXCEPT !.pc = "next", !.column = column, !.stays = In(column)]
    BY <1>2 DEF OpenColumn
  <2>2. UNCHANGED <<row, request, overtaken>>  BY <1>2 DEF OpenColumn
  <2>3. RowsInv' /\ PlansInv'
    BY <2>2 DEF ColumnsInv, RowsInv, PlansInv, Planned, Fits, cardPositions, In, Rank, Before, Cards
  <2>4. PICK stays : stays = In(column)  OBVIOUS
  <2>5. \A c \in In(column) : c \in Nat /\ row[c].position \in Nat \ {0}
    <3>1. row \in Seq(CardRow)  BY DEF ColumnsInv, RowsInv
    <3>2. \A c \in DOMAIN row : c \in Nat /\ row[c] \in CardRow  BY <3>1
    <3> QED  BY <3>2 DEF In, Cards, CardRow
  <2>6. page' = [pc |-> "next", column |-> column, cursor |-> 0, cursors |-> {}, seen |-> {},
                 again |-> {}, stays |-> stays]
    BY <2>1, <2>4 DEF NoPage
  <2>7. page' \in ColumnPage  BY <2>4, <2>5, <2>6 DEF ColumnPage
  <2>8. page'.stays \subseteq In(page.column)'  BY <2>2, <2>4, <2>6 DEF In, Cards
  <2>9. \A c \in page'.stays \ page'.seen : page'.cursor < row'[c].position
    BY <2>2, <2>4, <2>5, <2>6
  <2> QED  BY <2>3, <2>6, <2>7, <2>8, <2>9 DEF ColumnsInv, PageInv
<1>3. CASE NextPage  BY <1>3, NextPageStep
<1>4. CASE UNCHANGED columnsVars
  <2>1. UNCHANGED <<row, request, overtaken, page>>  BY <1>4 DEF columnsVars
  <2> QED  BY <2>1 DEF ColumnsInv, RowsInv, PlansInv, PageInv, Planned, Fits, cardPositions, In,
                       Rank, Before, Cards
<1> QED  BY <1>1, <1>2, <1>3, <1>4 DEF ColumnsNext

(* ColumnsInv holds at the start. *)
LEMMA ColumnsStart == ColumnsInit => ColumnsInv
<1> SUFFICES ASSUME ColumnsInit PROVE ColumnsInv  OBVIOUS
<1>1. PICK there \in 0..MaxCards :
        row \in [1..there -> [column : Columns, position : StartAt, live : {TRUE}]]
  BY DEF ColumnsInit
<1>2. row \in [1..there -> CardRow] /\ there \in Nat
  <2>1. \A r \in [column : Columns, position : StartAt, live : {TRUE}] : r \in CardRow
    BY RestIsPlanned DEF CardRow
  <2>2. \A i \in 1..there : row[i] \in CardRow  BY <1>1, <2>1
  <2> QED  BY <1>1, <2>2, ColumnsAssumption
<1>3. row \in Seq(CardRow)  BY <1>2
<1>4. \A w \in Requests : request[w] = AtRest  BY DEF ColumnsInit
<1>5. RowsInv
  <2>1. request \in [Requests -> CardRequest]  BY RestIsPlanned DEF ColumnsInit
  <2> QED  BY <1>3, <1>4, <2>1, RestIsPlanned DEF RowsInv, ColumnsInit
<1>6. PlansInv  BY <1>4, RestIsPlanned DEF PlansInv, Planned
<1>7. PageInv
  <2>1. page = [pc |-> "rest", column |-> Inbox, cursor |-> 0, cursors |-> {}, seen |-> {},
                again |-> {}, stays |-> {}]
    BY DEF ColumnsInit, NoPage
  <2>2. page \in ColumnPage  BY <2>1, RestIsPlanned DEF ColumnPage
  <2> QED  BY <2>1, <2>2 DEF PageInv
<1> QED  BY <1>5, <1>6, <1>7 DEF ColumnsInv

(* A client that pages through a column sees each card that stays where it *)
(* is, once, unless the card has the position of the last card of a page:  *)
(* for any columns, cards and requests, and any size of a page.            *)
THEOREM PagesReadOnce == ColumnsSpec => []PagesSkipOnlyTies
<1>1. ColumnsInv => PagesSkipOnlyTies
  BY DEF ColumnsInv, PageInv, PagesSkipOnlyTies
<1> QED  BY <1>1, ColumnsStart, ColumnsStep, PTL DEF ColumnsSpec

(* Which request moves, and how. *)
LEMMA OnlyOneMoves ==
  ASSUME ColumnsInv, NEW v \in Requests, [ColumnsNext]_columnsVars, request'[v].pc # request[v].pc
  PROVE  /\ request[v].pc = "place" => MoveWrites(v)
         /\ request[v].pc = "write" => RenumberWrites(v)
<1>1. ~(OpenColumn \/ NextPage \/ UNCHANGED columnsVars)  BY DEF OpenColumn, NextPage, columnsVars
<1>2. PICK w \in Requests : Writes(w)  BY <1>1 DEF ColumnsNext
<1>3. RowsInv /\ PlansInv  BY DEF ColumnsInv
<1>4. PICK q : StepsTo(w, q)  BY <1>2, <1>3, WritesSteps
<1>5. w = v  BY <1>3, <1>4 DEF StepsTo, RowsInv
<1>6. \/ CreateReads(v) \/ CreateWrites(v) \/ CreateAt(v) \/ CreateUnplaced(v)
      \/ MoveReads(v) \/ MoveWrites(v)
      \/ RebalanceRequest(v) \/ RenumberReads(v) \/ RenumberWrites(v)
      \/ complete(v) \/ archiveListAndReleaseCards(v) \/ remove(v) \/ restore(v)
  BY <1>2, <1>5 DEF Writes
<1>7. request[v].pc = "place" => MoveWrites(v)
  BY <1>6 DEF CreateReads, CreateWrites, CreateAt, CreateUnplaced, MoveReads, RebalanceRequest,
              RenumberReads, RenumberWrites, complete, archiveListAndReleaseCards, remove,
              restore, Begins
<1>8. request[v].pc = "write" => RenumberWrites(v)
  BY <1>6 DEF CreateReads, CreateWrites, CreateAt, CreateUnplaced, MoveReads, RebalanceRequest,
              RenumberReads, MoveWrites, complete, archiveListAndReleaseCards, remove,
              restore, Begins
<1> QED  BY <1>7, <1>8

(* A card dragged onto a taken slot lands beside the card that has it, at  *)
(* a position of its own, unless another request wrote cards meanwhile:    *)
(* for any columns, cards, requests and gaps.                              *)
THEOREM DraggedBeside == ColumnsSpec => DragsLandBeside
<1>1. ASSUME ColumnsInv, [ColumnsNext]_columnsVars, NEW w \in Requests, request[w].pc = "place",
             request'[w].pc = "rest", w \notin overtaken
      PROVE  LandsBeside(w)
  <2>1. MoveWrites(w)  BY <1>1, OnlyOneMoves
  <2>2. RowsInv /\ Planned(request[w])  BY <1>1 DEF ColumnsInv, PlansInv
  <2>3. request[w] \in CardRequest /\ row \in Seq(CardRow)  BY <2>2 DEF RowsInv
  <2>4. row' = [c \in Cards |-> IF c \in request[w].card
                             THEN [row[c] EXCEPT !.column = request[w].to,
                                                 !.position = request[w].want]
                             ELSE row[c]]
    BY <2>1 DEF MoveWrites
  <2>5. SUFFICES ASSUME NEW c \in request[w].card, NEW o \in request[w].beside,
                        NEW d \in Cards, d # c, row'[d].live, row'[d].column = row'[c].column
                 PROVE  /\ row'[d].position # row'[c].position
                        /\ ~(row'[c].position < row'[d].position /\ row'[d].position < row'[o].position)
                        /\ ~(row'[o].position < row'[d].position /\ row'[d].position < row'[c].position)
    BY DEF LandsBeside
  <2>6. Fits(request[w], c, o)  BY <1>1, <2>2 DEF Planned
  <2>7. c # o /\ o \in Cards  BY <2>6 DEF Fits, In
  <2>8. request[w].card \cap request[w].beside = {}  BY <1>1, <2>2 DEF Planned
  <2>9. /\ row'[o] = row[o]
        /\ c \in Cards => /\ row'[c].column = request[w].to /\ row'[c].position = request[w].want
    <3>1. row \in [Cards -> CardRow]  BY <2>3 DEF Cards
    <3>2. o \notin request[w].card  BY <2>8
    <3> QED  BY <2>4, <2>7, <3>1, <3>2 DEF CardRow
  <2>10. c \in Cards  BY <2>2 DEF RowsInv
  <2>11. d \notin request[w].card
    <3>1. \A a, b \in request[w].card : a = b  BY <1>1, <2>2 DEF Planned
    <3> QED  BY <2>5, <3>1
  <2>12. row'[d] = row[d]  BY <2>4, <2>5, <2>11
  <2>13. d \in In(request[w].to) \ {c}  BY <2>5, <2>9, <2>10, <2>12 DEF In
  <2> QED  BY <2>6, <2>9, <2>10, <2>12, <2>13 DEF Fits
<1>2. ColumnsInv /\ [ColumnsNext]_columnsVars =>
        [\A w \in Requests :
           request[w].pc = "place" /\ request'[w].pc = "rest" /\ w \notin overtaken
             => LandsBeside(w)]_columnsVars
  BY <1>1
<1> QED  BY <1>2, ColumnsStart, ColumnsStep, PTL DEF ColumnsSpec, DragsLandBeside

(* Renumbering a column, alone, leaves its cards in the order in which     *)
(* they are shown, and apart: for any columns, cards, requests and gaps.   *)
THEOREM RenumberedInOrder == ColumnsSpec => RenumberingKeepsOrder
<1>1. ASSUME ColumnsInv, [ColumnsNext]_columnsVars, NEW w \in Requests, request[w].pc = "write",
             request'[w].pc # "write", w \notin overtaken,
             NEW c \in In(request[w].to), NEW d \in In(request[w].to), Before(c, d)
      PROVE  row'[c].position < row'[d].position
  <2>1. RenumberWrites(w)  BY <1>1, OnlyOneMoves
  <2>2. RowsInv /\ Planned(request[w])  BY <1>1 DEF ColumnsInv, PlansInv
  <2>3. row \in [Cards -> CardRow] /\ row \in Seq(CardRow)  BY <2>2 DEF RowsInv, Cards
  <2>4. PICK order : order = request[w].order  OBVIOUS
  <2>5. order = cardPositions(request[w].to)  BY <1>1, <2>2, <2>4 DEF Planned
  <2>6. row' = [e \in Cards |-> IF e \in DOMAIN order
                                THEN [row[e] EXCEPT !.position = order[e] * Gap]
                                ELSE row[e]]
    BY <2>1, <2>4 DEF RenumberWrites
  <2>7. order \in [In(request[w].to) -> Nat \ {0}] /\ order[c] < order[d]
    BY <1>1, <2>3, <2>5, PlacesFollowOrder
  <2>8. c \in Cards /\ d \in Cards  BY <1>1 DEF In
  <2>9. row'[c].position = order[c] * Gap /\ row'[d].position = order[d] * Gap
    BY <1>1, <2>3, <2>6, <2>7, <2>8 DEF CardRow
  <2>10. order[c] \in Nat \ {0} /\ order[d] \in Nat \ {0}  BY <1>1, <2>7
  <2> QED  BY <2>7, <2>9, <2>10, GapsKeepOrder
<1>2. ColumnsInv /\ [ColumnsNext]_columnsVars =>
        [\A w \in Requests :
           request[w].pc = "write" /\ request'[w].pc # "write" /\ w \notin overtaken
             => \A c, d \in In(request[w].to) :
                  Before(c, d) => row'[c].position < row'[d].position]_columnsVars
  BY <1>1
<1> QED  BY <1>2, ColumnsStart, ColumnsStep, PTL DEF ColumnsSpec, RenumberingKeepsOrder

-----------------------------------------------------------------------------
(* The lists of a board.                                                   *)
ListMove ==
  [pc : {"rest", "insert", "place", "renumber"}, list : SUBSET Nat, want : Nat,
   order : Seq(Nat), slot : Nat, next : Nat]
Moving(q) == q.pc \in {"place", "renumber"}

\* A request that moves a list knows the other ones, each once.
MoversInv ==
  /\ listAt \in Seq(Nat \ {0}) /\ mover \in [Movers -> ListMove] /\ cutIn \subseteq Movers
  /\ \A w \in Movers :
       LET q == mover[w]
       IN /\ q.pc \in {"insert", "place"} => q.want # 0
          /\ Moving(q) =>
               /\ q.list \subseteq DOMAIN listAt /\ \A k, l \in q.list : k = l
               /\ \A i \in DOMAIN q.order : q.order[i] \in DOMAIN listAt \ q.list
               /\ \A i, j \in DOMAIN q.order : i # j => q.order[i] # q.order[j]
          /\ q.pc = "renumber" => q.slot \in DOMAIN q.order /\ q.next \in DOMAIN q.order

\* What it has renumbered, and the place it then has, when nobody cut in.
InOrder(q) ==
  \A i, j \in DOMAIN q.order : i < j => listAt[q.order[i]] <= listAt[q.order[j]]
Beside(q) ==
  \A i \in DOMAIN q.order :
    LET d == listAt[q.order[i]]
        o == listAt[q.order[q.slot]]
    IN d # q.want /\ ~(q.want < d /\ d < o) /\ ~(o < d /\ d < q.want)
Arranged(q) ==
  /\ q.pc = "renumber" => \A i \in 1 .. q.next - 1 : listAt[q.order[i]] = i * Gap
  /\ q.pc = "place" /\ q.slot # 0 => q.slot \in DOMAIN q.order /\ InOrder(q) /\ Beside(q)

ListsInv == MoversInv /\ \A w \in Movers : w \notin cutIn => Arranged(mover[w])

\* A step of the request w on the lists, after which it goes on as q.
ListStepsTo(w, q) ==
  /\ listAt' \in Seq(Nat \ {0}) /\ DOMAIN listAt \subseteq DOMAIN listAt'
  /\ q \in ListMove /\ mover' = [mover EXCEPT ![w] = q]
  /\ q.pc \in {"insert", "place"} => q.want # 0
  /\ Moving(q) =>
       /\ q.list \subseteq DOMAIN listAt /\ \A k, l \in q.list : k = l
       /\ \A i \in DOMAIN q.order : q.order[i] \in DOMAIN listAt \ q.list
       /\ \A i, j \in DOMAIN q.order : i # j => q.order[i] # q.order[j]
  /\ q.pc = "renumber" => q.slot \in DOMAIN q.order /\ q.next \in DOMAIN q.order
  /\ w \notin cutIn => Arranged(q)'

(* A request at rest. *)
LEMMA NoMoveIsMove ==
  /\ NoMove \in ListMove /\ NoMove.pc = "rest"
  /\ StartAt \subseteq Nat \ {0} /\ Gap \in Nat \ {0}
<1>1. NoMove = [pc |-> "rest", list |-> {}, want |-> 0, order |-> <<>>, slot |-> 0, next |-> 1]
  BY DEF NoMove
<1>2. <<>> \in Seq(Nat)  OBVIOUS
<1>3. NoMove \in ListMove  BY <1>1, <1>2 DEF ListMove
<1> QED  BY <1>1, <1>3, ColumnsAssumption

(* The last of the lists. *)
LEMMA LastListIsNumber ==
  ASSUME listAt \in Seq(Nat \ {0}) PROVE lastListPosition \in Nat
<1> DEFINE N == ToSet(listAt)
           D == DOMAIN listAt
<1>1. N = {listAt[i] : i \in D}  BY DEF ToSet
<1>2. N \in SUBSET Nat  BY <1>1
<1>3. IsFiniteSet(D)
  <2>1. D = 1 .. Len(listAt) /\ Len(listAt) \in Nat  OBVIOUS
  <2> HIDE DEF D
  <2> QED  BY <2>1, FS_Interval
<1>4. listAt \in Surjection(D, N)  BY <1>1 DEF Surjection
<1>5. IsFiniteSet(N)
  <2> HIDE DEF D, N
  <2> QED  BY <1>3, <1>4, FS_Surjection
<1>6. listAt # <<>> => N # {}
  <2>1. listAt # <<>> => 1 \in D  OBVIOUS
  <2> QED  BY <1>1, <2>1
<1>7. listAt # <<>> => Largest(N) \in Nat
  <2> HIDE DEF N
  <2> QED  BY <1>2, <1>5, <1>6, LargestIsOne
<1> QED  BY <1>7 DEF lastListPosition

(* The lists, read in order. *)
LEMMA ListsAreRead ==
  ASSUME listAt \in Seq(Nat \ {0}), NEW S \in SUBSET DOMAIN listAt, NEW order \in findLists(S)
  PROVE  /\ order \in Seq(Nat) /\ \A i \in DOMAIN order : order[i] \in S
         /\ \A i, j \in DOMAIN order : i # j => order[i] # order[j]
         /\ \A i, j \in DOMAIN order : i < j => listAt[order[i]] <= listAt[order[j]]
<1>1. IsFiniteSet(S)
  <2>1. DOMAIN listAt = 1 .. Len(listAt) /\ Len(listAt) \in Nat  OBVIOUS
  <2>2. IsFiniteSet(DOMAIN listAt)  BY <2>1, FS_Interval
  <2> QED  BY <2>2, FS_Subset
<1>2. PICK n \in Nat : n = Cardinality(S)  BY <1>1, FS_CardinalityType
<1>3. order \in [1..n -> S] /\ \A i, j \in 1..n : i # j => order[i] # order[j]
  BY <1>2 DEF findLists, SetToSeqs
<1>4. \A i \in DOMAIN listAt : i \in Nat  OBVIOUS
<1>5. order \in [1..n -> Nat]  BY <1>3, <1>4
<1>6. \A i, j \in DOMAIN order : i < j => listAt[order[i]] <= listAt[order[j]]
  BY DEF findLists
<1> QED  BY <1>3, <1>5, <1>6

(* Requests that make a list, end or die. *)
LEMMA ListMakeSteps ==
  ASSUME MoversInv, NEW w \in Movers, CreateList(w) \/ InsertList(w) \/ ListRequestDies(w)
  PROVE  \E q : ListStepsTo(w, q)
<1>1. listAt \in Seq(Nat \ {0}) /\ mover \in [Movers -> ListMove]  BY DEF MoversInv
<1>2. mover[w] \in ListMove  BY <1>1
<1>3. Arranged(NoMove)' /\ ~Moving(NoMove)  BY NoMoveIsMove DEF Arranged, Moving
<1>4. CASE CreateList(w)
  <2>1. PICK asked \in StartAt \cup {lastListPosition + Gap} :
          mover' = [mover EXCEPT ![w] = [NoMove EXCEPT !.pc = "insert", !.want = asked]]
    BY <1>4 DEF CreateList
  <2>2. asked \in Nat \ {0}
    <3>1. lastListPosition \in Nat  BY <1>1, LastListIsNumber
    <3> QED  BY <3>1, NoMoveIsMove
  <2>3. PICK q : q = [NoMove EXCEPT !.pc = "insert", !.want = asked]  OBVIOUS
  <2>4. q \in ListMove /\ q.pc = "insert" /\ q.want = asked
    <3>1. NoMove \in ListMove  BY NoMoveIsMove
    <3> QED  BY <2>2, <2>3, <3>1 DEF ListMove
  <2>5. Arranged(q)' /\ ~Moving(q)  BY <2>4 DEF Arranged, Moving
  <2>6. listAt' = listAt  BY <1>4 DEF CreateList
  <2> QED  BY <1>1, <2>1, <2>2, <2>3, <2>4, <2>5, <2>6 DEF ListStepsTo
<1>5. CASE InsertList(w)
  <2>1. /\ mover[w].pc = "insert" /\ listAt' = Append(listAt, mover[w].want)
        /\ mover' = [mover EXCEPT ![w] = NoMove]
    BY <1>5 DEF InsertList
  <2>2. mover[w].want \in Nat \ {0}  BY <1>2, <2>1 DEF MoversInv, ListMove
  <2>3. listAt' \in Seq(Nat \ {0}) /\ DOMAIN listAt \subseteq DOMAIN listAt'  BY <1>1, <2>1, <2>2
  <2> QED  BY <1>3, <2>1, <2>3, NoMoveIsMove DEF ListStepsTo
<1>6. CASE ListRequestDies(w)
  <2>1. mover' = [mover EXCEPT ![w] = NoMove] /\ listAt' = listAt  BY <1>6 DEF ListRequestDies
  <2> QED  BY <1>1, <1>3, <2>1, NoMoveIsMove DEF ListStepsTo
<1> QED  BY <1>4, <1>5, <1>6

(* The update of a move. *)
LEMMA MoveListStep ==
  ASSUME MoversInv, NEW w \in Movers, moveList(w)
  PROVE  ListStepsTo(w, NoMove)
<1>1. listAt \in Seq(Nat \ {0}) /\ mover[w] \in ListMove  BY DEF MoversInv
<1>2. PICK l \in mover[w].list : listAt' = [listAt EXCEPT ![l] = mover[w].want]  BY DEF moveList
<1>3. mover[w].pc = "place" /\ mover' = [mover EXCEPT ![w] = NoMove]  BY DEF moveList
<1>4. mover[w].want \in Nat \ {0} /\ l \in DOMAIN listAt
  BY <1>1, <1>3 DEF MoversInv, ListMove, Moving
<1>5. listAt' \in [DOMAIN listAt -> Nat \ {0}]  BY <1>1, <1>2, <1>4
<1>6. listAt' \in Seq(Nat \ {0}) /\ DOMAIN listAt' = DOMAIN listAt  BY <1>1, <1>5, PlacesMakeSeq
<1>7. Arranged(NoMove)' /\ ~Moving(NoMove)  BY NoMoveIsMove DEF Arranged, Moving
<1> QED  BY <1>3, <1>6, <1>7, NoMoveIsMove DEF ListStepsTo

(* The reading of a move. *)
LEMMA ResolveListStep ==
  ASSUME MoversInv, NEW w \in Movers, resolveListPosition(w)
  PROVE  \E q : ListStepsTo(w, q)
<1>1. listAt \in Seq(Nat \ {0}) /\ mover \in [Movers -> ListMove] /\ listAt' = listAt
  BY DEF MoversInv, resolveListPosition
<1> DEFINE Goes(l, others, pc, want, at) ==
             mover' = [mover EXCEPT ![w] = [pc |-> pc, list |-> {l}, want |-> want,
                                            order |-> others, slot |-> at, next |-> 1]]
           Taken(others, asked) == {i \in DOMAIN others : listAt[others[i]] = asked}
<1>2. PICK l \in DOMAIN listAt, asked \in StartAt \cup {Gap} :
        \E others \in findLists(DOMAIN listAt \ {l}) :
          IF Taken(others, asked) = {} THEN Goes(l, others, "place", asked, 0)
          ELSE IF Smallest(Taken(others, asked)) = Len(others)
               THEN Goes(l, others, "place", asked + Gap, Smallest(Taken(others, asked)))
          ELSE LET after == listAt[others[Smallest(Taken(others, asked)) + 1]]
               IN IF RoomAfter(asked, after)
                  THEN Goes(l, others, "place", Midpoint(asked, after),
                            Smallest(Taken(others, asked)))
                  ELSE Goes(l, others, "renumber", 0, Smallest(Taken(others, asked)))
  BY DEF resolveListPosition
<1>3. PICK others \in findLists(DOMAIN listAt \ {l}) :
          IF Taken(others, asked) = {} THEN Goes(l, others, "place", asked, 0)
          ELSE IF Smallest(Taken(others, asked)) = Len(others)
               THEN Goes(l, others, "place", asked + Gap, Smallest(Taken(others, asked)))
          ELSE LET after == listAt[others[Smallest(Taken(others, asked)) + 1]]
               IN IF RoomAfter(asked, after)
                  THEN Goes(l, others, "place", Midpoint(asked, after),
                            Smallest(Taken(others, asked)))
                  ELSE Goes(l, others, "renumber", 0, Smallest(Taken(others, asked)))
  BY <1>2
<1>4. /\ others \in Seq(Nat) /\ \A i \in DOMAIN others : others[i] \in DOMAIN listAt \ {l}
      /\ \A i, j \in DOMAIN others : i # j => others[i] # others[j]
      /\ \A i, j \in DOMAIN others : i < j => listAt[others[i]] <= listAt[others[j]]
  <2>1. DOMAIN listAt \ {l} \in SUBSET DOMAIN listAt  OBVIOUS
  <2> HIDE DEF Goes, Taken
  <2> QED  BY <1>1, <2>1, ListsAreRead
<1>5. asked \in Nat \ {0} /\ Gap \in Nat \ {0}  BY NoMoveIsMove
<1>6. \A i \in DOMAIN others : i \in Nat /\ listAt[others[i]] \in Nat  BY <1>1, <1>4
<1>7. ASSUME NEW pc \in {"place", "renumber"}, NEW want \in Nat, NEW at \in Nat,
             Goes(l, others, pc, want, at), pc = "place" => want # 0,
             pc = "renumber" => at \in DOMAIN others,
             pc = "place" /\ at # 0 =>
               /\ at \in DOMAIN others
               /\ \A i \in DOMAIN others :
                    /\ listAt[others[i]] # want
                    /\ ~(want < listAt[others[i]] /\ listAt[others[i]] < listAt[others[at]])
                    /\ ~(listAt[others[at]] < listAt[others[i]] /\ listAt[others[i]] < want)
      PROVE  \E q : ListStepsTo(w, q)
  <2>1. PICK q : q = [pc |-> pc, list |-> {l}, want |-> want, order |-> others, slot |-> at,
                      next |-> 1]
    OBVIOUS
  <2>2. /\ q.pc = pc /\ q.list = {l} /\ q.want = want /\ q.order = others /\ q.slot = at
        /\ q.next = 1
    BY <2>1
  <2>3. q \in ListMove  BY <1>1, <1>4, <2>1 DEF ListMove
  <2>4. at \in DOMAIN others => 1 \in DOMAIN others  BY <1>4
  <2>5. Arranged(q)
    <3>1. q.pc = "renumber" => \A i \in 1 .. q.next - 1 : listAt[q.order[i]] = i * Gap  BY <2>2
    <3>2. InOrder(q)  BY <1>4, <2>2 DEF InOrder
    <3>3. q.pc = "place" /\ q.slot # 0 => Beside(q)  BY <1>7, <2>2 DEF Beside
    <3> QED  BY <1>7, <2>2, <3>1, <3>2, <3>3 DEF Arranged
  <2>6. Arranged(q)'  BY <1>1, <2>5 DEF Arranged, InOrder, Beside
  <2>7. mover' = [mover EXCEPT ![w] = q]  BY <1>7, <2>1
  <2>8. q.list \subseteq DOMAIN listAt /\ \A j, k \in q.list : j = k  BY <2>2
  <2>9. \A i \in DOMAIN q.order : q.order[i] \in DOMAIN listAt \ q.list  BY <1>4, <2>2
  <2> QED  BY <1>1, <1>4, <1>7, <2>2, <2>3, <2>4, <2>6, <2>7, <2>8, <2>9 DEF ListStepsTo
<1>8. CASE Taken(others, asked) = {}
  <2>1. Goes(l, others, "place", asked, 0)  BY <1>3, <1>8
  <2> HIDE DEF Goes, Taken
  <2> QED  BY <1>5, <1>7, <2>1
<1>9. CASE Taken(others, asked) # {}
  <2>1. PICK at : at = Smallest(Taken(others, asked))  OBVIOUS
  <2>2. at \in DOMAIN others /\ listAt[others[at]] = asked /\ at \in Nat /\ at <= Len(others)
    <3>1. Taken(others, asked) \in SUBSET Nat  BY <1>6
    <3>2. at \in Taken(others, asked)
      <4> HIDE DEF Taken
      <4> QED  BY <1>9, <2>1, <3>1, SmallestIsOne
    <3> QED  BY <1>4, <3>2
  <2>3. CASE at = Len(others)
    <3>1. Goes(l, others, "place", asked + Gap, at)  BY <1>3, <1>9, <2>1, <2>3
    <3>2. ASSUME NEW i \in DOMAIN others
          PROVE  /\ listAt[others[i]] # asked + Gap
                 /\ ~(asked + Gap < listAt[others[i]] /\ listAt[others[i]] < listAt[others[at]])
                 /\ ~(listAt[others[at]] < listAt[others[i]] /\ listAt[others[i]] < asked + Gap)
      <4>1. i = at \/ i < at  BY <1>4, <2>2, <2>3
      <4>2. listAt[others[i]] <= asked /\ listAt[others[i]] \in Nat  BY <1>4, <1>5, <1>6, <2>2, <4>1
      <4> QED  BY <1>5, <2>2, <4>2
    <3>3. asked + Gap \in Nat /\ asked + Gap # 0  BY <1>5
    <3> HIDE DEF Goes, Taken
    <3> QED  BY <1>7, <2>2, <3>1, <3>2, <3>3
  <2>4. CASE at # Len(others)
    <3>1. PICK after : after = listAt[others[at + 1]]  OBVIOUS
    <3>2. at + 1 \in DOMAIN others /\ after \in Nat /\ asked <= after
      BY <1>4, <1>6, <2>2, <2>4, <3>1
    <3>3. CASE RoomAfter(asked, after)
      <4>1. PICK want : want = Midpoint(asked, after)  OBVIOUS
      <4>2. Goes(l, others, "place", want, at)  BY <1>3, <1>9, <2>1, <2>4, <3>1, <3>3, <4>1
      <4>3. want \in Nat \ {0} /\ asked < want /\ want < after
        <5>1. want = (asked + after) \div 2 /\ 2 <= MinGap /\ MinGap \in Nat
              /\ want - asked >= MinGap
          BY <3>3, <4>1, ColumnsAssumption DEF RoomAfter, Midpoint
        <5>2. want \in Nat  BY <1>5, <3>2, <5>1
        <5> QED  BY <1>5, <3>2, <5>1, <5>2
      <4>4. ASSUME NEW i \in DOMAIN others
            PROVE  /\ listAt[others[i]] # want
                   /\ ~(want < listAt[others[i]] /\ listAt[others[i]] < listAt[others[at]])
                   /\ ~(listAt[others[at]] < listAt[others[i]] /\ listAt[others[i]] < want)
        <5>1. i \in Nat /\ listAt[others[i]] \in Nat  BY <1>6
        <5>2. CASE i <= at
          <6>1. i = at \/ i < at  BY <2>2, <5>1, <5>2
          <6>2. listAt[others[i]] <= asked  BY <1>4, <1>5, <2>2, <6>1
          <6> QED  BY <1>5, <2>2, <4>3, <5>1, <6>2
        <5>3. CASE at < i
          <6>1. i = at + 1 \/ at + 1 < i  BY <2>2, <5>1, <5>3
          <6>2. after <= listAt[others[i]]  BY <1>4, <3>1, <3>2, <6>1
          <6> QED  BY <1>5, <2>2, <3>2, <4>3, <5>1, <6>2
        <5> QED  BY <2>2, <5>1, <5>2, <5>3
      <4>5. want \in Nat /\ want # 0  BY <4>3
      <4> HIDE DEF Goes, Taken
      <4> QED  BY <1>7, <2>2, <4>2, <4>4, <4>5
    <3>4. CASE ~RoomAfter(asked, after)
      <4>1. Goes(l, others, "renumber", 0, at)  BY <1>3, <1>9, <2>1, <2>4, <3>1, <3>4
      <4> HIDE DEF Goes, Taken
      <4> QED  BY <1>7, <2>2, <4>1
    <3> QED  BY <3>3, <3>4
  <2> QED  BY <2>3, <2>4
<1> QED  BY <1>8, <1>9

(* The next write of a renumbering; the last one leaves the place. *)
LEMMA RenumberNextStep ==
  ASSUME ListsInv, NEW w \in Movers, RenumberNext(w)
  PROVE  \E q : ListStepsTo(w, q)
<1>1. listAt \in Seq(Nat \ {0}) /\ mover \in [Movers -> ListMove] /\ mover[w] \in ListMove
  BY DEF ListsInv, MoversInv
<1>2. PICK m : m = mover[w]  OBVIOUS
<1>3. /\ m \in ListMove /\ m.pc = "renumber" /\ listAt' = [listAt EXCEPT ![m.order[m.next]] = m.next * Gap]
      /\ mover' = [mover EXCEPT ![w] =
           IF m.next < Len(m.order) THEN [m EXCEPT !.next = @ + 1]
           ELSE [m EXCEPT !.pc = "place", !.want = Midpoint((m.slot - 1) * Gap, m.slot * Gap)]]
  BY <1>1, <1>2 DEF RenumberNext
<1>4. /\ m.list \subseteq DOMAIN listAt /\ \A k, l \in m.list : k = l
      /\ \A i \in DOMAIN m.order : m.order[i] \in DOMAIN listAt \ m.list
      /\ \A i, j \in DOMAIN m.order : i # j => m.order[i] # m.order[j]
      /\ m.slot \in DOMAIN m.order /\ m.next \in DOMAIN m.order
  BY <1>2, <1>3 DEF ListsInv, MoversInv, Moving
<1>5. m.order \in Seq(Nat)  BY <1>3 DEF ListMove
<1>6. m.next \in Nat \ {0} /\ m.slot \in Nat \ {0} /\ m.next <= Len(m.order) /\ Len(m.order) \in Nat
      /\ \A i \in DOMAIN m.order : i \in Nat \ {0}
  BY <1>4, <1>5
<1>7. m.next * Gap \in Nat \ {0}  BY <1>6, GapsKeepOrder
<1>8. PICK put \in Nat \ {0} : put = m.next * Gap  BY <1>7
<1>9. listAt' \in [DOMAIN listAt -> Nat \ {0}]  BY <1>1, <1>3, <1>4, <1>8
<1>10. listAt' \in Seq(Nat \ {0}) /\ DOMAIN listAt' = DOMAIN listAt
  BY <1>1, <1>9, PlacesMakeSeq
<1>11. ASSUME w \notin cutIn
       PROVE  \A i \in 1 .. m.next : listAt'[m.order[i]] = i * Gap
  <2>1. Arranged(m)  BY <1>2, <1>11 DEF ListsInv
  <2>2. \A i \in 1 .. m.next - 1 : listAt[m.order[i]] = i * Gap  BY <1>3, <2>1 DEF Arranged
  <2> TAKE i \in 1 .. m.next
  <2>3. i \in DOMAIN m.order  BY <1>5, <1>6
  <2>4. CASE i = m.next  BY <1>1, <1>3, <1>4, <2>4
  <2>5. CASE i # m.next
    <3>1. i \in 1 .. m.next - 1  BY <1>6, <2>5
    <3>2. m.order[i] # m.order[m.next] /\ m.order[i] \in DOMAIN listAt  BY <1>4, <2>3, <2>5
    <3>3. listAt'[m.order[i]] = listAt[m.order[i]]  BY <1>1, <1>3, <3>2
    <3> QED  BY <2>2, <3>1, <3>3
  <2> QED  BY <2>4, <2>5
<1>12. CASE m.next < Len(m.order)
  <2>1. PICK q : q = [m EXCEPT !.next = @ + 1]  OBVIOUS
  <2>2. /\ q \in ListMove /\ q.pc = "renumber" /\ q.list = m.list /\ q.order = m.order
        /\ q.slot = m.slot /\ q.next = m.next + 1
    <3>1. m.next + 1 \in Nat  BY <1>6
    <3> QED  BY <1>3, <2>1, <3>1 DEF ListMove
  <2>3. mover' = [mover EXCEPT ![w] = q]  BY <1>3, <1>12, <2>1
  <2>4. q.next \in DOMAIN q.order  BY <1>5, <1>6, <1>12, <2>2
  <2>5. ASSUME w \notin cutIn PROVE Arranged(q)'
    <3>1. q.next - 1 = m.next  BY <1>6, <2>2
    <3> QED  BY <1>11, <2>2, <2>5, <3>1 DEF Arranged
  <2>6. /\ q.list \subseteq DOMAIN listAt /\ \A k, l \in q.list : k = l
        /\ \A i \in DOMAIN q.order : q.order[i] \in DOMAIN listAt \ q.list
        /\ \A i, j \in DOMAIN q.order : i # j => q.order[i] # q.order[j]
        /\ q.slot \in DOMAIN q.order
    BY <1>4, <2>2
  <2>7. listAt' \in Seq(Nat \ {0}) /\ DOMAIN listAt \subseteq DOMAIN listAt'  BY <1>10
  <2> QED  BY <2>2, <2>3, <2>4, <2>5, <2>6, <2>7 DEF ListStepsTo
<1>13. CASE ~(m.next < Len(m.order))
  <2>1. PICK want : want = Midpoint((m.slot - 1) * Gap, m.slot * Gap)  OBVIOUS
  <2>2. /\ want \in Nat \ {0} /\ want < m.slot * Gap /\ (m.slot - 1) * Gap < want
        /\ \A j \in Nat \ {0} : j < m.slot => j * Gap <= (m.slot - 1) * Gap
    BY <1>6, <2>1, GapsKeepOrder
  <2>3. PICK q : q = [m EXCEPT !.pc = "place", !.want = want]  OBVIOUS
  <2>4. /\ q \in ListMove /\ q.pc = "place" /\ q.list = m.list /\ q.order = m.order
        /\ q.slot = m.slot /\ q.want = want
    BY <1>3, <2>2, <2>3 DEF ListMove
  <2>5. mover' = [mover EXCEPT ![w] = q]  BY <1>3, <1>13, <2>1, <2>3
  <2>6. ASSUME w \notin cutIn PROVE Arranged(q)'
    <3>1. \A i \in DOMAIN m.order : listAt'[m.order[i]] = i * Gap  BY <1>5, <1>6, <1>11, <1>13, <2>6
    <3>2. ASSUME NEW i \in DOMAIN m.order, NEW j \in DOMAIN m.order, i < j
          PROVE  listAt'[m.order[i]] <= listAt'[m.order[j]]
      <4>1. i * Gap < j * Gap /\ i * Gap \in Nat /\ j * Gap \in Nat  BY <1>6, <3>2, GapsKeepOrder
      <4> QED  BY <3>1, <4>1
    <3>3. ASSUME NEW i \in DOMAIN m.order
          PROVE  /\ listAt'[m.order[i]] # want
                 /\ ~(want < listAt'[m.order[i]] /\ listAt'[m.order[i]] < listAt'[m.order[m.slot]])
                 /\ ~(listAt'[m.order[m.slot]] < listAt'[m.order[i]] /\ listAt'[m.order[i]] < want)
      <4>1. i \in Nat \ {0}  BY <1>6
      <4>2. PICK p : p = i * Gap  OBVIOUS
      <4>3. PICK q1 : q1 = m.slot * Gap  OBVIOUS
      <4>4. PICK q0 : q0 = (m.slot - 1) * Gap  OBVIOUS
      <4>5. p \in Nat /\ q1 \in Nat  BY <1>6, <4>1, <4>2, <4>3, GapsKeepOrder
      <4>6. listAt'[m.order[i]] = p /\ listAt'[m.order[m.slot]] = q1
        BY <1>4, <3>1, <4>2, <4>3
      <4>7. want \in Nat /\ want < q1 /\ q0 < want  BY <2>2, <4>3, <4>4
      <4>8. q0 \in Nat
        <5>1. m.slot - 1 \in Nat /\ Gap \in Nat  BY <1>6, NoMoveIsMove
        <5> QED  BY <4>4, <5>1
      <4>9. CASE i = m.slot
        <5>1. p = q1  BY <4>2, <4>3, <4>9
        <5> QED  BY <4>5, <4>6, <4>7, <5>1
      <4>10. CASE i < m.slot
        <5>1. p <= q0  BY <2>2, <4>1, <4>2, <4>4, <4>10
        <5> QED  BY <4>5, <4>6, <4>7, <4>8, <5>1
      <4>11. CASE m.slot < i
        <5>1. q1 < p  BY <1>6, <4>1, <4>2, <4>3, <4>11, GapsKeepOrder
        <5> QED  BY <4>5, <4>6, <4>7, <5>1
      <4> QED  BY <1>6, <4>1, <4>9, <4>10, <4>11
    <3>4. InOrder(q)'  BY <2>4, <3>2 DEF InOrder
    <3>5. Beside(q)'  BY <2>4, <3>3 DEF Beside
    <3> QED  BY <1>4, <2>4, <3>4, <3>5 DEF Arranged
  <2>7. /\ q.list \subseteq DOMAIN listAt /\ \A k, l \in q.list : k = l
        /\ \A i \in DOMAIN q.order : q.order[i] \in DOMAIN listAt \ q.list
        /\ \A i, j \in DOMAIN q.order : i # j => q.order[i] # q.order[j]
    BY <1>4, <2>4
  <2>8. listAt' \in Seq(Nat \ {0}) /\ DOMAIN listAt \subseteq DOMAIN listAt'  BY <1>10
  <2>9. q.pc # "renumber" /\ q.want # 0  BY <2>2, <2>4
  <2> QED  BY <2>4, <2>5, <2>6, <2>7, <2>8, <2>9 DEF ListStepsTo
<1> QED  BY <1>12, <1>13

(* A request at work on the lists. *)
LEMMA ListSteps ==
  ASSUME ListsInv, NEW w \in Movers,
         \/ CreateList(w) \/ InsertList(w) \/ resolveListPosition(w) \/ RenumberNext(w)
         \/ moveList(w) \/ ListRequestDies(w)
  PROVE  \E q : ListStepsTo(w, q)
<1>1. MoversInv  BY DEF ListsInv
<1> QED  BY <1>1, ListMakeSteps, ResolveListStep, RenumberNextStep, MoveListStep

(* ListsInv is inductive. *)
LEMMA ListsStep == ListsInv /\ [ListOrderNext]_listOrderVars => ListsInv'
<1> SUFFICES ASSUME ListsInv, [ListOrderNext]_listOrderVars PROVE ListsInv'  OBVIOUS
<1>1. CASE UNCHANGED listOrderVars
  <2>1. UNCHANGED <<listAt, mover, cutIn>>  BY <1>1 DEF listOrderVars
  <2> QED  BY <2>1 DEF ListsInv, MoversInv, Moving, Arranged, InOrder, Beside
<1>2. CASE ListOrderNext
  <2>1. PICK w \in Movers :
          /\ \/ CreateList(w) \/ InsertList(w) \/ resolveListPosition(w) \/ RenumberNext(w)
             \/ moveList(w) \/ ListRequestDies(w)
          /\ cutIn' = {v \in Movers : /\ mover'[v].pc # "rest"
                                      /\ v \in cutIn \/ (v # w /\ listAt' # listAt)}
    BY <1>2 DEF ListOrderNext
  <2>2. PICK q : ListStepsTo(w, q)  BY <2>1, ListSteps
  <2>3. mover \in [Movers -> ListMove]  BY DEF ListsInv, MoversInv
  <2>4. mover' \in [Movers -> ListMove] /\ mover'[w] = q
        /\ \A v \in Movers : v # w => mover'[v] = mover[v]
    BY <2>2, <2>3 DEF ListStepsTo
  <2>5. listAt' \in Seq(Nat \ {0}) /\ DOMAIN listAt \subseteq DOMAIN listAt'
    BY <2>2 DEF ListStepsTo
  <2>6. ASSUME NEW v \in Movers
        PROVE  /\ mover'[v].pc \in {"insert", "place"} => mover'[v].want # 0
               /\ Moving(mover'[v]) =>
                    /\ mover'[v].list \subseteq DOMAIN listAt' /\ \A k, l \in mover'[v].list : k = l
                    /\ \A i \in DOMAIN mover'[v].order :
                         mover'[v].order[i] \in DOMAIN listAt' \ mover'[v].list
                    /\ \A i, j \in DOMAIN mover'[v].order :
                         i # j => mover'[v].order[i] # mover'[v].order[j]
               /\ mover'[v].pc = "renumber" =>
                    mover'[v].slot \in DOMAIN mover'[v].order /\ mover'[v].next \in DOMAIN mover'[v].order
    <3>1. CASE v = w  BY <2>2, <2>4, <2>5, <3>1 DEF ListStepsTo
    <3>2. CASE v # w  BY <2>4, <2>5, <3>2 DEF ListsInv, MoversInv
    <3> QED  BY <3>1, <3>2
  <2>7. MoversInv'  BY <2>1, <2>4, <2>5, <2>6 DEF MoversInv, Moving
  <2>8. ASSUME NEW v \in Movers, v \notin cutIn' PROVE Arranged(mover[v])'
    <3>1. CASE mover'[v].pc = "rest"  BY <3>1 DEF Arranged
    <3>2. CASE mover'[v].pc # "rest" /\ v = w
      <4>1. w \notin cutIn  BY <2>1, <2>8, <3>2
      <4>2. Arranged(q)'  BY <2>2, <4>1 DEF ListStepsTo
      <4> QED  BY <2>4, <3>2, <4>2 DEF Arranged, InOrder, Beside
    <3>3. CASE mover'[v].pc # "rest" /\ v # w
      <4>1. v \notin cutIn /\ listAt' = listAt  BY <2>1, <2>8, <3>3
      <4>2. Arranged(mover[v])  BY <4>1 DEF ListsInv
      <4> QED  BY <2>4, <3>3, <4>1, <4>2 DEF Arranged, InOrder, Beside
    <3> QED  BY <3>1, <3>2, <3>3
  <2> QED  BY <2>7, <2>8 DEF ListsInv
<1> QED  BY <1>1, <1>2

(* ListsInv holds at the start. *)
LEMMA ListsStart == ListOrderInit => ListsInv
<1> SUFFICES ASSUME ListOrderInit PROVE ListsInv  OBVIOUS
<1>1. PICK there \in 0..MaxLists : listAt \in [1..there -> StartAt]  BY DEF ListOrderInit
<1>2. listAt \in Seq(Nat \ {0})
  <2>1. \A i \in 1..there : listAt[i] \in Nat \ {0}  BY <1>1, NoMoveIsMove
  <2>2. there \in Nat  BY <1>1, ListOrderAssumption
  <2> QED  BY <1>1, <2>1, <2>2
<1>3. \A w \in Movers : mover[w] = NoMove  BY DEF ListOrderInit
<1>4. mover \in [Movers -> ListMove]  BY NoMoveIsMove DEF ListOrderInit
<1>5. MoversInv  BY <1>2, <1>3, <1>4, NoMoveIsMove DEF ListOrderInit, MoversInv, Moving
<1> QED  BY <1>3, <1>5, NoMoveIsMove DEF ListsInv, Arranged

(* A list that was dragged stands beside the list that had the slot, at a  *)
(* position of its own, and the others in the order in which the request   *)
(* read them, unless another one wrote or died meanwhile: for any lists,   *)
(* requests and gaps.                                                      *)
THEOREM ListDraggedBeside == ListOrderSpec => ListsLandBeside
<1>1. ASSUME ListsInv, [ListOrderNext]_listOrderVars, NEW w \in Movers, NEW l \in mover[w].list,
             mover[w].pc = "place", mover'[w].pc = "rest", w \notin cutIn,
             listAt'[l] = mover[w].want, mover[w].slot # 0
      PROVE  LET order == mover[w].order
                 o == order[mover[w].slot]
             IN /\ \A i, j \in DOMAIN order : i < j => listAt'[order[i]] <= listAt'[order[j]]
                /\ \A d \in ToSet(order) :
                     /\ listAt'[d] # listAt'[l]
                     /\ ~(listAt'[l] < listAt'[d] /\ listAt'[d] < listAt'[o])
                     /\ ~(listAt'[o] < listAt'[d] /\ listAt'[d] < listAt'[l])
  <2>1. PICK q : q = mover[w]  OBVIOUS
  <2>2. MoversInv /\ Arranged(q)  BY <1>1, <2>1 DEF ListsInv
  <2>3. /\ listAt \in Seq(Nat \ {0}) /\ q.list \subseteq DOMAIN listAt /\ \A k, j \in q.list : k = j
        /\ \A i \in DOMAIN q.order : q.order[i] \in DOMAIN listAt \ q.list
    BY <1>1, <2>1, <2>2 DEF MoversInv, Moving
  <2>4. q.slot \in DOMAIN q.order /\ InOrder(q) /\ Beside(q)  BY <1>1, <2>1, <2>2 DEF Arranged
  <2>5. moveList(w) \/ ListRequestDies(w)
    <3>1. mover' # mover  BY <1>1
    <3>2. PICK v \in Movers :
            \/ CreateList(v) \/ InsertList(v) \/ resolveListPosition(v) \/ RenumberNext(v)
            \/ moveList(v) \/ ListRequestDies(v)
      BY <1>1, <3>1 DEF ListOrderNext, listOrderVars
    <3>3. PICK r : ListStepsTo(v, r)  BY <1>1, <3>2, ListSteps
    <3>4. v = w
      <4>1. mover \in [Movers -> ListMove]  BY <2>2 DEF MoversInv
      <4> QED  BY <1>1, <3>3, <4>1 DEF ListStepsTo
    <3> QED  BY <1>1, <3>2, <3>4 DEF CreateList, InsertList, resolveListPosition, RenumberNext, Starts
  <2>6. \A i \in DOMAIN q.order : listAt'[q.order[i]] = listAt[q.order[i]]
    <3>1. CASE moveList(w)
      <4>1. PICK k \in q.list : listAt' = [listAt EXCEPT ![k] = q.want]
        BY <2>1, <3>1 DEF moveList
      <4> QED  BY <2>3, <4>1
    <3>2. CASE ListRequestDies(w)  BY <3>2 DEF ListRequestDies
    <3> QED  BY <2>5, <3>1, <3>2
  <2>7. \A i, j \in DOMAIN q.order : i < j => listAt'[q.order[i]] <= listAt'[q.order[j]]
    BY <2>4, <2>6 DEF InOrder
  <2>8. ASSUME NEW d \in ToSet(q.order)
        PROVE  /\ listAt'[d] # listAt'[l]
               /\ ~(listAt'[l] < listAt'[d] /\ listAt'[d] < listAt'[q.order[q.slot]])
               /\ ~(listAt'[q.order[q.slot]] < listAt'[d] /\ listAt'[d] < listAt'[l])
    <3>1. PICK i \in DOMAIN q.order : d = q.order[i]  BY DEF ToSet
    <3> QED  BY <1>1, <2>1, <2>4, <2>6, <3>1 DEF Beside
  <2> QED  BY <2>1, <2>7, <2>8
<1>2. ListsInv /\ [ListOrderNext]_listOrderVars =>
        [\A w \in Movers : \A l \in mover[w].list :
           mover[w].pc = "place" /\ mover'[w].pc = "rest" /\ w \notin cutIn
             /\ listAt'[l] = mover[w].want /\ mover[w].slot # 0 =>
               LET order == mover[w].order
                   o == order[mover[w].slot]
               IN /\ \A i, j \in DOMAIN order : i < j => listAt'[order[i]] <= listAt'[order[j]]
                  /\ \A d \in ToSet(order) :
                       /\ listAt'[d] # listAt'[l]
                       /\ ~(listAt'[l] < listAt'[d] /\ listAt'[d] < listAt'[o])
                       /\ ~(listAt'[o] < listAt'[d] /\ listAt'[d] < listAt'[l])]_listOrderVars
  BY <1>1
<1> QED  BY <1>2, ListsStart, ListsStep, PTL DEF ListOrderSpec, ListsLandBeside

-----------------------------------------------------------------------------
(* Items of the calendar.                                                  *)
ItemRow == [kind : {"TASK", "EVENT"}, start : Sent, end : Sent, deadline : Sent,
            live : BOOLEAN, made : Instants]

\* What an event carries: a range.
IsRange(new) == /\ new.start \in Instants /\ new.end \in Instants
                /\ new.start <= new.end

\* A request about to write knows an item of the table, with the kind it still has.
Prepared(w) ==
  edit[w].pc = "write" =>
    /\ edit[w].item \in Known /\ edit[w].read \in ItemRow
    /\ edit[w].read.kind = item[edit[w].item].kind
    /\ edit[w].read.kind = "EVENT" => IsRange(edit[w].read)

\* EventsRemindAtStart does not say what a PATCH under way has read, and its write is made
\* from that.
ItemsInv == item \in Seq(ItemRow)
EventsInv == \A i \in Known : item[i].kind = "EVENT" =>
               IsRange(item[i]) /\ (i \in snoozed \/ item[i].deadline = item[i].start)
EditsInv == /\ DOMAIN edit = Editors
            /\ \A w \in Editors : Prepared(w)
CalendarInv == ItemsInv /\ EventsInv /\ EditsInv

\* No step takes a row away, or says it was made at another time.
RowsStay == Known \subseteq Known' /\ \A j \in Known : item'[j].made = item[j].made

(* The rows that are written.                                              *)

\* Whatever a body sends that is accepted, the row is one of the table, and an event has a
\* range and its start as deadline.
LEMMA NewRowsSound ==
    ASSUME NEW new \in NewRows
    PROVE  /\ new \in ItemRow
           /\ new.kind = "EVENT" => IsRange(new) /\ new.deadline = new.start
<1>1. PICK body \in Bodies, now \in Instants :
        /\ Accepted(body.kind, body.start, body.end)
        /\ new = NewRow(body.kind,
                        timeColumns(body.kind, body.start, body.end, body.deadline), now)
  BY DEF NewRows
<1>2. body.kind \in {"TASK", "EVENT"} /\ body.start \in Sent /\ body.end \in Sent
      /\ body.deadline \in Sent
  BY DEF Bodies
<1>3. CASE body.kind = "TASK"
  <2>1. new = [kind |-> "TASK", start |-> NoTime, end |-> NoTime, deadline |-> body.deadline,
               live |-> TRUE, made |-> now]
    BY <1>1, <1>3 DEF NewRow, timeColumns
  <2>2. QED
    BY <2>1, <1>2 DEF ItemRow, Sent
<1>4. CASE body.kind = "EVENT"
  <2>1. new = [kind |-> "EVENT", start |-> body.start, end |-> body.end,
               deadline |-> body.start, live |-> TRUE, made |-> now]
    BY <1>1, <1>4 DEF NewRow, timeColumns
  <2>2. body.start \in Instants /\ body.end \in Instants /\ body.start <= body.end
    BY <1>1, <1>2, <1>4 DEF Accepted, Sent
  <2>3. QED
    BY <2>1, <2>2, <1>2 DEF ItemRow, IsRange, Sent
<1>5. QED
  BY <1>2, <1>3, <1>4

\* The invariant holds of any calendar a client may find.
LEMMA CalendarStarts == CalendarInit => CalendarInv
<1> SUFFICES ASSUME CalendarInit PROVE CalendarInv
  OBVIOUS
<1>1. PICK there \in 0..MaxItems : item \in [1..there -> NewRows]
  BY DEF CalendarInit
<1>2. there \in Nat
  BY <1>1, CalendarAssumption
<1>3. \A i \in 1..there : /\ item[i] \in ItemRow
                          /\ item[i].kind = "EVENT" =>
                               IsRange(item[i]) /\ item[i].deadline = item[i].start
  BY <1>1, NewRowsSound
<1>4. item \in [1..there -> ItemRow]
  BY <1>1, <1>3
<1>5. ItemsInv
  BY <1>2, <1>4 DEF ItemsInv
<1>6. Known = 1..there
  BY <1>1 DEF Known
<1>7. EventsInv
  BY <1>3, <1>6 DEF EventsInv
<1>8. EditsInv
  BY DEF EditsInv, Prepared, CalendarInit, NoEdit
<1>9. QED
  BY <1>5, <1>7, <1>8 DEF CalendarInv

(* The steps.                                                              *)

\* A step that writes one row, keeps its kind and its range, and touches no request.
LEMMA RewriteStep ==
    ASSUME CalendarInv, NEW i \in Known, NEW new \in ItemRow, new.kind = item[i].kind,
           new.made = item[i].made,
           new.kind = "EVENT" => IsRange(new) /\ (i \in snoozed' \/ new.deadline = new.start),
           item' = [item EXCEPT ![i] = new], snoozed \ {i} \subseteq snoozed'
    PROVE  /\ ItemsInv' /\ EventsInv' /\ Known' = Known /\ RowsStay
           /\ \A j \in Known : item'[j].kind = item[j].kind
<1>1. item \in Seq(ItemRow) /\ Known = 1..Len(item)
  BY DEF CalendarInv, ItemsInv, Known
<1>2. item' \in Seq(ItemRow) /\ Known' = Known
  BY <1>1 DEF Known
<1>3. \A j \in Known : item'[j] = IF j = i THEN new ELSE item[j]
  BY <1>1
<1>4. ASSUME NEW j \in Known', item'[j].kind = "EVENT"
      PROVE  IsRange(item'[j]) /\ (j \in snoozed' \/ item'[j].deadline = item'[j].start)
  <2>1. CASE j = i
    BY <1>2, <1>3, <1>4, <2>1
  <2>2. CASE j # i
    <3>1. item'[j] = item[j]
      BY <1>2, <1>3, <2>2
    <3>2. IsRange(item[j]) /\ (j \in snoozed \/ item[j].deadline = item[j].start)
      BY <1>2, <1>4, <3>1 DEF CalendarInv, EventsInv
    <3>3. QED
      BY <3>1, <3>2, <2>2 DEF IsRange
  <2>3. QED
    BY <2>1, <2>2
<1>5. QED
  BY <1>2, <1>3, <1>4 DEF ItemsInv, EventsInv, RowsStay

\* What a request has prepared stays so while rows keep their kinds.
LEMMA EditsKept ==
    ASSUME CalendarInv, UNCHANGED edit, Known \subseteq Known',
           \A j \in Known : item'[j].kind = item[j].kind
    PROVE  EditsInv'
BY DEF CalendarInv, EditsInv, Prepared

\* A new row is sound, and the requests under way do not know it yet.
LEMMA CreateStep ==
    ASSUME CalendarInv, create
    PROVE  CalendarInv' /\ RowsStay
<1>1. PICK new \in NewRows : item' = Append(item, new)
  BY DEF create
<1>2. /\ new \in ItemRow
      /\ new.kind = "EVENT" => IsRange(new) /\ new.deadline = new.start
  BY NewRowsSound
<1>3. item \in Seq(ItemRow) /\ Known = 1..Len(item)
  BY DEF CalendarInv, ItemsInv, Known
<1>4. /\ item' \in Seq(ItemRow) /\ Known' = 1..Len(item) + 1
      /\ item'[Len(item) + 1] = new /\ \A j \in Known : item'[j] = item[j]
  BY <1>1, <1>2, <1>3 DEF Known
<1>5. EventsInv'
  <2>1. \A j \in Known' : j \in Known \/ j = Len(item) + 1
    BY <1>3, <1>4
  <2>2. snoozed' = snoozed
    BY DEF create
  <2>3. QED
    BY <1>2, <1>4, <2>1, <2>2 DEF CalendarInv, EventsInv, IsRange
<1>6. EditsInv'
  <2>1. Known \subseteq Known'
    BY <1>3, <1>4
  <2>2. UNCHANGED edit
    BY DEF create
  <2>3. QED
    BY <1>4, <2>1, <2>2, EditsKept
<1>7. RowsStay
  BY <1>3, <1>4 DEF RowsStay
<1>8. QED
  BY <1>4, <1>5, <1>6, <1>7 DEF CalendarInv, ItemsInv

\* A PATCH reads a sound row, and it changes nothing yet.
LEMMA ReadStep ==
    ASSUME CalendarInv, NEW w \in Editors, update(w)
    PROVE  CalendarInv' /\ RowsStay
<1>1. PICK i \in Known :
        edit' = [edit EXCEPT ![w] = [pc |-> "write", item |-> i, read |-> item[i]]]
  BY DEF update
<1>2. UNCHANGED <<item, snoozed>>
  BY DEF update
<1>3. item[i] \in ItemRow
  BY DEF CalendarInv, ItemsInv, Known
<1>4. item[i].kind = "EVENT" => IsRange(item[i])
  BY DEF CalendarInv, EventsInv
<1>5. ItemsInv' /\ EventsInv'
  BY <1>2 DEF CalendarInv, ItemsInv, EventsInv, Known, IsRange
<1>6. ASSUME NEW v \in Editors PROVE Prepared(v)'
  <2>1. CASE v = w
    BY <1>1, <1>2, <1>3, <1>4, <2>1 DEF CalendarInv, EditsInv, Prepared, Known, IsRange
  <2>2. CASE v # w
    BY <1>1, <1>2, <2>2 DEF CalendarInv, EditsInv, Prepared, Known, IsRange
  <2>3. QED
    BY <2>1, <2>2
<1>7. QED
  BY <1>1, <1>2, <1>5, <1>6 DEF CalendarInv, EditsInv, RowsStay, Known

\* A PATCH writes an event with a range of its own: what it was sent, or what it read, and
\* its start as deadline, whatever was written in between.
LEMMA WriteStep ==
    ASSUME CalendarInv, NEW w \in Editors, UpdateWrites(w)
    PROVE  CalendarInv' /\ RowsStay
<1> DEFINE i == edit[w].item
           read == edit[w].read
<1>1. /\ i \in Known /\ read \in ItemRow /\ read.kind = item[i].kind
      /\ read.kind = "EVENT" => IsRange(read)
  BY DEF UpdateWrites, CalendarInv, EditsInv, Prepared
<1>2. item \in Seq(ItemRow) /\ item[i] \in ItemRow
  BY <1>1 DEF CalendarInv, ItemsInv, Known
<1>3. edit' = [edit EXCEPT ![w] = NoEdit]
  BY DEF UpdateWrites
<1>4. ASSUME Known' = Known, \A j \in Known : item'[j].kind = item[j].kind
      PROVE  EditsInv'
  BY <1>3, <1>4 DEF CalendarInv, EditsInv, Prepared, NoEdit, IsRange
<1>5. CASE UNCHANGED <<item, snoozed>>
  <2>1. ItemsInv' /\ EventsInv' /\ Known' = Known /\ RowsStay
    BY <1>5 DEF CalendarInv, ItemsInv, EventsInv, Known, IsRange, RowsStay
  <2>2. QED
    BY <1>4, <1>5, <2>1 DEF CalendarInv
<1>6. CASE ~UNCHANGED <<item, snoozed>>
  <2>0. PICK start \in IF read.kind = "EVENT" THEN Sent ELSE {NoTime},
             end \in IF read.kind = "EVENT" THEN Sent ELSE {NoTime}, due \in Sent :
          LET times == IF read.kind = "EVENT"
                       THEN timeColumns("EVENT", Merged(start, read.start),
                                        Merged(end, read.end), due)
                       ELSE timeColumns("TASK", NoTime, NoTime,
                                        Merged(due, item[i].deadline))
          IN IF Accepted(read.kind, times.start, times.end)
             THEN /\ item' = [item EXCEPT ![i].start = times.start, ![i].end = times.end,
                                          ![i].deadline = times.deadline]
                  /\ snoozed' = snoozed \ {i}
             ELSE UNCHANGED <<item, snoozed>>
    BY DEF UpdateWrites
  <2> DEFINE times == IF read.kind = "EVENT"
                      THEN timeColumns("EVENT", Merged(start, read.start),
                                       Merged(end, read.end), due)
                      ELSE timeColumns("TASK", NoTime, NoTime,
                                       Merged(due, item[i].deadline))
  <2>1. /\ start \in Sent /\ end \in Sent /\ due \in Sent
        /\ Accepted(read.kind, times.start, times.end)
        /\ item' = [item EXCEPT ![i].start = times.start, ![i].end = times.end,
                                ![i].deadline = times.deadline]
        /\ snoozed' = snoozed \ {i}
    <3> HIDE DEF times, i, read
    <3>1. start \in Sent /\ end \in Sent
      BY <2>0 DEF Sent
    <3>2. CASE Accepted(read.kind, times.start, times.end)
      BY <2>0, <3>1, <3>2 DEF times
    <3>3. CASE ~Accepted(read.kind, times.start, times.end)
      BY <1>6, <2>0, <3>3 DEF times
    <3>4. QED
      BY <3>2, <3>3
  <2> DEFINE new == [item[i] EXCEPT !.start = times.start, !.end = times.end,
                                    !.deadline = times.deadline]
  <2>2. item' = [item EXCEPT ![i] = new]
    BY <2>1, <1>1, <1>2 DEF Known
  <2>3. new \in ItemRow /\ new.kind = item[i].kind /\ new.made = item[i].made
        /\ (new.kind = "EVENT" => IsRange(new) /\ new.deadline = new.start)
    <3>1. CASE read.kind = "EVENT"
      <4>1. /\ times.start \in Sent /\ times.end \in Sent /\ times.deadline = times.start
            /\ times.start # NoTime /\ times.end # NoTime /\ times.start <= times.end
        BY <1>1, <2>1, <3>1 DEF timeColumns, Merged, Accepted, ItemRow
      <4>2. QED
        BY <4>1, <1>2 DEF ItemRow, IsRange, Sent
    <3>2. CASE read.kind = "TASK"
      <4>1. times.start = NoTime /\ times.end = NoTime /\ times.deadline \in Sent
        BY <1>2, <2>1, <3>2 DEF timeColumns, Merged, ItemRow
      <4>2. QED
        BY <4>1, <1>1, <1>2, <3>2 DEF ItemRow, Sent
    <3>3. QED
      BY <1>1, <3>1, <3>2 DEF ItemRow
  <2>4. /\ ItemsInv' /\ EventsInv' /\ Known' = Known /\ RowsStay
        /\ \A j \in Known : item'[j].kind = item[j].kind
    <3> HIDE DEF new, i
    <3>1. QED
      BY <1>1, <2>1, <2>2, <2>3, RewriteStep
  <2>5. QED
    BY <1>4, <2>4 DEF CalendarInv
<1>7. QED
  BY <1>5, <1>6

\* The card routes: only the deadline of an event, which is then known to be theirs, or
\* whether it is deleted.
LEMMA RouteStep ==
    ASSUME CalendarInv, snoozeItem \/ softDelete \/ restoreItem
    PROVE  CalendarInv' /\ RowsStay
<1>1. PICK i \in Known, new \in ItemRow :
        /\ item' = [item EXCEPT ![i] = new] /\ new.kind = item[i].kind
        /\ new.made = item[i].made
        /\ new.start = item[i].start /\ new.end = item[i].end
        /\ i \in snoozed' \/ new.deadline = item[i].deadline
        /\ snoozed \subseteq snoozed'
  <2>0. \A i \in Known : item[i] \in ItemRow
    BY DEF CalendarInv, ItemsInv, Known
  <2>1. CASE snoozeItem
    <3>1. PICK i \in Known, d \in Sent :
            item' = [item EXCEPT ![i].deadline = d] /\ snoozed' = snoozed \cup {i}
      BY <2>1 DEF snoozeItem
    <3> DEFINE new == [item[i] EXCEPT !.deadline = d]
    <3>2. new \in ItemRow /\ new.kind = item[i].kind /\ new.start = item[i].start
          /\ new.end = item[i].end /\ new.made = item[i].made
      BY <2>0 DEF ItemRow
    <3>3. QED
      BY <3>1, <3>2
  <2>2. CASE softDelete \/ restoreItem
    <3>1. PICK i \in Known, b \in BOOLEAN :
            item' = [item EXCEPT ![i].live = b] /\ snoozed' = snoozed
      BY <2>2 DEF softDelete, restoreItem
    <3> DEFINE new == [item[i] EXCEPT !.live = b]
    <3>2. new \in ItemRow /\ new.kind = item[i].kind /\ new.start = item[i].start
          /\ new.end = item[i].end /\ new.deadline = item[i].deadline
          /\ new.made = item[i].made
      BY <2>0 DEF ItemRow
    <3>3. QED
      BY <3>1, <3>2
  <2>3. QED
    BY <2>1, <2>2
<1>2. new.kind = "EVENT" => IsRange(new) /\ (i \in snoozed' \/ new.deadline = new.start)
  BY <1>1 DEF CalendarInv, EventsInv, IsRange
<1>3. /\ ItemsInv' /\ EventsInv' /\ Known' = Known /\ RowsStay
      /\ \A j \in Known : item'[j].kind = item[j].kind
  BY <1>1, <1>2, RewriteStep
<1>4. UNCHANGED edit
  BY DEF snoozeItem, softDelete, restoreItem
<1>5. QED
  BY <1>3, <1>4, EditsKept DEF CalendarInv

\* Every step keeps the invariant.
LEMMA CalendarStep == CalendarInv /\ [CalendarNext]_calendarVars => CalendarInv'
<1> SUFFICES ASSUME CalendarInv, [CalendarNext]_calendarVars PROVE CalendarInv'
  OBVIOUS
<1>1. CASE Changes
  BY <1>1, CreateStep, ReadStep, WriteStep, RouteStep DEF Changes
<1>2. CASE OpenCalendar \/ list \/ UNCHANGED calendarVars
  <2>1. UNCHANGED <<item, edit, snoozed>>
    BY <1>2 DEF OpenCalendar, list, calendarVars
  <2>2. QED
    BY <2>1 DEF CalendarInv, ItemsInv, EventsInv, EditsInv, Prepared, Known, IsRange
<1>3. QED
  BY <1>1, <1>2 DEF CalendarNext

\* However many PATCHes of an event cross, its range stays a range that the table accepts
\* and its reminder is at its start, unless a card route moved it since.
THEOREM EventsReminded == CalendarSpec => []EventsRemindAtStart
<1>1. CalendarInv => EventsRemindAtStart
  BY DEF CalendarInv, EventsInv, EventsRemindAtStart, IsRange
<1>2. QED
  BY CalendarStarts, CalendarStep, <1>1, PTL DEF CalendarSpec

-----------------------------------------------------------------------------
(* A client that reads the calendar in pages.                              *)

\* A client that has read some pages of a range: what it could have seen and has not is on
\* a later page, behind enough items made later, unless one of those went or a page ended
\* within its instant, and nothing it saw has stopped to belong without changing.
Listing == [pc : {"rest", "next", "done"}, kind : {"TASK", "ALL"}, from : Sent, to : Sent,
            page : Nat \ {0}, seen : SUBSET Nat, stays : SUBSET Nat, gone : SUBSET Nat,
            ends : SUBSET Instants]
Listed == buildWhere(listing.kind, listing.from, listing.to)
MadeAfter(S, i) == {j \in S : item[j].made > item[i].made}
Passed(i) == Cardinality(MadeAfter(Listed, i)) >= (listing.page - 1) * PerPage
Excused(i) == \/ item[i].made \in listing.ends
              \/ \E j \in listing.gone : item[j].made > item[i].made
ListingInv ==
  /\ listing \in Listing /\ listing.stays \subseteq Known /\ listing.gone \subseteq Known
  /\ listing.from # NoTime /\ listing.to # NoTime => listing.from <= listing.to
  /\ listing.pc = "rest" => listing.stays = {}
  /\ listing.seen \cap listing.stays \subseteq Listed
  /\ \A i \in (listing.stays \cap Listed) \ listing.seen :
       Excused(i) \/ (listing.pc = "next" /\ Passed(i))

(* There are finitely many items. *)
LEMMA ItemsAreFinite ==
  ASSUME NEW s \in Seq(ItemRow), NEW S \in SUBSET DOMAIN s
  PROVE  S \in SUBSET Nat /\ IsFiniteSet(S)
<1>1. DOMAIN s = 1 .. Len(s) /\ Len(s) \in Nat  OBVIOUS
<1>2. 1 \in Int /\ Len(s) \in Int  BY <1>1
<1>3. IsFiniteSet(1 .. Len(s))  BY <1>2, FS_Interval
<1>4. IsFiniteSet(S)  BY <1>1, <1>3, FS_Subset
<1> QED  BY <1>1, <1>4

(* The items made later than one of them can be counted. *)
LEMMA LaterAreFinite ==
  ASSUME ItemsInv, NEW S \in SUBSET Known, NEW i
  PROVE  IsFiniteSet(S) /\ IsFiniteSet(MadeAfter(S, i)) /\ Cardinality(MadeAfter(S, i)) \in Nat
<1>1. item \in Seq(ItemRow) /\ S \in SUBSET DOMAIN item  BY DEF ItemsInv, Known
<1>2. IsFiniteSet(S)  BY <1>1, ItemsAreFinite
<1>3. MadeAfter(S, i) \in SUBSET S  BY DEF MadeAfter
<1> QED  BY <1>2, <1>3, FS_Subset, FS_CardinalityType

(* Every item was made at some instant. *)
LEMMA MadeAtInstants ==
  ASSUME ItemsInv
  PROVE  \A i \in Known : item[i].made \in Instants /\ item[i].made \in Nat
<1>1. \A i \in Known : item[i] \in ItemRow  BY DEF ItemsInv, Known
<1> QED  BY <1>1, CalendarAssumption DEF ItemRow

(* A page by offset, in whatever order the query put the items of one      *)
(* instant: an item that is not on it, made at no instant of the page and  *)
(* behind enough later ones to come no sooner, comes after it, and the     *)
(* page is full.                                                           *)
LEMMA PageIsBefore ==
  ASSUME ItemsInv, NEW S \in SUBSET Known, NEW n \in Nat \ {0},
         NEW skipped \in FirstRows(S, (n - 1) * PerPage), NEW shown \in SUBSET S,
         skipped \cap shown = {}, skipped \cup shown \in FirstRows(S, n * PerPage),
         NEW i \in S \ shown, \A j \in shown : item[j].made # item[i].made,
         Cardinality(MadeAfter(S, i)) >= (n - 1) * PerPage
  PROVE  ~(Cardinality(shown) < PerPage) /\ Cardinality(MadeAfter(S, i)) >= n * PerPage
<1>1. PICK a, b \in Nat : a = (n - 1) * PerPage /\ b = n * PerPage /\ b = a + PerPage
  BY CalendarAssumption
<1>2. \A j \in S : item[j].made \in Nat  BY MadeAtInstants
<1>3. PICK taken : taken = skipped \cup shown  OBVIOUS
<1>4. /\ skipped \in SUBSET S /\ Cardinality(skipped) <= a
      /\ skipped # S => Cardinality(skipped) = a
      /\ \A k \in skipped, j \in S \ skipped : item[k].made >= item[j].made
  BY <1>1 DEF FirstRows
<1>5. /\ taken \in SUBSET S
      /\ taken # S => Cardinality(taken) = b
      /\ \A k \in taken, j \in S \ taken : item[k].made >= item[j].made
  BY <1>1, <1>3 DEF FirstRows
<1>6. /\ IsFiniteSet(S) /\ IsFiniteSet(MadeAfter(S, i)) /\ Cardinality(MadeAfter(S, i)) \in Nat
      /\ IsFiniteSet(skipped) /\ Cardinality(skipped) \in Nat
      /\ IsFiniteSet(shown) /\ Cardinality(shown) \in Nat
  BY <1>4, LaterAreFinite, FS_Subset, FS_CardinalityType
<1>7. Cardinality(taken) = Cardinality(skipped) + Cardinality(shown)
  <2>1. Cardinality(skipped \cap shown) = 0  BY FS_EmptySet
  <2>2. Cardinality(skipped \cup shown) =
          Cardinality(skipped) + Cardinality(shown) - Cardinality(skipped \cap shown)
    BY <1>6, FS_Union
  <2> QED  BY <1>3, <1>6, <2>1, <2>2
<1>8. i \notin skipped
  <2> SUFFICES ASSUME i \in skipped PROVE FALSE  OBVIOUS
  <2>1. MadeAfter(S, i) \in SUBSET (skipped \ {i})  BY <1>2, <1>4 DEF MadeAfter
  <2>2. IsFiniteSet(skipped \ {i}) /\ Cardinality(skipped \ {i}) = Cardinality(skipped) - 1
    BY <1>6, FS_RemoveElement
  <2>3. Cardinality(MadeAfter(S, i)) <= Cardinality(skipped \ {i})  BY <2>1, <2>2, FS_Subset
  <2> QED  BY <1>1, <1>4, <1>6, <2>2, <2>3
<1>9. Cardinality(taken) = b /\ Cardinality(shown) = PerPage
  <2>1. taken # S /\ skipped # S  BY <1>3, <1>8
  <2>2. Cardinality(taken) = b /\ Cardinality(skipped) = a  BY <1>4, <1>5, <2>1
  <2>3. PerPage \in Nat  BY CalendarAssumption
  <2> QED  BY <1>1, <1>6, <1>7, <2>2, <2>3
<1>10. taken \in SUBSET MadeAfter(S, i)
  <2>1. i \in S \ taken  BY <1>3, <1>8
  <2>2. shown # {}  BY <1>9, FS_EmptySet, CalendarAssumption
  <2>3. PICK p \in shown : p \in S \ skipped  BY <2>2
  <2>4. \A j \in shown : item[j].made > item[i].made  BY <1>2, <1>3, <1>5, <2>1
  <2>5. \A j \in skipped : item[j].made > item[i].made  BY <1>2, <1>4, <2>3, <2>4
  <2>6. \A j \in taken : j \in S /\ item[j].made > item[i].made  BY <1>3, <1>5, <2>4, <2>5
  <2> QED  BY <2>6 DEF MadeAfter
<1>11. b <= Cardinality(MadeAfter(S, i))  BY <1>6, <1>9, <1>10, FS_Subset
<1> QED  BY <1>1, <1>6, <1>9, <1>11, CalendarAssumption

(* A client opens the calendar, having seen nothing. *)
LEMMA OpenStep ==
  ASSUME CalendarInv, ListingInv, OpenCalendar
  PROVE  ListingInv'
<1>1. PICK kind \in {"TASK", "ALL"}, from \in Sent, to \in Sent :
        /\ from # NoTime /\ to # NoTime => from <= to
        /\ listing' = [NoListing EXCEPT !.pc = "next", !.kind = kind, !.from = from, !.to = to,
                                        !.stays = Known]
  BY DEF OpenCalendar
<1>2. item' = item /\ Known \subseteq Nat  BY DEF OpenCalendar, CalendarInv, ItemsInv, Known
<1>3. /\ listing' \in Listing /\ listing'.pc = "next" /\ listing'.from = from /\ listing'.to = to
      /\ listing'.stays = Known /\ listing'.page = 1 /\ listing'.seen = {} /\ listing'.gone = {}
  <2>1. listing' = [pc |-> "next", kind |-> kind, from |-> from, to |-> to, page |-> 1,
                    seen |-> {}, stays |-> Known, gone |-> {}, ends |-> {}]
    BY <1>1 DEF NoListing
  <2>2. "next" \in {"rest", "next", "done"} /\ 1 \in Nat \ {0} /\ {} \in SUBSET Nat
        /\ Known \in SUBSET Nat /\ {} \in SUBSET Instants
    BY <1>2
  <2> QED  BY <2>1, <2>2 DEF Listing
<1>4. ASSUME NEW i \in Listed' PROVE Passed(i)'
  <2>1. Listed' \in SUBSET Known /\ ItemsInv
    BY <1>2 DEF Listed, buildWhere, Known, CalendarInv
  <2>2. Cardinality(MadeAfter(Listed', i)) \in Nat  BY <2>1, LaterAreFinite
  <2>3. MadeAfter(Listed', i) = MadeAfter(Listed, i)'  BY <1>2 DEF MadeAfter
  <2>4. (1 - 1) * PerPage = 0  BY CalendarAssumption
  <2> QED  BY <1>3, <2>2, <2>3, <2>4 DEF Passed
<1> QED  BY <1>1, <1>2, <1>3, <1>4 DEF ListingInv, Known

(* The client reads a page. *)
LEMMA ListStep ==
  ASSUME CalendarInv, ListingInv, list
  PROVE  ListingInv'
<1>1. PICK rows \in findMany(listing.kind, listing.from, listing.to, listing.page) :
        listing' = [listing EXCEPT
          !.pc = IF Cardinality(rows) < PerPage THEN "done" ELSE "next",
          !.page = @ + 1, !.seen = @ \cup rows,
          !.ends = @ \cup Splits(listing.kind, listing.from, listing.to, rows)]
  BY DEF list
<1>2. listing.pc = "next" /\ item' = item  BY DEF list
<1>3. /\ listing \in Listing /\ ItemsInv /\ Listed \in SUBSET Known /\ Known \in SUBSET Nat
      /\ rows \in SUBSET Listed
  BY <1>1 DEF ListingInv, CalendarInv, ItemsInv, Known, Listed, buildWhere, findMany
<1>4. PICK seen, ends :
        /\ seen = listing.seen \cup rows
        /\ ends = listing.ends \cup Splits(listing.kind, listing.from, listing.to, rows)
  OBVIOUS
<1>5. /\ listing' \in Listing /\ listing'.seen = seen /\ listing'.ends = ends
      /\ listing'.page = listing.page + 1
      /\ listing'.stays = listing.stays /\ listing'.gone = listing.gone
      /\ listing'.from = listing.from /\ listing'.to = listing.to /\ listing'.kind = listing.kind
      /\ listing'.pc = IF Cardinality(rows) < PerPage THEN "done" ELSE "next"
  <2>1. PICK pc : pc = IF Cardinality(rows) < PerPage THEN "done" ELSE "next"  OBVIOUS
  <2>2. /\ pc \in {"rest", "next", "done"} /\ seen \in SUBSET Nat
        /\ listing.page + 1 \in Nat \ {0} /\ ends \in SUBSET Instants
    <3>1. listing.page \in Nat /\ listing.seen \in SUBSET Nat /\ listing.ends \in SUBSET Instants
      BY <1>3 DEF Listing
    <3>2. seen \in SUBSET Nat  BY <1>3, <1>4, <3>1
    <3>3. pc \in {"rest", "next", "done"}  BY <2>1
    <3>4. listing.page + 1 \in Nat \ {0}  BY <3>1
    <3>5. \A j \in rows : item[j].made \in Instants  BY <1>3, MadeAtInstants
    <3>6. ends \in SUBSET Instants  BY <1>4, <3>1, <3>5 DEF Splits
    <3> QED  BY <3>2, <3>3, <3>4, <3>6
  <2>3. listing' = [listing EXCEPT !.pc = pc, !.page = listing.page + 1, !.seen = seen,
                                   !.ends = ends]
    BY <1>1, <1>3, <1>4, <2>1 DEF Listing
  <2> QED  BY <1>3, <2>1, <2>2, <2>3 DEF Listing
<1>6. Listed' = Listed /\ Known' = Known  BY <1>2, <1>5 DEF Listed, buildWhere, Clause, Known
<1>7. ASSUME NEW i \in (listing.stays \cap Listed) \ seen, ~Excused(i)'
      PROVE  listing'.pc = "next" /\ Passed(i)'
  <2>1. ~Excused(i)  BY <1>2, <1>4, <1>5, <1>7 DEF Excused
  <2>2. i \in Listed \ rows /\ Passed(i)  BY <1>4, <1>7, <2>1 DEF ListingInv
  <2>3. PICK n : n = listing.page /\ n \in Nat \ {0}  BY <1>3 DEF Listing
  <2>4. PICK skipped \in FirstRows(Listed, (n - 1) * PerPage) :
          skipped \cap rows = {} /\ skipped \cup rows \in FirstRows(Listed, n * PerPage)
    BY <1>1, <2>3 DEF findMany, Listed
  <2>5. item[i].made \notin ends  BY <1>2, <1>5, <1>7 DEF Excused
  <2>6. \A j \in rows : item[j].made # item[i].made
    BY <1>4, <2>2, <2>5 DEF Splits, Listed
  <2>7. ~(Cardinality(rows) < PerPage) /\ Cardinality(MadeAfter(Listed, i)) >= n * PerPage
    BY <1>3, <2>2, <2>3, <2>4, <2>6, PageIsBefore DEF Passed
  <2>8. (listing'.page - 1) * PerPage = n * PerPage
    <3>1. (n + 1) - 1 = n  BY <2>3
    <3> QED  BY <1>5, <2>3, <3>1
  <2>9. MadeAfter(Listed, i)' = MadeAfter(Listed, i)  BY <1>2, <1>6 DEF MadeAfter
  <2> QED  BY <1>5, <2>7, <2>8, <2>9 DEF Passed
<1>8. seen \cap listing.stays \subseteq Listed  BY <1>3, <1>4 DEF ListingInv
<1> QED  BY <1>2, <1>3, <1>5, <1>6, <1>7, <1>8 DEF ListingInv

(* A request that writes: what changed has left what stays, and what was   *)
(* made later than an item and is still there keeps its number of pages    *)
(* before it.                                                              *)
LEMMA ChangesStep ==
  ASSUME CalendarInv, CalendarInv', ListingInv, Changes
  PROVE  ListingInv'
<1>1. PICK stays : stays = {i \in listing.stays : item'[i] = item[i]}  OBVIOUS
<1>2. PICK gone : gone = IF listing.pc # "next" THEN listing.gone
                         ELSE listing.gone \cup {i \in Listed : item'[i] # item[i]}
  OBVIOUS
<1>3. listing' = [listing EXCEPT !.stays = stays, !.gone = gone]
  BY <1>1, <1>2 DEF Changes, Listed
<1>4. /\ listing \in Listing /\ ItemsInv /\ Listed \in SUBSET Known /\ Known \in SUBSET Nat
      /\ Known \subseteq Known' /\ ItemsInv' /\ \A j \in Known : item'[j].made = item[j].made
  BY CreateStep, ReadStep, WriteStep, RouteStep DEF Changes, RowsStay, ListingInv, CalendarInv, ItemsInv, Known, Listed, buildWhere
<1>5. /\ stays \in SUBSET listing.stays /\ listing.gone \subseteq gone
      /\ gone \in SUBSET Nat /\ gone \in SUBSET Known
  BY <1>1, <1>2, <1>4 DEF Listing, ListingInv
<1>6. /\ listing' \in Listing /\ listing'.seen = listing.seen /\ listing'.page = listing.page
      /\ listing'.stays = stays /\ listing'.gone = gone /\ listing'.pc = listing.pc
      /\ listing'.from = listing.from /\ listing'.to = listing.to /\ listing'.kind = listing.kind
      /\ listing'.ends = listing.ends
  BY <1>3, <1>4, <1>5 DEF Listing
<1>7. \A i \in Known : item'[i] = item[i] => (i \in Listed <=> i \in Listed')
  BY <1>4, <1>6 DEF Listed, buildWhere, Clause
<1>8. stays \subseteq Known /\ \A i \in stays : item'[i] = item[i]  BY <1>1 DEF ListingInv
<1>9. ASSUME NEW i \in (stays \cap Listed') \ listing.seen, ~Excused(i)'
      PROVE  listing'.pc = "next" /\ Passed(i)'
  <2>1. i \in Listed /\ i \in listing.stays /\ i \notin listing.seen  BY <1>5, <1>7, <1>8
  <2>2. ~ \E j \in gone : item[j].made > item[i].made
    BY <1>4, <1>5, <1>6, <1>9, <2>1 DEF Excused
  <2>3. ~Excused(i)  BY <1>5, <1>6, <1>8, <1>9, <2>2 DEF Excused
  <2>4. listing.pc = "next" /\ Passed(i)  BY <2>1, <2>3 DEF ListingInv
  <2>5. \A j \in MadeAfter(Listed, i) : item'[j] = item[j]  BY <1>2, <2>2, <2>4 DEF MadeAfter
  <2>6. MadeAfter(Listed, i) \in SUBSET MadeAfter(Listed, i)'
    BY <1>4, <1>7, <1>8, <2>1, <2>5 DEF MadeAfter
  <2>7. Listed' \in SUBSET Known'  BY DEF Listed, buildWhere
  <2>8. (IsFiniteSet(MadeAfter(Listed, i)) /\ Cardinality(MadeAfter(Listed, i)) \in Nat)'
    <3>1. MadeAfter(Listed, i)' \in SUBSET Listed'  BY DEF MadeAfter
    <3>2. Listed' \in SUBSET DOMAIN item' /\ item' \in Seq(ItemRow)
      BY <1>4, <2>7 DEF Known, ItemsInv
    <3>3. IsFiniteSet(Listed')  BY <3>2, ItemsAreFinite
    <3> QED  BY <3>1, <3>3, FS_Subset, FS_CardinalityType
  <2>9. Cardinality(MadeAfter(Listed, i)) \in Nat  BY <1>4, LaterAreFinite
  <2>10. Cardinality(MadeAfter(Listed, i)) <= Cardinality(MadeAfter(Listed, i))'
    BY <2>6, <2>8, FS_Subset
  <2>11. (listing.page - 1) * PerPage \in Nat  BY <1>4, CalendarAssumption DEF Listing
  <2>12. Cardinality(MadeAfter(Listed, i))' >= (listing.page - 1) * PerPage
    BY <2>4, <2>8, <2>9, <2>10, <2>11 DEF Passed
  <2> QED  BY <1>6, <2>4, <2>12 DEF Passed
<1>10. listing'.seen \cap stays \subseteq Listed'  BY <1>5, <1>6, <1>7, <1>8 DEF ListingInv
<1>11. /\ listing'.from # NoTime /\ listing'.to # NoTime => listing'.from <= listing'.to
       /\ listing'.pc = "rest" => listing'.stays = {}
  BY <1>5, <1>6 DEF ListingInv
<1> QED  BY <1>4, <1>5, <1>6, <1>8, <1>9, <1>10, <1>11 DEF ListingInv

(* An item is in the clause of the query exactly when it has an instant in *)
(* common with the range.                                                  *)
LEMMA ClauseIsTouching ==
  ASSUME CalendarInv, NEW i \in Known, NEW from \in Sent, NEW to \in Sent,
         from # NoTime /\ to # NoTime => from <= to
  PROVE  Clause(i, from, to) <=> TouchesRange(i, from, to)
<1>1. CASE item[i].kind = "TASK"  BY <1>1 DEF Clause, TouchesRange
<1>2. CASE item[i].kind # "TASK"
  <2>1. PICK start, end \in Nat : /\ start = item[i].start /\ end = item[i].end /\ start <= end
                                  /\ start # NoTime /\ end # NoTime
    <3>1. item[i] \in ItemRow  BY DEF CalendarInv, ItemsInv, Known
    <3>2. IsRange(item[i])  BY <1>2, <3>1 DEF CalendarInv, EventsInv, ItemRow
    <3> QED  BY <3>2, CalendarAssumption DEF IsRange
  <2>2. /\ Clause(i, from, to) <=> AtMost(start, to) /\ AtLeast(end, from)
        /\ TouchesRange(i, from, to) <=>
             \E t \in start .. end : AtLeast(t, from) /\ AtMost(t, to)
    BY <1>2, <2>1 DEF Clause, TouchesRange
  <2>3. (from = NoTime \/ from \in Nat) /\ (to = NoTime \/ to \in Nat)
    BY CalendarAssumption DEF Sent
  <2>4. ASSUME AtMost(start, to), AtLeast(end, from)
        PROVE  \E t \in start .. end : AtLeast(t, from) /\ AtMost(t, to)
    <3>1. CASE from = NoTime \/ from <= start
      <4>1. start \in start .. end /\ AtLeast(start, from)  BY <2>1, <2>3, <3>1 DEF AtLeast
      <4> QED  BY <4>1, <2>4
    <3>2. CASE from # NoTime /\ ~(from <= start)
      <4>1. from \in start .. end  BY <2>1, <2>3, <2>4, <3>2 DEF AtLeast
      <4>2. AtLeast(from, from) /\ AtMost(from, to)  BY <2>3, <3>2 DEF AtLeast, AtMost
      <4> QED  BY <4>1, <4>2
    <3> QED  BY <3>1, <3>2
  <2>5. ASSUME NEW t \in start .. end, AtLeast(t, from), AtMost(t, to)
        PROVE  AtMost(start, to) /\ AtLeast(end, from)
    BY <2>1, <2>3, <2>5 DEF AtLeast, AtMost
  <2> QED  BY <2>2, <2>4, <2>5
<1> QED  BY <1>1, <1>2

(* Every step keeps what is known of the client. *)
LEMMA ListingStep ==
  CalendarInv /\ CalendarInv' /\ ListingInv /\ [CalendarNext]_calendarVars => ListingInv'
<1> SUFFICES ASSUME CalendarInv, CalendarInv', ListingInv, [CalendarNext]_calendarVars
             PROVE  ListingInv'
  OBVIOUS
<1>1. CASE Changes  BY <1>1, ChangesStep
<1>2. CASE OpenCalendar  BY <1>2, OpenStep
<1>3. CASE list  BY <1>3, ListStep
<1>4. CASE UNCHANGED calendarVars
  BY <1>4 DEF calendarVars, ListingInv, Listed, Passed, Excused, MadeAfter, buildWhere, Clause, Known
<1> QED  BY <1>1, <1>2, <1>3, <1>4 DEF CalendarNext

(* A client that reads all pages of a range of the calendar has seen every *)
(* item that stayed as it was and touches the range, and no other that     *)
(* stayed, unless a newer item changed or went meanwhile or a page ended   *)
(* within the instant at which the item was made.                          *)
THEOREM RangeIsListed == CalendarSpec => []ListMissesNothing
<1>1. CalendarInit => ListingInv
  <2> SUFFICES ASSUME CalendarInit PROVE ListingInv  OBVIOUS
  <2>1. listing = NoListing  BY DEF CalendarInit
  <2> QED  BY <2>1 DEF NoListing, ListingInv, Listing, Sent
<1>2. CalendarInv /\ ListingInv => ListMissesNothing
  <2> SUFFICES ASSUME CalendarInv, ListingInv, listing.pc = "done" PROVE ListMissesNothing
    BY DEF ListMissesNothing
  <2> DEFINE wanted == {i \in listing.stays : /\ item[i].live
                                              /\ listing.kind \in {"ALL", item[i].kind}
                                              /\ TouchesRange(i, listing.from, listing.to)}
  <2>1. listing.from \in Sent /\ listing.to \in Sent /\ listing.stays \subseteq Known
    BY DEF ListingInv, Listing
  <2>2. \A i \in listing.stays :
          Clause(i, listing.from, listing.to) <=> TouchesRange(i, listing.from, listing.to)
    BY <2>1, ClauseIsTouching DEF ListingInv
  <2>3. wanted = listing.stays \cap Listed  BY <2>1, <2>2 DEF Listed, buildWhere
  <2>4. \A i \in wanted \ listing.seen : Excused(i)  BY <2>3 DEF ListingInv
  <2>5. listing.seen \cap listing.stays \subseteq wanted  BY <2>3 DEF ListingInv
  <2> QED  BY <2>4, <2>5 DEF ListMissesNothing, Excused
<1> QED  BY CalendarStarts, CalendarStep, ListingStep, <1>1, <1>2, PTL DEF CalendarSpec

-----------------------------------------------------------------------------
(* What the screens say of a card.                                         *)

AgendaRow == [status : Statuses, deadline : DeadlineChoices \cup {None},
              completedAt : Hours \cup {None}]

\* The clock shows an hour, and a card that is not done is not completed, unless a PATCH
\* left it so: overdueCards goes by the second, the other screens by the first.
AgendaInv ==
  /\ card \in [AgendaCards -> AgendaRow] /\ time \in Hours /\ viewerZone \in ViewerZones
  /\ \A t \in AgendaCards \ left : card[t].status # "DONE" => card[t].completedAt = None

(* The first hour is one. *)
LEMMA ClockStarts == (CHOOSE h \in Hours : \A g \in Hours : h <= g) \in Hours
<1>1. Hours \in SUBSET Nat /\ Hours # {}  BY AgendaAssumption
<1>2. \E h \in Hours : \A g \in Hours : h <= g  BY <1>1, LeastNumber
<1> QED  BY <1>2

(* The agenda starts with cards that are not completed. *)
LEMMA AgendaStart == AgendaInit => AgendaInv
<1> SUFFICES ASSUME AgendaInit PROVE AgendaInv  OBVIOUS
<1>1. card \in [AgendaCards -> [status : {"TODO", "DONE"},
                               deadline : DeadlineChoices \cup {None}, completedAt : {None}]]
      /\ time \in Hours /\ viewerZone \in ViewerZones
  BY ClockStarts DEF AgendaInit
<1>2. ASSUME NEW t \in AgendaCards PROVE card[t] \in AgendaRow /\ card[t].completedAt = None
  BY <1>1 DEF AgendaRow, Statuses
<1>3. card \in [AgendaCards -> AgendaRow]  BY <1>1, <1>2
<1> QED  BY <1>1, <1>2, <1>3 DEF AgendaInv

(* A request stores a row that is completed only when it is done, or that  *)
(* it is known to leave so.                                                *)
LEMMA RowStored ==
  ASSUME AgendaInv, NEW t \in AgendaCards, NEW new \in AgendaRow, Stores(t, new),
         left \ {t} \subseteq left',
         new.status # "DONE" /\ t \notin left' => new.completedAt = None
  PROVE  AgendaInv'
<1>1. card' = [card EXCEPT ![t] = new] /\ time' = time /\ viewerZone' = viewerZone  BY DEF Stores
<1>2. card' \in [AgendaCards -> AgendaRow]  BY <1>1 DEF AgendaInv
<1>3. ASSUME NEW u \in AgendaCards \ left', card'[u].status # "DONE"
      PROVE  card'[u].completedAt = None
  <2>1. CASE u = t
    <3>1. card'[u] = new  BY <1>1, <2>1 DEF AgendaInv
    <3> QED  BY <1>3, <2>1, <3>1
  <2>2. CASE u # t
    <3>1. card'[u] = card[u] /\ u \notin left  BY <1>1, <1>3, <2>2 DEF AgendaInv
    <3> QED  BY <1>3, <3>1 DEF AgendaInv
  <2> QED  BY <2>1, <2>2
<1> QED  BY <1>1, <1>2, <1>3 DEF AgendaInv

(* Each route keeps what is known of the cards. *)
LEMMA AgendaStep == AgendaInv /\ [AgendaNext]_agendaVars => AgendaInv'
<1> SUFFICES ASSUME AgendaInv, [AgendaNext]_agendaVars PROVE AgendaInv'  OBVIOUS
<1>1. ASSUME NEW t \in AgendaCards
      PROVE  /\ card[t] \in AgendaRow /\ time \in Hours
             /\ card[t].status \in Statuses /\ card[t].deadline \in DeadlineChoices \cup {None}
             /\ card[t].completedAt \in Hours \cup {None}
             /\ t \notin left /\ card[t].status # "DONE" => card[t].completedAt = None
  <2>1. card[t] \in AgendaRow  BY <1>1 DEF AgendaInv
  <2> QED  BY <1>1, <2>1 DEF AgendaInv, AgendaRow
<1>2. ASSUME NEW t \in AgendaCards, Patch(t) PROVE AgendaInv'
  <2>1. PICK status \in Statuses, deadlineSent \in DeadlineChoices \cup {card[t].deadline},
             at \in {time, card[t].completedAt} :
          /\ Stores(t, [status |-> status, deadline |-> deadlineSent, completedAt |-> at])
          /\ left' = IF status # "DONE" /\ at # None THEN left \cup {t} ELSE left
    BY <1>2 DEF Patch
  <2>2. PICK new : new = [status |-> status, deadline |-> deadlineSent, completedAt |-> at]
    OBVIOUS
  <2>3. new \in AgendaRow  BY <1>1, <2>1, <2>2 DEF AgendaRow
  <2>4. new.status = status /\ new.completedAt = at  BY <2>2
  <2> QED  BY <2>1, <2>2, <2>3, <2>4, RowStored
<1>3. ASSUME NEW t \in AgendaCards, Move(t) PROVE AgendaInv'
  <2>1. PICK status \in Statuses :
          /\ Stores(t, [card[t] EXCEPT !.status = status,
                                       !.completedAt = resolveCompletedAt(card[t], status)])
          /\ left' = left \ {t}
    BY <1>3 DEF Move
  <2>2. PICK at : at = resolveCompletedAt(card[t], status)  OBVIOUS
  <2>3. at \in Hours \cup {None} /\ (status # "DONE" => at = None)
    BY <1>1, <2>1, <2>2 DEF resolveCompletedAt
  <2>4. PICK new : new = [card[t] EXCEPT !.status = status, !.completedAt = at]  OBVIOUS
  <2>5. new \in AgendaRow /\ new.status = status /\ new.completedAt = at
    BY <1>1, <2>1, <2>3, <2>4 DEF AgendaRow
  <2> QED  BY <2>1, <2>2, <2>3, <2>4, <2>5, RowStored
<1>4. ASSUME NEW t \in AgendaCards, completeCard(t) PROVE AgendaInv'
  <2>1. PICK new : new = [card[t] EXCEPT !.status = "DONE", !.completedAt = time]  OBVIOUS
  <2>2. new \in AgendaRow /\ new.status = "DONE"
    BY <1>1, <2>1 DEF AgendaRow, Statuses
  <2> QED  BY <1>4, <2>1, <2>2, RowStored DEF completeCard
<1>5. ASSUME NEW t \in AgendaCards, reopen(t) PROVE AgendaInv'
  <2>1. PICK new : new = [card[t] EXCEPT !.status = "TODO", !.completedAt = None]  OBVIOUS
  <2>2. new \in AgendaRow /\ new.completedAt = None
    BY <1>1, <2>1 DEF AgendaRow, Statuses
  <2> QED  BY <1>5, <2>1, <2>2, RowStored DEF reopen
<1>6. ASSUME NEW t \in AgendaCards, snoozeCard(t) PROVE AgendaInv'
  <2>1. PICK d \in DeadlineChoices \cup {None} : Stores(t, [card[t] EXCEPT !.deadline = d])
    BY <1>6 DEF snoozeCard
  <2>2. PICK new : new = [card[t] EXCEPT !.deadline = d]  OBVIOUS
  <2>3. new \in AgendaRow /\ new.status = card[t].status /\ new.completedAt = card[t].completedAt
    BY <1>1, <2>2 DEF AgendaRow
  <2>4. left' = left  BY <1>6 DEF snoozeCard
  <2> QED  BY <1>1, <2>1, <2>2, <2>3, <2>4, RowStored
<1>7. CASE ClockStrikes  BY <1>7 DEF ClockStrikes, AgendaInv
<1>8. CASE UNCHANGED agendaVars  BY <1>8 DEF agendaVars, AgendaInv
<1> QED  BY <1>2, <1>3, <1>4, <1>5, <1>6, <1>7, <1>8 DEF AgendaNext

(* Whatever routes wrote a card, in whatever order, the screens say the    *)
(* same of it, but for cards a PATCH left completed and not done: for any  *)
(* cards, hours, deadlines and zone.                                       *)
THEOREM OneVerdict == AgendaSpec => []ScreensAgree
<1>1. AgendaInv => ScreensAgree
  <2> SUFFICES ASSUME AgendaInv PROVE ScreensAgree  OBVIOUS
  <2>1. \A t \in statsByProject.open :
          card[t].deadline # None /\ card[t].deadline < time <=> DeadlineStatus(t) = "LATE"
    BY DEF statsByProject, DeadlineStatus, Closed
  <2>2. statsByProject.overdue = {t \in statsByProject.open : DeadlineStatus(t) = "LATE"}
    BY <2>1 DEF statsByProject
  <2>3. \A t \in AgendaCards \ left : card[t].status \notin Closed => card[t].completedAt = None
    BY DEF AgendaInv, Closed
  <2>4. statsByProject.overdue \ left = overdueCards \ left
    BY <2>3 DEF statsByProject, overdueCards, Unfinished
  <2>5. \A t \in getStats.completed : t \in getStats.onTime <=> DeadlineStatus(t) # "LATE"
    BY DEF getStats, countCompleted, countOnTimeCompleted, DeadlineStatus
  <2> QED  BY <2>2, <2>4, <2>5 DEF ScreensAgree
<1> QED  BY AgendaStart, AgendaStep, <1>1, PTL DEF AgendaSpec

-----------------------------------------------------------------------------
(* The days of the user's calendar.                                         *)
(* A day is a range of wall clocks. *)
LEMMA DayIsRange ==
  ASSUME NEW wall \in Int, NEW day \in Int
  PROVE  /\ wall \div DayHours = day <=> day * DayHours <= wall /\ wall < day * DayHours + DayHours
         /\ wall \div DayHours \in Int /\ day * DayHours \in Int
BY DayAssumption

(* Days follow each other. *)
LEMMA DaysFollow ==
  ASSUME NEW day \in Int, NEW later \in Int
  PROVE  /\ (day + 1) * DayHours = day * DayHours + DayHours
         /\ day <= later => day * DayHours <= later * DayHours
         /\ day * DayHours \in Int
BY DayAssumption

(* The two samples of the offset find the midnight of every day, whenever  *)
(* they are taken: a change of clocks within the day k is after the        *)
(* midnights up to k, and not after the ones that follow.                  *)
LEMMA MidnightIsFound ==
  ASSUME NEW z \in ViewerZones, NEW now, NEW day \in Int, NEW t \in Int
  PROVE  formatDateKey(z, t) = day <=>
           dayRange(z, day, now).start <= t /\ t < dayRange(z, day, now).end
<1>1. PICK b, a, c \in Int : b = z.before /\ a = z.after /\ c = z.change  BY AgendaAssumption
<1>2. PICK k \in Int : k = (c + b - 1) \div DayHours  BY <1>1, DayIsRange
<1>3. DayHours \in Nat \ {0}  BY DayAssumption
<1>4. PICK K \in Int : K = k * DayHours  BY DayIsRange
<1>5. /\ K < c + b /\ c + b <= K + DayHours
      /\ K < c + a /\ c + a <= K + DayHours
  <2>1. (c + b - 1) \div DayHours = k /\ (c + a - 1) \div DayHours = k
    BY <1>1, <1>2, MidnightsAssumption
  <2>2. c + b - 1 \in Int /\ c + a - 1 \in Int  OBVIOUS
  <2>3. /\ K <= c + b - 1 /\ c + b - 1 < K + DayHours
        /\ K <= c + a - 1 /\ c + a - 1 < K + DayHours
    BY <1>4, <2>1, <2>2, DayIsRange
  <2> QED  BY <1>3, <2>3
<1> DEFINE Midnight(d) == d * DayHours - offsetMs(z, d * DayHours - offsetMs(z, now))
<1>6. ASSUME NEW d \in Int
      PROVE  Midnight(d) = d * DayHours - (IF d <= k THEN b ELSE a)
  <2>1. PICK D \in Int : D = d * DayHours  BY DayIsRange
  <2>2. PICK o \in {a, b} : o = offsetMs(z, now)  BY <1>1 DEF offsetMs
  <2>3. CASE d <= k
    <3>1. D <= K  BY <1>4, <2>1, <2>3, DaysFollow
    <3>2. D - o < c  BY <1>5, <2>2, <3>1
    <3>3. offsetMs(z, D - o) = b  BY <1>1, <3>2 DEF offsetMs
    <3> QED  BY <2>1, <2>2, <2>3, <3>3
  <2>4. CASE ~(d <= k)
    <3>1. k + 1 \in Int /\ k + 1 <= d  BY <2>4
    <3>2. (k + 1) * DayHours <= d * DayHours /\ (k + 1) * DayHours = K + DayHours
      BY <1>4, <3>1, DaysFollow
    <3>3. ~(D - o < c)  BY <1>3, <1>5, <2>1, <2>2, <3>2
    <3>4. offsetMs(z, D - o) = a  BY <1>1, <3>3 DEF offsetMs
    <3> QED  BY <2>1, <2>2, <2>4, <3>4
  <2> QED  BY <2>3, <2>4
<1>7. dayRange(z, day, now).start = Midnight(day) /\ dayRange(z, day, now).end = Midnight(day + 1)
  BY DEF dayRange
<1>8. PICK D \in Int : D = day * DayHours /\ (day + 1) * DayHours = D + DayHours
  BY DaysFollow
<1>9. /\ dayRange(z, day, now).start = D - (IF day <= k THEN b ELSE a)
      /\ dayRange(z, day, now).end = D + DayHours - (IF day + 1 <= k THEN b ELSE a)
  <2>1. Midnight(day) = D - (IF day <= k THEN b ELSE a)  BY <1>6, <1>8
  <2>2. day + 1 \in Int  OBVIOUS
  <2>3. \A d \in Int : Midnight(d) = d * DayHours - (IF d <= k THEN b ELSE a)
    <3> HIDE DEF Midnight
    <3> QED  BY <1>6
  <2>4. PICK e \in Int : e = day + 1  OBVIOUS
  <2>5. Midnight(e) = e * DayHours - (IF e <= k THEN b ELSE a)  BY <2>2, <2>3, <2>4
  <2>6. e * DayHours = D + DayHours  BY <1>8, <2>4
  <2>7. Midnight(e) = D + DayHours - (IF e <= k THEN b ELSE a)
    <3>1. PICK E, M : E = e * DayHours /\ M = Midnight(e)  OBVIOUS
    <3>2. M = E - (IF e <= k THEN b ELSE a)  BY <2>5, <3>1
    <3>3. E = D + DayHours  BY <2>6, <3>1
    <3>4. M = D + DayHours - (IF e <= k THEN b ELSE a)  BY <1>3, <3>2, <3>3
    <3> QED  BY <3>1, <3>4
  <2>8. dayRange(z, day, now).start = Midnight(day) /\ dayRange(z, day, now).end = Midnight(e)
    BY <1>7, <2>4
  <2> HIDE DEF Midnight
  <2> QED  BY <2>1, <2>4, <2>7, <2>8
<1>10. PICK o \in {a, b} : o = (IF t < c THEN b ELSE a) /\ o = offsetMs(z, t)
  BY <1>1 DEF offsetMs
<1>11. formatDateKey(z, t) = day <=> D <= t + o /\ t + o < D + DayHours
  <2>1. t + o \in Int  OBVIOUS
  <2> QED  BY <1>8, <1>10, <2>1, DayIsRange DEF formatDateKey, wallClockIn
<1>12. CASE day + 1 <= k
  <2>1. (day + 1) * DayHours <= K  BY <1>4, <1>12, DaysFollow
  <2> QED  BY <1>3, <1>5, <1>8, <1>9, <1>10, <1>11, <1>12, <2>1
<1>13. CASE day = k
  BY <1>3, <1>4, <1>5, <1>8, <1>9, <1>10, <1>11, <1>13
<1>14. CASE k + 1 <= day
  <2>1. K + DayHours <= D  BY <1>4, <1>8, <1>14, DaysFollow
  <2> QED  BY <1>3, <1>5, <1>8, <1>9, <1>10, <1>11, <1>14, <2>1
<1> QED  BY <1>12, <1>13, <1>14

(* What the agenda, the toolbar and the sections of the board call a day   *)
(* is one of the user's calendar, for any cards, hours, deadlines and      *)
(* zones whose clocks do not change at midnight.                           *)
THEOREM LocalDays == AgendaSpec => []DaysAreLocal
<1>1. AgendaInv => DaysAreLocal
  <2> SUFFICES ASSUME AgendaInv PROVE DaysAreLocal  OBVIOUS
  <2> DEFINE OnDay(t, date) == t # None /\ formatDateKey(viewerZone, t) = date
             DueOn(date) == {t \in AgendaCards : Unfinished(t) /\ OnDay(card[t].deadline, date)}
             Bounds(date) == dayRange(viewerZone, date, time)
  <2>1. viewerZone \in ViewerZones /\ time \in Nat  BY AgendaAssumption DEF AgendaInv
  <2>2. ASSUME NEW t \in AgendaCards
        PROVE  /\ card[t].deadline # None => card[t].deadline \in Nat
               /\ card[t].completedAt # None => card[t].completedAt \in Nat
    <3>1. card[t] \in AgendaRow  BY <2>2 DEF AgendaInv
    <3> QED  BY <3>1, AgendaAssumption DEF AgendaRow
  <2>3. ASSUME NEW date \in Int, NEW u \in Nat
        PROVE  formatDateKey(viewerZone, u) = date <=> Bounds(date).start <= u /\ u < Bounds(date).end
    BY <2>1, MidnightIsFound
  <2>4. todayKey \in Int
    <3>1. viewerZone.before \in Int /\ viewerZone.after \in Int  BY <2>1, AgendaAssumption
    <3>2. wallClockIn(viewerZone, time) \in Int  BY <2>1, <3>1 DEF wallClockIn, offsetMs
    <3> QED  BY <3>2, DayIsRange DEF todayKey, formatDateKey
  <2>5. ASSUME NEW date \in todayKey - 1 .. todayKey + 2
        PROVE  /\ agenda(date).overdue \cap agenda(date).dueToday = {}
               /\ agenda(date).overdue \cup agenda(date).dueToday =
                    {t \in AgendaCards : Unfinished(t) /\ card[t].deadline < time} \cup DueOn(date)
    <3>1. date \in Int  BY <2>4, <2>5
    <3>2. PICK start, end \in Int : start = Bounds(date).start /\ end = Bounds(date).end
      <4>1. viewerZone.before \in Int /\ viewerZone.after \in Int  BY <2>1, AgendaAssumption
      <4>2. date * DayHours \in Int /\ (date + 1) * DayHours \in Int  BY <3>1, DayAssumption
      <4> QED  BY <4>1, <4>2 DEF dayRange, offsetMs
    <3>3. PICK from \in Int : from = IF start > time THEN start ELSE time  BY <2>1
    <3>4. /\ agenda(date).overdue = {t \in AgendaCards : Unfinished(t) /\ card[t].deadline < time}
          /\ agenda(date).dueToday =
               {t \in AgendaCards : Unfinished(t) /\ from <= card[t].deadline /\ card[t].deadline < end}
      BY <3>2, <3>3 DEF agenda, overdueCards, dueTodayCards
    <3>5. ASSUME NEW t \in AgendaCards, Unfinished(t)
          PROVE  /\ ~(card[t].deadline < time /\ from <= card[t].deadline)
                 /\ (card[t].deadline < time \/ (from <= card[t].deadline /\ card[t].deadline < end))
                      <=> (card[t].deadline < time \/ OnDay(card[t].deadline, date))
      <4>1. PICK u \in Nat : u = card[t].deadline /\ u # None  BY <2>2, <3>5 DEF Unfinished
      <4>2. OnDay(u, date) <=> start <= u /\ u < end  BY <2>3, <3>1, <3>2, <4>1
      <4> HIDE DEF OnDay
      <4> QED  BY <2>1, <3>3, <4>1, <4>2
    <3> HIDE DEF OnDay
    <3> QED  BY <3>4, <3>5
  <2>6. todayMetrics.dueToday = Cardinality(DueOn(todayKey))
    <3>1. \A t \in AgendaCards : Unfinished(t) =>
            (OnDay(card[t].deadline, todayKey) <=>
               Bounds(todayKey).start <= card[t].deadline /\ card[t].deadline < Bounds(todayKey).end)
      BY <2>2, <2>3, <2>4 DEF Unfinished
    <3>2. dueTodayCards(Bounds(todayKey).start, Bounds(todayKey).end) = DueOn(todayKey)
      <4> HIDE DEF OnDay, Bounds
      <4> QED  BY <3>1 DEF dueTodayCards
    <3> QED  BY <3>2 DEF todayMetrics
  <2>7. todayMetrics.doneToday =
          Cardinality({t \in AgendaCards : OnDay(card[t].completedAt, todayKey)})
    <3>1. {t \in AgendaCards : OnDay(card[t].completedAt, todayKey)} =
            {t \in AgendaCards : /\ card[t].completedAt # None
                                 /\ Bounds(todayKey).start <= card[t].completedAt
                                 /\ card[t].completedAt < Bounds(todayKey).end}
      BY <2>2, <2>3, <2>4
    <3> QED  BY <3>1 DEF todayMetrics
  <2> QED  BY <2>5, <2>6, <2>7 DEF DaysAreLocal
<1> QED  BY AgendaStart, AgendaStep, <1>1, PTL DEF AgendaSpec

-----------------------------------------------------------------------------
(* The chain of a repeating card.                                           *)
\* The calendar, unfolded: a month starts where the one before it ends.
Unfolded(starts, n) ==
  starts = [m \in 0 .. n |->
    IF m = 0 THEN 0 ELSE starts[m - 1] + daysInMonth((m - 1) \div 12, ((m - 1) % 12) + 1)]

(* Every month has its first day. *)
LEMMA CalendarUnfolds == Unfolded(MonthStart, Horizon)
<1> DEFINE N == {n \in 0 .. Horizon : ~ \E g : Unfolded(g, n)}
<1>1. Unfolded([m \in 0 .. 0 |-> 0], 0)  BY DEF Unfolded
<1>2. ASSUME NEW n \in Nat, NEW g, Unfolded(g, n) PROVE \E h : Unfolded(h, n + 1)
  <2>1. PICK h : h = [m \in 0 .. n + 1 |->
                       IF m <= n THEN g[m]
                       ELSE g[n] + daysInMonth(n \div 12, (n % 12) + 1)]
    OBVIOUS
  <2>2. ASSUME NEW m \in 0 .. n + 1
        PROVE  h[m] = IF m = 0 THEN 0
                      ELSE h[m - 1] + daysInMonth((m - 1) \div 12, ((m - 1) % 12) + 1)
    <3>1. CASE m = n + 1
      <4>1. m - 1 = n /\ m # 0 /\ ~(m <= n) /\ n \in 0 .. n + 1  BY <1>2, <3>1
      <4>2. h[m] = g[n] + daysInMonth(n \div 12, (n % 12) + 1)  BY <2>1, <4>1
      <4>3. h[n] = g[n]  BY <1>2, <2>1, <4>1
      <4> QED  BY <4>1, <4>2, <4>3
    <3>2. CASE m \in 1 .. n
      <4>1. m - 1 \in 0 .. n + 1 /\ m - 1 <= n /\ m <= n /\ m # 0 /\ m \in 0 .. n
        BY <1>2, <3>2
      <4>2. h[m] = g[m] /\ h[m - 1] = g[m - 1]  BY <2>1, <2>2, <4>1
      <4>3. g[m] = g[m - 1] + daysInMonth((m - 1) \div 12, ((m - 1) % 12) + 1)
        BY <1>2, <4>1 DEF Unfolded
      <4> QED  BY <4>1, <4>2, <4>3
    <3>3. CASE m = 0
      <4>1. h[0] = g[0] /\ g[0] = 0  BY <1>2, <2>1, <2>2, <3>3 DEF Unfolded
      <4> QED  BY <3>3, <4>1
    <3> QED  BY <1>2, <3>1, <3>2, <3>3
  <2>3. Unfolded(h, n + 1)  BY <2>1, <2>2 DEF Unfolded
  <2> QED  BY <2>3
<1>3. N = {}
  <2> SUFFICES ASSUME N # {} PROVE FALSE  OBVIOUS
  <2>1. N \in SUBSET Nat  OBVIOUS
  <2>2. PICK n \in N : \A m \in N : n <= m
    <3> HIDE DEF N
    <3> QED  BY <2>1, LeastNumber
  <2>3. n # 0  BY <1>1, <2>2
  <2>4. n - 1 \in 0 .. Horizon /\ n - 1 \notin N
    <3>1. n \in 0 .. Horizon  BY <2>2
    <3>2. n - 1 \in 0 .. Horizon /\ ~(n <= n - 1)  BY <2>3, <3>1, RepeatsAssumption
    <3> HIDE DEF N
    <3> QED  BY <2>2, <3>2
  <2>5. PICK g : Unfolded(g, n - 1)  BY <2>4
  <2>6. n - 1 \in Nat /\ (n - 1) + 1 = n  BY <2>2, <2>3
  <2>7. \E h : Unfolded(h, n)  BY <1>2, <2>5, <2>6
  <2> QED  BY <2>2, <2>7
<1>4. \E g : Unfolded(g, Horizon)
  <2>1. Horizon \in 0 .. Horizon  BY RepeatsAssumption
  <2> QED  BY <1>3, <2>1
<1>5. MonthStart = CHOOSE g : Unfolded(g, Horizon)  BY DEF MonthStart, Unfolded
<1> QED  BY <1>4, <1>5

(* A month has 28 to 31 days. *)
LEMMA MonthLengths ==
  ASSUME NEW m \in 0 .. Horizon - 1
  PROVE  \E n \in 28 .. 31 : MonthStart[m + 1] = MonthStart[m] + n
<1>1. m + 1 \in 0 .. Horizon /\ m + 1 # 0 /\ (m + 1) - 1 = m  BY RepeatsAssumption
<1>2. PICK n : n = daysInMonth(m \div 12, (m % 12) + 1)  OBVIOUS
<1>3. n \in 28 .. 31  BY <1>2 DEF daysInMonth
<1>4. MonthStart[m + 1] = MonthStart[m] + n  BY <1>1, <1>2, CalendarUnfolds DEF Unfolded
<1> QED  BY <1>3, <1>4

(* Months start on days, the first on day 0. *)
LEMMA MonthStarts ==
  /\ MonthStart[0] = 0
  /\ \A m \in 0 .. Horizon : MonthStart[m] \in Nat
<1>1. MonthStart[0] = 0
  <2>1. 0 \in 0 .. Horizon  BY RepeatsAssumption
  <2> QED  BY <2>1, CalendarUnfolds DEF Unfolded
<1> DEFINE N == {m \in 0 .. Horizon : MonthStart[m] \notin Nat}
<1>2. N = {}
  <2> SUFFICES ASSUME N # {} PROVE FALSE  OBVIOUS
  <2>1. N \in SUBSET Nat  OBVIOUS
  <2>2. PICK n \in N : \A m \in N : n <= m
    <3> HIDE DEF N
    <3> QED  BY <2>1, LeastNumber
  <2>3. n # 0 /\ n \in 0 .. Horizon  BY <1>1, <2>2
  <2>4. n - 1 \in 0 .. Horizon - 1 /\ n - 1 \in 0 .. Horizon /\ ~(n <= n - 1)
    BY <2>3, RepeatsAssumption
  <2>5. n - 1 \notin N
    <3> HIDE DEF N
    <3> QED  BY <2>2, <2>4
  <2>6. MonthStart[n - 1] \in Nat  BY <2>4, <2>5
  <2>7. PICK k \in 28 .. 31 : MonthStart[(n - 1) + 1] = MonthStart[n - 1] + k
    BY <2>4, MonthLengths
  <2>8. (n - 1) + 1 = n  BY <2>3
  <2> QED  BY <2>2, <2>6, <2>7, <2>8
<1> QED  BY <1>1, <1>2

(* Months do not overlap. *)
LEMMA MonthsInOrder ==
  ASSUME NEW m \in 0 .. Horizon, NEW n \in 0 .. Horizon, m < n
  PROVE  MonthStart[m] < MonthStart[n]
<1> DEFINE N == {k \in 0 .. Horizon : m < k /\ ~(MonthStart[m] < MonthStart[k])}
<1>1. N = {}
  <2> SUFFICES ASSUME N # {} PROVE FALSE  OBVIOUS
  <2>1. N \in SUBSET Nat  OBVIOUS
  <2>2. PICK k \in N : \A j \in N : k <= j
    <3> HIDE DEF N
    <3> QED  BY <2>1, LeastNumber
  <2>3. k \in 0 .. Horizon /\ m < k /\ ~(MonthStart[m] < MonthStart[k])  BY <2>2
  <2>4. k - 1 \in 0 .. Horizon - 1 /\ k - 1 \in 0 .. Horizon /\ ~(k <= k - 1) /\ (k - 1) + 1 = k
    BY <2>3, RepeatsAssumption
  <2>5. k - 1 \notin N
    <3> HIDE DEF N
    <3> QED  BY <2>2, <2>4
  <2>6. k - 1 = m \/ MonthStart[m] < MonthStart[k - 1]  BY <2>3, <2>4, <2>5
  <2>7. PICK l \in 28 .. 31 : MonthStart[k] = MonthStart[k - 1] + l
    BY <2>4, MonthLengths
  <2>8. MonthStart[m] \in Nat /\ MonthStart[k - 1] \in Nat  BY <2>4, MonthStarts
  <2> QED  BY <2>3, <2>6, <2>7, <2>8
<1> QED  BY <1>1

(* A day is of one month. *)
LEMMA MonthOfDay ==
  ASSUME NEW day \in Int, NEW m \in 0 .. Horizon - 1, MonthStart[m] <= day, day < MonthStart[m + 1]
  PROVE  MonthOf(day) = m
<1>1. ASSUME NEW n \in 0 .. Horizon - 1, MonthStart[n] <= day, day < MonthStart[n + 1]
      PROVE  n = m
  <2>1. m \in 0 .. Horizon /\ n \in 0 .. Horizon /\ m + 1 \in 0 .. Horizon /\ n + 1 \in 0 .. Horizon
    BY RepeatsAssumption
  <2>2. /\ MonthStart[m] \in Nat /\ MonthStart[n] \in Nat
        /\ MonthStart[m + 1] \in Nat /\ MonthStart[n + 1] \in Nat
    BY <2>1, MonthStarts
  <2>3. CASE m < n
    <3>1. MonthStart[m + 1] <= MonthStart[n]
      <4>1. m + 1 = n \/ m + 1 < n  BY <2>1, <2>3
      <4> QED  BY <2>1, <2>2, <4>1, MonthsInOrder
    <3> QED  BY <1>1, <2>2, <3>1
  <2>4. CASE n < m
    <3>1. MonthStart[n + 1] <= MonthStart[m]
      <4>1. n + 1 = m \/ n + 1 < m  BY <2>1, <2>4
      <4> QED  BY <2>1, <2>2, <4>1, MonthsInOrder
    <3> QED  BY <1>1, <2>2, <3>1
  <2> QED  BY <2>1, <2>3, <2>4
<1> QED  BY <1>1 DEF MonthOf

(* Every day of the calendar is of a month. *)
LEMMA DayHasMonth ==
  ASSUME NEW day \in Nat, NEW n \in 0 .. Horizon, day < MonthStart[n]
  PROVE  /\ MonthOf(day) \in 0 .. Horizon - 1
         /\ MonthStart[MonthOf(day)] <= day /\ day < MonthStart[MonthOf(day) + 1]
<1> DEFINE N == {m \in 0 .. Horizon : day < MonthStart[m]}
<1>1. N \in SUBSET Nat /\ N # {}  OBVIOUS
<1>2. PICK k \in N : \A j \in N : k <= j
  <2> HIDE DEF N
  <2> QED  BY <1>1, LeastNumber
<1>3. k \in 0 .. Horizon /\ day < MonthStart[k] /\ k # 0  BY <1>2, MonthStarts
<1>4. k - 1 \in 0 .. Horizon - 1 /\ k - 1 \in 0 .. Horizon /\ ~(k <= k - 1) /\ (k - 1) + 1 = k
  BY <1>3, RepeatsAssumption
<1>5. k - 1 \notin N
  <2> HIDE DEF N
  <2> QED  BY <1>2, <1>4
<1>6. MonthStart[k - 1] <= day  BY <1>4, <1>5, MonthStarts
<1>7. MonthOf(day) = k - 1  BY <1>3, <1>4, <1>6, MonthOfDay
<1> QED  BY <1>3, <1>4, <1>6, <1>7

(* The day and the hour of a wall clock. *)
LEMMA ClockParts ==
  ASSUME NEW day \in Int, NEW hour \in 0 .. DayHours - 1
  PROVE  /\ (day * DayHours + hour) \div DayHours = day
         /\ (day * DayHours + hour) % DayHours = hour
         /\ day * DayHours + hour \in Int
<1>1. PICK D \in Int : D = day * DayHours  BY DayAssumption
<1>2. PICK w \in Int : w = D + hour  BY <1>1, DayAssumption
<1>3. PICK q : q = w \div DayHours  OBVIOUS
<1>4. q \in Int /\ q * DayHours <= w /\ w < q * DayHours + DayHours  BY <1>2, <1>3, DayAssumption
<1>5. q = day
  <2>1. CASE q < day
    <3>1. (q + 1) * DayHours <= day * DayHours  BY <1>4, <2>1, DayAssumption
    <3>2. (q + 1) * DayHours = q * DayHours + DayHours  BY <1>4, DayAssumption
    <3>3. PICK Q \in Int : Q = q * DayHours  BY <1>4, DayAssumption
    <3> QED  BY <1>1, <1>2, <1>4, <3>1, <3>2, <3>3, DayAssumption
  <2>2. CASE day < q
    <3>1. (day + 1) * DayHours <= q * DayHours  BY <1>4, <2>2, DayAssumption
    <3>2. (day + 1) * DayHours = D + DayHours  BY <1>1, DayAssumption
    <3>3. PICK Q \in Int : Q = q * DayHours  BY <1>4, DayAssumption
    <3> QED  BY <1>1, <1>2, <1>4, <3>1, <3>2, <3>3, DayAssumption
  <2> QED  BY <1>4, <2>1, <2>2
<1>6. w % DayHours = w - DayHours * q  BY <1>2, <1>3, DayAssumption
<1>7. DayHours * q = D  BY <1>1, <1>5, DayAssumption
<1> QED  BY <1>1, <1>2, <1>3, <1>5, <1>6, <1>7, DayAssumption

(* The hour of an instant is one of the day. *)
LEMMA HoursOfDay ==
  ASSUME NEW w \in Int
  PROVE  /\ w % DayHours \in 0 .. DayHours - 1 /\ w \div DayHours \in Int
         /\ w = (w \div DayHours) * DayHours + (w % DayHours)
BY DayAssumption

(* A wall clock is found, or the clocks skip it: what is found is then one *)
(* change away.                                                            *)
LEMMA WallClockFound ==
  ASSUME NEW z \in ZoneChoices, NEW wall \in Int
  PROVE  /\ fromWallClock(z, wall) \in Int /\ wallClockIn(z, fromWallClock(z, wall)) \in Int
         /\ \/ wallClockIn(z, fromWallClock(z, wall)) = wall
            \/ /\ z.before < z.after
               /\ z.change + z.before <= wall /\ wall < z.change + z.after
               /\ \/ wallClockIn(z, fromWallClock(z, wall)) = wall - (z.after - z.before)
                  \/ wallClockIn(z, fromWallClock(z, wall)) = wall + (z.after - z.before)
<1>1. z.before \in Int /\ z.after \in Int /\ z.change \in Int  BY RepeatsAssumption
<1> QED  BY <1>1 DEF fromWallClock, wallClockIn, offsetMs

(* A skipped hour has no instant. *)
LEMMA SkippedHasNone ==
  ASSUME NEW z \in ZoneChoices, NEW wall \in Int, NEW t \in Int,
         z.change + z.before <= wall, wall < z.change + z.after
  PROVE  wallClockIn(z, t) # wall
<1>1. z.before \in Int /\ z.after \in Int /\ z.change \in Int  BY RepeatsAssumption
<1> QED  BY <1>1 DEF wallClockIn, offsetMs

(* Instants between two of one day are of that day. *)
LEMMA DayBetween ==
  ASSUME NEW a \in Int, NEW b \in Int, NEW c \in Int, a <= b, b <= c,
         a \div DayHours = c \div DayHours
  PROVE  b \div DayHours = a \div DayHours
<1>1. /\ a = (a \div DayHours) * DayHours + (a % DayHours) /\ a % DayHours \in 0 .. DayHours - 1
      /\ c = (c \div DayHours) * DayHours + (c % DayHours) /\ c % DayHours \in 0 .. DayHours - 1
      /\ a \div DayHours \in Int
  BY HoursOfDay
<1>2. PICK d \in Int : d = a \div DayHours  BY <1>1
<1>3. PICK D \in Int : D = d * DayHours  BY <1>2, DayAssumption
<1>4. D <= a /\ c <= D + DayHours - 1  BY <1>1, <1>2, <1>3, DayAssumption
<1>5. b - D \in 0 .. DayHours - 1  BY <1>3, <1>4, DayAssumption
<1>6. b = D + (b - D)  BY <1>3
<1>7. (d * DayHours + (b - D)) \div DayHours = d  BY <1>2, <1>5, ClockParts
<1> QED  BY <1>2, <1>3, <1>6, <1>7

(* A wall clock that is skipped is made up for on its own day. *)
LEMMA DayIsKept ==
  ASSUME NEW z \in ZoneChoices, NEW wall \in Int
  PROVE  formatDateKey(z, fromWallClock(z, wall)) = wall \div DayHours
<1>1. z.before \in Int /\ z.after \in Int /\ z.change \in Int  BY RepeatsAssumption
<1>2. PICK found \in Int : found = wallClockIn(z, fromWallClock(z, wall))  BY WallClockFound
<1>3. CASE found = wall  BY <1>2, <1>3 DEF formatDateKey
<1>4. CASE /\ z.before < z.after
           /\ z.change + z.before <= wall /\ wall < z.change + z.after
           /\ found = wall - (z.after - z.before) \/ found = wall + (z.after - z.before)
  <2>1. PICK a \in Int : a = z.change + z.before - (z.after - z.before)  BY <1>1
  <2>2. PICK c \in Int : c = z.change + z.after + (z.after - z.before) - 1  BY <1>1
  <2>3. a \div DayHours = c \div DayHours  BY <1>4, <2>1, <2>2, ForwardAssumption
  <2>4. a <= wall /\ wall <= c /\ a <= found /\ found <= c  BY <1>1, <1>4, <2>1, <2>2
  <2>5. wall \div DayHours = a \div DayHours /\ found \div DayHours = a \div DayHours
    BY <2>3, <2>4, DayBetween
  <2> QED  BY <1>2, <2>5 DEF formatDateKey
<1> QED  BY <1>2, <1>3, <1>4, WallClockFound

RepeatRule == [unit : {"DAY", "WEEK", "MONTH"}, interval : Nat \ {0},
               weekdays : SUBSET (0..6), dayOfMonth : -1..31 \ {0},
               until : Int, remaining : Nat \cup {-1}]

\* OccursOnRule says nothing of the weeks before the last occurrence: the invariant does.
OpenDay == formatDateKey(zone, deadline)
InStep(day) == rule.unit = "WEEK" /\ rule.weekdays # {} =>
                 (Week(day) - Week(first)) % rule.interval = 0
RepeatsInv ==
  /\ zone \in ZoneChoices /\ rule \in RepeatRule
  /\ deadline \in Int /\ first \in Int
  /\ InStep(OpenDay)

(* Between two multiples of a number there is none. *)
LEMMA NextMultiple ==
  ASSUME NEW a \in Int, NEW i \in Nat \ {0}, a % i = 0
  PROVE  (a + i) % i = 0 /\ \A k \in 1 .. i - 1 : (a + k) % i # 0
<1>1. PICK q \in Int : q = a \div i /\ a = i * q  OBVIOUS
<1>2. PICK Q \in Int : Q = i * q  BY <1>1
<1>3. i * (q + 1) = Q + i  BY <1>1, <1>2
<1>4. ASSUME NEW p \in Int PROVE i * p <= Q \/ i * p >= Q + i
  <2>1. p <= q => i * p <= i * q  BY <1>1
  <2>2. p >= q + 1 => i * p >= i * (q + 1)  BY <1>1
  <2> QED  BY <1>1, <1>2, <1>3, <2>1, <2>2
<1>5. ASSUME NEW b \in Int PROVE \E p \in Int : /\ b = i * p + (b % i) /\ b % i \in 0 .. i - 1
                                               /\ i * p \in Int
  <2>1. b = i * (b \div i) + (b % i) /\ b % i \in 0 .. i - 1 /\ b \div i \in Int  OBVIOUS
  <2>2. i * (b \div i) \in Int  BY <2>1
  <2> QED  BY <2>1, <2>2
<1>6. (a + i) % i = 0
  <2>1. PICK b \in Int : b = a + i  OBVIOUS
  <2>2. PICK p \in Int : b = i * p + (b % i) /\ b % i \in 0 .. i - 1 /\ i * p \in Int
    BY <1>5
  <2>3. PICK r \in 0 .. i - 1 : r = b % i  BY <2>2
  <2>4. PICK P \in Int : P = i * p  BY <2>2
  <2>5. P <= Q \/ P >= Q + i  BY <1>4, <2>4
  <2>6. Q + i = P + r  BY <1>1, <1>2, <2>1, <2>2, <2>3, <2>4
  <2>7. r = 0  BY <2>5, <2>6
  <2> QED  BY <2>1, <2>3, <2>7
<1>7. ASSUME NEW k \in 1 .. i - 1, (a + k) % i = 0 PROVE FALSE
  <2>1. PICK b \in Int : b = a + k  OBVIOUS
  <2>2. PICK p \in Int : b = i * p + (b % i) /\ i * p \in Int  BY <1>5
  <2>3. PICK P \in Int : P = i * p  BY <2>2
  <2>4. b % i = 0  BY <1>7, <2>1
  <2>5. Q + k = P  BY <1>1, <1>2, <2>1, <2>2, <2>3, <2>4
  <2>6. P <= Q \/ P >= Q + i  BY <1>4, <2>3
  <2> QED  BY <2>5, <2>6
<1> QED  BY <1>6, <1>7

(* A set of weekdays has a first one. *)
LEMMA FirstOfThem ==
  ASSUME NEW S \in SUBSET (0 .. 6), S # {}
  PROVE  Least(S) \in S /\ \A e \in S : Least(S) <= e
<1>1. S \in SUBSET Nat  OBVIOUS
<1>2. \E d \in S : \A e \in S : d <= e  BY <1>1, LeastNumber
<1> QED  BY <1>2 DEF Least

(* Days, weeks and weekdays. *)
LEMMA WeekParts ==
  ASSUME NEW day \in Int
  PROVE  /\ Week(day) \in Int /\ Weekday(day) \in 0 .. 6
         /\ day + FirstWeekday = 7 * Week(day) + Weekday(day)
BY RepeatsAssumption DEF Week, Weekday

(* Weeks and weekdays are found from the day alone. *)
LEMMA WeekOf ==
  ASSUME NEW day \in Int, NEW week \in Int, NEW w \in 0 .. 6,
         day + FirstWeekday = 7 * week + w
  PROVE  Week(day) = week /\ Weekday(day) = w
BY RepeatsAssumption DEF Week, Weekday

(* The next chosen weekday, in a week that counts. *)
LEMMA OnWeekdays ==
  ASSUME RepeatsInv, NEW day \in Int, InStep(day), rule.unit = "WEEK", rule.weekdays # {}
  PROVE  NextDay(day) \in Int /\ OnRule(day, NextDay(day)) /\ InStep(NextDay(day))
<1>1. PICK i \in Nat \ {0} : i = rule.interval  BY DEF RepeatsInv, RepeatRule
<1>2. PICK W \in SUBSET (0 .. 6) : W = rule.weekdays /\ W # {}  BY DEF RepeatsInv, RepeatRule
<1>3. PICK a \in Int : a = Week(day) - Week(first) /\ a % i = 0
  <2>1. Week(day) \in Int /\ Week(first) \in Int  BY WeekParts DEF RepeatsInv
  <2> QED  BY <1>1, <2>1 DEF InStep
<1>4. PICK f \in Int : f = Week(first)  BY WeekParts DEF RepeatsInv
<1>5. PICK k \in Int, w \in 0 .. 6 : k = Week(day) /\ w = Weekday(day) /\ day + FirstWeekday = 7 * k + w
  BY WeekParts
<1>6. PICK next : next = NextDay(day)  OBVIOUS
<1>7. PICK F \in 0 .. 6 : F = FirstWeekday  BY RepeatsAssumption
<1>8. CASE {d \in W : d > w} # {}
  <2>1. PICK ahead \in SUBSET (0 .. 6) : ahead = {d \in W : d > w} /\ ahead # {}  BY <1>8
  <2>2. PICK e \in W : e = Least(ahead) /\ e > w /\ \A d \in W : d > w => e <= d
    BY <2>1, FirstOfThem
  <2>3. next = day + e - w
    BY <1>2, <1>5, <1>6, <2>1, <2>2 DEF NextDay
  <2>4. e \in 0 .. 6 /\ next \in Int /\ day < next  BY <2>2, <2>3
  <2>5. Week(next) = k /\ Weekday(next) = e
    <3>1. next + FirstWeekday = 7 * k + e  BY <1>5, <1>7, <2>3, <2>4
    <3> QED  BY <2>4, <3>1, WeekOf
  <2>6. ASSUME NEW d \in day + 1 .. next - 1 PROVE Weekday(d) \notin W
    <3>1. d \in Int /\ w + (d - day) \in 0 .. 6 /\ w < w + (d - day) /\ w + (d - day) < e
      BY <2>3, <2>4, <2>6
    <3>2. d + FirstWeekday = 7 * k + (w + (d - day))  BY <1>5, <1>7, <3>1
    <3>3. Weekday(d) = w + (d - day)  BY <3>1, <3>2, WeekOf
    <3> QED  BY <2>2, <3>1, <3>3
  <2>7. (Week(next) - Week(first)) % rule.interval = 0  BY <1>1, <1>3, <1>5, <2>5
  <2> QED  BY <1>2, <1>6, <2>2, <2>4, <2>5, <2>6, <2>7 DEF OnRule, InStep
<1>9. CASE {d \in W : d > w} = {}
  <2>1. PICK e \in W : e = Least(W) /\ \A d \in W : e <= d  BY <1>2, FirstOfThem
  <2>2. next = day + 7 - w + e + (i - 1) * 7
    BY <1>1, <1>2, <1>5, <1>6, <1>9, <2>1 DEF NextDay, NextWeek
  <2>3. e \in 0 .. 6 /\ next \in Int /\ day < next  BY <2>1, <2>2
  <2>4. Week(next) = k + i /\ Weekday(next) = e
    <3>1. next + FirstWeekday = 7 * (k + i) + e  BY <1>5, <1>7, <2>2, <2>3
    <3>2. k + i \in Int  OBVIOUS
    <3> QED  BY <2>3, <3>1, <3>2, WeekOf
  <2>5. (a + i) % i = 0 /\ \A j \in 1 .. i - 1 : (a + j) % i # 0  BY <1>3, NextMultiple
  <2>6. (Week(next) - Week(first)) % rule.interval = 0
    <3>1. (k + i) - f = a + i  BY <1>3, <1>4, <1>5
    <3> QED  BY <1>1, <1>4, <2>4, <2>5, <3>1
  <2>7. ASSUME NEW d \in day + 1 .. next - 1, Weekday(d) \in W,
               (Week(d) - Week(first)) % rule.interval = 0
        PROVE  FALSE
    <3>1. PICK m \in Int, v \in 0 .. 6 : m = Week(d) /\ v = Weekday(d) /\ d + FirstWeekday = 7 * m + v
      BY <2>3, <2>7, WeekParts
    <3>2. d \in Int /\ day < d /\ d < next  BY <2>3, <2>7
    <3>3. 7 * k + w < 7 * m + v /\ 7 * m + v < 7 * (k + i) + e
      <4>1. next + F = 7 * (k + i) + e  BY <1>5, <1>7, <2>2, <2>3
      <4> QED  BY <1>5, <1>7, <2>3, <3>1, <3>2, <4>1
    <3>4. v \in W /\ e <= v /\ ~(v > w)  BY <1>9, <2>1, <2>7, <3>1
    <3>5. m - k \in 1 .. i - 1  BY <2>3, <3>3, <3>4
    <3>6. m - f = a + (m - k)  BY <1>3, <1>4, <1>5
    <3> QED  BY <1>1, <1>4, <2>5, <2>7, <3>1, <3>5, <3>6
  <2> QED  BY <1>2, <1>6, <2>1, <2>3, <2>4, <2>6, <2>7 DEF OnRule, InStep
<1> QED  BY <1>8, <1>9

(* The wanted day of the month, or its last. *)
LEMMA OnMonths ==
  ASSUME RepeatsInv, NEW day \in Int, InCalendar(day), rule.unit = "MONTH"
  PROVE  NextDay(day) \in Int /\ OnRule(day, NextDay(day))
<1>1. PICK i \in Nat \ {0} : i = rule.interval  BY DEF RepeatsInv, RepeatRule
<1>2. day \in Nat /\ day < MonthStart[Horizon - 1] /\ Horizon - 1 \in 0 .. Horizon
  <2>1. Horizon # 1
    <3> SUFFICES ASSUME Horizon = 1 PROVE FALSE  OBVIOUS
    <3>1. MonthStart[0] = 0  BY MonthStarts
    <3> QED  BY <1>1, <3>1 DEF InCalendar
  <2>2. Horizon - 1 \in 0 .. Horizon  BY <2>1, RepeatsAssumption
  <2>3. MonthStart[Horizon - 1] \in Nat  BY <2>2, MonthStarts
  <2> QED  BY <1>1, <2>2, <2>3 DEF InCalendar
<1>3. PICK m \in 0 .. Horizon - 1 : /\ m = MonthOf(day) /\ MonthStart[m] <= day
                                   /\ day < MonthStart[m + 1]
  BY <1>2, DayHasMonth
<1>4. PICK n : n = m + i  OBVIOUS
<1>5. n \in 0 .. Horizon - 1 /\ n + 1 \in 0 .. Horizon - 1 /\ n \in 0 .. Horizon /\ n + 1 \in 0 .. Horizon
  BY <1>1, <1>3, <1>4, RepeatsAssumption DEF InCalendar
<1>6. PICK l \in 28 .. 31 : MonthStart[n + 1] = MonthStart[n] + l  BY <1>5, MonthLengths
<1>7. PICK S \in Nat : S = MonthStart[n]  BY <1>5, MonthStarts
<1>8. PICK asked \in Int : /\ asked >= 1
                          /\ asked = IF rule.dayOfMonth = Never THEN DayOfMonth(day) ELSE rule.dayOfMonth
  <2>1. rule.dayOfMonth \in -1..31 \ {0}  BY DEF RepeatsInv, RepeatRule
  <2>2. MonthStart[m] \in Nat
    <3>1. m \in 0 .. Horizon  BY <1>3, RepeatsAssumption
    <3> QED  BY <3>1, MonthStarts
  <2>3. DayOfMonth(day) \in Int /\ DayOfMonth(day) >= 1  BY <1>3, <2>2 DEF DayOfMonth
  <2> QED  BY <2>1, <2>3 DEF Never
<1>9. PICK least \in Int : least = IF asked < l THEN asked ELSE l  OBVIOUS
<1>10. PICK next \in Int : next = S + least - 1  BY <1>7, <1>9
<1>11. NextDay(day) = next
  <2>1. MonthStart[n + 1] - MonthStart[n] = l  BY <1>6, <1>7
  <2> QED  BY <1>1, <1>3, <1>4, <1>7, <1>8, <1>9, <1>10, <2>1 DEF NextDay
<1>12. MonthOf(next) = n
  <2>1. S <= next /\ next < S + l  BY <1>8, <1>9, <1>10
  <2> QED  BY <1>5, <1>6, <1>7, <2>1, MonthOfDay
<1>13. DayOfMonth(next) = least  BY <1>7, <1>9, <1>10, <1>12 DEF DayOfMonth
<1>14. ASSUME least < asked PROVE MonthOf(next + 1) # MonthOf(next)
  <2>1. next + 1 = S + l  BY <1>6, <1>7, <1>9, <1>10, <1>14
  <2>2. PICK j \in 28 .. 31 : MonthStart[(n + 1) + 1] = MonthStart[n + 1] + j
    BY <1>5, MonthLengths
  <2>3. MonthOf(next + 1) = n + 1
    <3>1. MonthStart[n + 1] = next + 1 /\ next + 1 < MonthStart[(n + 1) + 1]
      BY <1>6, <1>7, <1>10, <2>1, <2>2
    <3> QED  BY <1>5, <1>10, <3>1, MonthOfDay
  <2> QED  BY <1>5, <1>12, <2>3
<1>15. least <= asked  BY <1>9
<1>16. MonthOf(next) = MonthOf(day) + rule.interval  BY <1>1, <1>3, <1>4, <1>12
<1> QED  BY <1>8, <1>10, <1>11, <1>13, <1>14, <1>15, <1>16 DEF OnRule

(* The next day of a card is one its rule allows. *)
LEMMA NextDayOnRule ==
  ASSUME RepeatsInv, NEW day \in Int, InStep(day), InCalendar(day)
  PROVE  NextDay(day) \in Int /\ OnRule(day, NextDay(day)) /\ InStep(NextDay(day))
<1>1. PICK i \in Nat \ {0} : i = rule.interval  BY DEF RepeatsInv, RepeatRule
<1>2. rule.unit \in {"DAY", "WEEK", "MONTH"}  BY DEF RepeatsInv, RepeatRule
<1>3. CASE rule.unit = "WEEK" /\ rule.weekdays # {}  BY <1>3, OnWeekdays
<1>4. CASE rule.unit = "MONTH"  BY <1>4, OnMonths DEF InStep
<1>5. CASE rule.unit = "DAY"
  <2>1. NextDay(day) = day + i  BY <1>1, <1>5 DEF NextDay
  <2> QED  BY <1>1, <1>5, <2>1 DEF OnRule, InStep
<1>6. CASE rule.unit = "WEEK" /\ rule.weekdays = {}
  <2>1. PICK next \in Int : next = NextDay(day) /\ next = day + 7 * i  BY <1>1, <1>6 DEF NextDay
  <2>2. PICK k \in Int, w \in 0 .. 6 : k = Week(day) /\ w = Weekday(day) /\ day + FirstWeekday = 7 * k + w
    BY WeekParts
  <2>3. PICK F \in 0 .. 6 : F = FirstWeekday  BY RepeatsAssumption
  <2>4. next + FirstWeekday = 7 * (k + i) + w  BY <2>1, <2>2, <2>3
  <2>5. Week(next) = k + i /\ Weekday(next) = w
    <3>1. k + i \in Int  OBVIOUS
    <3> QED  BY <2>4, <3>1, WeekOf
  <2>6. Weekday(next) = Weekday(day) /\ Week(next) - Week(day) = rule.interval
    BY <1>1, <2>2, <2>5
  <2> QED  BY <1>6, <2>1, <2>6 DEF OnRule, InStep
<1> QED  BY <1>2, <1>3, <1>4, <1>5, <1>6

(* One completion. *)
LEMMA SpawnsOnRule ==
  ASSUME RepeatsInv, spawnRepeat
  PROVE  RepeatsInv' /\ OnRuleOrSkipped
<1>1. PICK day \in Int : day = OpenDay
  <2>1. zone \in [before : Int, after : Int, change : Int]  BY RepeatsAssumption DEF RepeatsInv
  <2>2. wallClockIn(zone, deadline) \in Int  BY <2>1 DEF RepeatsInv, wallClockIn, offsetMs
  <2> QED  BY <2>2, HoursOfDay DEF OpenDay, formatDateKey
<1>2. PICK hour \in 0 .. DayHours - 1 : hour = HourOf(zone, deadline)
  <2>1. zone \in [before : Int, after : Int, change : Int]  BY RepeatsAssumption DEF RepeatsInv
  <2>2. wallClockIn(zone, deadline) \in Int  BY <2>1 DEF RepeatsInv, wallClockIn, offsetMs
  <2> QED  BY <2>2, HoursOfDay DEF HourOf
<1>3. PICK next \in Int : next = NextDay(day) /\ OnRule(day, next) /\ InStep(next)
  BY <1>1, NextDayOnRule DEF spawnRepeat, OpenDay, RepeatsInv
<1>4. PICK wall \in Int : /\ wall = next * DayHours + hour
                         /\ wall \div DayHours = next /\ wall % DayHours = hour
  BY <1>3, ClockParts
<1>5. deadline' = fromWallClock(zone, wall)
  BY <1>1, <1>2, <1>3, <1>4 DEF spawnRepeat, nextOccurrence, OpenDay
<1>6. formatDateKey(zone, deadline') = next  BY <1>4, <1>5, DayIsKept DEF RepeatsInv
<1>7. PICK found \in Int : found = wallClockIn(zone, deadline') /\ deadline' \in Int
  BY <1>5, WallClockFound DEF RepeatsInv
<1>8. /\ rule'.unit = rule.unit /\ rule'.weekdays = rule.weekdays /\ rule'.interval = rule.interval
      /\ rule' \in RepeatRule
  <2>1. PICK r \in RepeatRule : r = rule  BY DEF RepeatsInv
  <2>2. r.remaining # 0 /\ rule' = [r EXCEPT !.remaining = IF r.remaining = Never THEN Never ELSE r.remaining - 1]
    BY <2>1 DEF spawnRepeat, Ended
  <2>3. PICK n \in Nat \cup {-1} : n = IF r.remaining = Never THEN Never ELSE r.remaining - 1
    BY <2>1, <2>2 DEF RepeatRule, Never
  <2>4. rule' = [r EXCEPT !.remaining = n]  BY <2>2, <2>3
  <2> QED  BY <2>1, <2>3, <2>4 DEF RepeatRule
<1>9. RepeatsInv'
  <2>1. zone' = zone /\ first' = first  BY DEF spawnRepeat
  <2>2. OpenDay' = next  BY <1>6, <2>1 DEF OpenDay
  <2>3. InStep(OpenDay)'  BY <1>3, <1>8, <2>1, <2>2 DEF InStep, Week
  <2> QED  BY <1>7, <1>8, <2>1, <2>3 DEF RepeatsInv
<1>10. CASE found = wall
  <2>1. HourOf(zone, deadline') = hour  BY <1>4, <1>7, <1>10 DEF HourOf
  <2> QED  BY <1>1, <1>2, <1>3, <1>6, <1>9, <2>1 DEF OnRuleOrSkipped, OpenDay
<1>11. CASE /\ zone.before < zone.after
            /\ zone.change + zone.before <= wall /\ wall < zone.change + zone.after
            /\ found = wall - (zone.after - zone.before) \/ found = wall + (zone.after - zone.before)
  <2>1. zone.before \in Int /\ zone.after \in Int  BY RepeatsAssumption DEF RepeatsInv
  <2>2. PICK gap \in {zone.after - zone.before, zone.before - zone.after} : found + gap = wall
    BY <1>7, <1>11, <2>1
  <2>3. \A t \in wall - 2 * DayHours .. wall + 2 * DayHours : wallClockIn(zone, t) # wall
    <3> TAKE t \in wall - 2 * DayHours .. wall + 2 * DayHours
    <3>1. t \in Int  BY DayAssumption
    <3> QED  BY <1>11, <3>1, SkippedHasNone DEF RepeatsInv
  <2>4. Skipped(found + gap) /\ (found + gap) % DayHours = hour  BY <1>4, <2>2, <2>3 DEF Skipped
  <2> QED  BY <1>2, <1>7, <1>9, <2>2, <2>4 DEF OnRuleOrSkipped
<1> QED  BY <1>5, <1>7, <1>9, <1>10, <1>11, WallClockFound DEF RepeatsInv

(* The first occurrence is in step with itself. *)
LEMMA RepeatsStart == RepeatsInit => RepeatsInv
<1> SUFFICES ASSUME RepeatsInit PROVE RepeatsInv  OBVIOUS
<1>1. zone \in ZoneChoices /\ deadline \in Int /\ first = OpenDay
  BY RepeatsAssumption DEF RepeatsInit, OpenDay
<1>2. PICK input \in RepeatRule : rule = repeatColumns(input)
  BY RepeatsAssumption DEF RepeatsInit, RepeatRule
<1>3. rule \in RepeatRule
  <2>1. PICK w \in SUBSET (0 .. 6), d \in -1..31 \ {0} :
          rule = [input EXCEPT !.weekdays = w, !.dayOfMonth = d]
    <3>1. input.weekdays \in SUBSET (0 .. 6) /\ {} \in SUBSET (0 .. 6)  BY DEF RepeatRule
    <3>2. input.dayOfMonth \in -1..31 \ {0} /\ Never \in -1..31 \ {0}  BY DEF RepeatRule, Never
    <3> QED  BY <1>2, <3>1, <3>2 DEF repeatColumns
  <2> QED  BY <1>2, <2>1 DEF RepeatRule
<1>4. first \in Int
  <2>1. zone \in [before : Int, after : Int, change : Int]  BY <1>1, RepeatsAssumption
  <2>2. wallClockIn(zone, deadline) \in Int  BY <1>1, <2>1 DEF wallClockIn, offsetMs
  <2> QED  BY <1>1, <2>2, HoursOfDay DEF OpenDay, formatDateKey
<1>5. (Week(first) - Week(first)) % rule.interval = 0
  <2>1. Week(first) - Week(first) = 0  BY <1>4, WeekParts
  <2>2. PICK i \in Nat \ {0} : i = rule.interval  BY <1>3 DEF RepeatRule
  <2>3. 0 % i = 0
    <3>1. 0 = i * (0 \div i) + (0 % i) /\ 0 % i \in 0 .. i - 1 /\ 0 \div i \in Int  OBVIOUS
    <3>2. PICK q \in Int : q = 0 \div i  BY <3>1
    <3>3. (q >= 1 => i * q >= i) /\ (q <= 0 - 1 => i * q <= 0 - i)  OBVIOUS
    <3>4. q = 0 => i * q = 0  OBVIOUS
    <3>5. PICK P \in Int : P = i * q  OBVIOUS
    <3> QED  BY <3>1, <3>2, <3>3, <3>4, <3>5
  <2> QED  BY <2>1, <2>2, <2>3
<1> QED  BY <1>1, <1>3, <1>4, <1>5 DEF RepeatsInv, InStep

(* Every next occurrence of a repeating card falls on the local day that   *)
(* its rule says and at the local hour of the one before, unless the       *)
(* clocks skip that hour: for any rule, zone, date and length of the       *)
(* chain, as far as the calendar goes.                                     *)
THEOREM RuleIsKept == RepeatsSpec => OccursOnRule
<1>1. RepeatsInv /\ [RepeatsNext]_repeatsVars =>
        RepeatsInv' /\ [<<rule, deadline>>' # <<rule, deadline>> => OnRuleOrSkipped]_repeatsVars
  <2> SUFFICES ASSUME RepeatsInv, [RepeatsNext]_repeatsVars
               PROVE  RepeatsInv' /\ [<<rule, deadline>>' # <<rule, deadline>> => OnRuleOrSkipped]_repeatsVars
    OBVIOUS
  <2>1. CASE spawnRepeat  BY <2>1, SpawnsOnRule
  <2>2. CASE UNCHANGED repeatsVars
    BY <2>2 DEF repeatsVars, RepeatsInv, OpenDay, InStep, Week
  <2> QED  BY <2>1, <2>2 DEF RepeatsNext
<1> QED  BY <1>1, RepeatsStart, PTL DEF RepeatsSpec, OccursOnRule
=============================================================================
