------------------------- MODULE CardDetail_proofs -------------------------
(***************************************************************************)
(* Proofs about CardDetail, for any rows, any number of requests at once   *)
(* and any bound.                                                          *)
(***************************************************************************)
EXTENDS CardDetail, FiniteSetTheorems, TLAPS

Ids == Checklists \cup Items \cup Notes \cup Files

DetailRequest ==
  [pc : {"rest", "newItem", "item", "delete", "cover", "uncover", "clearing", "log"},
   at : SUBSET Ids, want : {"none", "tick", "untick", "replay", "note", "file"},
   tick : BOOLEAN, todo : SUBSET Files, held : SUBSET Files]

RowsInv ==
  /\ handler \in [Handlers -> DetailRequest]
  /\ checklists \subseteq Checklists /\ items \in [Checklists -> SUBSET Items]
  /\ notes \subseteq Notes /\ files \subseteq Files /\ cover \subseteq files
  /\ AllItems \subseteq used
  /\ did \in [Kinds -> Nat] /\ logged \in [Kinds -> Nat]

\* A transaction that chooses a cover is about one attachment, and as long as none was added
\* meanwhile it has written, or will, every other one there is.
Chooses(w) ==
  /\ handler[w].pc \in {"cover", "clearing"} => \A f, g \in handler[w].at : f = g
  /\ "cover" \notin bent /\ handler[w].pc = "clearing" =>
       files \ handler[w].at \subseteq handler[w].todo \cup handler[w].held
CoverInv ==
  /\ "cover" \notin bent => \A f, g \in cover : f = g
  /\ \A w \in Handlers : Chooses(w)

\* The lines that are still to be written make up the difference.
Logging(k) == {w \in Handlers : handler[w].pc = "log" /\ handler[w].want = k}
LinesInv ==
  /\ \A w \in Handlers : handler[w].pc = "log" => handler[w].want \in Kinds
  /\ \A k \in Kinds \ bent : /\ IsFiniteSet(Logging(k))
                             /\ did[k] = logged[k] + Cardinality(Logging(k))

\* What a request has read of an item it is about to tick is still so, or a race was noted.
Reads(w) ==
  handler[w].pc = "item" =>
    \A i \in handler[w].at :
      /\ i \in used
      /\ "tick" \notin bent /\ i \in AllItems =>
           (handler[w].tick <=> handler[w].want = "tick" /\ i \notin checked)
TicksInv == \A w \in Handlers : Reads(w)

DetailInv == RowsInv /\ CoverInv /\ LinesInv /\ TicksInv

-----------------------------------------------------------------------------
(* What a step leaves alone. *)

\* No attachment is added, and no cover is chosen.
LEMMA CoverKept ==
    ASSUME DetailInv, NEW w \in Handlers, NEW q \in DetailRequest,
           handler' = [handler EXCEPT ![w] = q], q.pc # "clearing",
           q.pc = "cover" => \A f, g \in q.at : f = g,
           files' \subseteq files, cover' \subseteq cover, bent \subseteq bent'
    PROVE  CoverInv'
<1>1. ASSUME NEW v \in Handlers PROVE Chooses(v)'
  <2>1. CASE v = w
    BY <2>1 DEF Chooses, DetailInv, RowsInv
  <2>2. CASE v # w
    <3>1. handler'[v] = handler[v]
      BY <2>2 DEF DetailInv, RowsInv
    <3>2. Chooses(v)
      BY DEF DetailInv, CoverInv
    <3>3. QED
      BY <3>1, <3>2 DEF Chooses
  <2>3. QED
    BY <2>1, <2>2
<1>2. QED
  BY <1>1 DEF DetailInv, CoverInv

\* No line is owed or written.
LEMMA LinesKept ==
    ASSUME DetailInv, NEW w \in Handlers, NEW q \in DetailRequest,
           handler' = [handler EXCEPT ![w] = q], handler[w].pc # "log", q.pc # "log",
           UNCHANGED <<did, logged>>, bent \subseteq bent'
    PROVE  LinesInv'
<1>1. \A v \in Handlers : handler'[v] = IF v = w THEN q ELSE handler[v]
  BY DEF DetailInv, RowsInv
<1>2. \A k : Logging(k)' = Logging(k)
  BY <1>1 DEF Logging
<1>3. QED
  BY <1>1, <1>2 DEF DetailInv, LinesInv

\* No item that a request knows is ticked or unticked.
LEMMA TicksKept ==
    ASSUME DetailInv, NEW w \in Handlers, NEW q \in DetailRequest,
           handler' = [handler EXCEPT ![w] = q], q.pc # "item",
           used \subseteq used', bent \subseteq bent',
           \A i \in used : i \in AllItems' => i \in AllItems /\ (i \in checked' <=> i \in checked)
    PROVE  TicksInv'
<1>1. ASSUME NEW v \in Handlers PROVE Reads(v)'
  <2>1. CASE v = w
    BY <2>1 DEF Reads, DetailInv, RowsInv
  <2>2. CASE v # w
    <3>1. handler'[v] = handler[v]
      BY <2>2 DEF DetailInv, RowsInv
    <3>2. Reads(v)
      BY DEF DetailInv, TicksInv
    <3>3. QED
      BY <3>1, <3>2 DEF Reads
  <2>3. QED
    BY <2>1, <2>2
<1>2. QED
  BY <1>1 DEF TicksInv

\* An unused slot is a request at rest, which holds no lock.
LEMMA UnusedRests ==
  /\ Unused \in DetailRequest /\ Unused.pc = "rest" /\ Unused.at = {} /\ Unused.todo = {}
  /\ Unused.held = {}
BY DEF Unused, DetailRequest

\* A request is answered, or moves on to a query about one row; the tables stay.
LEMMA QuietStep ==
    ASSUME DetailInv, NEW w \in Handlers, NEW q \in DetailRequest,
           handler' = [handler EXCEPT ![w] = q], handler[w].pc # "log",
           q.pc \notin {"clearing", "log", "item"}, q.pc = "cover" => \A f, g \in q.at : f = g,
           UNCHANGED <<rowVars, used, did, logged, bent>>
    PROVE  DetailInv'
<1>1. RowsInv'
  BY DEF DetailInv, RowsInv, rowVars, AllItems
<1>2. CoverInv' /\ LinesInv'
  BY CoverKept, LinesKept DEF rowVars, DetailInv, RowsInv
<1>3. TicksInv'
  BY TicksKept DEF rowVars, AllItems
<1>4. QED
  BY <1>1, <1>2, <1>3 DEF DetailInv

-----------------------------------------------------------------------------
(* The steps. *)

\* A request on a row that was found.
LEMMA BeginStep ==
    ASSUME DetailInv, NEW w \in Handlers,
           createChecklistItem(w) \/ deleteRow(w) \/ updateAttachment(w)
    PROVE  DetailInv'
<1>1. PICK x \in Ids, pc \in {"newItem", "delete", "cover", "uncover"} :
        BeginsOn(w, x, pc, "none")
  <2>1. checklists \cup AllItems \cup notes \cup files \subseteq Ids
    BY DEF DetailInv, RowsInv, AllItems, Ids
  <2>2. QED
    BY <2>1 DEF createChecklistItem, deleteRow, updateAttachment
<1> DEFINE q == [handler[w] EXCEPT !.pc = pc, !.at = {x}, !.want = "none"]
<1>2. handler' = [handler EXCEPT ![w] = q]
  BY <1>1 DEF BeginsOn, DetailInv, RowsInv, DetailRequest
<1>3. q \in DetailRequest /\ q.pc = pc /\ q.at = {x}
  BY DEF DetailInv, RowsInv, DetailRequest
<1>4. UNCHANGED <<rowVars, used, did, logged, bent>>
  BY DEF createChecklistItem, deleteRow, updateAttachment
<1>5. handler[w].pc # "log"
  BY <1>1 DEF BeginsOn
<1>6. QED
  BY <1>2, <1>3, <1>4, <1>5, QuietStep

\* Ends without a change of the tables.
LEMMA EndStep ==
    ASSUME DetailInv, NEW w \in Handlers, Answers(w), handler[w].pc # "log",
           UNCHANGED <<rowVars, used, did, logged, bent>>
    PROVE  DetailInv'
BY QuietStep, UnusedRests DEF Answers

\* A new checklist has no item yet.
LEMMA ChecklistStep ==
    ASSUME DetailInv, NEW w \in Handlers, createChecklist(w)
    PROVE  DetailInv'
<1>1. RowsInv'
  BY DEF createChecklist, DetailInv, RowsInv, AllItems
<1>2. CoverInv'
  BY DEF createChecklist, DetailInv, CoverInv, Chooses
<1>3. LinesInv'
  BY DEF createChecklist, DetailInv, LinesInv, Logging
<1>4. TicksInv'
  BY DEF createChecklist, DetailInv, TicksInv, Reads, AllItems
<1>5. QED
  BY <1>1, <1>2, <1>3, <1>4 DEF DetailInv

\* A new item has an id of its own, so no request knows it.
LEMMA InsertStep ==
    ASSUME DetailInv, NEW w \in Handlers, InsertItem(w)
    PROVE  DetailInv'
<1>1. UNCHANGED <<checklists, checked, notes, files, cover, did, logged, bent>>
  BY DEF InsertItem
<1>2. handler' = [handler EXCEPT ![w] = Unused] /\ handler[w].pc # "log"
  BY DEF InsertItem, Answers
<1>3. CASE UNCHANGED <<items, used>>
  BY <1>1, <1>2, <1>3, QuietStep, UnusedRests DEF rowVars
<1>4. CASE \E c \in Checklists, i \in Items \ used :
             items' = [items EXCEPT ![c] = @ \cup {i}] /\ used' = used \cup {i}
  <2>1. PICK c \in Checklists, i \in Items \ used :
          items' = [items EXCEPT ![c] = @ \cup {i}] /\ used' = used \cup {i}
    BY <1>4
  <2>2. items' \in [Checklists -> SUBSET Items] /\ AllItems' = AllItems \cup {i}
    BY <2>1 DEF DetailInv, RowsInv, AllItems
  <2>3. handler' \in [Handlers -> DetailRequest]
    BY <1>2, UnusedRests DEF DetailInv, RowsInv
  <2>4. RowsInv'
    BY <1>1, <2>1, <2>2, <2>3 DEF DetailInv, RowsInv
  <2>5. TicksInv'
    BY <1>1, <1>2, <2>1, <2>2, UnusedRests, TicksKept
  <2>6. CoverInv' /\ LinesInv'
    BY <1>1, <1>2, UnusedRests, CoverKept, LinesKept
  <2>7. QED
    BY <2>4, <2>5, <2>6 DEF DetailInv
<1>5. QED
  <2>1. handler[w].at \cap checklists \subseteq Checklists
    BY DEF DetailInv, RowsInv
  <2>2. QED
    BY <1>3, <1>4, <2>1 DEF InsertItem

\* Only the lines of one kind are owed or written.
LEMMA LinesBut ==
    ASSUME DetailInv, NEW w \in Handlers, NEW q \in DetailRequest, NEW kind \in Kinds,
           handler' = [handler EXCEPT ![w] = q],
           q.pc = "log" => q.want = kind, handler[w].pc = "log" => handler[w].want = kind,
           \A k \in Kinds \ {kind} : did'[k] = did[k] /\ logged'[k] = logged[k],
           bent \subseteq bent',
           kind \notin bent' => /\ IsFiniteSet(Logging(kind)')
                               /\ did'[kind] = logged'[kind] + Cardinality(Logging(kind)')
    PROVE  LinesInv'
<1>1. \A v \in Handlers : handler'[v] = IF v = w THEN q ELSE handler[v]
  BY DEF DetailInv, RowsInv
<1>2. ASSUME NEW k \in Kinds \ {kind} PROVE Logging(k)' = Logging(k)
  BY <1>1 DEF Logging
<1>3. ASSUME NEW k \in Kinds \ bent'
      PROVE  /\ IsFiniteSet(Logging(k)')
             /\ did'[k] = logged'[k] + Cardinality(Logging(k)')
  <2>1. CASE k = kind
    BY <1>3, <2>1
  <2>2. CASE k # kind
    <3>1. IsFiniteSet(Logging(k)) /\ did[k] = logged[k] + Cardinality(Logging(k))
      BY <1>3 DEF DetailInv, LinesInv
    <3>2. QED
      BY <1>2, <2>2, <3>1
  <2>3. QED
    BY <2>1, <2>2
<1>4. \A v \in Handlers : handler'[v].pc = "log" => handler'[v].want \in Kinds
  BY <1>1 DEF DetailInv, LinesInv
<1>5. QED
  BY <1>3, <1>4 DEF LinesInv, Logging

\* A request on its way to the activity log is a request, and knows its kind of line.
LEMMA LogRequest ==
  ASSUME NEW kind \in Kinds
  PROVE  LET q == [Unused EXCEPT !.pc = "log", !.want = kind]
         IN q \in DetailRequest /\ q.pc = "log" /\ q.want = kind
BY UnusedRests DEF DetailRequest, Kinds

\* One more thing is done, and its line is owed.
LEMMA LineOwed ==
    ASSUME DetailInv, NEW w \in Handlers, NEW kind \in Kinds, handler[w].pc # "log",
           NEW q \in DetailRequest, q.pc = "log", q.want = kind,
           handler' = [handler EXCEPT ![w] = q],
           did' = [did EXCEPT ![kind] = @ + 1], UNCHANGED logged, bent \subseteq bent'
    PROVE  LinesInv'
<1>3. \A v \in Handlers : handler'[v] = IF v = w THEN q ELSE handler[v]
  BY DEF DetailInv, RowsInv
<1>4. Logging(kind)' = Logging(kind) \cup {w} /\ w \notin Logging(kind)
  BY <1>3 DEF Logging
<1>5. ASSUME kind \notin bent'
      PROVE  /\ IsFiniteSet(Logging(kind)')
             /\ did'[kind] = logged'[kind] + Cardinality(Logging(kind)')
  <2>1. IsFiniteSet(Logging(kind)) /\ did[kind] = logged[kind] + Cardinality(Logging(kind))
    BY <1>5 DEF DetailInv, LinesInv
  <2>2. /\ IsFiniteSet(Logging(kind)')
        /\ Cardinality(Logging(kind)') = Cardinality(Logging(kind)) + 1
        /\ Cardinality(Logging(kind)) \in Nat
    BY <1>4, <2>1, FS_AddElement, FS_CardinalityType
  <2>3. did'[kind] = did[kind] + 1 /\ logged'[kind] = logged[kind] /\ logged[kind] \in Nat
    BY DEF DetailInv, RowsInv
  <2>4. QED
    BY <2>1, <2>2, <2>3
<1>6. \A k \in Kinds \ {kind} : did'[k] = did[k] /\ logged'[k] = logged[k]
  BY DEF DetailInv, RowsInv
<1>7. handler[w].pc = "log" => handler[w].want = kind
  OBVIOUS
<1>8. QED
  BY <1>5, <1>6, <1>7, LinesBut

\* A note or an attachment is made.  An attachment that is made while a cover is being chosen
\* is not among those the transaction clears.
LEMMA MakeStep ==
    ASSUME DetailInv, NEW w \in Handlers, createNote(w) \/ createAttachment(w)
    PROVE  DetailInv'
<1>1. PICK kind \in {"note", "file"} :
        /\ Logs(w, kind) /\ handler[w].pc = "rest"
        /\ UNCHANGED <<checklists, items, checked, cover, logged>>
        /\ kind = "note" => UNCHANGED <<files, bent>> /\ notes' \subseteq Notes
        /\ kind = "file" =>
             /\ UNCHANGED notes /\ files \subseteq files' /\ files' \subseteq Files
             /\ (\E v \in Handlers : handler[v].pc = "clearing") => "cover" \in bent'
        /\ used \subseteq used' /\ bent \subseteq bent'
  <2>1. notes \subseteq Notes /\ files \subseteq Files
    BY DEF DetailInv, RowsInv
  <2>2. CASE createNote(w)
    BY <2>1, <2>2 DEF createNote
  <2>3. CASE createAttachment(w)
    BY <2>1, <2>3 DEF createAttachment
  <2>4. QED
    BY <2>2, <2>3
<1> DEFINE q == [Unused EXCEPT !.pc = "log", !.want = kind]
<1>2. kind \in Kinds /\ q \in DetailRequest /\ q.pc = "log" /\ q.want = kind
  BY LogRequest DEF Kinds
<1>3. /\ handler' = [handler EXCEPT ![w] = q]
      /\ did' = [did EXCEPT ![kind] = @ + 1]
  BY <1>1 DEF Logs
<1>4. LinesInv'
  BY <1>1, <1>2, <1>3, LineOwed
<1> HIDE DEF q
<1>5. \A v \in Handlers : handler'[v] = IF v = w THEN q ELSE handler[v]
  BY <1>3 DEF DetailInv, RowsInv
<1>6. RowsInv'
  <2>1. files \subseteq files' /\ files' \subseteq Files /\ notes' \subseteq Notes
    BY <1>1 DEF DetailInv, RowsInv
  <2>2. did' \in [Kinds -> Nat] /\ handler' \in [Handlers -> DetailRequest]
    BY <1>2, <1>3 DEF DetailInv, RowsInv
  <2>3. QED
    BY <1>1, <2>1, <2>2 DEF DetailInv, RowsInv, AllItems
<1>7. TicksInv'
  BY <1>1, <1>2, <1>3, TicksKept DEF AllItems
<1>8. CoverInv'
  <2>1. ASSUME NEW v \in Handlers PROVE Chooses(v)'
    <3>1. CASE v = w
      BY <1>2, <1>5, <3>1 DEF Chooses
    <3>2. CASE v # w /\ kind = "note"
      BY <1>1, <1>5, <3>2 DEF Chooses, DetailInv, CoverInv
    <3>3. CASE v # w /\ kind = "file"
      BY <1>1, <1>5, <3>3 DEF Chooses, DetailInv, CoverInv
    <3>4. QED
      BY <3>1, <3>2, <3>3
  <2>2. "cover" \notin bent' => \A f, g \in cover' : f = g
    BY <1>1 DEF DetailInv, CoverInv
  <2>3. QED
    BY <2>1, <2>2 DEF CoverInv
<1>9. QED
  BY <1>4, <1>6, <1>7, <1>8 DEF DetailInv

\* The line is written, or its failure noted.
LEMMA RecordStep ==
    ASSUME DetailInv, NEW w \in Handlers, record(w)
    PROVE  DetailInv'
<1>0. PICK kind \in Kinds : kind = handler[w].want
  BY DEF record, DetailInv, LinesInv
<1>1. /\ handler[w].pc = "log" /\ bent \subseteq bent'
      /\ handler' = [handler EXCEPT ![w] = Unused] /\ UNCHANGED <<rowVars, used, did>>
  BY DEF record, Answers, DetailInv, LinesInv
<1>2. \/ kind \in bent' /\ logged' = logged
      \/ logged' = [logged EXCEPT ![kind] = @ + 1] /\ UNCHANGED bent
  BY <1>0 DEF record
<1>3. \A v \in Handlers : handler'[v] = IF v = w THEN Unused ELSE handler[v]
  BY <1>1 DEF DetailInv, RowsInv
<1>4. Logging(kind)' = Logging(kind) \ {w} /\ w \in Logging(kind)
  BY <1>0, <1>1, <1>3, UnusedRests DEF Logging
<1>5. ASSUME kind \notin bent'
      PROVE  /\ IsFiniteSet(Logging(kind)')
             /\ did'[kind] = logged'[kind] + Cardinality(Logging(kind)')
  <2>1. IsFiniteSet(Logging(kind)) /\ did[kind] = logged[kind] + Cardinality(Logging(kind))
    BY <1>1, <1>5 DEF DetailInv, LinesInv
  <2>2. /\ IsFiniteSet(Logging(kind)')
        /\ Cardinality(Logging(kind)') = Cardinality(Logging(kind)) - 1
        /\ Cardinality(Logging(kind)) \in Nat
    BY <1>4, <2>1, FS_RemoveElement, FS_CardinalityType
  <2>3. did'[kind] = did[kind] /\ logged'[kind] = logged[kind] + 1 /\ logged[kind] \in Nat
    BY <1>1, <1>2, <1>5 DEF DetailInv, RowsInv
  <2>4. QED
    BY <2>1, <2>2, <2>3
<1>6. logged' \in [Kinds -> Nat] /\ \A k \in Kinds \ {kind} : did'[k] = did[k] /\ logged'[k] = logged[k]
  BY <1>1, <1>2 DEF DetailInv, RowsInv
<1>7. LinesInv'
  BY <1>0, <1>1, <1>5, <1>6, UnusedRests, LinesBut
<1>8. RowsInv'
  BY <1>1, <1>6, UnusedRests DEF DetailInv, RowsInv, rowVars, AllItems
<1>9. CoverInv' /\ TicksInv'
  BY <1>1, UnusedRests, CoverKept, TicksKept DEF rowVars, AllItems
<1>10. QED
  BY <1>7, <1>8, <1>9 DEF DetailInv

\* A PATCH reads the item, and decides whether it ticks it.
LEMMA ReadItemStep ==
    ASSUME DetailInv, NEW w \in Handlers, updateChecklistItem(w)
    PROVE  DetailInv'
<1>1. PICK i \in AllItems, want \in {"tick", "untick", "replay"} :
        handler' = [handler EXCEPT ![w] = [Unused EXCEPT !.pc = "item", !.at = {i},
                                           !.want = want, !.tick = Checking(want, i)]]
  BY DEF updateChecklistItem
<1>2. handler[w].pc = "rest" /\ UNCHANGED <<rowVars, used, did, logged, bent>>
  BY DEF updateChecklistItem
<1>3. i \in used /\ i \in Ids
  BY DEF DetailInv, RowsInv, AllItems, Ids
<1> DEFINE at(b) == [Unused EXCEPT !.pc = "item", !.at = {i}, !.want = want, !.tick = b]
<1>4. PICK b \in BOOLEAN : handler' = [handler EXCEPT ![w] = at(b)] /\ (b <=> Checking(want, i))
  <2>1. CASE Checking(want, i) = TRUE
    BY <1>1, <2>1, Zenon
  <2>2. CASE Checking(want, i) = FALSE
    BY <1>1, <2>2, Zenon
  <2>3. Checking(want, i) = TRUE \/ Checking(want, i) = FALSE
    BY Zenon DEF Checking
  <2>4. QED
    BY <2>1, <2>2, <2>3
<1>5. at(TRUE) \in DetailRequest /\ at(FALSE) \in DetailRequest
  BY <1>3, UnusedRests DEF DetailRequest
<1>6. /\ at(b) \in DetailRequest /\ at(b).pc = "item" /\ at(b).at = {i} /\ at(b).want = want
      /\ (at(b).tick <=> b)
  <2>1. at(b) \in DetailRequest
    <3>1. CASE b = TRUE
      BY <1>5, <3>1, Zenon
    <3>2. CASE b = FALSE
      BY <1>5, <3>2, Zenon
    <3>3. QED
      BY <3>1, <3>2
  <2>2. at(b).pc = "item" /\ at(b).at = {i} /\ at(b).want = want
    BY UnusedRests DEF DetailRequest
  <2>3. at(b).tick <=> b
    BY DEF Unused
  <2>4. QED
    BY <2>1, <2>2, <2>3
<1>7. PICK q \in DetailRequest :
        /\ handler' = [handler EXCEPT ![w] = q] /\ q.pc = "item" /\ q.at = {i} /\ q.want = want
        /\ (q.tick <=> want = "tick" /\ i \notin checked)
  BY <1>4, <1>6 DEF Checking
<1>8. \A v \in Handlers : handler'[v] = IF v = w THEN q ELSE handler[v]
  BY <1>7 DEF DetailInv, RowsInv
<1>9. RowsInv'
  BY <1>2, <1>7 DEF DetailInv, RowsInv, rowVars, AllItems
<1>10. CoverInv' /\ LinesInv'
  BY <1>2, <1>7, CoverKept, LinesKept DEF rowVars, DetailInv, RowsInv
<1>11. TicksInv'
  <2>1. UNCHANGED <<checked, used, bent>> /\ AllItems' = AllItems
    BY <1>2 DEF rowVars, AllItems
  <2>2. ASSUME NEW v \in Handlers PROVE Reads(v)'
    <3>1. CASE v = w
      BY <1>3, <1>7, <1>8, <2>1, <3>1 DEF Reads
    <3>2. CASE v # w
      BY <1>8, <2>1, <3>2 DEF Reads, DetailInv, TicksInv
    <3>3. QED
      BY <3>1, <3>2
  <2>3. QED
    BY <2>2 DEF TicksInv
<1>12. QED
  BY <1>9, <1>10, <1>11 DEF DetailInv

\* Ticks or unticks the item, if it is still there.  Unless another PATCH has read it too, what
\* was decided is what happens.
LEMMA WriteItemStep ==
    ASSUME DetailInv, NEW w \in Handlers, WriteItem(w)
    PROVE  DetailInv'
<1>0. handler[w].pc = "item" /\ UNCHANGED <<checklists, items, notes, files, cover, used, logged>>
  BY DEF WriteItem
<1>1. PICK i \in handler[w].at :
       \/ i \notin AllItems /\ Answers(w) /\ UNCHANGED <<checked, did, bent>>
       \/ /\ i \in AllItems
          /\ LET ticks == handler[w].want = "tick" /\ i \notin checked
             IN did' = IF ticks THEN [did EXCEPT !["tick"] = @ + 1] ELSE did
          /\ checked' = IF handler[w].want = "untick" THEN checked \ {i} ELSE checked \cup {i}
          /\ bent' = IF \E v \in Handlers \ {w} : handler[v].pc = "item" /\ i \in handler[v].at
                     THEN bent \cup {"tick"} ELSE bent
          /\ IF handler[w].tick
             THEN handler' = [handler EXCEPT ![w] =
                                [Unused EXCEPT !.pc = "log", !.want = "tick"]]
             ELSE Answers(w)
  BY DEF WriteItem
<1>2. CASE i \notin AllItems
  BY <1>0, <1>1, <1>2, EndStep DEF rowVars
<1>3. CASE i \in AllItems
  <2>1. /\ did' = did \/ did' = [did EXCEPT !["tick"] = @ + 1]
        /\ "tick" \notin bent =>
             (did' = IF handler[w].tick THEN [did EXCEPT !["tick"] = @ + 1] ELSE did)
    BY <1>0, <1>1, <1>3 DEF DetailInv, TicksInv, Reads
  <2>2. bent \subseteq bent'
        /\ ("tick" \notin bent' =>
              \A v \in Handlers \ {w} : handler[v].pc = "item" => i \notin handler[v].at)
        /\ \A j : j # i => (j \in checked' <=> j \in checked)
    BY <1>1, <1>3
  <2>3. PICK q \in DetailRequest :
          /\ handler' = [handler EXCEPT ![w] = q]
          /\ IF handler[w].tick THEN q.pc = "log" /\ q.want = "tick" ELSE q.pc = "rest"
    <3>1. CASE handler[w].tick
      BY <1>1, <1>3, <3>1, LogRequest DEF Kinds
    <3>2. CASE ~handler[w].tick
      BY <1>1, <1>3, <3>2, UnusedRests DEF Answers
    <3>3. QED
      BY <3>1, <3>2
  <2>4. \A v \in Handlers : handler'[v] = IF v = w THEN q ELSE handler[v]
    BY <2>3 DEF DetailInv, RowsInv
  <2>5. RowsInv'
    <3>1. did' \in [Kinds -> Nat]
      BY <2>1 DEF DetailInv, RowsInv
    <3>2. QED
      BY <1>0, <2>3, <3>1 DEF DetailInv, RowsInv, AllItems
  <2>6. CoverInv'
    BY <1>0, <2>2, <2>3, CoverKept
  <2>7. LinesInv'
    <3>1. CASE "tick" \in bent'
      <4>1. /\ "tick" \in Kinds /\ (handler[w].pc = "log" => handler[w].want = "tick")
            /\ (q.pc = "log" => q.want = "tick")
            /\ \A k \in Kinds \ {"tick"} : did'[k] = did[k] /\ logged'[k] = logged[k]
        BY <1>0, <2>1, <2>3 DEF Kinds, DetailInv, RowsInv
      <4>2. QED
        BY <2>2, <2>3, <3>1, <4>1, LinesBut
    <3>2. CASE "tick" \notin bent' /\ handler[w].tick
      BY <1>0, <2>1, <2>2, <2>3, <3>2, LineOwed DEF Kinds
    <3>3. CASE "tick" \notin bent' /\ ~handler[w].tick
      <4>1. did' = did /\ q.pc = "rest"
        BY <2>1, <2>2, <2>3, <3>3
      <4>2. QED
        BY <1>0, <2>2, <2>3, <4>1, LinesKept
    <3>4. QED
      BY <3>1, <3>2, <3>3
  <2>8. TicksInv'
    <3>1. AllItems' = AllItems
      BY <1>0 DEF AllItems
    <3>2. ASSUME NEW v \in Handlers PROVE Reads(v)'
      <4>1. CASE v = w
        BY <2>3, <2>4, <4>1 DEF Reads
      <4>2. CASE v # w
        <5>1. handler'[v] = handler[v] /\ Reads(v)
          BY <2>4, <4>2 DEF DetailInv, TicksInv
        <5>2. ASSUME handler[v].pc = "item", NEW j \in handler[v].at
              PROVE  /\ j \in used
                     /\ "tick" \notin bent' /\ j \in AllItems =>
                          (handler[v].tick <=> handler[v].want = "tick" /\ j \notin checked')
          BY <2>2, <4>2, <5>1, <5>2 DEF Reads
        <5>3. QED
          BY <1>0, <3>1, <5>1, <5>2 DEF Reads
      <4>3. QED
        BY <4>1, <4>2
    <3>3. QED
      BY <3>2 DEF TicksInv
  <2>9. QED
    BY <2>5, <2>6, <2>7, <2>8 DEF DetailInv
<1>4. QED
  BY <1>2, <1>3

\* Rows go, a checklist with its items.
LEMMA DeleteStep ==
    ASSUME DetailInv, NEW w \in Handlers, DeleteFound(w)
    PROVE  DetailInv'
<1>1. PICK lost :
        /\ checklists' = checklists \ lost
        /\ items' = [c \in Checklists |-> items[c] \ lost] /\ checked' = checked \ lost
        /\ notes' = notes \ lost
        /\ files' = files \ lost /\ cover' = cover \ lost
  BY DEF DeleteFound
<1>2. /\ handler' = [handler EXCEPT ![w] = Unused] /\ handler[w].pc # "log"
      /\ UNCHANGED <<used, did, logged, bent>>
  BY DEF DeleteFound, Answers
<1>3. items' \in [Checklists -> SUBSET Items] /\ AllItems' = AllItems \ lost
  BY <1>1 DEF DetailInv, RowsInv, AllItems
<1>4. RowsInv'
  BY <1>1, <1>2, <1>3, UnusedRests DEF DetailInv, RowsInv
<1>5. CoverInv' /\ LinesInv'
  BY <1>1, <1>2, UnusedRests, CoverKept, LinesKept
<1>6. TicksInv'
  BY <1>1, <1>2, <1>3, UnusedRests, TicksKept
<1>7. QED
  BY <1>4, <1>5, <1>6 DEF DetailInv

\* The cover is taken away.
LEMMA ClearCoverStep ==
    ASSUME DetailInv, NEW w \in Handlers, clearCover(w)
    PROVE  DetailInv'
<1>1. /\ handler' = [handler EXCEPT ![w] = Unused] /\ handler[w].pc # "log"
      /\ UNCHANGED <<checklists, items, checked, notes, files, used, did, logged, bent>>
      /\ cover' \subseteq cover
  BY DEF clearCover, Answers
<1>2. RowsInv'
  BY <1>1, UnusedRests DEF DetailInv, RowsInv, AllItems
<1>3. CoverInv' /\ LinesInv'
  BY <1>1, UnusedRests, CoverKept, LinesKept
<1>4. TicksInv'
  BY <1>1, UnusedRests, TicksKept DEF AllItems
<1>5. QED
  BY <1>2, <1>3, <1>4 DEF DetailInv

\* The transaction that chooses a cover has every other attachment to write, and writes one
\* after the other.
LEMMA ChooseStep ==
    ASSUME DetailInv, NEW w \in Handlers, setCover(w) \/ ClearRow(w)
    PROVE  DetailInv'
<1>1. PICK todo \in SUBSET Files, held \in SUBSET Files :
        /\ handler' = [handler EXCEPT ![w] = [handler[w] EXCEPT !.pc = "clearing", !.todo = todo,
                                                              !.held = held]]
        /\ files \ handler[w].at \subseteq todo \cup held \/ "cover" \in bent
        /\ handler[w].pc \in {"cover", "clearing"}
  <2>0. handler[w] \in DetailRequest /\ files \subseteq Files /\ w \in DOMAIN handler
    BY DEF DetailInv, RowsInv
  <2>1. CASE setCover(w)
    <3>1. handler' = [handler EXCEPT ![w].pc = "clearing", ![w].todo = files \ handler[w].at]
      BY <2>1 DEF setCover, Others
    <3>2. handler' = [handler EXCEPT ![w] = [handler[w] EXCEPT !.pc = "clearing",
                        !.todo = files \ handler[w].at, !.held = handler[w].held]]
      BY <2>0, <3>1 DEF DetailRequest
    <3>3. files \ handler[w].at \in SUBSET Files /\ handler[w].held \in SUBSET Files
      BY <2>0 DEF DetailRequest
    <3>4. QED
      BY <2>1, <3>2, <3>3 DEF setCover
  <2>2. CASE ClearRow(w)
    <3>1. PICK f \in handler[w].todo :
            handler' = [handler EXCEPT ![w].todo = @ \ {f}, ![w].held = @ \cup ({f} \cap files)]
      BY <2>2 DEF ClearRow
    <3> DEFINE todo == handler[w].todo \ {f}
               held == handler[w].held \cup ({f} \cap files)
    <3>2. handler[w].pc = "clearing"
      BY <2>2 DEF ClearRow
    <3>3. handler' = [handler EXCEPT ![w] = [handler[w] EXCEPT !.pc = "clearing", !.todo = todo,
                                                              !.held = held]]
      BY <2>0, <3>1, <3>2 DEF DetailRequest
    <3>4. todo \in SUBSET Files /\ held \in SUBSET Files
      BY <2>0 DEF DetailRequest
    <3>5. files \ handler[w].at \subseteq todo \cup held \/ "cover" \in bent
      BY <3>2 DEF DetailInv, CoverInv, Chooses
    <3>6. QED
      BY <3>2, <3>3, <3>4, <3>5
  <2>3. QED
    BY <2>1, <2>2
<1>2. UNCHANGED <<rowVars, used, did, logged, bent>>
  BY DEF setCover, ClearRow
<1> DEFINE q == [handler[w] EXCEPT !.pc = "clearing", !.todo = todo, !.held = held]
<1>3. /\ q \in DetailRequest /\ q.pc = "clearing" /\ q.todo = todo /\ q.held = held
      /\ q.at = handler[w].at
  BY DEF DetailInv, RowsInv, DetailRequest
<1>4. handler' = [handler EXCEPT ![w] = q]
  BY <1>1
<1> HIDE DEF q
<1>5. \A v \in Handlers : handler'[v] = IF v = w THEN q ELSE handler[v]
  BY <1>4 DEF DetailInv, RowsInv
<1>6. RowsInv'
  BY <1>2, <1>3, <1>4 DEF DetailInv, RowsInv, rowVars, AllItems
<1>7. LinesInv' /\ TicksInv'
  <2>1. handler[w].pc # "log" /\ q.pc # "log" /\ q.pc # "item"
    BY <1>1, <1>3
  <2>2. UNCHANGED <<did, logged, bent, used, checked>> /\ AllItems' = AllItems
    BY <1>2 DEF rowVars, AllItems
  <2>3. LinesInv'
    BY <1>3, <1>4, <2>1, <2>2, LinesKept
  <2>4. TicksInv'
    BY <1>3, <1>4, <2>1, <2>2, TicksKept
  <2>5. QED
    BY <2>3, <2>4
<1>8. CoverInv'
  <2>1. UNCHANGED <<files, cover, bent>>
    BY <1>2 DEF rowVars
  <2>2. ASSUME NEW v \in Handlers PROVE Chooses(v)'
    <3>1. CASE v = w
      BY <1>1, <1>3, <1>5, <2>1, <3>1 DEF Chooses, DetailInv, CoverInv
    <3>2. CASE v # w
      BY <1>5, <2>1, <3>2 DEF Chooses, DetailInv, CoverInv
    <3>3. QED
      BY <3>1, <3>2
  <2>3. QED
    BY <2>1, <2>2 DEF DetailInv, CoverInv
<1>9. QED
  BY <1>6, <1>7, <1>8 DEF DetailInv

\* At the commit nothing is left to write, so every attachment but the chosen one is cleared.
LEMMA CommitStep ==
    ASSUME DetailInv, NEW w \in Handlers, CommitCover(w)
    PROVE  DetailInv'
<1>1. /\ handler[w].pc = "clearing" /\ handler[w].todo = {}
      /\ cover' = IF handler[w].at \subseteq files
                  THEN (cover \ handler[w].held) \cup handler[w].at ELSE cover
      /\ handler' = [handler EXCEPT ![w] = Unused]
      /\ UNCHANGED <<checklists, items, checked, notes, files, used, did, logged, bent>>
  BY DEF CommitCover, Answers
<1>2. RowsInv'
  BY <1>1, UnusedRests DEF DetailInv, RowsInv, AllItems
<1>3. LinesInv'
  BY <1>1, UnusedRests, LinesKept
<1>4. TicksInv'
  BY <1>1, UnusedRests, TicksKept DEF AllItems
<1>5. CoverInv'
  <2>1. ASSUME NEW v \in Handlers PROVE Chooses(v)'
    <3>1. handler'[v] = IF v = w THEN Unused ELSE handler[v]
      BY <1>1 DEF DetailInv, RowsInv
    <3>2. QED
      BY <1>1, <3>1, UnusedRests DEF Chooses, DetailInv, CoverInv
  <2>2. ASSUME "cover" \notin bent', NEW f \in cover', NEW g \in cover' PROVE f = g
    <3>1. /\ \A x, y \in handler[w].at : x = y
          /\ files \ handler[w].at \subseteq handler[w].held
          /\ cover \subseteq files /\ \A x, y \in cover : x = y
      BY <1>1, <2>2 DEF DetailInv, RowsInv, CoverInv, Chooses
    <3>2. QED
      BY <1>1, <2>2, <3>1
  <2>3. QED
    BY <2>1, <2>2 DEF CoverInv
<1>6. QED
  BY <1>2, <1>3, <1>4, <1>5 DEF DetailInv

\* Every step keeps the invariant.
LEMMA DetailStep == DetailInv /\ [DetailNext]_detailVars => DetailInv'
<1> SUFFICES ASSUME DetailInv, [DetailNext]_detailVars PROVE DetailInv'
  OBVIOUS
<1>1. ASSUME NEW w \in Handlers, DeadlockBroken(w) PROVE DetailInv'
  <2>1. handler[w].pc # "log"
    BY <1>1 DEF DeadlockBroken, Waits
  <2>2. QED
    BY <1>1, <2>1, EndStep DEF DeadlockBroken
<1>2. CASE DetailNext
  BY <1>1, <1>2, BeginStep, ChecklistStep, InsertStep, MakeStep, RecordStep, ReadItemStep,
     WriteItemStep, DeleteStep, ClearCoverStep, ChooseStep, CommitStep
     DEF DetailNext
<1>3. CASE UNCHANGED detailVars
  <2>1. UNCHANGED <<checklists, items, checked, notes, files, cover, used, handler, did, logged,
                    bent>>
    BY <1>3 DEF detailVars
  <2>2. RowsInv'
    BY <2>1 DEF DetailInv, RowsInv, AllItems
  <2>3. CoverInv'
    BY <2>1 DEF DetailInv, CoverInv, Chooses
  <2>4. LinesInv'
    BY <2>1 DEF DetailInv, LinesInv, Logging
  <2>5. TicksInv'
    BY <2>1 DEF DetailInv, TicksInv, Reads, AllItems
  <2>6. QED
    BY <2>2, <2>3, <2>4, <2>5 DEF DetailInv
<1>4. QED
  BY <1>2, <1>3

\* The empty card and the slots at rest.
LEMMA DetailStart == DetailInit => DetailInv
<1> SUFFICES ASSUME DetailInit PROVE DetailInv
  OBVIOUS
<1>1. RowsInv
  BY UnusedRests DEF DetailInit, RowsInv, AllItems
<1>2. CoverInv /\ TicksInv
  BY UnusedRests DEF DetailInit, CoverInv, Chooses, TicksInv, Reads
<1>3. LinesInv
  <2>1. \A k : Logging(k) = {}
    BY UnusedRests DEF DetailInit, Logging
  <2>2. QED
    BY <2>1, UnusedRests, FS_EmptySet DEF DetailInit, LinesInv
<1>4. QED
  BY <1>1, <1>2, <1>3 DEF DetailInv

-----------------------------------------------------------------------------
\* However many requests choose, add and delete attachments at once, and whichever Postgres
\* ends: no card has two covers, unless an attachment was added while one was being chosen.
THEOREM CoverUnique == DetailSpec => []OneCover
<1>1. DetailInv => OneCover
  <2> SUFFICES ASSUME DetailInv, "cover" \notin bent PROVE Cardinality(cover) <= 1
    BY DEF OneCover
  <2>1. \A f, g \in cover : f = g
    BY DEF DetailInv, CoverInv
  <2>2. CASE cover = {}
    BY <2>2, FS_EmptySet
  <2>3. CASE cover # {}
    <3>1. PICK f : cover = {f}
      BY <2>1, <2>3
    <3>2. QED
      BY <3>1, FS_Singleton
  <2>4. QED
    BY <2>2, <2>3
<1>2. QED
  BY DetailStart, DetailStep, <1>1, PTL DEF DetailSpec

\* The log never has more lines than things were done, and has one for each once no request is
\* about to write one, unless a line failed or two requests had read the same item.
THEOREM LinePerChange == DetailSpec => []OneLineEach
<1>1. DetailInv => OneLineEach
  <2> SUFFICES ASSUME DetailInv, NEW k \in Kinds \ bent
               PROVE  logged[k] <= did[k] /\ (Settled(k) => logged[k] = did[k])
    BY DEF OneLineEach
  <2>1. /\ IsFiniteSet(Logging(k)) /\ did[k] = logged[k] + Cardinality(Logging(k))
        /\ logged[k] \in Nat
    BY DEF DetailInv, LinesInv, RowsInv
  <2>2. Cardinality(Logging(k)) \in Nat
    BY <2>1, FS_CardinalityType
  <2>3. Settled(k) => Logging(k) = {}
    BY DEF Settled, Logging
  <2>4. QED
    BY <2>1, <2>2, <2>3, FS_EmptySet
<1>2. QED
  BY DetailStart, DetailStep, <1>1, PTL DEF DetailSpec
=============================================================================
