----------------------------- MODULE CardDetail -----------------------------
(***************************************************************************)
(* What hangs on one card (card-detail.service): its checklists, notes and *)
(* attachments, and the activity log.  Every route reads the row it is     *)
(* about, writes it by id in a later statement, and may then write a line  *)
(* of the log, all without a transaction; choosing the cover is the one    *)
(* transaction, under READ COMMITTED.  Names, contents and positions are   *)
(* left out: no step depends on them, and positions are those of Columns.  *)
(***************************************************************************)
EXTENDS Naturals, FiniteSets

CONSTANTS Checklists, Items, Notes, Files,    \* ids, each used once
          Handlers,                           \* requests that may run at once
          MaxDetailWrites                     \* bound on the requests

ASSUME DetailAssumption == MaxDetailWrites \in Nat

VARIABLES checklists,    \* checklists there are
          items,         \* items there are, by checklist
          checked,       \* items that are ticked
          notes,         \* notes there are
          files, cover,  \* attachments there are, and those with isCover
          used,          \* ids already given out
          handler,       \* the requests
          did, logged,   \* history: ticks, notes and attachments made, and their log lines
          bent,          \* history: kinds whose log a race or a failure may have bent, and
                         \* "cover" once an attachment was added while a cover was chosen
          handled

detailVars == <<checklists, items, checked, notes, files, cover, used, handler, did, logged,
                bent, handled>>
rowVars    == <<checklists, items, checked, notes, files, cover>>

Kinds == {"tick", "note", "file"}

\* "at" holds the row the request is about, "want" and "tick" what it has computed; a
\* cover transaction has "todo" rows still to clear and has locked those in "held".
Unused == [pc |-> "rest", at |-> {}, want |-> "none", tick |-> FALSE, todo |-> {}, held |-> {}]

DetailInit ==
  /\ checklists = {} /\ items = [c \in Checklists |-> {}] /\ checked = {}
  /\ notes = {} /\ files = {} /\ cover = {} /\ used = {}
  /\ handler = [w \in Handlers |-> Unused]
  /\ did = [k \in Kinds |-> 0] /\ logged = [k \in Kinds |-> 0]
  /\ bent = {} /\ handled = 0

AllItems == UNION {items[c] : c \in Checklists}

\* A row that another request's transaction has written waits for its end.
Free(w, x) == \A v \in Handlers \ {w} : x \notin handler[v].held

\* A request on a row that is found; the guards answer 404 for any other.
BeginsOn(w, x, pc, want) ==
  /\ handler[w].pc = "rest" /\ handled < MaxDetailWrites /\ handled' = handled + 1
  /\ handler' = [handler EXCEPT ![w].pc = pc, ![w].at = {x}, ![w].want = want]

Answers(w) == handler' = [handler EXCEPT ![w] = Unused]
Logs(w, kind) ==
  /\ did' = [did EXCEPT ![kind] = @ + 1]
  /\ handler' = [handler EXCEPT ![w] = [Unused EXCEPT !.pc = "log", !.want = kind]]

-----------------------------------------------------------------------------
(* Rows that are made: the insert, then the line of the log. *)
createChecklist(w) ==
  /\ handler[w].pc = "rest" /\ handled < MaxDetailWrites /\ handled' = handled + 1
  /\ \E c \in Checklists \ used : checklists' = checklists \cup {c} /\ used' = used \cup {c}
  /\ UNCHANGED <<items, checked, notes, files, cover, handler, did, logged, bent>>

\* The checklist was found; the insert fails when it has gone since.
createChecklistItem(w) ==
  /\ \E c \in checklists : BeginsOn(w, c, "newItem", "none")
  /\ UNCHANGED <<rowVars, used, did, logged, bent>>
InsertItem(w) ==
  /\ handler[w].pc = "newItem"
  /\ \E c \in handler[w].at :
       \/ /\ c \in checklists
          /\ \E i \in Items \ used :
               items' = [items EXCEPT ![c] = @ \cup {i}] /\ used' = used \cup {i}
       \/ (c \notin checklists \/ Items \subseteq used) /\ UNCHANGED <<items, used>>
  /\ Answers(w)
  /\ UNCHANGED <<checklists, checked, notes, files, cover, did, logged, bent, handled>>

createNote(w) ==
  /\ handler[w].pc = "rest" /\ handled < MaxDetailWrites /\ handled' = handled + 1
  /\ \E n \in Notes \ used : notes' = notes \cup {n} /\ used' = used \cup {n}
  /\ Logs(w, "note")
  /\ UNCHANGED <<checklists, items, checked, files, cover, logged, bent>>

createAttachment(w) ==
  /\ handler[w].pc = "rest" /\ handled < MaxDetailWrites /\ handled' = handled + 1
  /\ \E f \in Files \ used : files' = files \cup {f} /\ used' = used \cup {f}
  /\ Logs(w, "file")
  /\ bent' = IF \E v \in Handlers : handler[v].pc = "clearing"
                THEN bent \cup {"cover"} ELSE bent
  /\ UNCHANGED <<checklists, items, checked, notes, cover, logged>>

\* activity.record: the row is written already when it fails.
record(w) ==
  /\ handler[w].pc = "log"
  /\ \/ logged' = [logged EXCEPT ![handler[w].want] = @ + 1] /\ UNCHANGED bent
     \/ bent' = bent \cup {handler[w].want} /\ UNCHANGED logged
  /\ Answers(w)
  /\ UNCHANGED <<rowVars, used, did, handled>>

-----------------------------------------------------------------------------
(* updateChecklistItem: "checking" is decided on the item as it was read. *)
Checking_Again(want, i) == want = "tick"
Checking(want, i) == want = "tick" /\ i \notin checked

updateChecklistItem(w) ==
  /\ \E i \in AllItems, want \in {"tick", "untick", "replay"} :
       /\ handler[w].pc = "rest" /\ handled < MaxDetailWrites /\ handled' = handled + 1
       /\ handler' = [handler EXCEPT ![w] = [Unused EXCEPT !.pc = "item", !.at = {i},
                                             !.want = want, !.tick = Checking(want, i)]]
  /\ UNCHANGED <<rowVars, used, did, logged, bent>>

\* The tick is history's when it turned the row; "replay" is a tick sent with undo.
WriteItem(w) ==
  /\ handler[w].pc = "item"
  /\ \E i \in handler[w].at :
       \/ i \notin AllItems /\ Answers(w) /\ UNCHANGED <<checked, did, bent>>
       \/ /\ i \in AllItems
          /\ LET ticks == handler[w].want = "tick" /\ i \notin checked
             IN did' = IF ticks THEN [did EXCEPT !["tick"] = @ + 1] ELSE did
          /\ checked' = IF handler[w].want = "untick" THEN checked \ {i} ELSE checked \cup {i}
          /\ bent' = IF \E v \in Handlers \ {w} : handler[v].pc = "item" /\ i \in handler[v].at
                     THEN bent \cup {"tick"} ELSE bent
          /\ IF handler[w].tick
             THEN handler' = [handler EXCEPT ![w] =
                                [Unused EXCEPT !.pc = "log", !.want = "tick"]]
             ELSE Answers(w)
  /\ UNCHANGED <<checklists, items, notes, files, cover, used, logged, handled>>

-----------------------------------------------------------------------------
(* The other routes: find the row, then delete it by id.  Renaming a       *)
(* checklist and editing a note change no row here.                        *)
deleteRow(w) ==
  /\ \E x \in checklists \cup AllItems \cup notes \cup files : BeginsOn(w, x, "delete", "none")
  /\ UNCHANGED <<rowVars, used, did, logged, bent>>

\* The items of a checklist go with it; a row that has gone already is a 500.
DeleteFound(w) ==
  /\ handler[w].pc = "delete"
  /\ \A x \in handler[w].at : Free(w, x)
  /\ LET lost == handler[w].at \cup UNION {items[c] : c \in Checklists \cap handler[w].at}
     IN /\ checklists' = checklists \ lost
        /\ items' = [c \in Checklists |-> items[c] \ lost] /\ checked' = checked \ lost
        /\ notes' = notes \ lost
        /\ files' = files \ lost /\ cover' = cover \ lost
  /\ Answers(w)
  /\ UNCHANGED <<used, did, logged, bent, handled>>

-----------------------------------------------------------------------------
(* updateAttachment with isCover. *)
updateAttachment(w) ==
  /\ \E f \in files : BeginsOn(w, f, "cover", "none") \/ BeginsOn(w, f, "uncover", "none")
  /\ UNCHANGED <<rowVars, used, did, logged, bent>>

clearCover(w) ==
  /\ handler[w].pc = "uncover"
  /\ \A f \in handler[w].at : Free(w, f)
  /\ cover' = cover \ handler[w].at
  /\ Answers(w)
  /\ UNCHANGED <<checklists, items, checked, notes, files, used, did, logged, bent, handled>>

\* updateMany writes every other attachment of the card, whether it is the cover or not.
Others_Covers(chosen) == cover \ chosen
Others(chosen) == files \ chosen

setCover(w) ==
  /\ handler[w].pc = "cover"
  /\ handler' = [handler EXCEPT ![w].pc = "clearing", ![w].todo = Others(handler[w].at)]
  /\ UNCHANGED <<rowVars, used, did, logged, bent, handled>>

\* One row of the updateMany: locked, and false once the transaction commits.
ClearRow(w) ==
  /\ handler[w].pc = "clearing"
  /\ \E f \in handler[w].todo :
       /\ Free(w, f)
       /\ handler' = [handler EXCEPT ![w].todo = @ \ {f}, ![w].held = @ \cup ({f} \cap files)]
  /\ UNCHANGED <<rowVars, used, did, logged, bent, handled>>

\* The chosen row, and the commit; nothing is written when it has been deleted.
CommitCover(w) ==
  /\ handler[w].pc = "clearing" /\ handler[w].todo = {}
  /\ \A f \in handler[w].at : Free(w, f)
  /\ cover' = IF handler[w].at \subseteq files
              THEN (cover \ handler[w].held) \cup handler[w].at ELSE cover
  /\ Answers(w)
  /\ UNCHANGED <<checklists, items, checked, notes, files, used, did, logged, bent, handled>>

\* Postgres ends one of two transactions that wait for each other, here w.
Waits(w, v) == /\ handler[w].pc = "clearing"
               /\ \/ handler[w].todo # {} /\ handler[w].todo \subseteq handler[v].held
                  \/ handler[w].todo = {} /\ handler[w].at \subseteq handler[v].held
DeadlockBroken(w) ==
  /\ \E v \in Handlers : Waits(w, v) /\ Waits(v, w)
  /\ Answers(w)
  /\ UNCHANGED <<rowVars, used, did, logged, bent, handled>>

DetailNext ==
  \E w \in Handlers :
    \/ createChecklist(w) \/ createChecklistItem(w) \/ InsertItem(w) \/ createNote(w)
    \/ createAttachment(w) \/ record(w) \/ updateChecklistItem(w) \/ WriteItem(w)
    \/ deleteRow(w) \/ DeleteFound(w) \/ updateAttachment(w) \/ clearCover(w) \/ setCover(w)
    \/ ClearRow(w) \/ CommitCover(w) \/ DeadlockBroken(w)

DetailSpec == DetailInit /\ [][DetailNext]_detailVars

-----------------------------------------------------------------------------
(* However requests that choose a cover overlap, with each other and with  *)
(* deletions, the card never shows two ("exactly one cover per card"): the *)
(* row locks order the transactions.  They order those that see the same   *)
(* rows: an attachment added while a cover is being chosen may become a    *)
(* second one.                                                             *)
OneCover == "cover" \in bent \/ Cardinality(cover) <= 1

(* The log has one line for each item that was ticked and each note and    *)
(* attachment that was made ("ticking an item ... writes one activity      *)
(* line"), a retried tick too, unless the line failed or two requests had  *)
(* read the same item.                                                     *)
Settled(kind) == \A w \in Handlers : ~(handler[w].pc = "log" /\ handler[w].want = kind)
OneLineEach ==
  \A k \in Kinds \ bent : logged[k] <= did[k] /\ (Settled(k) => logged[k] = did[k])
=============================================================================
