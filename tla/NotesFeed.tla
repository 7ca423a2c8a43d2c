------------------------------ MODULE NotesFeed ------------------------------
(***************************************************************************)
(* The notes of all cards of a board, newest first (notesFeed of           *)
(* board-agenda.service): a client reads them in pages, each going on      *)
(* before the creation time of the last note it has, while notes are       *)
(* written and deleted, and cards leave the board and come back.  Content  *)
(* is left out, and with it editing: it keeps the creation time.           *)
(***************************************************************************)
EXTENDS Naturals, FiniteSets

CONSTANTS FeedCards,
          NoteIds,          \* a set of numbers: the order of the ids, which are random
          NoNote,
          FeedLimit,        \* the limit of the query
          MaxFeedTime,      \* bound on the clock
          MaxFeedWrites     \* bound on the requests

ASSUME NotesFeedAssumption ==
  /\ NoteIds \subseteq Nat /\ FeedLimit \in Nat \ {0}
  /\ MaxFeedTime \in Nat /\ MaxFeedWrites \in Nat

VARIABLES taskNote,   \* rows of task_notes: card and creation time
          onBoard,    \* cards on the board that are not deleted
          feed,       \* a client that reads the feed
          feedClock, feedWrites

feedVars == <<taskNote, onBoard, feed, feedClock, feedWrites>>

Exist == {n \in NoteIds : taskNote[n] # NoNote}
\* For the property: the notes seen, those seen again, those that were there since the
\* feed was opened, and the creation times of the last notes of the pages.
NoFeed == [pc |-> "rest", before |-> 0, seen |-> {}, again |-> {}, stays |-> {}, ends |-> {}]

NotesFeedInit ==
  /\ taskNote = [n \in NoteIds |-> NoNote] /\ onBoard = FeedCards
  /\ feed = NoFeed /\ feedClock = 1 /\ feedWrites = 0

-----------------------------------------------------------------------------
(* The page: one row more than asked for says whether another one follows. *)
Visible == {n \in Exist : taskNote[n].card \in onBoard}
NewerNote(n, m) == \/ taskNote[n].at > taskNote[m].at
                   \/ taskNote[n].at = taskNote[m].at /\ n > m
FirstOf(S, k) == {n \in S : Cardinality({m \in S : NewerNote(m, n)}) < k}
Earliest(S) == CHOOSE t \in {taskNote[n].at : n \in S} : \A n \in S : t <= taskNote[n].at

\* 0 is no cursor: the first page.
Older(before) == {n \in Visible : before = 0 \/ taskNote[n].at < before}
findNotesOnBoard(before, take) == FirstOf(Older(before), take)

nextCursor_FromExtra(rows) ==
  IF Cardinality(rows) > FeedLimit THEN Earliest(rows) ELSE 0
nextCursor(rows) ==
  IF Cardinality(rows) > FeedLimit THEN Earliest(FirstOf(rows, FeedLimit)) ELSE 0

OpenFeed ==
  /\ feed.pc = "rest"
  /\ feed' = [NoFeed EXCEPT !.pc = "next", !.stays = Visible]
  /\ UNCHANGED <<taskNote, onBoard, feedClock, feedWrites>>
notesFeed ==
  /\ feed.pc = "next"
  /\ LET rows == findNotesOnBoard(feed.before, FeedLimit + 1)
         shown == FirstOf(rows, FeedLimit)
     IN feed' = [feed EXCEPT !.pc = IF nextCursor(rows) = 0 THEN "done" ELSE "next",
                             !.before = nextCursor(rows), !.seen = @ \cup shown,
                             !.again = @ \cup (feed.seen \cap shown),
                             !.ends = IF shown = {} THEN @ ELSE @ \cup {Earliest(shown)}]
  /\ UNCHANGED <<taskNote, onBoard, feedClock, feedWrites>>

-----------------------------------------------------------------------------
\* POST and DELETE of a note; the card was found on the way.  That the id of a note that
\* is gone may come back, which it does not in the code, only adds behaviours.
insertNote ==
  \E c \in onBoard, n \in NoteIds \ Exist :
    taskNote' = [taskNote EXCEPT ![n] = [card |-> c, at |-> feedClock]] /\ UNCHANGED onBoard
removeNote ==
  \E n \in Visible : taskNote' = [taskNote EXCEPT ![n] = NoNote] /\ UNCHANGED onBoard

\* A card is deleted or moves to another project, and comes back.
LeaveBoard == \E c \in onBoard : onBoard' = onBoard \ {c} /\ UNCHANGED taskNote
ComeBack == \E c \in FeedCards \ onBoard : onBoard' = onBoard \cup {c} /\ UNCHANGED taskNote

FeedChanges ==
  /\ feedWrites < MaxFeedWrites /\ feedWrites' = feedWrites + 1
  /\ insertNote \/ removeNote \/ LeaveBoard \/ ComeBack
  /\ feed' = [feed EXCEPT !.stays = {n \in @ : n \in Visible' /\ taskNote'[n] = taskNote[n]}]
  /\ UNCHANGED feedClock

FeedTick ==
  /\ feedClock < MaxFeedTime /\ feedClock' = feedClock + 1
  /\ UNCHANGED <<taskNote, onBoard, feed, feedWrites>>

NotesFeedNext == OpenFeed \/ notesFeed \/ FeedChanges \/ FeedTick

NotesFeedSpec == NotesFeedInit /\ [][NotesFeedNext]_feedVars

-----------------------------------------------------------------------------
(* Whoever scrolls to the end of the feed has seen every note that was     *)
(* there throughout, whatever came and went, and no page repeats a note    *)
(* ("so that a note added while scrolling does not make the next page      *)
(* repeat old lines") -- except notes of the very instant at which a page  *)
(* ended: the next one goes on before that instant.                        *)
FeedSkipsOnlyTies ==
  /\ feed.again = {}
  /\ feed.pc = "done" => \A n \in feed.stays \ feed.seen : taskNote[n].at \in feed.ends
=============================================================================
