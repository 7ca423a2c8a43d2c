------------------------------ MODULE Columns ------------------------------
(***************************************************************************)
(* Where the cards of one board stand (position.service, board-card and    *)
(* board-list services): every card has a column, its list or the Inbox,   *)
(* and a position.  A route reads positions, decides, and writes by card   *)
(* id later; nothing keeps positions apart.  A column is read in pages,    *)
(* each starting after the last position of the one before.                *)
(***************************************************************************)
EXTENDS Naturals, Sequences, FiniteSets, SequencesExt

CONSTANTS Lists, Inbox,
          Gap, MinGap,       \* POSITION_GAP, MIN_POSITION_GAP, in units well below MinGap
          StartAt,           \* positions that earlier requests may have left
          Requests,          \* requests that may run at once
          Limit,             \* cards on a page
          MaxCards, MaxCardWrites   \* bounds on the cards and the requests

ASSUME ColumnsAssumption ==
  /\ Inbox \notin Lists
  /\ Gap \in Nat \ {0} /\ MinGap \in Nat \ {0, 1} /\ MinGap < Gap
  /\ StartAt \subseteq Nat \ {0}
  /\ Limit \in Nat \ {0} /\ MaxCards \in Nat /\ MaxCardWrites \in Nat

VARIABLES row,        \* tasks on the board, in the order of creation
          request,    \* the requests
          overtaken,  \* history: requests under way while another one wrote a card
          page,       \* a client that reads a column page by page
          writes

columnsVars == <<row, request, overtaken, page, writes>>

Columns == Lists \cup {Inbox}

AtRest == [pc |-> "rest", card |-> {}, to |-> Inbox, want |-> 0, beside |-> {}, order |-> <<>>]
NoPage == [pc |-> "rest", column |-> Inbox, cursor |-> 0, cursors |-> {}, seen |-> {},
           again |-> {}, stays |-> {}]

Cards == DOMAIN row
In(column) == {c \in Cards : row[c].live /\ row[c].column = column}
Before(c, d) == \/ row[c].position < row[d].position
                \/ row[c].position = row[d].position /\ c < d

ColumnsInit ==
  /\ \E there \in 0..MaxCards :
       row \in [1..there -> [column : Columns, position : StartAt, live : {TRUE}]]
  /\ request = [w \in Requests |-> AtRest]
  /\ overtaken = {} /\ page = NoPage /\ writes = 0

Begins(w) == request[w].pc = "rest" /\ writes < MaxCardWrites /\ writes' = writes + 1
Ends(w) == request' = [request EXCEPT ![w] = AtRest]
Make(column, position) ==
  /\ Len(row) < MaxCards
  /\ row' = Append(row, [column |-> column, position |-> position, live |-> TRUE])
Largest(S) == CHOOSE n \in S : \A m \in S : m <= n
Smallest(S) == CHOOSE n \in S : \A m \in S : n <= m

-----------------------------------------------------------------------------
(* Cards that are made: POST in a column, or the next occurrence of a      *)
(* repeating card, after the last one, in two queries, or where the body   *)
(* says; POST /tasks and mail leave the position to the column's default.  *)
lastPositionInList(column) ==
  IF In(column) = {} THEN 0 ELSE Largest({row[c].position : c \in In(column)})

CreateReads(w) ==
  /\ Begins(w)
  /\ \E column \in Columns :
       request' = [request EXCEPT ![w] = [AtRest EXCEPT !.pc = "insert", !.to = column,
                                          !.want = lastPositionInList(column) + Gap]]
  /\ UNCHANGED row
CreateWrites(w) ==
  /\ request[w].pc = "insert"
  /\ Make(request[w].to, request[w].want)
  /\ Ends(w)
  /\ UNCHANGED writes
CreateAt(w) ==
  /\ Begins(w)
  /\ \E column \in Columns, position \in StartAt : Make(column, position)
  /\ UNCHANGED request
CreateUnplaced(w) ==
  /\ Begins(w)
  /\ Make(Inbox, Gap)
  /\ UNCHANGED request

-----------------------------------------------------------------------------
(* Dragging a card: resolveCardPosition, then the update. *)
neighboursAt(card, column, position) ==
  {c \in In(column) \ {card} : row[c].position >= position}

Midpoint(p, q) == (p + q) \div 2
HasRoom_Tie(p, q) == TRUE
HasRoom(p, q) == Midpoint(p, q) - p >= MinGap /\ q - Midpoint(p, q) >= MinGap

\* A free slot is taken as it is; a taken one moves the card on, half way to the next.
MoveReads(w) ==
  /\ Begins(w)
  /\ \E card \in Cards, column \in Columns, asked \in StartAt \cup {Gap} :
       LET there == neighboursAt(card, column, asked)
           occupants == {c \in there : row[c].position = asked}
           Goes(pc, want, beside) ==
             request' = [request EXCEPT ![w] = [AtRest EXCEPT !.pc = pc, !.card = {card},
                          !.to = column, !.want = want, !.beside = beside]]
       IN /\ row[card].live
          /\ \/ occupants = {} /\ Goes("place", asked, {})
             \/ \E o \in occupants :
                  LET after == {row[c].position : c \in there \ {o}}
                  IN IF after = {} THEN Goes("place", asked + Gap, {o})
                     ELSE IF HasRoom(asked, Smallest(after))
                          THEN Goes("place", Midpoint(asked, Smallest(after)), {o})
                          ELSE Goes("renumber", 0, {o})
  /\ UNCHANGED row

\* PATCH of the card: the list must still be on the board, and lists are never deleted.
MoveWrites(w) ==
  /\ request[w].pc = "place"
  /\ row' = [c \in Cards |-> IF c \in request[w].card
                             THEN [row[c] EXCEPT !.column = request[w].to,
                                                 !.position = request[w].want]
                             ELSE row[c]]
  /\ Ends(w)
  /\ UNCHANGED writes

(* rebalanceCards: the column is read in order, each card with its place in *)
(* it, and written by card id.                                             *)
Rank(S, c) == Cardinality({d \in S : Before(d, c)})
cardPositions_ByAge(column) ==
  [c \in In(column) |-> Cardinality({d \in In(column) : d < c}) + 1]
cardPositions(column) == [c \in In(column) |-> Rank(In(column), c) + 1]

RebalanceRequest(w) ==
  /\ Begins(w)
  /\ \E column \in Columns :
       request' = [request EXCEPT ![w] = [AtRest EXCEPT !.pc = "renumber", !.to = column]]
  /\ UNCHANGED row
RenumberReads(w) ==
  /\ request[w].pc = "renumber"
  /\ request' = [request EXCEPT ![w].pc = "write", ![w].order = cardPositions(request[w].to)]
  /\ UNCHANGED <<row, writes>>

\* The move goes on, half way before the card that had the slot; it fails when that one
\* had left the column.
RenumberWrites(w) ==
  /\ request[w].pc = "write"
  /\ LET order == request[w].order
     IN /\ row' = [c \in Cards |-> IF c \in DOMAIN order
                                   THEN [row[c] EXCEPT !.position = order[c] * Gap]
                                   ELSE row[c]]
        /\ \/ /\ request[w].beside \cap DOMAIN order = {}
              /\ Ends(w)
           \/ \E o \in request[w].beside \cap DOMAIN order :
                request' = [request EXCEPT ![w].pc = "place", ![w].order = <<>>,
                             ![w].want = Midpoint((order[o] - 1) * Gap, order[o] * Gap)]
  /\ UNCHANGED writes

-----------------------------------------------------------------------------
(* The writes that keep the position: completing a card puts it in the     *)
(* done list, archiving a list puts its cards in the Inbox, a card is      *)
(* deleted and restored.                                                   *)
complete(w) ==
  /\ Begins(w)
  /\ \E c \in Cards, done \in Lists : row[c].live /\ row' = [row EXCEPT ![c].column = done]
  /\ UNCHANGED request
archiveListAndReleaseCards(w) ==
  /\ Begins(w)
  /\ \E l \in Lists : row' = [c \in Cards |-> IF row[c].column = l
                                             THEN [row[c] EXCEPT !.column = Inbox] ELSE row[c]]
  /\ UNCHANGED request
remove(w) ==
  /\ Begins(w)
  /\ \E c \in Cards : row[c].live /\ row' = [row EXCEPT ![c].live = FALSE]
  /\ UNCHANGED request
restore(w) ==
  /\ Begins(w)
  /\ \E c \in Cards : ~row[c].live /\ row' = [row EXCEPT ![c].live = TRUE]
  /\ UNCHANGED request

-----------------------------------------------------------------------------
(* A client reads a column, from the first page to one that is not full: a *)
(* page is the rows with fewer than Limit others before them.              *)
After(column, cursor) == {c \in In(column) : row[c].position > cursor}
pageOfList_ByAge(column, cursor) ==
  LET rows == After(column, cursor)
  IN {c \in rows : Cardinality({d \in rows : d < c}) < Limit}
pageOfList(column, cursor) ==
  LET rows == After(column, cursor) IN {c \in rows : Rank(rows, c) < Limit}

OpenColumn ==
  /\ page.pc = "rest"
  /\ \E column \in Columns :
       page' = [NoPage EXCEPT !.pc = "next", !.column = column, !.stays = In(column)]
  /\ UNCHANGED <<row, request, overtaken, writes>>
NextPage ==
  /\ page.pc = "next"
  /\ LET rows == pageOfList(page.column, page.cursor)
         last == Largest({row[c].position : c \in rows})
         read == [page EXCEPT !.seen = @ \cup rows, !.again = @ \cup (page.seen \cap rows)]
     IN page' = IF Cardinality(rows) < Limit
                THEN [read EXCEPT !.pc = "done"]
                ELSE [read EXCEPT !.cursor = last, !.cursors = @ \cup {last}]
  /\ UNCHANGED <<row, request, overtaken, writes>>

\* A step of a request, and what it spoils for the others and for the client.
Writes(w) ==
  /\ \/ CreateReads(w) \/ CreateWrites(w) \/ CreateAt(w) \/ CreateUnplaced(w)
     \/ MoveReads(w) \/ MoveWrites(w)
     \/ RebalanceRequest(w) \/ RenumberReads(w) \/ RenumberWrites(w)
     \/ complete(w) \/ archiveListAndReleaseCards(w) \/ remove(w) \/ restore(w)
  /\ overtaken' = {v \in Requests : /\ request'[v].pc # "rest"
                                    /\ v \in overtaken \/ (v # w /\ row' # row)}
  /\ page' = [page EXCEPT !.stays = {c \in @ : row'[c] = row[c]}]

ColumnsNext == (\E w \in Requests : Writes(w)) \/ OpenColumn \/ NextPage

ColumnsSpec == ColumnsInit /\ [][ColumnsNext]_columnsVars

-----------------------------------------------------------------------------
(* A card that is dragged onto a taken slot gets a position of its own     *)
(* next to the card that has the slot, with no third card between them,    *)
(* unless another request wrote cards meanwhile ("nudged to the nearest    *)
(* free value"): ties left by earlier requests and collapsed gaps are      *)
(* renumbered away first.                                                  *)
LandsBeside(w) ==
  \A c \in request[w].card, o \in request[w].beside :
    LET Others == {d \in Cards \ {c} : row'[d].live /\ row'[d].column = row'[c].column}
        p == row'[c].position
        q == row'[o].position
    IN \A d \in Others : /\ row'[d].position # p
                         /\ ~(p < row'[d].position /\ row'[d].position < q)
                         /\ ~(q < row'[d].position /\ row'[d].position < p)
DragsLandBeside ==
  [][\A w \in Requests :
       request[w].pc = "place" /\ request'[w].pc = "rest" /\ w \notin overtaken
         => LandsBeside(w)]_columnsVars

(* Renumbering a column, alone, leaves its cards in the order in which     *)
(* they are shown ("preserving the current order"), ties included, and     *)
(* apart.                                                                  *)
RenumberingKeepsOrder ==
  [][\A w \in Requests :
       request[w].pc = "write" /\ request'[w].pc # "write" /\ w \notin overtaken
         => \A c, d \in In(request[w].to) :
              Before(c, d) => row'[c].position < row'[d].position]_columnsVars

(* A client that pages through a column sees each card that stays where it *)
(* is, once, whatever else moves ("an offset would skip or repeat rows the *)
(* moment anything moved"), unless the card has the position of the last   *)
(* card of a page.                                                         *)
PagesSkipOnlyTies ==
  page.pc = "done" => /\ page.stays \cap page.again = {}
                      /\ \A c \in page.stays \ page.seen : row[c].position \in page.cursors

(* The same without the exception. *)
PagesShowAll == page.pc = "done" => page.stays \subseteq page.seen
=============================================================================
