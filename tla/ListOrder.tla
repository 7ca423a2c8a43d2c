----------------------------- MODULE ListOrder -----------------------------
(***************************************************************************)
(* Where the columns of a board stand (board-list.service, and in          *)
(* position.service resolveListPosition): the rule of the cards, applied   *)
(* to the lists.  They are renumbered one query at a time, and no          *)
(* transaction keeps a request that dies half way from leaving some behind. *)
(***************************************************************************)
EXTENDS Columns

CONSTANTS Movers,                 \* requests that may run at once
          MaxLists, MaxListWrites \* bounds on the lists and the requests

ASSUME ListOrderAssumption == MaxLists \in Nat /\ MaxListWrites \in Nat

VARIABLES listAt,    \* the positions of the lists, in the order of creation
          mover,     \* the requests
          cutIn,     \* history: requests under way while another one wrote, or died writing
          listWrites

listOrderVars == <<listAt, mover, cutIn, listWrites>>

NoMove == [pc |-> "rest", list |-> {}, want |-> 0, order |-> <<>>, slot |-> 0, next |-> 1]

ListOrderInit ==
  /\ \E there \in 0..MaxLists : listAt \in [1..there -> StartAt]
  /\ mover = [w \in Movers |-> NoMove]
  /\ cutIn = {} /\ listWrites = 0

Starts(w) == mover[w].pc = "rest" /\ listWrites < MaxListWrites /\ listWrites' = listWrites + 1

-----------------------------------------------------------------------------
\* POST of a list: after the last one, in two queries, or where the body says.
lastListPosition == IF listAt = <<>> THEN 0 ELSE Largest(ToSet(listAt))
CreateList(w) ==
  /\ Starts(w)
  /\ \E asked \in StartAt \cup {lastListPosition + Gap} :
       mover' = [mover EXCEPT ![w] = [NoMove EXCEPT !.pc = "insert", !.want = asked]]
  /\ UNCHANGED listAt
InsertList(w) ==
  /\ mover[w].pc = "insert"
  /\ Len(listAt) < MaxLists
  /\ listAt' = Append(listAt, mover[w].want)
  /\ mover' = [mover EXCEPT ![w] = NoMove]
  /\ UNCHANGED listWrites

\* The lists of the board by position, equal positions in any order.
findLists(S) ==
  {order \in SetToSeqs(S) : \A i, j \in DOMAIN order : i < j => listAt[order[i]] <= listAt[order[j]]}

RoomAfter_Tie(p, q) == TRUE
RoomAfter(p, q) == Midpoint(p, q) - p >= MinGap

\* Dragging a list: a free slot is taken as it is; a taken one moves the list on, half way to
\* the next; without room there, the other lists are renumbered.
resolveListPosition(w) ==
  /\ Starts(w)
  /\ \E l \in DOMAIN listAt, asked \in StartAt \cup {Gap} :
       \E others \in findLists(DOMAIN listAt \ {l}) :
         LET taken == {i \in DOMAIN others : listAt[others[i]] = asked}
             slot == Smallest(taken)
             Goes(pc, want, at) ==
               mover' = [mover EXCEPT ![w] = [pc |-> pc, list |-> {l}, want |-> want,
                                              order |-> others, slot |-> at, next |-> 1]]
         IN IF taken = {} THEN Goes("place", asked, 0)
            ELSE IF slot = Len(others) THEN Goes("place", asked + Gap, slot)
            ELSE LET after == listAt[others[slot + 1]]
                 IN IF RoomAfter(asked, after) THEN Goes("place", Midpoint(asked, after), slot)
                    ELSE Goes("renumber", 0, slot)
  /\ UNCHANGED listAt
RenumberNext(w) ==
  /\ mover[w].pc = "renumber"
  /\ LET m == mover[w]
     IN /\ listAt' = [listAt EXCEPT ![m.order[m.next]] = m.next * Gap]
        /\ mover' = [mover EXCEPT ![w] =
             IF m.next < Len(m.order) THEN [m EXCEPT !.next = @ + 1]
             ELSE [m EXCEPT !.pc = "place", !.want = Midpoint((m.slot - 1) * Gap, m.slot * Gap)]]
  /\ UNCHANGED listWrites
moveList(w) ==
  /\ mover[w].pc = "place"
  /\ \E l \in mover[w].list : listAt' = [listAt EXCEPT ![l] = mover[w].want]
  /\ mover' = [mover EXCEPT ![w] = NoMove]
  /\ UNCHANGED listWrites

ListRequestDies(w) ==
  /\ mover[w].pc # "rest"
  /\ mover' = [mover EXCEPT ![w] = NoMove]
  /\ UNCHANGED <<listAt, listWrites>>

ListOrderNext ==
  \E w \in Movers :
    /\ \/ CreateList(w) \/ InsertList(w) \/ resolveListPosition(w) \/ RenumberNext(w)
       \/ moveList(w) \/ ListRequestDies(w)
    /\ cutIn' = {v \in Movers : /\ mover'[v].pc # "rest"
                                /\ v \in cutIn \/ (v # w /\ listAt' # listAt)}

ListOrderSpec == ListOrderInit /\ [][ListOrderNext]_listOrderVars

-----------------------------------------------------------------------------
(* A list that was dragged stands next to the list that had the slot, at a *)
(* position of its own, and the other lists stand in the order in which    *)
(* the request read them, although renumbering passes through every order  *)
(* in between: unless another request wrote meanwhile.  Ties that earlier  *)
(* requests left, and orders a dead one scrambled, are no exception.       *)
ListsLandBeside ==
  [][\A w \in Movers : \A l \in mover[w].list :
       mover[w].pc = "place" /\ mover'[w].pc = "rest" /\ w \notin cutIn
         /\ listAt'[l] = mover[w].want /\ mover[w].slot # 0 =>
           LET order == mover[w].order
               o == order[mover[w].slot]
           IN /\ \A i, j \in DOMAIN order : i < j => listAt'[order[i]] <= listAt'[order[j]]
              /\ \A d \in ToSet(order) :
                   /\ listAt'[d] # listAt'[l]
                   /\ ~(listAt'[l] < listAt'[d] /\ listAt'[d] < listAt'[o])
                   /\ ~(listAt'[o] < listAt'[d] /\ listAt'[d] < listAt'[l])]_listOrderVars
=============================================================================
