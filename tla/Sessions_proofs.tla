-------------------------- MODULE Sessions_proofs --------------------------
(***************************************************************************)
(* Proofs about Sessions, for any accounts, any number of requests at once *)
(* and of tokens, any lifetime and any times.                              *)
(***************************************************************************)
EXTENDS Sessions, WellFoundedInduction, NaturalsInduction, TLAPS

AuthRequest ==
  [op : {"idle", "register", "login", "google", "refresh", "logout"},
   pc : {"idle", "findByEmail", "findByGoogleId", "create", "link", "provision", "issue",
         "read", "revokeAll", "reused", "expired", "revoke", "reply"},
   email : Emails \cup {Idle.email}, google : GoogleIds \cup {NoGoogle},
   token : Nat, issued : Nat, stale : BOOLEAN, mark : Nat]

RefreshPcs == {"read", "revokeAll", "reused", "expired", "issue", "revoke", "reply"}

\* Where a request can be, and the rows it then knows.
Placed(q, rows) ==
  /\ q \in AuthRequest
  /\ q.op # "idle" <=> q.pc # "idle"
  /\ q.op # "idle" => q.email \in Emails
  /\ q.op = "refresh" => q.pc \in RefreshPcs
  /\ q.op \in {"refresh", "logout"} => q.token \in 1 .. Len(rows)
  /\ q.op = "logout" => q.pc \in {"read", "revoke"}
  /\ q.pc = "revoke" => q.op \in {"refresh", "logout"}
  /\ q.pc = "revoke" /\ q.op = "refresh" => q.issued \in 1 .. Len(rows)
  /\ q.pc = "reply" => q.issued \in 1 .. Len(rows)

\* What a refresh knows of its token, and what it has revoked.
Refreshes(q, rows) ==
  q.op = "refresh" =>
    /\ q.email = rows[q.token].user /\ q.mark \in 0 .. Len(rows)
    /\ q.stale => rows[q.token].revoked /\ q.pc \in {"read", "revokeAll", "reused"}
    /\ q.pc = "reused" => \A t \in 1 .. q.mark : rows[t].user = q.email => rows[t].revoked

\* RetiredTokenEndsSessions alone does not say that a token once revoked is still revoked
\* when the request reads its row, nor that its owner is the one whose tokens it revokes.
RequestsInv == \A r \in Slots : Placed(auth[r], tokens) /\ Refreshes(auth[r], tokens)
SessionsInv ==
  /\ tokens \in Seq(Token)
  /\ handed \subseteq 1 .. Len(tokens)
  /\ DOMAIN auth = Slots /\ clock \in Nat
  /\ RequestsInv

-----------------------------------------------------------------------------
\* Rows are only added, keep their owner, and are never valid again once revoked.
Grows(rows, later) ==
  /\ rows \in Seq(Token) /\ later \in Seq(Token) /\ Len(rows) <= Len(later)
  /\ \A t \in 1 .. Len(rows) : /\ later[t].user = rows[t].user
                               /\ rows[t].revoked => later[t].revoked

\* What is true of a request stays true while the table grows.
LEMMA RequestKept ==
    ASSUME NEW q, NEW rows, NEW later, Grows(rows, later),
           Placed(q, rows), Refreshes(q, rows)
    PROVE  Placed(q, later) /\ Refreshes(q, later)
<1>1. Len(rows) \in Nat /\ Len(later) \in Nat /\ 1 .. Len(rows) \subseteq 1 .. Len(later)
  BY DEF Grows
<1>2. Placed(q, later)
  BY <1>1 DEF Placed
<1>3. Refreshes(q, later)
  <2> SUFFICES ASSUME q.op = "refresh" PROVE Refreshes(q, later)
    BY DEF Refreshes
  <2>1. q.token \in 1 .. Len(rows) /\ q.mark \in 0 .. Len(rows)
    BY DEF Placed, Refreshes
  <2>2. q.email = later[q.token].user /\ q.mark \in 0 .. Len(later)
    BY <1>1, <2>1 DEF Grows, Refreshes
  <2>3. q.stale => later[q.token].revoked /\ q.pc \in {"read", "revokeAll", "reused"}
    BY <2>1 DEF Grows, Refreshes
  <2>4. ASSUME q.pc = "reused", NEW t \in 1 .. q.mark, later[t].user = q.email
        PROVE  later[t].revoked
    <3>1. t \in 1 .. Len(rows)
      BY <1>1, <2>1
    <3>2. rows[t].user = q.email
      BY <2>4, <3>1 DEF Grows
    <3>3. QED
      BY <2>4, <3>1, <3>2 DEF Grows, Refreshes
  <2>5. QED
    BY <2>2, <2>3, <2>4 DEF Refreshes
<1>4. QED
  BY <1>2, <1>3

\* One request moves; the table grows or stays.
LEMMA RequestStep ==
    ASSUME SessionsInv, NEW r \in Slots, NEW q,
           auth' = [auth EXCEPT ![r] = q], Grows(tokens, tokens'),
           handed' \subseteq 1 .. Len(tokens'), UNCHANGED clock,
           Placed(q, tokens'), Refreshes(q, tokens')
    PROVE  SessionsInv'
<1>1. tokens' \in Seq(Token)
  BY DEF Grows
<1>2. DOMAIN auth' = Slots
  BY DEF SessionsInv
<1>3. ASSUME NEW s \in Slots
      PROVE  Placed(auth'[s], tokens') /\ Refreshes(auth'[s], tokens')
  <2>1. CASE s = r
    BY <2>1 DEF SessionsInv
  <2>2. CASE s # r
    <3>1. auth'[s] = auth[s]
      BY <2>2 DEF SessionsInv
    <3>2. QED
      BY <3>1, RequestKept DEF SessionsInv, RequestsInv
  <2>3. QED
    BY <2>1, <2>2
<1>4. QED
  BY <1>1, <1>2, <1>3 DEF SessionsInv, RequestsInv

\* A table that does not change grows by nothing.
LEMMA GrowsByNothing == ASSUME NEW rows \in Seq(Token) PROVE Grows(rows, rows)
BY DEF Grows

\* A slot at rest.
LEMMA IdleSound == ASSUME NEW rows PROVE Placed(Idle, rows) /\ Refreshes(Idle, rows)
BY DEF Idle, Placed, Refreshes, AuthRequest

\* A free slot is a request of no operation.
LEMMA IdleIsRequest ==
  Idle \in AuthRequest /\ Idle.op = "idle" /\ Idle.pc = "idle"
BY DEF Idle, AuthRequest

\* A request that is refused, answered or lost.
LEMMA DoneStep ==
    ASSUME SessionsInv, NEW r \in Slots, Done(r), UNCHANGED <<tokens, handed, clock>>
    PROVE  SessionsInv'
BY RequestStep, IdleSound, GrowsByNothing DEF Done, SessionsInv

-----------------------------------------------------------------------------
(* The steps. *)

\* A request arrives: with no token, or with one that its client was handed.
LEMMA ArriveStep ==
    ASSUME SessionsInv, NEW r \in Slots,
           \/ \E e \in Emails : ArriveRegister(r, e) \/ ArriveLogin(r, e)
           \/ \E g \in GoogleIds : ArriveGoogle(r, g)
           \/ \E t \in handed : ArriveRefresh(r, t) \/ ArriveLogout(r, t)
    PROVE  SessionsInv'
<1>1. PICK q : /\ auth' = [auth EXCEPT ![r] = q] /\ UNCHANGED <<tokens, handed, clock>>
               /\ Placed(q, tokens) /\ Refreshes(q, tokens)
  <2>1. ASSUME NEW e \in Emails, ArriveRegister(r, e) \/ ArriveLogin(r, e)
        PROVE  \E q : /\ auth' = [auth EXCEPT ![r] = q] /\ UNCHANGED <<tokens, handed, clock>>
                      /\ Placed(q, tokens) /\ Refreshes(q, tokens)
    <3> DEFINE q(op) == [Idle EXCEPT !.op = op, !.pc = "findByEmail", !.email = e]
    <3>1. \A op \in {"register", "login"} :
            Placed(q(op), tokens) /\ Refreshes(q(op), tokens)
      BY DEF Idle, Placed, Refreshes, AuthRequest
    <3>2. QED
      BY <2>1, <3>1 DEF ArriveRegister, ArriveLogin, Arrive
  <2>2. ASSUME NEW g \in GoogleIds, ArriveGoogle(r, g)
        PROVE  \E q : /\ auth' = [auth EXCEPT ![r] = q] /\ UNCHANGED <<tokens, handed, clock>>
                      /\ Placed(q, tokens) /\ Refreshes(q, tokens)
    <3> DEFINE q == [Idle EXCEPT !.op = "google", !.pc = "findByGoogleId", !.google = g,
                                 !.email = EmailOf[g]]
    <3>1. Placed(q, tokens) /\ Refreshes(q, tokens)
      BY SessionsAssumption DEF Idle, Placed, Refreshes, AuthRequest
    <3>2. QED
      BY <2>2, <3>1 DEF ArriveGoogle, Arrive
  <2>3. ASSUME NEW t \in handed, ArriveRefresh(r, t) \/ ArriveLogout(r, t)
        PROVE  \E q : /\ auth' = [auth EXCEPT ![r] = q] /\ UNCHANGED <<tokens, handed, clock>>
                      /\ Placed(q, tokens) /\ Refreshes(q, tokens)
    <3>1. t \in 1 .. Len(tokens) /\ Len(tokens) \in Nat /\ tokens[t] \in Token
      BY DEF SessionsInv
    <3>0. tokens[t].user \in Emails /\ t \in Nat
      BY <3>1 DEF Token
    <3>2. CASE ArriveRefresh(r, t)
      <4> DEFINE q == [[Idle EXCEPT !.op = "refresh", !.stale = tokens[t].revoked,
                                    !.mark = Len(tokens)]
                       EXCEPT !.pc = "read", !.token = t, !.email = tokens[t].user]
      <4>1. auth' = [auth EXCEPT ![r] = q] /\ UNCHANGED <<tokens, handed, clock>>
        BY <3>2 DEF ArriveRefresh, ArriveWithCookie, Arrive
      <4>2. q \in AuthRequest
        <5> DEFINE at(b) == [[Idle EXCEPT !.op = "refresh", !.stale = b, !.mark = Len(tokens)]
                             EXCEPT !.pc = "read", !.token = t, !.email = tokens[t].user]
        <5>1. tokens[t].revoked = TRUE \/ tokens[t].revoked = FALSE
          BY <3>1 DEF Token
        <5>2. q = at(TRUE) \/ q = at(FALSE)
          BY <5>1, Zenon
        <5>3. at(TRUE) \in AuthRequest /\ at(FALSE) \in AuthRequest
          <6>1. /\ [Idle EXCEPT !.op = "refresh", !.stale = TRUE, !.mark = Len(tokens)]
                     \in AuthRequest
                /\ [Idle EXCEPT !.op = "refresh", !.stale = FALSE, !.mark = Len(tokens)]
                     \in AuthRequest
            BY <3>1, IdleIsRequest DEF AuthRequest
          <6>2. \A request \in AuthRequest :
                  [request EXCEPT !.pc = "read", !.token = t, !.email = tokens[t].user]
                    \in AuthRequest
            BY <3>1, <3>0 DEF AuthRequest
          <6>3. QED
            BY <6>1, <6>2
        <5>4. QED
          BY <5>2, <5>3
      <4>3. Placed(q, tokens)
        BY <3>1, <4>2 DEF Placed, RefreshPcs, Token, Idle
      <4>4. Refreshes(q, tokens)
        BY <3>1 DEF Refreshes, Idle
      <4>5. QED
        BY <4>1, <4>3, <4>4
    <3>3. CASE ArriveLogout(r, t)
      <4> DEFINE q == [[Idle EXCEPT !.op = "logout"]
                       EXCEPT !.pc = "read", !.token = t, !.email = tokens[t].user]
      <4>1. auth' = [auth EXCEPT ![r] = q] /\ UNCHANGED <<tokens, handed, clock>>
        BY <3>3 DEF ArriveLogout, ArriveWithCookie, Arrive
      <4>2. q \in AuthRequest
        <5>1. [Idle EXCEPT !.op = "logout"] \in AuthRequest
          BY IdleIsRequest DEF AuthRequest
        <5>2. QED
          BY <5>1, <3>1, <3>0 DEF AuthRequest
      <4>3. Placed(q, tokens) /\ Refreshes(q, tokens)
        BY <3>1, <4>2 DEF Placed, Refreshes, Token, Idle
      <4>4. QED
        BY <4>1, <4>3
    <3>4. QED
      BY <2>3, <3>2, <3>3
  <2>4. QED
    BY <2>1, <2>2, <2>3
<1>2. QED
  BY <1>1, RequestStep, GrowsByNothing DEF SessionsInv

\* A request whose table row is not touched moves on to another query.
LEMMA MoveStep ==
    ASSUME SessionsInv, NEW r \in Slots, NEW pc, Goto(r, pc), UNCHANGED <<tokens, handed, clock>>,
           pc = "refused" \/ \E q : /\ q = [auth[r] EXCEPT !.pc = pc]
                                   /\ Placed(q, tokens) /\ Refreshes(q, tokens)
    PROVE  SessionsInv'
<1>1. CASE pc = "refused"
  BY <1>1, DoneStep DEF Goto
<1>2. CASE pc # "refused"
  <2>1. PICK q : /\ q = [auth[r] EXCEPT !.pc = pc]
                 /\ Placed(q, tokens) /\ Refreshes(q, tokens)
    BY <1>2
  <2>2. auth' = [auth EXCEPT ![r] = q]
    BY <1>2, <2>1 DEF Goto, SessionsInv
  <2>3. QED
    BY <2>1, <2>2, RequestStep, GrowsByNothing DEF SessionsInv
<1>3. QED
  BY <1>1, <1>2

\* Signing in reads and writes accounts, and no token.
LEMMA SignInStep ==
    ASSUME SessionsInv, NEW r \in Slots,
           \/ FindForRegister(r) \/ FindForLogin(r) \/ FindByGoogleId(r) \/ FindForGoogle(r)
           \/ LinkGoogleId(r) \/ CreateUser(r) \/ Provision(r)
    PROVE  SessionsInv'
<1>1. Placed(auth[r], tokens)
  BY DEF SessionsInv, RequestsInv
<1>2. UNCHANGED <<tokens, handed, clock>>
  BY DEF FindForRegister, FindForLogin, FindByGoogleId, FindForGoogle, LinkGoogleId, CreateUser,
         Provision
<1>3. auth[r].op \notin {"idle", "refresh", "logout"}
  BY <1>1 DEF Placed, RefreshPcs, FindForRegister, FindForLogin, FindByGoogleId, FindForGoogle,
              LinkGoogleId, CreateUser, Provision
<1>4. \A pc \in {"create", "issue", "provision", "link", "findByEmail"}, e \in Emails :
        LET q == [auth[r] EXCEPT !.pc = pc, !.email = e]
        IN Placed(q, tokens) /\ Refreshes(q, tokens)
  <2> SUFFICES ASSUME NEW pc \in {"create", "issue", "provision", "link", "findByEmail"},
                      NEW e \in Emails
               PROVE  LET q == [auth[r] EXCEPT !.pc = pc, !.email = e]
                      IN Placed(q, tokens) /\ Refreshes(q, tokens)
    OBVIOUS
  <2> DEFINE q == [auth[r] EXCEPT !.pc = pc, !.email = e]
  <2>1. /\ q \in AuthRequest /\ q.op = auth[r].op /\ q.pc = pc /\ q.email = e
        /\ q.token = auth[r].token
    BY <1>1 DEF Placed, AuthRequest
  <2> HIDE DEF q
  <2>2. Placed(q, tokens) /\ Refreshes(q, tokens)
    BY <1>1, <1>3, <2>1 DEF Placed, Refreshes
  <2>3. QED
    BY <2>2 DEF q
<1>5. ASSUME NEW pc \in {"refused", "create", "issue", "provision", "link", "findByEmail"},
             Goto(r, pc)
      PROVE  SessionsInv'
  <2>1. CASE pc = "refused"
    BY <1>2, <1>5, <2>1, MoveStep
  <2>2. CASE pc # "refused"
    <3>1. Placed([auth[r] EXCEPT !.pc = pc], tokens) /\ Refreshes([auth[r] EXCEPT !.pc = pc], tokens)
      <4>1. auth[r].email \in Emails
        BY <1>1, <1>3 DEF Placed
      <4>2. [auth[r] EXCEPT !.pc = pc] = [auth[r] EXCEPT !.pc = pc, !.email = auth[r].email]
        BY <1>1 DEF Placed, AuthRequest
      <4>3. QED
        BY <1>4, <2>2, <4>1, <4>2
    <3>2. QED
      BY <1>2, <1>5, <3>1, MoveStep
  <2>3. QED
    BY <2>1, <2>2
<1>6. CASE FindByGoogleId(r)
  <2>1. \/ Done(r) \/ Goto(r, "findByEmail")
        \/ \E e \in Emails : auth' = [auth EXCEPT ![r].email = e, ![r].pc = "issue"]
    BY <1>6 DEF FindByGoogleId
  <2>2. ASSUME NEW e \in Emails, auth' = [auth EXCEPT ![r].email = e, ![r].pc = "issue"]
        PROVE  SessionsInv'
    <3>1. auth' = [auth EXCEPT ![r] = [auth[r] EXCEPT !.pc = "issue", !.email = e]]
      BY <2>2, <1>1 DEF Placed, AuthRequest, SessionsInv
    <3>2. QED
      BY <1>2, <1>4, <3>1, RequestStep, GrowsByNothing DEF SessionsInv
  <2>3. QED
    BY <1>2, <1>5, <2>1, <2>2, DoneStep
<1>7. QED
  BY <1>5, <1>6 DEF FindForRegister, FindForLogin, FindForGoogle, LinkGoogleId, CreateUser,
                    Provision

\* A token is issued: one more row.
LEMMA IssueStep ==
    ASSUME SessionsInv, NEW r \in Slots, Issue(r)
    PROVE  SessionsInv'
<1>1. Placed(auth[r], tokens) /\ Refreshes(auth[r], tokens)
  BY DEF SessionsInv, RequestsInv
<1>2. auth[r].op \notin {"idle", "logout"}
  BY <1>1 DEF Placed, Issue
<1> DEFINE q == auth[r]
           new == [user |-> q.email, expires |-> clock + Lifetime, revoked |-> FALSE,
                   replacedBy |-> 0, parent |-> q.token]
           later == Append(tokens, new)
           pc == IF q.op = "refresh" THEN "revoke" ELSE "reply"
           moved == [q EXCEPT !.issued = Len(tokens) + 1, !.pc = pc]
<1>3. tokens' = later /\ auth' = [auth EXCEPT ![r] = moved] /\ UNCHANGED <<handed, clock>>
  <2>1. auth' = [auth EXCEPT ![r].issued = Len(tokens) + 1, ![r].pc = pc]
    BY DEF Issue
  <2>2. auth' = [auth EXCEPT ![r] = moved]
    BY <2>1 DEF SessionsInv
  <2>3. QED
    BY <2>2 DEF Issue
<1>4. new \in Token
  <2>1. q.email \in Emails /\ q.token \in Nat /\ clock + Lifetime \in Nat
    BY <1>1, <1>2, SessionsAssumption DEF Placed, AuthRequest, SessionsInv
  <2>2. QED
    BY <2>1 DEF Token
<1>5. /\ later \in Seq(Token) /\ Len(later) = Len(tokens) + 1 /\ Len(tokens) \in Nat
      /\ \A t \in 1 .. Len(tokens) : later[t] = tokens[t]
  <2> HIDE DEF new
  <2>1. tokens \in Seq(Token)
    BY DEF SessionsInv
  <2>2. QED
    BY <1>4, <2>1
<1>6. /\ moved \in AuthRequest /\ moved.op = q.op /\ moved.pc = pc /\ moved.email = q.email
      /\ moved.issued = Len(tokens) + 1 /\ moved.token = q.token /\ moved.mark = q.mark
      /\ moved.stale = q.stale
  <2>1. q \in AuthRequest /\ Len(tokens) + 1 \in Nat /\ pc \in {"revoke", "reply"}
    BY <1>1, <1>5 DEF Placed
  <2> HIDE DEF q, pc
  <2>2. moved \in AuthRequest
    BY <2>1 DEF AuthRequest
  <2>3. QED
    BY <2>1 DEF AuthRequest
<1> HIDE DEF new, later, moved, q
<1>7. Grows(tokens, later)
  BY <1>5 DEF Grows, SessionsInv
<1>8. Placed(moved, later)
  BY <1>1, <1>2, <1>5, <1>6 DEF Placed, RefreshPcs, q
<1>9. Refreshes(moved, later)
  <2> SUFFICES ASSUME q.op = "refresh" PROVE Refreshes(moved, later)
    BY <1>6 DEF Refreshes
  <2>1. q.pc = "issue" /\ q.token \in 1 .. Len(tokens) /\ q.email = tokens[q.token].user
        /\ ~q.stale /\ q.mark \in 0 .. Len(tokens)
    BY <1>1 DEF Placed, Refreshes, Issue, q
  <2>2. QED
    BY <1>5, <1>6, <2>1 DEF Refreshes
<1>10. handed' \subseteq 1 .. Len(later)
  BY <1>3, <1>5 DEF SessionsInv
<1>11. QED
  BY <1>3, <1>7, <1>8, <1>9, <1>10, RequestStep

\* A refresh reads its row: one that was revoked before it came still is.
LEMMA ReadForRefreshStep ==
    ASSUME SessionsInv, NEW r \in Slots, ReadForRefresh(r)
    PROVE  SessionsInv'
<1> DEFINE q == auth[r]
           pc == NextOfRead(tokens[q.token])
           moved == [q EXCEPT !.pc = pc]
<1>1. /\ Placed(q, tokens) /\ Refreshes(q, tokens) /\ q.op = "refresh" /\ q.pc = "read"
      /\ UNCHANGED <<tokens, handed, clock>> /\ Goto(r, pc)
  BY DEF SessionsInv, RequestsInv, ReadForRefresh
<1>2. /\ pc \in {"revokeAll", "expired", "issue"}
      /\ tokens[q.token].revoked => pc = "revokeAll"
  BY DEF NextOfRead
<1> HIDE DEF pc
<1>3. /\ moved \in AuthRequest /\ moved.op = q.op /\ moved.pc = pc /\ moved.email = q.email
      /\ moved.token = q.token /\ moved.mark = q.mark /\ moved.stale = q.stale
  <2>1. q \in AuthRequest
    BY <1>1 DEF Placed
  <2> HIDE DEF q
  <2>2. QED
    BY <2>1, <1>2 DEF AuthRequest
<1> HIDE DEF q, moved
<1>4. Placed(moved, tokens)
  BY <1>1, <1>2, <1>3 DEF Placed, RefreshPcs
<1>5. Refreshes(moved, tokens)
  BY <1>1, <1>2, <1>3 DEF Refreshes
<1>6. QED
  BY <1>1, <1>4, <1>5, MoveStep DEF q, moved

\* The whole family of a user is revoked.
LEMMA RevokeAllStep ==
    ASSUME SessionsInv, NEW r \in Slots, RevokeAllForUser(r)
    PROVE  SessionsInv'
<1> DEFINE q == auth[r]
           moved == [q EXCEPT !.pc = "reused"]
<1>1. /\ Placed(q, tokens) /\ Refreshes(q, tokens) /\ q.pc = "revokeAll"
      /\ UNCHANGED <<handed, clock>> /\ auth' = [auth EXCEPT ![r] = moved]
  <2>1. auth' = [auth EXCEPT ![r].pc = "reused"]
    BY DEF RevokeAllForUser, Goto
  <2>2. auth' = [auth EXCEPT ![r] = moved]
    BY <2>1 DEF SessionsInv
  <2>3. QED
    BY <2>2 DEF SessionsInv, RequestsInv, RevokeAllForUser
<1>2. tokens \in Seq(Token) /\ Len(tokens) \in Nat /\ DOMAIN tokens = 1 .. Len(tokens)
  BY DEF SessionsInv
<1>3. \A t \in 1 .. Len(tokens) :
        /\ tokens'[t] \in Token /\ tokens'[t].user = tokens[t].user
        /\ tokens[t].revoked => tokens'[t].revoked
        /\ tokens[t].user = q.email => tokens'[t].revoked
  <2> TAKE t \in 1 .. Len(tokens)
  <2>1. tokens'[t] = IF tokens[t].user = q.email
                     THEN [tokens[t] EXCEPT !.revoked = TRUE] ELSE tokens[t]
    BY <1>2 DEF RevokeAllForUser
  <2>2. tokens[t] \in Token
    BY <1>2
  <2>3. QED
    BY <2>1, <2>2 DEF Token
<1>4. tokens' \in Seq(Token) /\ Len(tokens') = Len(tokens)
  <2>1. tokens' = [t \in 1 .. Len(tokens) |-> tokens'[t]]
    BY <1>2 DEF RevokeAllForUser
  <2>2. tokens' \in [1 .. Len(tokens) -> Token]
    BY <1>3, <2>1
  <2>3. QED
    BY <1>2, <2>2
<1>5. Grows(tokens, tokens')
  BY <1>2, <1>3, <1>4 DEF Grows
<1>6. /\ moved \in AuthRequest /\ moved.op = q.op /\ moved.pc = "reused"
      /\ moved.email = q.email /\ moved.token = q.token /\ moved.mark = q.mark
      /\ moved.stale = q.stale
  <2>1. q \in AuthRequest
    BY <1>1 DEF Placed
  <2> HIDE DEF q
  <2>2. QED
    BY <2>1 DEF AuthRequest
<1> HIDE DEF q, moved
<1>7. Placed(moved, tokens')
  BY <1>1, <1>4, <1>6 DEF Placed, RefreshPcs
<1>8. Refreshes(moved, tokens')
  <2> SUFFICES ASSUME q.op = "refresh" PROVE Refreshes(moved, tokens')
    BY <1>6 DEF Refreshes
  <2>1. q.token \in 1 .. Len(tokens) /\ q.email = tokens[q.token].user
        /\ q.mark \in 0 .. Len(tokens) /\ (q.stale => tokens[q.token].revoked)
    BY <1>1 DEF Placed, Refreshes
  <2>2. \A t \in 1 .. q.mark : t \in 1 .. Len(tokens)
    BY <1>2, <2>1
  <2>3. QED
    BY <1>3, <1>4, <1>6, <2>1, <2>2 DEF Refreshes
<1>9. handed' \subseteq 1 .. Len(tokens')
  BY <1>1, <1>4 DEF SessionsInv
<1>10. QED
  BY <1>1, <1>5, <1>7, <1>8, <1>9, RequestStep

\* One token is retired, after a rotation or a logout.
LEMMA RevokeStep ==
    ASSUME SessionsInv, NEW r \in Slots, Revoke(r)
    PROVE  SessionsInv'
<1> DEFINE q == auth[r]
           row == tokens[q.token]
           new == Retired(row, q.issued)
           moved == [q EXCEPT !.pc = "reply"]
<1>1. /\ Placed(q, tokens) /\ Refreshes(q, tokens) /\ q.pc = "revoke"
      /\ UNCHANGED <<handed, clock>> /\ q.token \in 1 .. Len(tokens)
  BY DEF SessionsInv, RequestsInv, Revoke, Placed
<1>2. tokens \in Seq(Token) /\ Len(tokens) \in Nat /\ row \in Token
  BY <1>1 DEF SessionsInv
<1>3. new \in Token /\ new.user = row.user /\ new.revoked
  <2>1. q.issued \in Nat
    BY <1>1 DEF Placed, AuthRequest
  <2> HIDE DEF q, row
  <2>2. QED
    BY <1>2, <2>1 DEF Token, Retired
<1>4. tokens' = [tokens EXCEPT ![q.token] = new]
  BY DEF Revoke
<1> HIDE DEF new
<1>5. /\ tokens' \in Seq(Token) /\ Len(tokens') = Len(tokens)
      /\ \A t \in 1 .. Len(tokens) : tokens'[t] = IF t = q.token THEN new ELSE tokens[t]
  BY <1>1, <1>2, <1>3, <1>4
<1>6. Grows(tokens, tokens')
  BY <1>2, <1>3, <1>5 DEF Grows
<1>7. handed' \subseteq 1 .. Len(tokens')
  BY <1>1, <1>5 DEF SessionsInv
<1>8. CASE q.op = "refresh"
  <2>1. auth' = [auth EXCEPT ![r] = moved]
    <3>1. auth' = [auth EXCEPT ![r].pc = "reply"]
      BY <1>8 DEF Revoke, Goto
    <3>2. QED
      BY <3>1 DEF SessionsInv
  <2>2. /\ moved \in AuthRequest /\ moved.op = q.op /\ moved.pc = "reply"
        /\ moved.email = q.email /\ moved.token = q.token /\ moved.mark = q.mark
        /\ moved.stale = q.stale /\ moved.issued = q.issued
    <3>1. q \in AuthRequest
      BY <1>1 DEF Placed
    <3> HIDE DEF q
    <3>2. QED
      BY <3>1 DEF AuthRequest
  <2>3. Placed(q, tokens') /\ Refreshes(q, tokens')
    BY <1>1, <1>6, RequestKept
  <2> HIDE DEF q, moved
  <2>4. Placed(moved, tokens')
    BY <1>1, <1>8, <2>2, <2>3 DEF Placed, RefreshPcs
  <2>5. Refreshes(moved, tokens')
    BY <1>1, <1>8, <2>2, <2>3 DEF Refreshes
  <2>6. QED
    BY <1>1, <1>6, <1>7, <2>1, <2>4, <2>5, RequestStep
<1>9. CASE q.op # "refresh"
  <2>1. auth' = [auth EXCEPT ![r] = Idle]
    BY <1>9 DEF Revoke, Done
  <2>2. QED
    BY <1>1, <1>6, <1>7, <2>1, IdleSound, RequestStep
<1>10. QED
  BY <1>8, <1>9

\* A logout reads its row.
LEMMA ReadForLogoutStep ==
    ASSUME SessionsInv, NEW r \in Slots, ReadForLogout(r)
    PROVE  SessionsInv'
<1> DEFINE q == auth[r]
           moved == [q EXCEPT !.pc = "revoke"]
<1>1. /\ Placed(q, tokens) /\ q.op = "logout" /\ UNCHANGED <<tokens, handed, clock>>
      /\ Goto(r, "refused") \/ Goto(r, "revoke")
  BY DEF SessionsInv, RequestsInv, ReadForLogout
<1>2. /\ moved \in AuthRequest /\ moved.op = q.op /\ moved.pc = "revoke"
      /\ moved.email = q.email /\ moved.token = q.token
  <2>1. q \in AuthRequest
    BY <1>1 DEF Placed
  <2> HIDE DEF q
  <2>2. QED
    BY <2>1 DEF AuthRequest
<1> HIDE DEF q, moved
<1>3. Placed(moved, tokens) /\ Refreshes(moved, tokens)
  BY <1>1, <1>2 DEF Placed, Refreshes
<1>4. CASE Goto(r, "refused")
  BY <1>1, <1>4, DoneStep DEF Goto
<1>5. CASE Goto(r, "revoke")
  BY <1>1, <1>3, <1>5, MoveStep DEF q, moved
<1>6. QED
  BY <1>1, <1>4, <1>5

\* The cookie is set: the client holds a token that was issued.
LEMMA ReplyStep ==
    ASSUME SessionsInv, NEW r \in Slots, Reply(r)
    PROVE  SessionsInv'
<1>1. auth[r].issued \in 1 .. Len(tokens)
  BY DEF SessionsInv, RequestsInv, Reply, Placed
<1>2. /\ handed' = handed \cup {auth[r].issued} /\ UNCHANGED <<tokens, clock>>
      /\ auth' = [auth EXCEPT ![r] = Idle]
  BY DEF Reply, Done
<1>3. handed' \subseteq 1 .. Len(tokens') /\ tokens' = tokens
  BY <1>1, <1>2 DEF SessionsInv
<1>4. Grows(tokens, tokens')
  BY <1>3, GrowsByNothing DEF SessionsInv
<1>5. QED
  BY <1>2, <1>3, <1>4, IdleSound, RequestStep

\* Every step keeps the invariant.
LEMMA SessionsStep == SessionsInv /\ [SessionsNext]_sessionsVars => SessionsInv'
<1> SUFFICES ASSUME SessionsInv, [SessionsNext]_sessionsVars PROVE SessionsInv'
  OBVIOUS
<1>1. CASE \E r \in Slots :
             \/ FindForRegister(r) \/ FindForLogin(r) \/ FindByGoogleId(r) \/ FindForGoogle(r)
             \/ LinkGoogleId(r) \/ CreateUser(r) \/ Provision(r)
             \/ Issue(r) \/ ReadForRefresh(r) \/ RevokeAllForUser(r) \/ Revoke(r)
             \/ ReadForLogout(r) \/ Reply(r)
  BY <1>1, SignInStep, IssueStep, ReadForRefreshStep, RevokeAllStep, RevokeStep,
     ReadForLogoutStep, ReplyStep
<1>2. CASE \E r \in Slots : ReplyRefused(r) \/ AuthFails(r)
  BY <1>2, DoneStep DEF ReplyRefused, AuthFails
<1>3. CASE \E r \in Slots :
             \/ \E e \in Emails : ArriveRegister(r, e) \/ ArriveLogin(r, e)
             \/ \E g \in GoogleIds : ArriveGoogle(r, g)
             \/ \E t \in handed : ArriveRefresh(r, t) \/ ArriveLogout(r, t)
  BY <1>3, ArriveStep
<1>4. CASE ClockTicks \/ UNCHANGED sessionsVars
  <2>1. UNCHANGED <<tokens, handed, auth>> /\ clock' \in Nat
    BY <1>4, SessionsAssumption DEF ClockTicks, sessionsVars, SessionsInv
  <2>2. QED
    BY <2>1 DEF SessionsInv, RequestsInv
<1>5. QED
  BY <1>1, <1>2, <1>3, <1>4 DEF SessionsNext

\* No account, no token, and every slot free.
LEMMA SessionsStart == SessionsInit => SessionsInv
BY IdleSound DEF SessionsInit, SessionsInv, RequestsInv

-----------------------------------------------------------------------------
\* However many requests of however many clients cross, and whenever they die: a refresh
\* with a token that was retired before it came is told so, and by the time it is told every
\* token of the account that had been issued when it came is revoked.
THEOREM FamilyRevoked == SessionsSpec => []RetiredTokenEndsSessions
<1>1. SessionsInv => RetiredTokenEndsSessions
  BY DEF SessionsInv, RequestsInv, Refreshes, RetiredTokenEndsSessions
<1>2. QED
  BY SessionsStart, SessionsStep, <1>1, PTL DEF SessionsSpec

-----------------------------------------------------------------------------
(* The tokens that descend from one sign-in.                               *)
Rooted ==
  root = [t \in 1 .. Len(tokens) |-> IF tokens[t].parent = 0 THEN t ELSE root[tokens[t].parent]]
Older == \A t \in 1 .. Len(tokens) : tokens[t].parent \in 0 .. t - 1

(* Among some numbers, one is the least. *)
LEMMA LeastNumber ==
  ASSUME NEW N \in SUBSET Nat, N # {} PROVE \E n \in N : \A m \in N : n <= m
<1>1. PICK n \in N : \A m \in N : ~(<<m, n>> \in OpToRel(<, Nat))
  BY NatLessThanWellFounded, WFMin
<1>2. ASSUME NEW m \in N PROVE n <= m
  <2>1. ~(<<m, n>> \in {ss \in Nat \X Nat : ss[1] < ss[2]})  BY <1>1 DEF OpToRel
  <2> QED  BY <2>1
<1> QED  BY <1>2

(* Every token has a root: tokens descend from older ones. *)
LEMMA TokensAreRooted ==
  ASSUME Len(tokens) \in Nat, Older PROVE Rooted
<1> DEFINE Root(g, n) ==
             g = [t \in 1 .. n |-> IF tokens[t].parent = 0 THEN t ELSE g[tokens[t].parent]]
           N == {n \in 0 .. Len(tokens) : ~ \E g : Root(g, n)}
<1>1. Root([t \in 1 .. 0 |-> 0], 0)  OBVIOUS
<1>2. ASSUME NEW n \in Nat, n + 1 <= Len(tokens), NEW g, Root(g, n)
      PROVE  \E h : Root(h, n + 1)
  <2>1. PICK p : p = tokens[n + 1].parent  OBVIOUS
  <2>2. p \in 0 .. n
    <3>1. n + 1 \in 1 .. Len(tokens)  BY <1>2
    <3> QED  BY <2>1, <3>1 DEF Older
  <2>3. PICK h : h = [t \in 1 .. n + 1 |-> IF t <= n THEN g[t] ELSE IF p = 0 THEN n + 1 ELSE g[p]]
    OBVIOUS
  <2>4. ASSUME NEW t \in 1 .. n + 1
        PROVE  h[t] = IF tokens[t].parent = 0 THEN t ELSE h[tokens[t].parent]
    <3>1. CASE t = n + 1
      <4>1. h[t] = IF p = 0 THEN n + 1 ELSE g[p]  BY <1>2, <2>3, <3>1
      <4>2. p # 0 => h[p] = g[p]  BY <1>2, <2>2, <2>3
      <4> QED  BY <2>1, <3>1, <4>1, <4>2
    <3>2. CASE t \in 1 .. n
      <4>1. PICK q : q = tokens[t].parent  OBVIOUS
      <4>2. q \in 0 .. t - 1  BY <1>2, <3>2, <4>1 DEF Older
      <4>3. h[t] = g[t] /\ (q # 0 => h[q] = g[q])  BY <1>2, <2>3, <3>2, <4>2
      <4>4. g[t] = IF q = 0 THEN t ELSE g[q]  BY <1>2, <3>2, <4>1
      <4> QED  BY <4>1, <4>3, <4>4
    <3> QED  BY <1>2, <3>1, <3>2
  <2>5. Root(h, n + 1)  BY <2>3, <2>4
  <2> QED  BY <2>5
<1>3. N = {}
  <2> SUFFICES ASSUME N # {} PROVE FALSE  OBVIOUS
  <2>1. N \in SUBSET Nat  OBVIOUS
  <2>2. PICK n \in N : \A m \in N : n <= m
    <3> HIDE DEF N
    <3> QED  BY <2>1, LeastNumber
  <2>3. n # 0  BY <1>1, <2>2
  <2>4. n - 1 \in 0 .. Len(tokens) /\ n - 1 \notin N
    <3>1. n \in 0 .. Len(tokens)  BY <2>2
    <3>2. n - 1 \in 0 .. Len(tokens) /\ ~(n <= n - 1)  BY <2>3, <3>1
    <3> HIDE DEF N
    <3> QED  BY <2>2, <3>2
  <2>5. PICK g : Root(g, n - 1)  BY <2>4
  <2>6. \E h : Root(h, (n - 1) + 1)
    <3> HIDE DEF Root
    <3>1. n - 1 \in Nat /\ (n - 1) + 1 <= Len(tokens)  BY <2>2, <2>3
    <3> QED  BY <1>2, <2>5, <3>1
  <2>7. (n - 1) + 1 = n  BY <2>2
  <2> QED  BY <2>2, <2>6, <2>7
<1>4. \E g : Root(g, Len(tokens))  BY <1>3
<1>5. root = CHOOSE g : Root(g, Len(tokens))  BY DEF root
<1>6. Root(root, Len(tokens))
  <2> HIDE DEF Root
  <2> QED  BY <1>4, <1>5
<1> QED  BY <1>6 DEF Rooted

\* Tokens descend from older ones that some client was handed.
Lineage ==
  /\ \A t \in 1 .. Len(tokens) : /\ tokens[t].parent \in 0 .. t - 1
                                 /\ tokens[t].parent # 0 => tokens[t].parent \in handed
                                 /\ root[t] = t \/ root[t] \in handed
  /\ forked \subseteq 1 .. Len(tokens)

\* A family one token of which was presented by two requests at once.
Spoiled(f) == \E g \in forked : root[g] = f

\* A request that goes on with a token it read as valid, and one that has issued a new one.
Trades(q) == q.op = "refresh" /\ q.pc \in {"issue", "revoke", "reply"}
Issued(q) == q.pc = "reply" \/ (q.pc = "revoke" /\ q.op = "refresh")

\* What each request knows of the families.
Descends(q) ==
  /\ q.op = "refresh" => q.token \in handed
  /\ q.op \notin {"refresh", "logout"} =>
       /\ q.token = 0
       /\ q.pc = "reply" => root[q.issued] = q.issued /\ q.issued \notin handed
  /\ q.op = "refresh" /\ Issued(q) => root[q.issued] = root[q.token]
  /\ q.op = "refresh" /\ q.pc = "reply" => tokens[q.token].revoked

\* What sets two requests apart, and a request from what clients hold.
Apart(p, q) ==
  /\ Issued(p) /\ Issued(q) => p.issued # q.issued
  /\ p.op = "refresh" /\ q.op = "refresh" /\ p.token = q.token => p.token \in forked
  /\ Trades(p) /\ Trades(q) /\ root[p.token] = root[q.token] => Spoiled(root[p.token])
TradesLast(q) ==
  Trades(q) => \A t \in handed :
    root[t] = root[q.token] /\ ~tokens[t].revoked => t = q.token \/ Spoiled(root[t])

FamiliesInv ==
  /\ Lineage
  /\ \A r \in Slots : Descends(auth[r]) /\ TradesLast(auth[r])
  /\ \A r, s \in Slots : r # s => Apart(auth[r], auth[s])
  /\ \A s, t \in handed :
       s # t /\ root[s] = root[t] /\ ~tokens[s].revoked /\ ~tokens[t].revoked => Spoiled(root[s])

(* A root is the same as long as tokens are only added. *)
LEMMA RootsKept ==
  ASSUME Rooted, Rooted', Len(tokens) \in Nat, Len(tokens') \in Nat, Len(tokens) <= Len(tokens'),
         Older, \A t \in 1 .. Len(tokens) : tokens'[t].parent = tokens[t].parent
  PROVE  \A t \in 1 .. Len(tokens) : root'[t] = root[t]
<1> DEFINE N == {t \in 1 .. Len(tokens) : root'[t] # root[t]}
<1> SUFFICES ASSUME N # {} PROVE FALSE  OBVIOUS
<1>1. N \in SUBSET Nat  OBVIOUS
<1>2. PICK t \in N : \A u \in N : t <= u
  <2> HIDE DEF N
  <2> QED  BY <1>1, LeastNumber
<1>3. PICK p : p = tokens[t].parent  OBVIOUS
<1>4. t \in 1 .. Len(tokens) /\ t \in 1 .. Len(tokens') /\ p \in 0 .. t - 1 /\ tokens'[t].parent = p
  BY <1>2, <1>3 DEF Older
<1>5. /\ root[t] = IF p = 0 THEN t ELSE root[p]
      /\ root'[t] = IF p = 0 THEN t ELSE root'[p]
  BY <1>3, <1>4 DEF Rooted
<1>6. p # 0 => root'[p] = root[p]
  <2> SUFFICES ASSUME p # 0 PROVE root'[p] = root[p]  OBVIOUS
  <2>1. p \in 1 .. Len(tokens) /\ ~(t <= p)  BY <1>4
  <2>2. p \notin N
    <3> HIDE DEF N
    <3> QED  BY <1>2, <2>1
  <2> QED  BY <2>1, <2>2
<1> QED  BY <1>2, <1>5, <1>6

\* What a request that hands nothing to its client leaves of the tokens.
Leaves(r) ==
  /\ \A s \in Slots \ {r} : auth'[s] = auth[s]
  /\ handed' = handed /\ forked \subseteq forked' /\ forked' \subseteq 1 .. Len(tokens)
  /\ Len(tokens') \in Nat /\ Len(tokens) <= Len(tokens')
  /\ \A t \in 1 .. Len(tokens) : /\ tokens'[t].parent = tokens[t].parent
                                 /\ tokens[t].revoked => tokens'[t].revoked
                                 /\ root'[t] = root[t]

(* What is known of the tokens, for all of them. *)
LEMMA KnownTokens ==
  ASSUME SessionsInv
  PROVE  /\ Len(tokens) \in Nat /\ handed \subseteq 1 .. Len(tokens)
         /\ DOMAIN tokens = 1 .. Len(tokens) /\ DOMAIN auth = Slots
         /\ \A r \in Slots :
              /\ auth[r] \in AuthRequest
              /\ auth[r].op \in {"refresh", "logout"} => auth[r].token \in 1 .. Len(tokens)
              /\ Issued(auth[r]) => auth[r].issued \in 1 .. Len(tokens)
              /\ auth[r].op = "refresh" => auth[r].pc \in RefreshPcs
              /\ auth[r].op = "logout" => auth[r].pc \in {"read", "revoke"}
              /\ auth[r].op # "idle" <=> auth[r].pc # "idle"
BY DEF SessionsInv, RequestsInv, Placed, Issued

(* What was known of another request still is. *)
LEMMA FamilyStep ==
  ASSUME SessionsInv, FamiliesInv, NEW r \in Slots, Leaves(r),
         \A t \in 1 .. Len(tokens') :
           t \in 1 .. Len(tokens) \/ (/\ tokens'[t].parent \in 0 .. t - 1
                                      /\ tokens'[t].parent # 0 => tokens'[t].parent \in handed
                                      /\ root'[t] = t \/ root'[t] \in handed),
         Descends(auth[r])', TradesLast(auth[r])',
         \A s \in Slots \ {r} : Apart(auth[r], auth[s])'
  PROVE  FamiliesInv'
<1>1. /\ Len(tokens) \in Nat /\ handed \subseteq 1 .. Len(tokens)
      /\ \A s \in Slots :
           /\ auth[s].op \in {"refresh", "logout"} => auth[s].token \in 1 .. Len(tokens)
           /\ Issued(auth[s]) => auth[s].issued \in 1 .. Len(tokens)
  BY KnownTokens
<1>2. Lineage'
  <2>1. forked' \subseteq 1 .. Len(tokens')  BY <1>1 DEF Leaves
  <2>2. handed' = handed  BY DEF Leaves
  <2>3. ASSUME NEW t \in 1 .. Len(tokens'), t \in 1 .. Len(tokens)
        PROVE  /\ tokens'[t].parent \in 0 .. t - 1
               /\ tokens'[t].parent # 0 => tokens'[t].parent \in handed
               /\ root'[t] = t \/ root'[t] \in handed
    BY <2>3 DEF Leaves, FamiliesInv, Lineage
  <2> QED  BY <2>1, <2>2, <2>3 DEF Lineage
<1>3. \A f : Spoiled(f) => Spoiled(f)'
  <2> TAKE f
  <2> SUFFICES ASSUME Spoiled(f) PROVE Spoiled(f)'  OBVIOUS
  <2>1. PICK g \in forked : root[g] = f  BY DEF Spoiled
  <2>2. g \in forked' /\ root'[g] = f  BY <2>1 DEF Leaves, FamiliesInv, Lineage
  <2> QED  BY <2>2 DEF Spoiled
<1>4. ASSUME NEW s \in Slots \ {r} PROVE Descends(auth[s])' /\ TradesLast(auth[s])'
  <2>1. auth'[s] = auth[s] /\ Descends(auth[s]) /\ TradesLast(auth[s])
    BY <1>4 DEF Leaves, FamiliesInv
  <2>2. auth[s].op = "refresh" => auth[s].token \in 1 .. Len(tokens)  BY <1>1
  <2>3. Issued(auth[s]) => auth[s].issued \in 1 .. Len(tokens)  BY <1>1
  <2>4. Descends(auth[s])'  BY <2>1, <2>2, <2>3 DEF Descends, Leaves, Issued
  <2>5. TradesLast(auth[s])'
    <3> SUFFICES ASSUME Trades(auth[s]), NEW t \in handed, root'[t] = root'[auth[s].token],
                        ~tokens'[t].revoked
                 PROVE  t = auth[s].token \/ Spoiled(root[t])'
      <4>1. Trades(auth[s])' <=> Trades(auth[s])  BY <2>1 DEF Trades
      <4> QED  BY <2>1, <4>1 DEF TradesLast, Leaves
    <3>1. t \in 1 .. Len(tokens) /\ auth[s].token \in 1 .. Len(tokens)  BY <1>1, <2>2 DEF Trades
    <3>2. root'[t] = root[t] /\ root[t] = root[auth[s].token] /\ ~tokens[t].revoked
      BY <3>1 DEF Leaves
    <3>3. t = auth[s].token \/ Spoiled(root[t])  BY <2>1, <3>2 DEF TradesLast
    <3>4. PICK f : f = root[t]  OBVIOUS
    <3>5. t = auth[s].token \/ Spoiled(f)'  BY <1>3, <3>3, <3>4
    <3> QED  BY <3>2, <3>4, <3>5 DEF Spoiled
  <2> QED  BY <2>4, <2>5
<1>5. ASSUME NEW p \in Slots, NEW q \in Slots, p # q PROVE Apart(auth[p], auth[q])'
  <2>1. CASE p = r  BY <1>5, <2>1
  <2>2. CASE q = r
    <3>1. Apart(auth[q], auth[p])'  BY <1>5, <2>2
    <3> QED  BY <3>1 DEF Apart
  <2>3. CASE p # r /\ q # r
    <3>1. auth'[p] = auth[p] /\ auth'[q] = auth[q] /\ Apart(auth[p], auth[q])
      BY <1>5, <2>3 DEF Leaves, FamiliesInv
    <3>2. /\ auth[p].op = "refresh" => auth[p].token \in 1 .. Len(tokens)
          /\ auth[q].op = "refresh" => auth[q].token \in 1 .. Len(tokens)
      BY <1>1
    <3>3. ASSUME Trades(auth[p]), Trades(auth[q]), root'[auth[p].token] = root'[auth[q].token]
          PROVE  \E g \in forked' : root'[g] = root'[auth[p].token]
      <4>1. auth[p].token \in 1 .. Len(tokens) /\ auth[q].token \in 1 .. Len(tokens)
        BY <3>2, <3>3 DEF Trades
      <4>2. PICK f : f = root[auth[p].token]  OBVIOUS
      <4>3. root'[auth[p].token] = f /\ root[auth[q].token] = f  BY <3>3, <4>1, <4>2 DEF Leaves
      <4>4. Spoiled(f)  BY <3>1, <3>3, <4>2, <4>3 DEF Apart
      <4> QED  BY <1>3, <4>3, <4>4 DEF Spoiled
    <3>4. forked \subseteq forked'  BY DEF Leaves
    <3> QED  BY <3>1, <3>3, <3>4 DEF Apart, Trades, Issued, Spoiled
  <2> QED  BY <2>1, <2>2, <2>3
<1>6. ASSUME NEW s \in handed', NEW t \in handed', s # t, root'[s] = root'[t],
             ~tokens'[s].revoked, ~tokens'[t].revoked
      PROVE  Spoiled(root[s])'
  <2>1. s \in handed /\ t \in handed /\ s \in 1 .. Len(tokens) /\ t \in 1 .. Len(tokens)
    BY <1>1, <1>6 DEF Leaves
  <2>2. root'[s] = root[s] /\ root[s] = root[t] /\ ~tokens[s].revoked /\ ~tokens[t].revoked
    BY <1>6, <2>1 DEF Leaves
  <2>3. PICK f : f = root[s]  OBVIOUS
  <2>4. Spoiled(f)  BY <1>6, <2>1, <2>2, <2>3 DEF FamiliesInv
  <2> QED  BY <1>3, <2>2, <2>3, <2>4 DEF Spoiled
<1> QED  BY <1>2, <1>4, <1>5, <1>6 DEF FamiliesInv

\* What is known before and after a step: SessionsInv, and the roots of all tokens.
Known == SessionsInv /\ Rooted

(* The roots stay when rows are only added. *)
LEMMA KeepsRoots ==
  ASSUME Known, Known', FamiliesInv, Len(tokens) <= Len(tokens'),
         \A t \in 1 .. Len(tokens) : tokens'[t].parent = tokens[t].parent
  PROVE  \A t \in 1 .. Len(tokens) : root'[t] = root[t]
<1>1. Len(tokens) \in Nat /\ Len(tokens') \in Nat  BY DEF Known, SessionsInv
<1>2. Older  BY DEF FamiliesInv, Lineage, Older
<1> QED  BY <1>1, <1>2, RootsKept DEF Known

(* A request that issues nothing, and does not go on with a token. *)
LEMMA PassesStep ==
  ASSUME SessionsInv, FamiliesInv, NEW r \in Slots, Leaves(r), Len(tokens') = Len(tokens),
         ~Issued(auth'[r]), ~Trades(auth'[r]),
         auth'[r].op = "refresh" => auth[r].op = "refresh" /\ auth'[r].token = auth[r].token,
         auth'[r].op \notin {"refresh", "logout"} => auth'[r].token = 0
  PROVE  FamiliesInv'
<1>1. Descends(auth[r]) /\ \A s \in Slots \ {r} : Apart(auth[r], auth[s])  BY DEF FamiliesInv
<1>2. ~Issued(auth[r])' /\ ~Trades(auth[r])'  BY DEF Issued, Trades
<1>3. Descends(auth[r])'  BY <1>1, <1>2 DEF Descends, Issued, Leaves
<1>4. TradesLast(auth[r])'  BY <1>2 DEF TradesLast
<1>5. ASSUME NEW s \in Slots \ {r} PROVE Apart(auth[r], auth[s])'
  BY <1>1, <1>2, <1>5 DEF Apart, Leaves
<1> QED  BY <1>3, <1>4, <1>5, FamilyStep

(* Nothing is written to the tokens. *)
LEMMA NothingWritten ==
  ASSUME Known, Known', FamiliesInv, NEW r \in Slots, UNCHANGED <<tokens, handed>>,
         forked \subseteq forked', forked' \subseteq 1 .. Len(tokens),
         \E q : auth' = [auth EXCEPT ![r] = q]
  PROVE  Leaves(r) /\ Len(tokens') = Len(tokens)
<1>1. Len(tokens) \in Nat /\ tokens' = tokens  BY DEF Known, SessionsInv
<1>2. \A t \in 1 .. Len(tokens) : root'[t] = root[t]  BY <1>1, KeepsRoots
<1>3. \A s \in Slots \ {r} : auth'[s] = auth[s]  BY KnownTokens DEF Known
<1> QED  BY <1>1, <1>2, <1>3 DEF Leaves

(* A request that ends. *)
LEMMA EndsStep ==
  ASSUME Known, Known', FamiliesInv, NEW r \in Slots, Leaves(r), Len(tokens') = Len(tokens),
         auth'[r] = Idle
  PROVE  FamiliesInv'
<1>1. Idle.op = "idle" /\ Idle.pc = "idle" /\ Idle.token = 0  BY DEF Idle
<1> QED  BY <1>1, PassesStep DEF Known, Issued, Trades

(* A request moves on, without issuing anything or going on with a token. *)
LEMMA GoesStep ==
  ASSUME Known, Known', FamiliesInv, NEW r \in Slots, Leaves(r), Len(tokens') = Len(tokens),
         NEW pc, Goto(r, pc),
         pc # "reply", auth[r].op = "refresh" => pc \notin {"issue", "revoke"}
  PROVE  FamiliesInv'
<1>1. CASE pc = "refused"
  <2>1. auth'[r] = Idle  BY <1>1, KnownTokens DEF Known, Goto, Done
  <2> QED  BY <2>1, EndsStep
<1>2. CASE pc # "refused"
  <2>1. auth[r] \in AuthRequest  BY KnownTokens DEF Known
  <2>2. auth'[r] = [auth[r] EXCEPT !.pc = pc]  BY <1>2, KnownTokens DEF Known, Goto
  <2>3. auth'[r].pc = pc /\ auth'[r].op = auth[r].op /\ auth'[r].token = auth[r].token
    BY <2>1, <2>2 DEF AuthRequest
  <2>4. Descends(auth[r])  BY DEF FamiliesInv
  <2> QED  BY <2>3, <2>4, PassesStep DEF Known, Issued, Trades, Descends
<1> QED  BY <1>1, <1>2

(* A request arrives. *)
LEMMA ArrivesStep ==
  ASSUME Known, Known', FamiliesInv, NEW r \in Slots,
         \/ \E e \in Emails : ArriveRegister(r, e) \/ ArriveLogin(r, e)
         \/ \E g \in GoogleIds : ArriveGoogle(r, g)
         \/ \E t \in handed : ArriveRefresh(r, t) \/ ArriveLogout(r, t)
  PROVE  FamiliesInv'
<1>0. Idle \in AuthRequest /\ Idle.op = "idle" /\ Idle.pc = "idle" /\ Idle.token = 0
  BY IdleIsRequest DEF Idle
<1>1. /\ UNCHANGED <<tokens, handed>> /\ forked \subseteq forked' /\ forked' \subseteq 1 .. Len(tokens)
      /\ \E q : auth' = [auth EXCEPT ![r] = q]
  <2>1. forked \subseteq 1 .. Len(tokens) /\ handed \subseteq 1 .. Len(tokens)
    BY KnownTokens DEF Known, FamiliesInv, Lineage
  <2> QED  BY <2>1 DEF ArriveRegister, ArriveLogin, ArriveGoogle, ArriveRefresh, ArriveLogout,
                       ArriveWithCookie, Arrive
<1>2. Leaves(r) /\ Len(tokens') = Len(tokens)  BY <1>1, NothingWritten
<1>3. CASE \/ \E e \in Emails : ArriveRegister(r, e) \/ ArriveLogin(r, e)
           \/ \E g \in GoogleIds : ArriveGoogle(r, g)
           \/ \E t \in handed : ArriveLogout(r, t)
  <2>1. ASSUME NEW op \in {"register", "login", "google"},
               NEW pc \in {"findByEmail", "findByGoogleId"}, NEW e, NEW g,
               auth'[r] = [Idle EXCEPT !.op = op, !.pc = pc, !.google = g, !.email = e]
        PROVE  FamiliesInv'
    <3>1. auth'[r].op = op /\ auth'[r].pc = pc /\ auth'[r].token = 0
      BY <1>0, <2>1 DEF AuthRequest
    <3> QED  BY <1>2, <3>1, PassesStep DEF Known, Issued, Trades
  <2>2. ASSUME NEW e \in Emails, ArriveRegister(r, e) \/ ArriveLogin(r, e) PROVE FamiliesInv'
    <3>1. PICK op \in {"register", "login"} :
            auth'[r] = [Idle EXCEPT !.op = op, !.pc = "findByEmail", !.email = e]
      BY <2>2, KnownTokens DEF Known, ArriveRegister, ArriveLogin, Arrive
    <3>2. auth'[r] = [Idle EXCEPT !.op = op, !.pc = "findByEmail", !.google = Idle.google, !.email = e]
      BY <1>0, <3>1 DEF AuthRequest
    <3> QED  BY <2>1, <3>2
  <2>3. ASSUME NEW g \in GoogleIds, ArriveGoogle(r, g) PROVE FamiliesInv'
    <3>1. auth'[r] = [Idle EXCEPT !.op = "google", !.pc = "findByGoogleId", !.google = g,
                                  !.email = EmailOf[g]]
      BY <2>3, KnownTokens DEF Known, ArriveGoogle, Arrive
    <3> QED  BY <2>1, <3>1
  <2>4. ASSUME NEW t \in handed, ArriveLogout(r, t) PROVE FamiliesInv'
    <3>1. auth'[r] = [[Idle EXCEPT !.op = "logout"] EXCEPT !.pc = "read", !.token = t,
                                                         !.email = tokens[t].user]
      BY <2>4, KnownTokens DEF Known, ArriveLogout, ArriveWithCookie, Arrive
    <3>2. auth'[r].op = "logout" /\ auth'[r].pc = "read"  BY <1>0, <3>1 DEF AuthRequest
    <3> QED  BY <1>2, <3>2, PassesStep DEF Known, Issued, Trades
  <2> QED  BY <1>3, <2>2, <2>3, <2>4
<1>4. ASSUME NEW t \in handed, ArriveRefresh(r, t) PROVE FamiliesInv'
  <2>1. /\ auth'[r].op = "refresh" /\ auth'[r].pc = "read" /\ auth'[r].token = t
    BY <1>0, <1>4, KnownTokens DEF Known, ArriveRefresh, ArriveWithCookie, Arrive, Idle
  <2>2. forked' = IF \E s \in Slots : auth[s].op = "refresh" /\ auth[s].token = t
                  THEN forked \cup {t} ELSE forked
    BY <1>4 DEF ArriveRefresh, ArriveWithCookie
  <2>3. ~Issued(auth[r])' /\ ~Trades(auth[r])'  BY <2>1 DEF Issued, Trades
  <2>4. Descends(auth[r])' /\ TradesLast(auth[r])'
    BY <1>1, <2>1, <2>3 DEF Descends, TradesLast, Issued
  <2>5. ASSUME NEW s \in Slots \ {r} PROVE Apart(auth[r], auth[s])'
    BY <1>2, <2>1, <2>2, <2>3, <2>5 DEF Apart, Leaves
  <2> QED  BY <1>2, <2>4, <2>5, FamilyStep DEF Known
<1> QED  BY <1>3, <1>4

(* A token that is read as valid is the last of its family. *)
LEMMA ReadsStep ==
  ASSUME Known, Known', FamiliesInv, NEW r \in Slots, ReadForRefresh(r)
  PROVE  FamiliesInv'
<1>1. /\ auth[r].op = "refresh" /\ auth[r].pc = "read" /\ UNCHANGED <<tokens, handed, forked>>
      /\ Goto(r, NextOfRead(tokens[auth[r].token]))
  BY DEF ReadForRefresh
<1>2. PICK pc : pc = NextOfRead(tokens[auth[r].token])  OBVIOUS
<1>3. pc \in {"revokeAll", "expired", "issue"} /\ (pc = "issue" => ~tokens[auth[r].token].revoked)
  BY <1>2 DEF NextOfRead
<1>4. /\ auth[r] \in AuthRequest /\ auth[r].token \in 1 .. Len(tokens)
      /\ auth' = [auth EXCEPT ![r].pc = pc] /\ DOMAIN auth = Slots
  BY <1>1, <1>2, <1>3, KnownTokens DEF Known, Goto
<1>5. /\ auth' = [auth EXCEPT ![r] = [auth[r] EXCEPT !.pc = pc]]
      /\ auth'[r].op = "refresh" /\ auth'[r].pc = pc /\ auth'[r].token = auth[r].token
  BY <1>1, <1>4 DEF AuthRequest
<1>6. Leaves(r) /\ Len(tokens') = Len(tokens)
  <2>1. forked \subseteq forked' /\ forked' \subseteq 1 .. Len(tokens)
    BY <1>1 DEF FamiliesInv, Lineage
  <2> QED  BY <1>1, <1>5, <2>1, NothingWritten
<1>7. CASE pc # "issue"
  <2>1. Goto(r, pc)  BY <1>1, <1>2
  <2> QED  BY <1>3, <1>6, <1>7, <2>1, GoesStep
<1>8. CASE pc = "issue"
  <2>1. PICK t : t = auth[r].token  OBVIOUS
  <2>2. /\ t \in handed /\ t \in 1 .. Len(tokens) /\ ~tokens[t].revoked
        /\ auth[r].op = "refresh" /\ auth[r].token = t
    BY <1>1, <1>3, <1>4, <1>8, <2>1 DEF FamiliesInv, Descends
  <2>3. ASSUME NEW s \in Slots \ {r}, auth[s].op = "refresh"
        PROVE  /\ auth[s].token = t => t \in forked
               /\ Trades(auth[s]) /\ root[auth[s].token] = root[t] => Spoiled(root[t])
    <3>1. Apart(auth[r], auth[s]) /\ TradesLast(auth[s])  BY <2>3 DEF FamiliesInv
    <3>2. auth[s].token = t => t \in forked  BY <2>2, <2>3, <3>1 DEF Apart
    <3>3. ASSUME Trades(auth[s]), root[auth[s].token] = root[t] PROVE Spoiled(root[t])
      <4>1. t = auth[s].token \/ Spoiled(root[t])  BY <2>2, <3>1, <3>3 DEF TradesLast
      <4> QED  BY <3>2, <4>1 DEF Spoiled
    <3> QED  BY <3>2, <3>3
  <2>4. /\ ~Issued(auth[r])' /\ auth'[r].token = t /\ tokens' = tokens /\ handed' = handed
        /\ forked' = forked /\ \A u \in 1 .. Len(tokens) : root'[u] = root[u]
    BY <1>1, <1>5, <1>6, <1>8, <2>1 DEF Issued, Leaves
  <2>5. forked \subseteq 1 .. Len(tokens) /\ handed \subseteq 1 .. Len(tokens)
    BY KnownTokens DEF Known, FamiliesInv, Lineage
  <2>6. \A f : Spoiled(f) => Spoiled(f)'
    <3> TAKE f
    <3> SUFFICES ASSUME Spoiled(f) PROVE Spoiled(f)'  OBVIOUS
    <3>1. PICK g \in forked : root[g] = f  BY DEF Spoiled
    <3>2. g \in forked' /\ root'[g] = f  BY <2>4, <2>5, <3>1
    <3> QED  BY <3>2 DEF Spoiled
  <2>7. Descends(auth[r])'  BY <1>5, <1>8, <2>2, <2>4 DEF Descends, Issued
  <2>8. TradesLast(auth[r])'
    <3> SUFFICES ASSUME NEW u \in handed, root'[u] = root'[t], ~tokens[u].revoked, u # t
                 PROVE  Spoiled(root[u])'
      BY <2>4 DEF TradesLast
    <3>1. PICK f : f = root[u]  OBVIOUS
    <3>2. root'[u] = f /\ root[t] = f  BY <2>2, <2>4, <2>5, <3>1
    <3>3. Spoiled(f)  BY <2>2, <3>1, <3>2 DEF FamiliesInv
    <3> QED  BY <2>6, <3>2, <3>3 DEF Spoiled
  <2>9. ASSUME NEW s \in Slots \ {r} PROVE Apart(auth[r], auth[s])'
    <3>1. auth'[s] = auth[s]  BY <1>6, <2>9 DEF Leaves
    <3>2. auth[s].op = "refresh" => auth[s].token \in 1 .. Len(tokens)
      BY <2>9, KnownTokens DEF Known
    <3>3. ASSUME Trades(auth[s]), root'[auth[s].token] = root'[t] PROVE Spoiled(root[t])'
      <4>1. PICK f : f = root[t]  OBVIOUS
      <4>2. auth[s].op = "refresh" /\ root'[t] = f /\ root[auth[s].token] = f
        BY <2>2, <2>4, <3>2, <3>3, <4>1 DEF Trades
      <4>3. Spoiled(f)  BY <2>3, <2>9, <3>3, <4>1, <4>2
      <4> QED  BY <2>6, <4>2, <4>3 DEF Spoiled
    <3>4. Trades(auth[s])' <=> Trades(auth[s])  BY <3>1 DEF Trades
    <3> QED  BY <2>3, <2>4, <2>9, <3>1, <3>3, <3>4 DEF Apart
  <2> QED  BY <1>6, <2>7, <2>8, <2>9, FamilyStep DEF Known
<1> QED  BY <1>7, <1>8

(* A token is issued: to a new family, or to the one of the token traded   *)
(* in.                                                                     *)
LEMMA IssuesStep ==
  ASSUME Known, Known', FamiliesInv, NEW r \in Slots, Issue(r)
  PROVE  FamiliesInv'
<1>1. /\ auth[r].pc = "issue" /\ UNCHANGED <<handed, forked>> /\ auth[r] \in AuthRequest
      /\ tokens' = Append(tokens, [user |-> auth[r].email, expires |-> clock + Lifetime,
                                   revoked |-> FALSE, replacedBy |-> 0, parent |-> auth[r].token])
      /\ auth' = [auth EXCEPT ![r].issued = Len(tokens) + 1,
                              ![r].pc = IF auth[r].op = "refresh" THEN "revoke" ELSE "reply"]
  BY KnownTokens DEF Known, Issue
<1>2. PICK n \in Nat : n = Len(tokens) + 1  BY KnownTokens DEF Known
<1>3. PICK p : p = auth[r].token  OBVIOUS
<1>4. PICK pc : pc = IF auth[r].op = "refresh" THEN "revoke" ELSE "reply"  OBVIOUS
<1>5. /\ auth'[r].op = auth[r].op /\ auth'[r].token = p /\ auth'[r].issued = n /\ auth'[r].pc = pc
      /\ \A s \in Slots \ {r} : auth'[s] = auth[s]
  <2>1. auth' = [auth EXCEPT ![r] = [auth[r] EXCEPT !.issued = n, !.pc = pc]]
    BY <1>1, <1>2, <1>4, KnownTokens DEF Known, AuthRequest
  <2> QED  BY <1>1, <1>3, <2>1, KnownTokens DEF Known, AuthRequest
<1>6. /\ Len(tokens') = n /\ Len(tokens) = n - 1 /\ tokens'[n].parent = p /\ ~tokens'[n].revoked
      /\ \A t \in 1 .. n - 1 : tokens'[t] = tokens[t]
  <2>1. PICK new : new = [user |-> auth[r].email, expires |-> clock + Lifetime,
                          revoked |-> FALSE, replacedBy |-> 0, parent |-> p]
    OBVIOUS
  <2>2. new.parent = p /\ new.revoked = FALSE  BY <2>1
  <2>3. tokens \in Seq(Token) /\ tokens' = Append(tokens, new)
    BY <1>1, <1>3, <2>1 DEF Known, SessionsInv
  <2> QED  BY <1>2, <2>2, <2>3
<1>7. \A t \in 1 .. n - 1 : root'[t] = root[t]  BY <1>6, KeepsRoots
<1>8. Descends(auth[r]) /\ TradesLast(auth[r]) /\ handed \subseteq 1 .. n - 1 /\ forked \subseteq 1 .. n - 1
  BY <1>6, KnownTokens DEF Known, FamiliesInv, Lineage
<1>9. auth[r].op \notin {"idle", "logout"}
  BY <1>1, KnownTokens DEF Known
<1>10. IF auth[r].op = "refresh" THEN p \in handed ELSE p = 0
  BY <1>3, <1>8, <1>9 DEF Descends
<1>11. root'[n] = IF p = 0 THEN n ELSE root[p]
  <2>1. n \in 1 .. Len(tokens')  BY <1>2, <1>6
  <2>2. root'[n] = IF p = 0 THEN n ELSE root'[p]  BY <1>6, <2>1 DEF Known, Rooted
  <2>3. p # 0 => p \in 1 .. n - 1  BY <1>8, <1>10
  <2> QED  BY <1>7, <2>2, <2>3
<1>12. Leaves(r)
  <2>1. PICK k : k = Len(tokens)  OBVIOUS
  <2>2. k = n - 1 /\ 1 .. k = 1 .. n - 1 /\ k <= n  BY <1>2, <1>6, <2>1
  <2>3. forked \subseteq forked' /\ forked' \subseteq 1 .. k /\ handed' = handed
    BY <1>1, <1>8, <2>2
  <2>4. \A t \in 1 .. k : /\ tokens'[t].parent = tokens[t].parent
                          /\ tokens[t].revoked => tokens'[t].revoked
                          /\ root'[t] = root[t]
    BY <1>6, <1>7, <2>2
  <2>5. Len(tokens') \in Nat /\ k <= Len(tokens')  BY <1>2, <1>6, <2>2
  <2> QED  BY <1>5, <2>1, <2>3, <2>4, <2>5 DEF Leaves
<1>13. ASSUME NEW t \in 1 .. Len(tokens'), t \notin 1 .. Len(tokens)
       PROVE  /\ tokens'[t].parent \in 0 .. t - 1
              /\ tokens'[t].parent # 0 => tokens'[t].parent \in handed
              /\ root'[t] = t \/ root'[t] \in handed
  <2>1. t = n
    <3>1. t \in 1 .. n /\ t \notin 1 .. n - 1  BY <1>6, <1>13
    <3> QED  BY <1>2, <3>1
  <2>2. p \in 0 .. n - 1 /\ (p # 0 => p \in handed)
    <3>1. p = 0 \/ (p \in handed /\ p \in 1 .. n - 1)  BY <1>8, <1>10
    <3>2. n - 1 \in Nat  BY <1>2, KnownTokens DEF Known
    <3> QED  BY <3>1, <3>2
  <2>3. p # 0 => root[p] = p \/ root[p] \in handed
    BY <1>6, <1>8, <2>2 DEF FamiliesInv, Lineage
  <2> QED  BY <1>6, <1>11, <2>1, <2>2, <2>3
<1>14. \A f : Spoiled(f) => Spoiled(f)'
  <2> TAKE f
  <2> SUFFICES ASSUME Spoiled(f) PROVE Spoiled(f)'  OBVIOUS
  <2>1. PICK g \in forked : root[g] = f  BY DEF Spoiled
  <2>2. g \in forked' /\ root'[g] = f  BY <1>1, <1>7, <1>8, <2>1
  <2> QED  BY <2>2 DEF Spoiled
<1>15. n \notin handed  BY <1>2, <1>8
<1>16. CASE auth[r].op = "refresh"
  <2>1. pc = "revoke" /\ p \in handed /\ p # 0 /\ p \in 1 .. n - 1 /\ root'[n] = root[p] /\ Trades(auth[r])
    BY <1>1, <1>4, <1>8, <1>10, <1>11, <1>16 DEF Trades
  <2>2. root'[p] = root[p]  BY <1>7, <2>1
  <2>3. Descends(auth[r])'  BY <1>1, <1>5, <1>16, <2>1, <2>2 DEF Descends
  <2>4. TradesLast(auth[r])'
    <3> SUFFICES ASSUME NEW t \in handed, root'[t] = root'[p], ~tokens'[t].revoked
                 PROVE  t = p \/ Spoiled(root[t])'
      BY <1>1, <1>5 DEF TradesLast
    <3>1. PICK f : f = root[t]  OBVIOUS
    <3>2. root'[t] = f /\ root[p] = f /\ ~tokens[t].revoked  BY <1>6, <1>7, <1>8, <2>2, <3>1
    <3>3. t = p \/ Spoiled(f)  BY <1>3, <1>8, <2>1, <3>1, <3>2 DEF TradesLast
    <3> QED  BY <1>14, <3>2, <3>3 DEF Spoiled
  <2>5. ASSUME NEW s \in Slots \ {r} PROVE Apart(auth[r], auth[s])'
    <3>1. Apart(auth[r], auth[s]) /\ auth'[s] = auth[s]  BY <1>5, <2>5 DEF FamiliesInv
    <3>2. /\ Issued(auth[s]) => auth[s].issued \in 1 .. n - 1
          /\ auth[s].op = "refresh" => auth[s].token \in 1 .. n - 1
      BY <1>6, <2>5, KnownTokens DEF Known
    <3>3. Issued(auth[s])' => auth'[s].issued # n  BY <1>2, <3>1, <3>2 DEF Issued
    <3>4. auth[s].op = "refresh" /\ auth[s].token = p => p \in forked'
      BY <1>1, <1>3, <1>16, <3>1 DEF Apart
    <3>5. ASSUME Trades(auth[s]), root'[auth[s].token] = root'[p] PROVE Spoiled(root[p])'
      <4>1. PICK f : f = root[p]  OBVIOUS
      <4>2. root'[p] = f /\ root[auth[s].token] = f
        BY <1>7, <2>2, <3>2, <3>5, <4>1 DEF Trades
      <4>3. Spoiled(f)  BY <1>3, <2>1, <3>1, <3>5, <4>1, <4>2 DEF Apart
      <4> QED  BY <1>14, <4>2, <4>3 DEF Spoiled
    <3>6. Trades(auth[s])' <=> Trades(auth[s])  BY <3>1 DEF Trades
    <3> QED  BY <1>5, <3>1, <3>3, <3>4, <3>5, <3>6 DEF Apart
  <2> QED  BY <1>12, <1>13, <2>3, <2>4, <2>5, FamilyStep DEF Known
<1>17. CASE auth[r].op # "refresh"
  <2>1. pc = "reply" /\ p = 0 /\ root'[n] = n  BY <1>4, <1>10, <1>11, <1>17
  <2>2. ~Trades(auth[r])'  BY <1>5, <1>17 DEF Trades
  <2>3. Descends(auth[r])'  BY <1>1, <1>5, <1>9, <1>15, <1>17, <2>1 DEF Descends
  <2>4. TradesLast(auth[r])'  BY <2>2 DEF TradesLast
  <2>5. ASSUME NEW s \in Slots \ {r} PROVE Apart(auth[r], auth[s])'
    <3>1. Issued(auth[s]) => auth[s].issued \in 1 .. n - 1  BY <1>6, <2>5, KnownTokens DEF Known
    <3>2. auth'[s] = auth[s]  BY <1>5, <2>5
    <3>3. Issued(auth[s])' => auth'[s].issued # n  BY <1>2, <3>1, <3>2 DEF Issued
    <3> QED  BY <1>5, <1>17, <2>2, <3>3 DEF Apart
  <2> QED  BY <1>12, <1>13, <2>3, <2>4, <2>5, FamilyStep DEF Known
<1> QED  BY <1>16, <1>17

\* A row that was at most revoked.
SameLine(row, new) == new.parent = row.parent /\ (row.revoked => new.revoked)

(* Sequences with the same places have the same length. *)
LEMMA SameLength ==
  ASSUME NEW S, NEW T, NEW s \in Seq(S), NEW u \in Seq(T), DOMAIN s = DOMAIN u
  PROVE  Len(s) = Len(u) /\ Len(s) \in Nat
<1>1. PICK m \in Nat : m = Len(s) /\ DOMAIN s = 1 .. m  OBVIOUS
<1>2. PICK n \in Nat : n = Len(u) /\ DOMAIN u = 1 .. n  OBVIOUS
<1>3. 1 .. m = 1 .. n  BY <1>1, <1>2
<1>4. (m > 0 => m \in 1 .. n) /\ (n > 0 => n \in 1 .. m)  BY <1>3
<1>5. m = n  BY <1>4
<1> QED  BY <1>1, <1>2, <1>5

(* Revoking takes nothing away that a client could still use. *)
LEMMA RevokingLeaves ==
  ASSUME Known, Known', FamiliesInv, NEW r \in Slots, UNCHANGED <<handed, forked>>,
         \A s \in Slots \ {r} : auth'[s] = auth[s], DOMAIN tokens' = DOMAIN tokens,
         \A t \in 1 .. Len(tokens) : SameLine(tokens[t], tokens'[t])
  PROVE  Leaves(r) /\ Len(tokens') = Len(tokens)
<1>1. tokens \in Seq(Token) /\ tokens' \in Seq(Token)  BY DEF Known, SessionsInv
<1>2. Len(tokens') = Len(tokens) /\ Len(tokens) \in Nat  BY <1>1, SameLength
<1>3. \A t \in 1 .. Len(tokens) : tokens'[t].parent = tokens[t].parent
                                /\ (tokens[t].revoked => tokens'[t].revoked)
  BY DEF SameLine
<1>4. \A t \in 1 .. Len(tokens) : root'[t] = root[t]
  <2>1. Len(tokens) <= Len(tokens')  BY <1>2
  <2> QED  BY <1>3, <2>1, KeepsRoots
<1>5. forked \subseteq forked' /\ forked' \subseteq 1 .. Len(tokens)  BY DEF FamiliesInv, Lineage
<1> QED  BY <1>2, <1>3, <1>4, <1>5 DEF Leaves

(* All tokens of a user are revoked. *)
LEMMA RevokesAllStep ==
  ASSUME Known, Known', FamiliesInv, NEW r \in Slots, RevokeAllForUser(r)
  PROVE  FamiliesInv'
<1>1. /\ Goto(r, "reused") /\ UNCHANGED <<handed, forked>>
      /\ tokens' = [t \in DOMAIN tokens |-> IF tokens[t].user = auth[r].email
                                           THEN [tokens[t] EXCEPT !.revoked = TRUE] ELSE tokens[t]]
  BY DEF RevokeAllForUser
<1>2. ASSUME NEW t \in 1 .. Len(tokens) PROVE SameLine(tokens[t], tokens'[t])
  <2>1. t \in DOMAIN tokens  BY DEF Known, SessionsInv
  <2>2. PICK row \in Token : row = tokens[t]  BY <2>1 DEF Known, SessionsInv
  <2>3. PICK gone : gone = [row EXCEPT !.revoked = TRUE]  OBVIOUS
  <2>4. SameLine(row, gone) /\ SameLine(row, row)  BY <2>2, <2>3 DEF Token, SameLine
  <2>5. tokens'[t] = row \/ tokens'[t] = gone  BY <1>1, <2>1, <2>2, <2>3
  <2> QED  BY <2>2, <2>4, <2>5
<1>3. DOMAIN tokens' = DOMAIN tokens /\ \A s \in Slots \ {r} : auth'[s] = auth[s]
  <2>1. auth' = [auth EXCEPT ![r].pc = "reused"]  BY <1>1 DEF Goto
  <2> QED  BY <1>1, <2>1, KnownTokens DEF Known
<1>4. Leaves(r) /\ Len(tokens') = Len(tokens)  BY <1>1, <1>2, <1>3, RevokingLeaves
<1> QED  BY <1>1, <1>4, GoesStep

(* A token is retired: after a rotation nobody else holds a valid one.     *)
LEMMA RevokesStep ==
  ASSUME Known, Known', FamiliesInv, NEW r \in Slots, Revoke(r)
  PROVE  FamiliesInv'
<1>1. PICK t : t = auth[r].token  OBVIOUS
<1>2. /\ auth[r].pc = "revoke" /\ UNCHANGED <<handed, forked>>
      /\ tokens' = [tokens EXCEPT ![t] = Retired(tokens[t], auth[r].issued)]
      /\ IF auth[r].op = "refresh" THEN Goto(r, "reply") ELSE Done(r)
  BY <1>1 DEF Revoke
<1>3. /\ t \in 1 .. Len(tokens) /\ DOMAIN tokens = 1 .. Len(tokens) /\ tokens \in Seq(Token)
      /\ tokens[t] \in Token /\ auth[r] \in AuthRequest /\ DOMAIN auth = Slots
  <2>1. auth[r].op \in {"refresh", "logout"}  BY <1>2 DEF Known, SessionsInv, RequestsInv, Placed
  <2> QED  BY <1>1, <2>1, KnownTokens DEF Known, SessionsInv
<1>4. PICK n \in Nat : Retired(tokens[t], auth[r].issued) =
                         [tokens[t] EXCEPT !.revoked = TRUE, !.replacedBy = n]
  <2>1. auth[r].issued \in Nat /\ tokens[t].replacedBy \in Nat  BY <1>3 DEF AuthRequest, Token
  <2> QED  BY <2>1 DEF Retired
<1>5. /\ \A u \in 1 .. Len(tokens) : SameLine(tokens[u], tokens'[u])
      /\ DOMAIN tokens' = DOMAIN tokens /\ tokens'[t].revoked
  <2>1. PICK row \in Token : row = tokens[t]  BY <1>3
  <2>2. PICK new : new = [row EXCEPT !.revoked = TRUE, !.replacedBy = n]  OBVIOUS
  <2>3. new.revoked /\ SameLine(row, new)  BY <2>1, <2>2 DEF Token, SameLine
  <2>4. tokens' = [tokens EXCEPT ![t] = new]  BY <1>2, <1>4, <2>1, <2>2
  <2>5. DOMAIN tokens' = DOMAIN tokens  BY <2>4
  <2>6. ASSUME NEW u \in 1 .. Len(tokens) PROVE SameLine(tokens[u], tokens'[u])
    <3>1. u \in DOMAIN tokens  BY <1>3
    <3>2. CASE u = t  BY <2>1, <2>3, <2>4, <3>1, <3>2
    <3>3. CASE u # t
      <4>1. tokens'[u] = tokens[u]  BY <2>4, <3>1, <3>3
      <4> QED  BY <4>1 DEF SameLine
    <3> QED  BY <3>2, <3>3
  <2>7. tokens'[t] = new  BY <1>3, <2>4
  <2> QED  BY <2>3, <2>5, <2>6, <2>7
<1>6. CASE auth[r].op # "refresh"
  <2>1. auth' = [auth EXCEPT ![r] = Idle]  BY <1>2, <1>6 DEF Done
  <2>2. Leaves(r) /\ Len(tokens') = Len(tokens)
    <3>1. \A s \in Slots \ {r} : auth'[s] = auth[s]  BY <1>3, <2>1
    <3> QED  BY <1>2, <1>5, <3>1, RevokingLeaves
  <2>3. auth'[r] = Idle  BY <1>3, <2>1
  <2> QED  BY <2>2, <2>3, EndsStep
<1>7. CASE auth[r].op = "refresh"
  <2>1. auth' = [auth EXCEPT ![r] = [auth[r] EXCEPT !.pc = "reply"]]
    BY <1>2, <1>3, <1>7 DEF Goto
  <2>2. Leaves(r) /\ Len(tokens') = Len(tokens)
    <3>1. \A s \in Slots \ {r} : auth'[s] = auth[s]  BY <1>3, <2>1
    <3> QED  BY <1>2, <1>5, <3>1, RevokingLeaves
  <2>3. /\ auth'[r].op = "refresh" /\ auth'[r].pc = "reply" /\ auth'[r].token = t
        /\ auth'[r].issued = auth[r].issued
    BY <1>1, <1>3, <1>7, <2>1 DEF AuthRequest
  <2>4. /\ Descends(auth[r]) /\ TradesLast(auth[r]) /\ Issued(auth[r]) /\ Trades(auth[r])
        /\ \A s \in Slots \ {r} : Apart(auth[r], auth[s])
    BY <1>2, <1>7 DEF FamiliesInv, Issued, Trades
  <2>5. auth[r].issued \in 1 .. Len(tokens) /\ handed \subseteq 1 .. Len(tokens)
        /\ forked \subseteq 1 .. Len(tokens)
    BY <2>4, KnownTokens DEF Known, FamiliesInv, Lineage
  <2>6. \A u \in 1 .. Len(tokens) : root'[u] = root[u] /\ (tokens[u].revoked => tokens'[u].revoked)
    BY <2>2 DEF Leaves
  <2>7. \A f : Spoiled(f) => Spoiled(f)'
    <3> TAKE f
    <3> SUFFICES ASSUME Spoiled(f) PROVE Spoiled(f)'  OBVIOUS
    <3>1. PICK g \in forked : root[g] = f  BY DEF Spoiled
    <3>2. g \in forked' /\ root'[g] = f  BY <1>2, <2>5, <2>6, <3>1
    <3> QED  BY <3>2 DEF Spoiled
  <2>8. Descends(auth[r])'
    <3>1. root'[auth[r].issued] = root'[t]  BY <1>1, <1>3, <1>7, <2>4, <2>5, <2>6 DEF Descends
    <3>2. t \in handed  BY <1>1, <1>7, <2>4 DEF Descends
    <3> QED  BY <1>2, <1>5, <2>3, <3>1, <3>2 DEF Descends
  <2>9. TradesLast(auth[r])'
    <3> SUFFICES ASSUME NEW u \in handed, root'[u] = root'[t], ~tokens'[u].revoked
                 PROVE  u = t \/ Spoiled(root[u])'
      BY <1>2, <2>3 DEF TradesLast
    <3>1. PICK f : f = root[u]  OBVIOUS
    <3>2. root'[u] = f /\ root[t] = f /\ ~tokens[u].revoked  BY <1>3, <2>5, <2>6, <3>1
    <3>3. u = t \/ Spoiled(f)  BY <1>1, <2>4, <3>1, <3>2 DEF TradesLast
    <3> QED  BY <2>7, <3>2, <3>3 DEF Spoiled
  <2>10. ASSUME NEW s \in Slots \ {r} PROVE Apart(auth[r], auth[s])'
    <3>1. auth'[s] = auth[s] /\ Apart(auth[r], auth[s])  BY <2>2, <2>4, <2>10 DEF Leaves
    <3>2. Issued(auth[s])' => auth'[s].issued # auth[r].issued
      BY <2>4, <3>1 DEF Apart, Issued
    <3>3. auth[s].op = "refresh" => auth[s].token \in 1 .. Len(tokens)
      BY <2>10, KnownTokens DEF Known
    <3>4. auth[s].op = "refresh" /\ auth[s].token = t => t \in forked'
      BY <1>1, <1>2, <1>7, <3>1 DEF Apart
    <3>5. ASSUME Trades(auth[s]), root'[auth[s].token] = root'[t] PROVE Spoiled(root[t])'
      <4>1. PICK f : f = root[t]  OBVIOUS
      <4>2. root'[t] = f /\ root[auth[s].token] = f
        BY <1>3, <2>6, <3>3, <3>5, <4>1 DEF Trades
      <4>3. Spoiled(f)  BY <1>1, <2>4, <3>1, <3>5, <4>1, <4>2 DEF Apart
      <4> QED  BY <2>7, <4>2, <4>3 DEF Spoiled
    <3>6. Trades(auth[s])' <=> Trades(auth[s])  BY <3>1 DEF Trades
    <3> QED  BY <2>3, <3>1, <3>2, <3>4, <3>5, <3>6 DEF Apart
  <2> QED  BY <2>2, <2>8, <2>9, <2>10, FamilyStep DEF Known
<1> QED  BY <1>6, <1>7

(* The answer hands the new token to the client: nobody else holds a valid *)
(* token of its family, or the family had been presented twice at once.    *)
LEMMA RepliesStep ==
  ASSUME Known, Known', FamiliesInv, NEW r \in Slots, Reply(r)
  PROVE  FamiliesInv'
<1>1. PICK i : i = auth[r].issued  OBVIOUS
<1>2. PICK p : p = auth[r].token  OBVIOUS
<1>3. /\ auth[r].pc = "reply" /\ handed' = handed \cup {i} /\ auth' = [auth EXCEPT ![r] = Idle]
      /\ tokens' = tokens /\ forked' = forked
  BY <1>1 DEF Reply, Done
<1>4. /\ Len(tokens) \in Nat /\ handed \subseteq 1 .. Len(tokens) /\ i \in 1 .. Len(tokens)
      /\ auth[r].op \notin {"idle", "logout"} /\ forked \subseteq 1 .. Len(tokens)
  BY <1>1, <1>3, KnownTokens DEF Known, Issued, FamiliesInv, Lineage
<1>5. auth'[r] = Idle /\ \A s \in Slots \ {r} : auth'[s] = auth[s]
  BY <1>3, KnownTokens DEF Known
<1>6. \A t \in 1 .. Len(tokens) : root'[t] = root[t]
  <2>1. Len(tokens) <= Len(tokens')  BY <1>3, <1>4
  <2> QED  BY <1>3, <2>1, KeepsRoots
<1>7. Idle.op = "idle" /\ Idle.pc = "idle" /\ Idle.token = 0  BY DEF Idle
<1>8. ~Issued(auth[r])' /\ ~Trades(auth[r])'  BY <1>5, <1>7 DEF Issued, Trades
<1>9. Issued(auth[r]) /\ Descends(auth[r]) /\ TradesLast(auth[r])  BY <1>3 DEF Issued, FamiliesInv
<1>10. \A f : Spoiled(f) => Spoiled(f)'
  <2> TAKE f
  <2> SUFFICES ASSUME Spoiled(f) PROVE Spoiled(f)'  OBVIOUS
  <2>1. PICK g \in forked : root[g] = f  BY DEF Spoiled
  <2>2. g \in forked' /\ root'[g] = f  BY <1>3, <1>4, <1>6, <2>1
  <2> QED  BY <2>2 DEF Spoiled
<1>11. \A t \in handed : root[t] = t \/ root[t] \in handed  BY <1>4 DEF FamiliesInv, Lineage
<1>12. /\ \A t \in handed : t # i /\ root[t] = root[i] /\ ~tokens[t].revoked => Spoiled(root[i])
       /\ \A s \in Slots \ {r} :
            Trades(auth[s]) /\ root[auth[s].token] = root[i] => Spoiled(root[i])
  <2>1. CASE auth[r].op = "refresh"
    <3>1. Trades(auth[r]) /\ root[i] = root[p] /\ tokens[p].revoked
      BY <1>1, <1>2, <1>3, <1>9, <2>1 DEF Trades, Descends
    <3>2. \A t \in handed : root[t] = root[i] /\ ~tokens[t].revoked => Spoiled(root[i])
      BY <1>2, <1>9, <3>1 DEF TradesLast
    <3>3. ASSUME NEW s \in Slots \ {r}, Trades(auth[s]), root[auth[s].token] = root[i]
          PROVE  Spoiled(root[i])
      <4>1. Apart(auth[r], auth[s])  BY <3>3 DEF FamiliesInv
      <4> QED  BY <1>2, <3>1, <3>3, <4>1 DEF Apart
    <3> QED  BY <3>2, <3>3
  <2>2. CASE auth[r].op # "refresh"
    <3>1. root[i] = i /\ i \notin handed  BY <1>1, <1>3, <1>4, <1>9, <2>2 DEF Descends
    <3>2. \A t \in handed : root[t] # root[i]  BY <1>11, <3>1
    <3>3. ASSUME NEW s \in Slots \ {r}, Trades(auth[s]) PROVE auth[s].token \in handed
      <4>1. Descends(auth[s])  BY <3>3 DEF FamiliesInv
      <4> QED  BY <3>3, <4>1 DEF Descends, Trades
    <3> QED  BY <3>2, <3>3
  <2> QED  BY <2>1, <2>2
<1>13. Lineage'
  BY <1>3, <1>4, <1>6 DEF FamiliesInv, Lineage
<1>14. ASSUME NEW s \in Slots PROVE Descends(auth[s])'
  <2>1. CASE s = r  BY <1>5, <1>7, <1>8, <2>1 DEF Descends, Issued
  <2>2. CASE s # r
    <3>1. auth'[s] = auth[s] /\ Descends(auth[s]) /\ Apart(auth[r], auth[s])
      BY <1>5, <2>2 DEF FamiliesInv
    <3>2. /\ auth[s].op \in {"refresh", "logout"} => auth[s].token \in 1 .. Len(tokens)
          /\ Issued(auth[s]) => auth[s].issued \in 1 .. Len(tokens)
      BY KnownTokens DEF Known
    <3>3. Issued(auth[s]) => auth[s].issued # i  BY <1>1, <1>9, <3>1 DEF Apart
    <3> QED  BY <1>3, <1>6, <3>1, <3>2, <3>3 DEF Descends, Issued
  <2> QED  BY <2>1, <2>2
<1>15. ASSUME NEW s \in Slots PROVE TradesLast(auth[s])'
  <2>1. CASE s = r  BY <1>8, <2>1 DEF TradesLast
  <2>2. CASE s # r
    <3>1. auth'[s] = auth[s] /\ TradesLast(auth[s]) /\ Descends(auth[s])
      BY <1>5, <2>2 DEF FamiliesInv
    <3>2. auth[s].op = "refresh" => auth[s].token \in 1 .. Len(tokens)
      BY KnownTokens DEF Known
    <3> SUFFICES ASSUME Trades(auth[s]), NEW t \in handed \cup {i},
                        root'[t] = root'[auth[s].token], ~tokens[t].revoked
                 PROVE  t = auth[s].token \/ Spoiled(root[t])'
      <4>1. Trades(auth[s])' <=> Trades(auth[s])  BY <3>1 DEF Trades
      <4> QED  BY <1>3, <3>1, <4>1 DEF TradesLast
    <3>3. PICK f : f = root[t]  OBVIOUS
    <3>4. root'[t] = f /\ root[auth[s].token] = f  BY <1>4, <1>6, <3>2, <3>3 DEF Trades
    <3>5. t = auth[s].token \/ Spoiled(f)
      <4>1. CASE t \in handed  BY <3>1, <3>3, <3>4, <4>1 DEF TradesLast
      <4>2. CASE t = i  BY <1>12, <2>2, <3>3, <3>4, <4>2
      <4> QED  BY <4>1, <4>2
    <3> QED  BY <1>10, <3>4, <3>5 DEF Spoiled
  <2> QED  BY <2>1, <2>2
<1>16. ASSUME NEW q \in Slots, NEW s \in Slots, q # s PROVE Apart(auth[q], auth[s])'
  <2>1. CASE q = r \/ s = r
    <3>1. auth'[r].op = "idle"  BY <1>5, <1>7
    <3> QED  BY <1>8, <2>1, <3>1 DEF Apart
  <2>2. CASE q # r /\ s # r
    <3>1. auth'[q] = auth[q] /\ auth'[s] = auth[s] /\ Apart(auth[q], auth[s])
      BY <1>5, <1>16, <2>2 DEF FamiliesInv
    <3>2. /\ auth[q].op = "refresh" => auth[q].token \in 1 .. Len(tokens)
          /\ auth[s].op = "refresh" => auth[s].token \in 1 .. Len(tokens)
      BY KnownTokens DEF Known
    <3>3. ASSUME Trades(auth[q]), Trades(auth[s]), root'[auth[q].token] = root'[auth[s].token]
          PROVE  \E g \in forked' : root'[g] = root'[auth[q].token]
      <4>1. PICK f : f = root[auth[q].token]  OBVIOUS
      <4>2. root'[auth[q].token] = f /\ root[auth[s].token] = f
        BY <1>6, <3>2, <3>3, <4>1 DEF Trades
      <4>3. Spoiled(f)  BY <3>1, <3>3, <4>1, <4>2 DEF Apart
      <4> QED  BY <1>10, <4>2, <4>3 DEF Spoiled
    <3> QED  BY <1>3, <3>1, <3>3 DEF Apart, Trades, Issued, Spoiled
  <2> QED  BY <2>1, <2>2
<1>17. ASSUME NEW s \in handed', NEW t \in handed', s # t, root'[s] = root'[t],
              ~tokens'[s].revoked, ~tokens'[t].revoked
       PROVE  Spoiled(root[s])'
  <2>1. s \in handed \cup {i} /\ t \in handed \cup {i}  BY <1>3, <1>17
  <2>2. PICK f : f = root[s]  OBVIOUS
  <2>3. root'[s] = f /\ root[t] = f /\ ~tokens[s].revoked /\ ~tokens[t].revoked
    BY <1>3, <1>4, <1>6, <1>17, <2>1, <2>2
  <2>4. Spoiled(f)
    <3>1. CASE s \in handed /\ t \in handed  BY <1>17, <2>2, <2>3, <3>1 DEF FamiliesInv
    <3>2. CASE s = i \/ t = i  BY <1>12, <1>17, <2>1, <2>2, <2>3, <3>2
    <3> QED  BY <2>1, <3>1, <3>2
  <2> QED  BY <1>10, <2>3, <2>4 DEF Spoiled
<1> QED  BY <1>13, <1>14, <1>15, <1>16, <1>17 DEF FamiliesInv

(* The steps of a sign-in before the INSERT, and of a logout. *)
LEMMA SignsInStep ==
  ASSUME Known, Known', FamiliesInv, NEW r \in Slots,
         \/ FindForRegister(r) \/ FindForLogin(r) \/ FindByGoogleId(r) \/ FindForGoogle(r)
         \/ LinkGoogleId(r) \/ CreateUser(r) \/ Provision(r) \/ ReadForLogout(r)
  PROVE  FamiliesInv'
<1>1. UNCHANGED <<tokens, handed, forked>> /\ auth[r].op # "refresh"
  <2>1. UNCHANGED <<tokens, handed, forked>>
    BY DEF FindForRegister, FindForLogin, FindByGoogleId, FindForGoogle, LinkGoogleId,
           CreateUser, Provision, ReadForLogout
  <2>2. \/ auth[r].op \in {"register", "login", "google", "logout"}
        \/ auth[r].pc \in {"findByGoogleId", "link", "create", "provision"}
    BY DEF FindForRegister, FindForLogin, FindByGoogleId, FindForGoogle, LinkGoogleId,
           CreateUser, Provision, ReadForLogout
  <2>3. auth[r].op = "refresh" => auth[r].pc \in RefreshPcs  BY KnownTokens DEF Known
  <2> QED  BY <2>1, <2>2, <2>3 DEF RefreshPcs
<1>2. auth[r] \in AuthRequest /\ DOMAIN auth = Slots  BY KnownTokens DEF Known
<1>3. \/ \E pc : pc # "reply" /\ Goto(r, pc)
      \/ Done(r)
      \/ \E e : auth' = [auth EXCEPT ![r] = [auth[r] EXCEPT !.email = e, !.pc = "issue"]]
  <2>1. CASE FindByGoogleId(r)
    <3>1. CASE \E e \in Emails : /\ accounts[e].google = auth[r].google
                                 /\ IF accounts[e].active
                                    THEN auth' = [auth EXCEPT ![r].email = e, ![r].pc = "issue"]
                                    ELSE Done(r)
      <4>1. PICK e \in Emails : Done(r) \/ auth' = [auth EXCEPT ![r].email = e, ![r].pc = "issue"]
        BY <3>1
      <4>2. auth' = [auth EXCEPT ![r].email = e, ![r].pc = "issue"]
              => auth' = [auth EXCEPT ![r] = [auth[r] EXCEPT !.email = e, !.pc = "issue"]]
        BY <1>2 DEF AuthRequest
      <4> QED  BY <4>1, <4>2
    <3>2. CASE Goto(r, "findByEmail")  BY <3>2
    <3> QED  BY <2>1, <3>1, <3>2 DEF FindByGoogleId
  <2>2. ASSUME \E pc \in {"refused", "create", "issue", "link", "provision", "revoke"} : Goto(r, pc)
        PROVE  \E pc : pc # "reply" /\ Goto(r, pc)
    BY <2>2
  <2>3. CASE FindForRegister(r)  BY <2>2, <2>3 DEF FindForRegister
  <2>4. CASE FindForLogin(r)  BY <2>2, <2>4 DEF FindForLogin
  <2>5. CASE FindForGoogle(r)  BY <2>2, <2>5 DEF FindForGoogle
  <2>6. CASE LinkGoogleId(r)  BY <2>2, <2>6 DEF LinkGoogleId
  <2>7. CASE CreateUser(r)  BY <2>2, <2>7 DEF CreateUser
  <2>8. CASE Provision(r)  BY <2>2, <2>8 DEF Provision
  <2>9. CASE ReadForLogout(r)  BY <2>2, <2>9 DEF ReadForLogout
  <2> QED  BY <2>1, <2>3, <2>4, <2>5, <2>6, <2>7, <2>8, <2>9
<1>4. Leaves(r) /\ Len(tokens') = Len(tokens)
  <2>1. \E q : auth' = [auth EXCEPT ![r] = q]
    <3>1. ASSUME NEW pc, Goto(r, pc) PROVE \E q : auth' = [auth EXCEPT ![r] = q]
      BY <3>1, <1>2 DEF Goto, Done
    <3>2. ASSUME Done(r) PROVE \E q : auth' = [auth EXCEPT ![r] = q]  BY <3>2 DEF Done
    <3> QED  BY <1>3, <3>1, <3>2
  <2>2. forked \subseteq forked' /\ forked' \subseteq 1 .. Len(tokens)
    BY <1>1 DEF FamiliesInv, Lineage
  <2> QED  BY <1>1, <2>1, <2>2, NothingWritten
<1>5. ASSUME NEW pc, pc # "reply", Goto(r, pc) PROVE FamiliesInv'
  BY <1>1, <1>4, <1>5, GoesStep
<1>6. ASSUME Done(r) PROVE FamiliesInv'
  <2>1. auth'[r] = Idle  BY <1>2, <1>6 DEF Done
  <2> QED  BY <1>4, <2>1, EndsStep
<1>7. ASSUME NEW e, auth' = [auth EXCEPT ![r] = [auth[r] EXCEPT !.email = e, !.pc = "issue"]]
      PROVE  FamiliesInv'
  <2>1. auth'[r].pc = "issue" /\ auth'[r].op = auth[r].op /\ auth'[r].token = auth[r].token
    BY <1>2, <1>7 DEF AuthRequest
  <2>2. Descends(auth[r])  BY DEF FamiliesInv
  <2> QED  BY <1>1, <1>4, <2>1, <2>2, PassesStep DEF Known, Issued, Trades, Descends
<1> QED  BY <1>3, <1>5, <1>6, <1>7

(* Every step, once the roots before and after it are known. *)
LEMMA FamiliesStep ==
  Known /\ Known' /\ FamiliesInv /\ [SessionsNext]_sessionsVars => FamiliesInv'
<1> SUFFICES ASSUME Known, Known', FamiliesInv, [SessionsNext]_sessionsVars PROVE FamiliesInv'
  OBVIOUS
<1>1. ASSUME NEW r \in Slots,
             \/ \E e \in Emails : ArriveRegister(r, e) \/ ArriveLogin(r, e)
             \/ \E g \in GoogleIds : ArriveGoogle(r, g)
             \/ \E t \in handed : ArriveRefresh(r, t) \/ ArriveLogout(r, t)
      PROVE  FamiliesInv'
  BY <1>1, ArrivesStep
<1>2. ASSUME NEW r \in Slots,
             \/ FindForRegister(r) \/ FindForLogin(r) \/ FindByGoogleId(r) \/ FindForGoogle(r)
             \/ LinkGoogleId(r) \/ CreateUser(r) \/ Provision(r) \/ ReadForLogout(r)
      PROVE  FamiliesInv'
  BY <1>2, SignsInStep
<1>3. ASSUME NEW r \in Slots, ReplyRefused(r) \/ AuthFails(r) PROVE FamiliesInv'
  <2>1. UNCHANGED <<tokens, handed, forked>> /\ auth' = [auth EXCEPT ![r] = Idle]
    BY <1>3 DEF ReplyRefused, AuthFails, Done
  <2>2. forked \subseteq forked' /\ forked' \subseteq 1 .. Len(tokens)
    BY <2>1 DEF FamiliesInv, Lineage
  <2>3. Leaves(r) /\ Len(tokens') = Len(tokens)  BY <2>1, <2>2, NothingWritten
  <2>4. auth'[r] = Idle  BY <2>1, KnownTokens DEF Known
  <2> QED  BY <2>3, <2>4, EndsStep
<1>4. CASE ClockTicks \/ UNCHANGED sessionsVars
  <2>1. UNCHANGED <<tokens, handed, auth, forked>>  BY <1>4 DEF ClockTicks, sessionsVars
  <2>2. \A t \in 1 .. Len(tokens) : root'[t] = root[t]
    <3>1. Len(tokens) <= Len(tokens')  BY <2>1 DEF Known, SessionsInv
    <3> QED  BY <2>1, <3>1, KeepsRoots
  <2>3. /\ handed \subseteq 1 .. Len(tokens) /\ forked \subseteq 1 .. Len(tokens)
        /\ \A r \in Slots :
             /\ auth[r].op = "refresh" => auth[r].token \in 1 .. Len(tokens)
             /\ Issued(auth[r]) => auth[r].issued \in 1 .. Len(tokens)
    BY KnownTokens DEF Known, FamiliesInv, Lineage
  <2>4. \A f : Spoiled(f) => Spoiled(f)'
    <3> TAKE f
    <3> SUFFICES ASSUME Spoiled(f) PROVE Spoiled(f)'  OBVIOUS
    <3>1. PICK g \in forked : root[g] = f  BY DEF Spoiled
    <3>2. g \in forked' /\ root'[g] = f  BY <2>1, <2>2, <2>3, <3>1
    <3> QED  BY <3>2 DEF Spoiled
  <2>5. ASSUME NEW t \in 1 .. Len(tokens), Spoiled(root[t]) PROVE Spoiled(root[t])'
    <3>1. PICK f : f = root[t]  OBVIOUS
    <3>2. root'[t] = f /\ Spoiled(f)'  BY <2>2, <2>4, <2>5, <3>1
    <3> QED  BY <3>2 DEF Spoiled
  <2>6. Lineage'  BY <2>1, <2>2 DEF FamiliesInv, Lineage
  <2>7. ASSUME NEW r \in Slots PROVE Descends(auth[r])' /\ TradesLast(auth[r])'
    <3>1. Descends(auth[r]) /\ TradesLast(auth[r])  BY DEF FamiliesInv
    <3>2. Descends(auth[r])'  BY <2>1, <2>2, <2>3, <3>1 DEF Descends, Issued
    <3>3. Trades(auth[r])' <=> Trades(auth[r])  BY <2>1 DEF Trades
    <3>4. ASSUME Trades(auth[r]), NEW t \in handed, root'[t] = root'[auth[r].token],
                 ~tokens[t].revoked
          PROVE  t = auth[r].token \/ Spoiled(root[t])'
      <4>1. t \in 1 .. Len(tokens) /\ root[t] = root[auth[r].token]
        BY <2>2, <2>3, <3>4 DEF Trades
      <4>2. t = auth[r].token \/ Spoiled(root[t])  BY <3>1, <3>4, <4>1 DEF TradesLast
      <4> QED  BY <2>5, <4>1, <4>2
    <3>5. TradesLast(auth[r])'  BY <2>1, <3>3, <3>4 DEF TradesLast
    <3> QED  BY <3>2, <3>5
  <2>8. ASSUME NEW r \in Slots, NEW s \in Slots, r # s PROVE Apart(auth[r], auth[s])'
    <3>1. Apart(auth[r], auth[s])  BY <2>8 DEF FamiliesInv
    <3>2. ASSUME Trades(auth[r]), Trades(auth[s]), root'[auth[r].token] = root'[auth[s].token]
          PROVE  Spoiled(root[auth[r].token])'
      <4>1. auth[r].token \in 1 .. Len(tokens) /\ root[auth[r].token] = root[auth[s].token]
        BY <2>2, <2>3, <3>2 DEF Trades
      <4>2. PICK t : t = auth[r].token  OBVIOUS
      <4>3. Spoiled(root[t])  BY <3>1, <3>2, <4>1, <4>2 DEF Apart
      <4>4. Spoiled(root[t])'  BY <2>5, <4>1, <4>2, <4>3
      <4> QED  BY <2>1, <4>2, <4>4 DEF Spoiled
    <3>3. /\ Trades(auth[r])' <=> Trades(auth[r])
          /\ Trades(auth[s])' <=> Trades(auth[s])
          /\ Issued(auth[r])' <=> Issued(auth[r])
          /\ Issued(auth[s])' <=> Issued(auth[s])
      BY <2>1 DEF Trades, Issued
    <3> QED  BY <2>1, <3>1, <3>2, <3>3 DEF Apart
  <2>9. ASSUME NEW s \in handed, NEW t \in handed, s # t, root'[s] = root'[t],
               ~tokens[s].revoked, ~tokens[t].revoked
        PROVE  Spoiled(root[s])'
    <3>1. s \in 1 .. Len(tokens) /\ root[s] = root[t]  BY <2>2, <2>3, <2>9
    <3> QED  BY <2>5, <2>9, <3>1 DEF FamiliesInv
  <2> QED  BY <2>1, <2>6, <2>7, <2>8, <2>9 DEF FamiliesInv
<1>5. ASSUME NEW r \in Slots,
             Issue(r) \/ ReadForRefresh(r) \/ RevokeAllForUser(r) \/ Revoke(r) \/ Reply(r)
      PROVE  FamiliesInv'
  BY <1>5, IssuesStep, ReadsStep, RevokesAllStep, RevokesStep, RepliesStep
<1> QED  BY <1>1, <1>2, <1>3, <1>4, <1>5 DEF SessionsNext

(* A token is traded in for a newer one. *)
LEMMA OlderStep ==
  SessionsInv /\ FamiliesInv /\ [SessionsNext]_sessionsVars => Older'
<1> SUFFICES ASSUME SessionsInv, FamiliesInv, [SessionsNext]_sessionsVars PROVE Older'
  OBVIOUS
<1>1. Older /\ Len(tokens) \in Nat /\ tokens \in Seq(Token) /\ DOMAIN tokens = 1 .. Len(tokens)
  BY DEF FamiliesInv, Lineage, Older, SessionsInv
<1>2. CASE UNCHANGED tokens  BY <1>1, <1>2 DEF Older
<1>3. ASSUME NEW r \in Slots, Issue(r) PROVE Older'
  <2>1. PICK n \in Nat : n = Len(tokens)  BY <1>1
  <2>2. PICK new : /\ new.parent = auth[r].token
                   /\ tokens' = Append(tokens, new)
    <3>1. PICK row : row = [user |-> auth[r].email, expires |-> clock + Lifetime,
                            revoked |-> FALSE, replacedBy |-> 0, parent |-> auth[r].token]
      OBVIOUS
    <3> QED  BY <1>3, <3>1 DEF Issue
  <2>3. auth[r].token \in 0 .. n
    <3>1. auth[r].op \in {"refresh", "logout"} => auth[r].token \in 1 .. n  BY <2>1, KnownTokens
    <3>2. auth[r].op \notin {"refresh", "logout"} => auth[r].token = 0
      <4>1. Descends(auth[r])  BY DEF FamiliesInv
      <4> QED  BY <4>1 DEF Descends
    <3> QED  BY <3>1, <3>2
  <2>4. /\ Len(tokens') = n + 1 /\ tokens'[n + 1] = new
        /\ \A t \in 1 .. n : tokens'[t] = tokens[t]
    BY <1>1, <2>1, <2>2
  <2>5. ASSUME NEW t \in 1 .. n + 1 PROVE tokens'[t].parent \in 0 .. t - 1
    <3>1. CASE t = n + 1  BY <2>2, <2>3, <2>4, <3>1
    <3>2. CASE t \in 1 .. n
      <4>1. tokens[t].parent \in 0 .. t - 1  BY <1>1, <2>1, <3>2 DEF Older
      <4> QED  BY <2>4, <3>2, <4>1
    <3> QED  BY <3>1, <3>2
  <2> QED  BY <2>4, <2>5 DEF Older
<1>4. ASSUME DOMAIN tokens' = DOMAIN tokens, tokens' \in Seq(Token),
             \A t \in 1 .. Len(tokens) : SameLine(tokens[t], tokens'[t])
      PROVE  Older'
  <2>1. Len(tokens') = Len(tokens)  BY <1>1, <1>4, SameLength
  <2> QED  BY <1>1, <1>4, <2>1 DEF Older, SameLine
<1>5. tokens' \in Seq(Token)  BY SessionsStep DEF SessionsInv
<1>6. ASSUME NEW r \in Slots, RevokeAllForUser(r) PROVE Older'
  <2>1. tokens' = [t \in DOMAIN tokens |-> IF tokens[t].user = auth[r].email
                                          THEN [tokens[t] EXCEPT !.revoked = TRUE] ELSE tokens[t]]
    BY <1>6 DEF RevokeAllForUser
  <2>2. ASSUME NEW t \in 1 .. Len(tokens) PROVE SameLine(tokens[t], tokens'[t])
    <3>1. t \in DOMAIN tokens  BY <1>1
    <3>2. PICK row \in Token : row = tokens[t]  BY <1>1, <3>1
    <3>3. PICK gone : gone = [row EXCEPT !.revoked = TRUE]  OBVIOUS
    <3>4. SameLine(row, gone) /\ SameLine(row, row)  BY <3>2, <3>3 DEF Token, SameLine
    <3>5. tokens'[t] = row \/ tokens'[t] = gone  BY <2>1, <3>1, <3>2, <3>3
    <3> QED  BY <3>2, <3>4, <3>5
  <2>3. DOMAIN tokens' = DOMAIN tokens  BY <2>1
  <2> QED  BY <1>4, <1>5, <2>2, <2>3
<1>7. ASSUME NEW r \in Slots, Revoke(r) PROVE Older'
  <2>1. PICK u, i : tokens' = [tokens EXCEPT ![u] = Retired(tokens[u], i)]  BY <1>7 DEF Revoke
  <2>2. ASSUME NEW t \in 1 .. Len(tokens) PROVE SameLine(tokens[t], tokens'[t])
    <3>1. t \in DOMAIN tokens  BY <1>1
    <3>2. PICK row \in Token : row = tokens[t]  BY <1>1, <3>1
    <3>3. PICK m : Retired(row, i) = [row EXCEPT !.revoked = TRUE, !.replacedBy = m]
      BY DEF Retired
    <3>4. PICK gone : gone = [row EXCEPT !.revoked = TRUE, !.replacedBy = m]  OBVIOUS
    <3>5. SameLine(row, gone) /\ SameLine(row, row)  BY <3>2, <3>4 DEF Token, SameLine
    <3>6. tokens'[t] = row \/ tokens'[t] = gone  BY <2>1, <3>1, <3>2, <3>3, <3>4
    <3> QED  BY <3>2, <3>5, <3>6
  <2>3. DOMAIN tokens' = DOMAIN tokens  BY <2>1
  <2> QED  BY <1>4, <1>5, <2>2, <2>3
<1>8. \/ UNCHANGED tokens
      \/ \E r \in Slots : Issue(r) \/ RevokeAllForUser(r) \/ Revoke(r)
  BY DEF SessionsNext, sessionsVars, ArriveRegister, ArriveLogin, ArriveGoogle, ArriveRefresh,
         ArriveLogout, ArriveWithCookie, Arrive, FindForRegister, FindForLogin, FindByGoogleId,
         FindForGoogle, LinkGoogleId, CreateUser, Provision, ReadForRefresh, ReadForLogout, Reply,
         ReplyRefused, AuthFails, ClockTicks
<1> QED  BY <1>2, <1>3, <1>6, <1>7, <1>8

(* No token, and nobody holds any. *)
LEMMA FamiliesStart == SessionsInit => FamiliesInv
<1> SUFFICES ASSUME SessionsInit PROVE FamiliesInv  OBVIOUS
<1>1. Idle.op = "idle" /\ Idle.pc = "idle" /\ Idle.token = 0  BY DEF Idle
<1>2. /\ Len(tokens) = 0 /\ handed = {} /\ forked = {} /\ \A r \in Slots : auth[r] = Idle
  BY DEF SessionsInit
<1>3. Lineage  BY <1>2 DEF Lineage
<1>4. ~Issued(Idle) /\ ~Trades(Idle)  BY <1>1 DEF Issued, Trades
<1>5. Descends(Idle) /\ TradesLast(Idle) /\ Apart(Idle, Idle)
  BY <1>1, <1>4 DEF Descends, TradesLast, Apart
<1> QED  BY <1>2, <1>3, <1>5 DEF FamiliesInv

(* However many requests of however many clients cross, and wherever they  *)
(* die: of the tokens that descend from one sign-in clients hold at most   *)
(* one that works, unless one of them was presented by two requests at     *)
(* once (RefreshTokenHandler reads, issues, then revokes).                 *)
THEOREM OneHolder == SessionsSpec => []OneSessionPerSignIn
<1>1. FamiliesInv => OneSessionPerSignIn
  BY DEF FamiliesInv, OneSessionPerSignIn, Live, Spoiled
<1>2. SessionsInv => Len(tokens) \in Nat  BY DEF SessionsInv
<1>3. FamiliesInv => Older  BY DEF FamiliesInv, Lineage, Older
<1>4. Len(tokens) \in Nat /\ Older => Rooted  BY TokensAreRooted
<1>5. Known <=> SessionsInv /\ Rooted  BY DEF Known
<1> QED  BY SessionsStart, SessionsStep, FamiliesStart, FamiliesStep, OlderStep,
            <1>1, <1>2, <1>3, <1>4, <1>5, PTL DEF SessionsSpec
=============================================================================
