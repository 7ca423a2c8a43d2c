------------------------------ MODULE Sessions ------------------------------
(***************************************************************************)
(* Accounts and refresh tokens: the five handlers of modules/auth, the     *)
(* token service and the two repositories.  A request holds a slot and     *)
(* makes one query per action, so that requests interleave at each await.  *)
(* A client may present any token it was ever handed, as often as it likes *)
(* (a retry, a second tab, a copy).  An access token is a signed statement *)
(* that nothing revokes, and leaves no state.                              *)
(***************************************************************************)
EXTENDS Naturals, Sequences, FiniteSets

CONSTANTS Emails,         \* addresses, which name the accounts (unique column)
          GoogleIds,      \* Google identities
          EmailOf,        \* the verified address of each Google identity
          NoGoogle,       \* googleId is null
          Slots,          \* requests under way at once
          Lifetime,       \* JWT_REFRESH_EXPIRES_IN, in ticks
          MaxTokens,      \* bound: refresh tokens ever issued
          Times           \* bound: the times at which something happens

ASSUME SessionsAssumption ==
  /\ EmailOf \in [GoogleIds -> Emails]
  /\ NoGoogle \notin GoogleIds
  /\ Lifetime \in Nat \ {0}
  /\ MaxTokens \in Nat /\ Times \subseteq Nat

VARIABLES accounts,       \* rows of users, by address
          tokens,         \* rows of refresh_tokens, in the order of issue
          handed,         \* the tokens some client has received in its cookie
          auth,           \* the request of each slot
          forked,         \* history: tokens presented by two requests at once
          clock           \* Date.now()

sessionsVars == <<accounts, tokens, handed, auth, forked, clock>>

-----------------------------------------------------------------------------
Account == [password : BOOLEAN, google : GoogleIds \cup {NoGoogle}, active : BOOLEAN]
NoAccount == [password |-> FALSE, google |-> NoGoogle, active |-> FALSE]

\* A row of users exists when it has some way to sign in.
Exists(e) == accounts[e].password \/ accounts[e].google # NoGoogle

\* parent is history: the token that was traded in for this one, 0 after a sign-in.
Token == [user : Emails, expires : Nat, revoked : BOOLEAN, replacedBy : Nat, parent : Nat]

\* stale and mark are history: had the token been revoked before the request came,
\* and how many tokens had been issued by then.
Idle == [op |-> "idle", pc |-> "idle", email |-> CHOOSE e \in Emails : TRUE,
         google |-> NoGoogle, token |-> 0, issued |-> 0, stale |-> FALSE, mark |-> 0]

Live(t) == ~tokens[t].revoked /\ tokens[t].expires >= clock

\* The sign-in a token descends from.
root[t \in 1 .. Len(tokens)] ==
  IF tokens[t].parent = 0 THEN t ELSE root[tokens[t].parent]

SessionsInit ==
  /\ accounts \in [Emails -> {NoAccount} \cup
                               {a \in Account : a.password /\ a.google = NoGoogle}]
  /\ tokens = <<>>
  /\ handed = {}
  /\ auth = [r \in Slots |-> Idle]
  /\ forked = {}
  /\ clock = 0

-----------------------------------------------------------------------------
(* Arrival.  JwtRefreshGuard lets through only a token that has not expired. *)
Arrive(r, request) ==
  /\ auth[r].op = "idle"
  /\ auth' = [auth EXCEPT ![r] = request]
  /\ UNCHANGED <<accounts, tokens, handed, clock>>

ArriveRegister(r, e) ==
  /\ Arrive(r, [Idle EXCEPT !.op = "register", !.pc = "findByEmail", !.email = e])
  /\ UNCHANGED forked
ArriveLogin(r, e) ==
  /\ Arrive(r, [Idle EXCEPT !.op = "login", !.pc = "findByEmail", !.email = e])
  /\ UNCHANGED forked
ArriveGoogle(r, g) ==
  /\ Arrive(r, [Idle EXCEPT !.op = "google", !.pc = "findByGoogleId", !.google = g,
                            !.email = EmailOf[g]])
  /\ UNCHANGED forked

ArriveWithCookie(r, t, request) ==
  /\ tokens[t].expires > clock
  /\ Arrive(r, [request EXCEPT !.pc = "read", !.token = t, !.email = tokens[t].user])
  /\ forked' = IF \E s \in Slots : auth[s].op = "refresh" /\ auth[s].token = t
               THEN forked \cup {t} ELSE forked
ArriveRefresh(r, t) ==
  ArriveWithCookie(r, t, [Idle EXCEPT !.op = "refresh", !.stale = tokens[t].revoked,
                                      !.mark = Len(tokens)])
ArriveLogout(r, t) == ArriveWithCookie(r, t, [Idle EXCEPT !.op = "logout"])

\* A request that is refused is over.
Done(r) == auth' = [auth EXCEPT ![r] = Idle]
Goto(r, pc) == IF pc = "refused" THEN Done(r) ELSE auth' = [auth EXCEPT ![r].pc = pc]

-----------------------------------------------------------------------------
(* Sign-in: register, login and Google. *)

\* RegisterHandler: an address is taken once; then the hash, and the insert.
FindForRegister(r) ==
  /\ auth[r].op = "register" /\ auth[r].pc = "findByEmail"
  /\ Goto(r, IF Exists(auth[r].email) THEN "refused" ELSE "create")
  /\ UNCHANGED <<accounts, tokens, handed, forked, clock>>

\* LoginHandler: the row decides, with the password (right or wrong).
FindForLogin(r) ==
  /\ auth[r].op = "login" /\ auth[r].pc = "findByEmail"
  /\ \E matches \in BOOLEAN :
       LET user == accounts[auth[r].email]
       IN Goto(r, IF user.password /\ matches /\ user.active THEN "issue" ELSE "refused")
  /\ UNCHANGED <<accounts, tokens, handed, forked, clock>>

\* GoogleLoginHandler: by Google id, else by address, else a new account.  Where the
\* row is found or returned its status decides.
FindByGoogleId(r) ==
  /\ auth[r].pc = "findByGoogleId"
  /\ \/ \E e \in Emails :
          /\ accounts[e].google = auth[r].google
          /\ IF accounts[e].active
             THEN auth' = [auth EXCEPT ![r].email = e, ![r].pc = "issue"]
             ELSE Done(r)
     \/ /\ \A e \in Emails : accounts[e].google # auth[r].google
        /\ Goto(r, "findByEmail")
  /\ UNCHANGED <<accounts, tokens, handed, forked, clock>>

FindForGoogle(r) ==
  /\ auth[r].op = "google" /\ auth[r].pc = "findByEmail"
  /\ Goto(r, IF Exists(auth[r].email) THEN "link" ELSE "create")
  /\ UNCHANGED <<accounts, tokens, handed, forked, clock>>

\* An identity has one address here, so no other row can hold its google_id.
LinkGoogleId(r) ==
  /\ auth[r].pc = "link"
  /\ LET e == auth[r].email
     IN /\ accounts' = [accounts EXCEPT ![e].google = auth[r].google]
        /\ Goto(r, IF accounts[e].active THEN "issue" ELSE "refused")
  /\ UNCHANGED <<tokens, handed, forked, clock>>

\* email is unique.  A new account is ACTIVE.
CreateUser(r) ==
  /\ auth[r].pc = "create"
  /\ LET e == auth[r].email
     IN \/ /\ ~Exists(e)
           /\ accounts' = [accounts EXCEPT ![e] =
                 [password |-> auth[r].op = "register", google |-> auth[r].google,
                  active |-> TRUE]]
           /\ Goto(r, IF auth[r].op = "register" THEN "provision" ELSE "issue")
        \/ /\ Exists(e)
           /\ Goto(r, "refused")
           /\ UNCHANGED accounts
  /\ UNCHANGED <<tokens, handed, forked, clock>>

\* ensureDefaultProject writes projects, and only those (module Projects).
Provision(r) ==
  /\ auth[r].pc = "provision"
  /\ Goto(r, "issue")
  /\ UNCHANGED <<accounts, tokens, handed, forked, clock>>

-----------------------------------------------------------------------------
(* TokenService.issueTokenPair: one INSERT, whatever the caller. *)
Issue(r) ==
  /\ auth[r].pc = "issue"
  /\ Len(tokens) < MaxTokens
  /\ tokens' = Append(tokens, [user |-> auth[r].email, expires |-> clock + Lifetime,
                               revoked |-> FALSE, replacedBy |-> 0, parent |-> auth[r].token])
  /\ auth' = [auth EXCEPT ![r].issued = Len(tokens) + 1,
                          ![r].pc = IF auth[r].op = "refresh" THEN "revoke" ELSE "reply"]
  /\ UNCHANGED <<accounts, handed, forked, clock>>

(* RefreshTokenHandler, after the guard: revoked, then expired, then rotation. *)
NextOfRead_ExpiryFirst(row) == IF row.expires < clock THEN "expired"
                               ELSE IF row.revoked THEN "revokeAll" ELSE "issue"
NextOfRead(row) == IF row.revoked THEN "revokeAll"
                   ELSE IF row.expires < clock THEN "expired" ELSE "issue"

ReadForRefresh(r) ==
  /\ auth[r].op = "refresh" /\ auth[r].pc = "read"
  /\ Goto(r, NextOfRead(tokens[auth[r].token]))
  /\ UNCHANGED <<accounts, tokens, handed, forked, clock>>

RevokeAllForUser(r) ==
  /\ auth[r].pc = "revokeAll"
  /\ tokens' = [t \in DOMAIN tokens |->
                  IF tokens[t].user = auth[r].email
                  THEN [tokens[t] EXCEPT !.revoked = TRUE] ELSE tokens[t]]
  /\ Goto(r, "reused")
  /\ UNCHANGED <<accounts, handed, forked, clock>>

\* revoke() sets the replacement only when it is given one (logout gives none).
Retired_Kept(row, by) == [row EXCEPT !.replacedBy = IF by = 0 THEN @ ELSE by]
Retired(row, by) == [row EXCEPT !.revoked = TRUE, !.replacedBy = IF by = 0 THEN @ ELSE by]

Revoke(r) ==
  /\ auth[r].pc = "revoke"
  /\ tokens' = [tokens EXCEPT ![auth[r].token] = Retired(@, auth[r].issued)]
  /\ IF auth[r].op = "refresh" THEN Goto(r, "reply") ELSE Done(r)
  /\ UNCHANGED <<accounts, handed, forked, clock>>

\* LogoutHandler: nothing to do when the token is revoked already.  The answer only
\* clears the cookie.
ReadForLogout(r) ==
  /\ auth[r].op = "logout" /\ auth[r].pc = "read"
  /\ Goto(r, IF tokens[auth[r].token].revoked THEN "refused" ELSE "revoke")
  /\ UNCHANGED <<accounts, tokens, handed, forked, clock>>

\* The controller sets the cookie.
Reply(r) ==
  /\ auth[r].pc = "reply"
  /\ handed' = handed \cup {auth[r].issued}
  /\ Done(r)
  /\ UNCHANGED <<accounts, tokens, forked, clock>>

\* 401 REFRESH_TOKEN_REUSED, or 401 for a token that expired on the way.
ReplyRefused(r) ==
  /\ auth[r].pc \in {"reused", "expired"}
  /\ Done(r)
  /\ UNCHANGED <<accounts, tokens, handed, forked, clock>>

\* The connection or the process is lost.
AuthFails(r) ==
  /\ auth[r].op # "idle"
  /\ Done(r)
  /\ UNCHANGED <<accounts, tokens, handed, forked, clock>>

ClockTicks ==
  /\ \E time \in Times : time > clock /\ clock' = time
  /\ UNCHANGED <<accounts, tokens, handed, auth, forked>>

SessionsNext ==
  \/ \E r \in Slots :
       \/ \E e \in Emails : ArriveRegister(r, e) \/ ArriveLogin(r, e)
       \/ \E g \in GoogleIds : ArriveGoogle(r, g)
       \/ \E t \in handed : ArriveRefresh(r, t) \/ ArriveLogout(r, t)
       \/ FindForRegister(r) \/ FindForLogin(r)
       \/ FindByGoogleId(r) \/ FindForGoogle(r) \/ LinkGoogleId(r)
       \/ CreateUser(r) \/ Provision(r)
       \/ Issue(r) \/ ReadForRefresh(r) \/ RevokeAllForUser(r) \/ Revoke(r)
       \/ ReadForLogout(r) \/ Reply(r) \/ ReplyRefused(r) \/ AuthFails(r)
  \/ ClockTicks

SessionsSpec == SessionsInit /\ [][SessionsNext]_sessionsVars

-----------------------------------------------------------------------------
(* A token that had been rotated out, or logged out, before the request    *)
(* came is never honoured nor merely refused, even if it expires meanwhile; *)
(* and once the client is told that it was used already, no token issued   *)
(* by the time it came is alive: "revoke the whole family" of              *)
(* refresh-token.handler.ts, under any interleaving of requests.           *)
RetiredTokenEndsSessions ==
  \A r \in Slots :
    auth[r].op = "refresh" =>
      /\ auth[r].stale => auth[r].pc \in {"read", "revokeAll", "reused"}
      /\ auth[r].pc = "reused" =>
           \A t \in 1 .. auth[r].mark : tokens[t].user = auth[r].email => tokens[t].revoked

(* Of the tokens that descend from one sign-in a client holds at most one  *)
(* that works, whatever was retried and wherever requests died, unless one *)
(* token was presented by two requests at the same time.                   *)
OneSessionPerSignIn ==
  \A s, t \in handed :
    (s # t /\ root[s] = root[t] /\ Live(s) /\ Live(t)) => \E f \in forked : root[f] = root[s]
=============================================================================
