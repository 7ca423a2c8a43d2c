-------------------------- MODULE ZaloLink_proofs --------------------------
(***************************************************************************)
(* Proofs about ZaloLink, for any users, chats, codes and messages, in any *)
(* number, and for any size of the set of messages seen.                   *)
(***************************************************************************)
EXTENDS ZaloLink, FiniteSetTheorems, SequenceTheorems, TLAPS

CodeRow == [text : Codes, user : Users, there : BOOLEAN, expires : Nat]

TablesInv ==
  /\ chatOf \in [Users -> Chats \cup {NoChat}]
  /\ codes \in Seq(CodeRow) /\ linkClock \in Nat
  /\ sent \in Seq([chat : Chats, text : Codes])
  /\ batch \in Seq(1 .. Len(sent)) /\ seen \in Seq(1 .. Len(sent))
  /\ bot \in [pc : {"waiting", "findCode", "findChat", "upsert", "delete"},
              message : Nat, row : Nat]

Known == ToSet(seen) \cup forgotten

\* The message being handled was noted as seen, and has linked nobody that is remembered; the
\* code it named has linked nobody, or its deletion broke off.
BotInv ==
  /\ bot.pc # "waiting" => bot.message \in 1 .. Len(sent) /\ bot.message \in Known
  /\ bot.pc \in {"findChat", "upsert", "delete"} => bot.row \in 1 .. Len(codes)
  /\ bot.pc = "upsert" => ~ChatIsTaken(bot.row, bot.message)
  /\ bot.pc \in {"findCode", "findChat", "upsert"} =>
       \A l \in links : l.message = bot.message => l.message \in forgotten
  /\ bot.pc \in {"findChat", "upsert"} =>
       \A l \in links : l.row = bot.row => l.row \in interrupted

\* A code that has linked is deleted, or about to be, or its deletion broke off.
Spent(l) == /\ l.row \in 1 .. Len(codes) /\ l.message \in Known
            /\ codes[l.row].there =>
                 l.row \in interrupted \/ (bot.pc = "delete" /\ bot.row = l.row)
            /\ l.times > 0 => l.row \in interrupted
LinksInv == /\ \A l \in links : Spent(l)
            /\ MessageLinksOnce

ZaloInv == TablesInv /\ BotInv /\ LinksInv

-----------------------------------------------------------------------------
\* Rows of codes keep their user, and come back never.
CodesKept(rows, later) ==
  /\ later \in Seq(CodeRow) /\ Len(rows) <= Len(later)
  /\ \A c \in 1 .. Len(rows) : /\ later[c].user = rows[c].user
                               /\ later[c].there => rows[c].there

\* A message that was sent has a chat and a text.
LEMMA SentIsTyped ==
    ASSUME ZaloInv, NEW m \in 1 .. Len(sent)
    PROVE  sent[m] \in [chat : Chats, text : Codes]
<1>1. sent \in Seq([chat : Chats, text : Codes])
  BY DEF ZaloInv, TablesInv
<1>2. QED
  BY <1>1, ElementOfSeq

\* What is written beside the bot: codes are added or purged, chats unlinked, messages sent.
LEMMA BesideStep ==
    ASSUME ZaloInv, CodesKept(codes, codes'),
           chatOf' \in [Users -> Chats \cup {NoChat}],
           \A u \in Users : chatOf'[u] \in {chatOf[u], NoChat},
           sent' \in Seq([chat : Chats, text : Codes]), Len(sent) <= Len(sent'),
           \A m \in 1 .. Len(sent) : sent'[m] = sent[m],
           batch' \in Seq(1 .. Len(sent')), linkClock' \in Nat,
           UNCHANGED <<bot, seen, links, forgotten, interrupted>>
    PROVE  ZaloInv'
<1>1. /\ Len(codes) \in Nat /\ Len(codes') \in Nat /\ Len(sent) \in Nat /\ Len(sent') \in Nat
      /\ 1 .. Len(codes) \subseteq 1 .. Len(codes') /\ 1 .. Len(sent) \subseteq 1 .. Len(sent')
  BY DEF ZaloInv, TablesInv, CodesKept
<1>2. TablesInv'
  <2>1. seen' \in Seq(1 .. Len(sent'))
    BY <1>1 DEF ZaloInv, TablesInv
  <2>2. QED
    BY <2>1 DEF ZaloInv, TablesInv, CodesKept
<1>3. Known' = Known
  BY DEF Known
<1>4. bot.pc = "upsert" => ~ChatIsTaken(bot.row, bot.message)'
  <2> SUFFICES ASSUME bot.pc = "upsert" PROVE ~ChatIsTaken(bot.row, bot.message)'
    OBVIOUS
  <2>1. /\ bot.message \in 1 .. Len(sent) /\ bot.row \in 1 .. Len(codes)
        /\ ~ChatIsTaken(bot.row, bot.message)
    BY DEF ZaloInv, BotInv
  <2>2. /\ codes'[bot.row].user = codes[bot.row].user /\ sent'[bot.message] = sent[bot.message]
        /\ sent[bot.message].chat \in Chats
    <3>1. sent[bot.message] \in [chat : Chats, text : Codes]
      BY <2>1, SentIsTyped
    <3>2. QED
      BY <2>1, <3>1 DEF CodesKept
  <2>3. QED
    BY <2>1, <2>2, ZaloLinkAssumption DEF ChatIsTaken
<1>5. BotInv'
  BY <1>1, <1>3, <1>4 DEF ZaloInv, BotInv
<1>6. LinksInv'
  <2>1. ASSUME NEW l \in links PROVE Spent(l)'
    BY <1>1, <1>3, <2>1 DEF ZaloInv, LinksInv, Spent, CodesKept
  <2>2. QED
    BY <2>1 DEF ZaloInv, LinksInv, MessageLinksOnce
<1>7. QED
  BY <1>2, <1>5, <1>6 DEF ZaloInv

\* Rows that nobody writes stay as they are.
LEMMA CodesStay == ASSUME NEW rows \in Seq(CodeRow) PROVE CodesKept(rows, rows)
BY DEF CodesKept

\* Expired codes go, and a new one has a row of its own.
LEMMA CodesStep ==
    ASSUME ZaloInv, NEW u \in Users, PurgeExpired(u) \/ CreateLinkCode(u)
    PROVE  ZaloInv'
<1>1. codes \in Seq(CodeRow) /\ Len(codes) \in Nat /\ DOMAIN codes = 1 .. Len(codes)
  BY DEF ZaloInv, TablesInv
<1>2. CodesKept(codes, codes')
  <2>1. CASE PurgeExpired(u)
    <3>1. ASSUME NEW c \in 1 .. Len(codes)
          PROVE  /\ codes'[c] \in CodeRow /\ codes'[c].user = codes[c].user
                 /\ codes'[c].there => codes[c].there
      <4>1. codes'[c] = [codes[c] EXCEPT !.there = codes[c].there /\ ~HasExpired(c)]
        BY <1>1, <2>1 DEF PurgeExpired
      <4>2. codes[c] \in CodeRow
        BY <1>1
      <4>3. CASE (codes[c].there /\ ~HasExpired(c)) = TRUE
        <5>1. codes'[c] = [codes[c] EXCEPT !.there = TRUE]
          BY <4>1, <4>3, Zenon
        <5>2. QED
          BY <4>2, <4>3, <5>1 DEF CodeRow
      <4>4. CASE (codes[c].there /\ ~HasExpired(c)) = FALSE
        <5>1. codes'[c] = [codes[c] EXCEPT !.there = FALSE]
          BY <4>1, <4>4, Zenon
        <5>2. QED
          BY <4>2, <5>1 DEF CodeRow
      <4>5. QED
        BY <4>3, <4>4
    <3>2. codes' \in [1 .. Len(codes) -> CodeRow]
      <4>1. codes' = [c \in 1 .. Len(codes) |-> codes'[c]]
        BY <1>1, <2>1 DEF PurgeExpired
      <4>2. QED
        BY <3>1, <4>1
    <3>3. codes' \in Seq(CodeRow) /\ Len(codes') = Len(codes)
      BY <1>1, <3>2
    <3>4. QED
      BY <1>1, <3>1, <3>3 DEF CodesKept
  <2>2. CASE CreateLinkCode(u)
    <3>1. PICK text \in Codes :
            codes' = IF Pending(text) # {} THEN codes
                     ELSE Append(codes, [text |-> text, user |-> u, there |-> TRUE,
                                         expires |-> linkClock + LinkCodeTtl])
      BY <2>2 DEF CreateLinkCode
    <3> DEFINE new == [text |-> text, user |-> u, there |-> TRUE,
                       expires |-> linkClock + LinkCodeTtl]
    <3>2. new \in CodeRow
      BY ZaloLinkAssumption DEF CodeRow, ZaloInv, TablesInv
    <3>3. codes' = codes \/ codes' = Append(codes, new)
      BY <3>1
    <3> HIDE DEF new
    <3>4. CASE codes' = Append(codes, new)
      <4>1. /\ codes' \in Seq(CodeRow) /\ Len(codes') = Len(codes) + 1
            /\ \A c \in 1 .. Len(codes) : codes'[c] = codes[c]
        BY <1>1, <3>2, <3>4
      <4>2. QED
        BY <1>1, <4>1 DEF CodesKept
    <3>5. QED
      BY <1>1, <3>3, <3>4, CodesStay
  <2>3. QED
    BY <2>1, <2>2
<1>3. UNCHANGED <<chatOf, sent, batch, seen, bot, links, forgotten, interrupted, linkClock>>
  BY DEF PurgeExpired, CreateLinkCode
<1>4. QED
  BY <1>2, <1>3, BesideStep DEF ZaloInv, TablesInv

\* A user unlinks, a message is sent, the loop polls, or time passes.
LEMMA OutsideStep ==
    ASSUME ZaloInv,
           \/ \E u \in Users : Unlink(u)
           \/ \E chat \in Chats, text \in Codes : UserSends(chat, text)
           \/ Poll \/ LinkTick
    PROVE  ZaloInv'
<1>1. CodesKept(codes, codes') /\ UNCHANGED <<bot, seen, links, forgotten, interrupted>>
  BY CodesStay DEF Unlink, UserSends, Poll, LinkTick, ZaloInv, TablesInv
<1>2. /\ chatOf \in [Users -> Chats \cup {NoChat}]
      /\ sent \in Seq([chat : Chats, text : Codes]) /\ Len(sent) \in Nat
      /\ batch \in Seq(1 .. Len(sent)) /\ linkClock \in Nat
  BY DEF ZaloInv, TablesInv
<1>3. CASE \E u \in Users : Unlink(u)
  <2>1. /\ chatOf' \in [Users -> Chats \cup {NoChat}]
        /\ \A u \in Users : chatOf'[u] \in {chatOf[u], NoChat}
        /\ UNCHANGED <<sent, batch, linkClock>>
    BY <1>2, <1>3 DEF Unlink
  <2>2. QED
    BY <1>1, <1>2, <2>1, BesideStep
<1>4. CASE \E chat \in Chats, text \in Codes : UserSends(chat, text)
  <2>1. PICK chat \in Chats, text \in Codes :
          /\ sent' = Append(sent, [chat |-> chat, text |-> text])
          /\ UNCHANGED <<chatOf, batch, linkClock>>
    BY <1>4 DEF UserSends
  <2>2. /\ sent' \in Seq([chat : Chats, text : Codes]) /\ Len(sent') = Len(sent) + 1
        /\ \A m \in 1 .. Len(sent) : sent'[m] = sent[m]
    BY <1>2, <2>1
  <2>3. batch' \in Seq(1 .. Len(sent')) /\ Len(sent) <= Len(sent')
    <3>1. 1 .. Len(sent) \subseteq 1 .. Len(sent')
      BY <1>2, <2>2
    <3>2. QED
      BY <1>2, <2>1, <2>2, <3>1
  <2>4. QED
    BY <1>1, <1>2, <2>1, <2>2, <2>3, BesideStep
<1>5. CASE Poll
  <2>1. PICK n \in 1 .. BatchSize : batch' \in [1 .. n -> DOMAIN sent]
    BY <1>5 DEF Poll
  <2>2. batch' \in Seq(1 .. Len(sent))
    BY <1>2, <2>1, ZaloLinkAssumption
  <2>3. UNCHANGED <<chatOf, sent, linkClock>>
    BY <1>5 DEF Poll
  <2>4. QED
    BY <1>1, <1>2, <2>2, <2>3, BesideStep
<1>6. CASE LinkTick
  <2>1. UNCHANGED <<chatOf, sent, batch>> /\ linkClock' \in Nat
    BY <1>2, <1>6 DEF LinkTick
  <2>2. QED
    BY <1>1, <1>2, <2>1, BesideStep
<1>7. QED
  BY <1>3, <1>4, <1>5, <1>6

-----------------------------------------------------------------------------
(* The bot. *)

\* The bot is done with a message, or broke off: the row it was about to delete is deleted, or
\* noted.
LEMMA RestStep ==
    ASSUME ZaloInv, bot' = Waiting, CodesKept(codes, codes'), Len(codes') = Len(codes),
           batch' \in Seq(1 .. Len(sent)), seen' \in Seq(1 .. Len(sent)),
           Known \subseteq Known', forgotten \subseteq forgotten',
           interrupted \subseteq interrupted',
           bot.pc = "delete" => bot.row \in interrupted' \/ ~codes'[bot.row].there,
           UNCHANGED <<chatOf, sent, links, linkClock>>
    PROVE  ZaloInv'
<1>1. TablesInv'
  BY DEF ZaloInv, TablesInv, CodesKept, Waiting
<1>2. BotInv'
  BY DEF BotInv, Waiting
<1>3. LinksInv'
  <2>1. ASSUME NEW l \in links PROVE Spent(l)'
    <3>1. Spent(l)
      BY DEF ZaloInv, LinksInv
    <3>2. l.row \in 1 .. Len(codes') /\ l.message \in Known'
      BY <3>1 DEF Spent
    <3>3. codes'[l.row].there => l.row \in interrupted'
      BY <3>1 DEF Spent, CodesKept
    <3>4. QED
      BY <3>1, <3>2, <3>3 DEF Spent
  <2>2. QED
    BY <2>1 DEF ZaloInv, LinksInv, MessageLinksOnce
<1>4. QED
  BY <1>1, <1>2, <1>3 DEF ZaloInv

\* A message that is new to the bot is noted; the oldest one may be forgotten.
LEMMA HandleStep ==
    ASSUME ZaloInv, HandleUpdate
    PROVE  ZaloInv'
<1> DEFINE m == Head(batch)
<1>1. /\ batch \in Seq(1 .. Len(sent)) /\ batch # <<>> /\ seen \in Seq(1 .. Len(sent))
      /\ Len(sent) \in Nat
  BY DEF HandleUpdate, ZaloInv, TablesInv
<1>2. /\ m \in 1 .. Len(sent) /\ batch' \in Seq(1 .. Len(sent)) /\ bot.pc = "waiting"
      /\ UNCHANGED <<chatOf, codes, sent, links, interrupted, linkClock>>
  BY <1>1 DEF HandleUpdate
<1>3. CASE m \in ToSet(seen)
  <2>1. UNCHANGED <<seen, bot, forgotten>>
    BY <1>3 DEF HandleUpdate
  <2>2. QED
    BY <1>2, <2>1, BesideStep, CodesStay DEF ZaloInv, TablesInv
<1>4. CASE m \notin ToSet(seen)
  <2>1. /\ seen' = Remembered(m)
        /\ forgotten' = forgotten \cup (ToSet(seen) \ ToSet(Remembered(m)))
        /\ bot' = [pc |-> "findCode", message |-> m, row |-> 0]
    BY <1>4 DEF HandleUpdate
  <2> HIDE DEF m
  <2>2. Remembered(m) \in Seq(1 .. Len(sent)) /\ m \in ToSet(Remembered(m))
    <3>1. ASSUME NEW s \in Seq(1 .. Len(sent))
          PROVE  Append(s, m) \in Seq(1 .. Len(sent)) /\ m \in ToSet(Append(s, m))
      <4>1. /\ Append(s, m) \in Seq(1 .. Len(sent)) /\ Len(s) + 1 \in DOMAIN Append(s, m)
            /\ Append(s, m)[Len(s) + 1] = m
        BY <1>2
      <4>2. QED
        BY <4>1 DEF ToSet
    <3>2. CASE Len(seen) < MaxSeen
      BY <1>1, <3>1, <3>2 DEF Remembered
    <3>3. CASE ~(Len(seen) < MaxSeen)
      <4>1. seen # <<>>
        BY <1>1, <3>3, ZaloLinkAssumption
      <4>2. Tail(seen) \in Seq(1 .. Len(sent))
        BY <1>1, <4>1
      <4>3. QED
        BY <3>1, <3>3, <4>2 DEF Remembered
    <3>4. QED
      BY <3>2, <3>3
  <2>3. Known \subseteq Known' /\ m \in Known' /\ forgotten \subseteq forgotten'
    BY <2>1, <2>2 DEF Known
  <2>4. TablesInv'
    BY <1>1, <1>2, <2>1, <2>2 DEF ZaloInv, TablesInv
  <2>5. \A l \in links : l.message = m => l.message \in forgotten
    BY <1>4 DEF ZaloInv, LinksInv, Spent, Known, m
  <2>6. BotInv'
    BY <1>2, <2>1, <2>3, <2>5 DEF BotInv
  <2>7. LinksInv'
    <3>1. ASSUME NEW l \in links PROVE Spent(l)'
      BY <1>2, <2>1, <2>3 DEF ZaloInv, LinksInv, Spent
    <3>2. MessageLinksOnce'
      BY <1>2, <2>3 DEF ZaloInv, LinksInv, MessageLinksOnce
    <3>3. QED
      BY <1>2, <3>1, <3>2 DEF LinksInv
  <2>8. QED
    BY <2>4, <2>6, <2>7 DEF ZaloInv
<1>5. QED
  BY <1>3, <1>4

\* A step that only moves the bot to a later query of the same message.
LEMMA OnwardStep ==
    ASSUME ZaloInv, NEW row \in 1 .. Len(codes), NEW pc \in {"findChat", "upsert"},
           bot.pc \in {"findCode", "findChat"},
           bot' = [bot EXCEPT !.pc = pc, !.row = row],
           \A l \in links : l.row = row => l.row \in interrupted,
           pc = "upsert" => ~ChatIsTaken(row, bot.message),
           UNCHANGED <<chatOf, codes, sent, batch, seen, links, forgotten, interrupted, linkClock>>
    PROVE  ZaloInv'
<1>1. bot \in [pc : {"waiting", "findCode", "findChat", "upsert", "delete"},
               message : Nat, row : Nat]
  BY DEF ZaloInv, TablesInv
<1>2. /\ bot' \in [pc : {"waiting", "findCode", "findChat", "upsert", "delete"},
                  message : Nat, row : Nat]
      /\ bot'.pc = pc /\ bot'.row = row /\ bot'.message = bot.message
  <2>1. row \in Nat
    BY DEF ZaloInv, TablesInv
  <2>2. QED
    BY <1>1, <2>1
<1>3. TablesInv'
  BY <1>2 DEF ZaloInv, TablesInv
<1>4. Known' = Known /\ (ChatIsTaken(row, bot.message) <=> ChatIsTaken(bot.row, bot.message)')
  BY <1>2 DEF Known, ChatIsTaken
<1>5. BotInv'
  BY <1>2, <1>4 DEF ZaloInv, BotInv
<1>6. LinksInv'
  <2>1. ASSUME NEW l \in links PROVE Spent(l)'
    BY <1>2, <1>4, <2>1 DEF ZaloInv, LinksInv, Spent
  <2>2. QED
    BY <2>1 DEF ZaloInv, LinksInv, MessageLinksOnce
<1>7. QED
  BY <1>3, <1>5, <1>6 DEF ZaloInv

\* The code is looked for: one that is there has not linked, or was interrupted.
LEMMA FindCodeStep ==
    ASSUME ZaloInv, FindCode
    PROVE  ZaloInv'
<1>1. /\ bot.pc = "findCode"
      /\ UNCHANGED <<chatOf, codes, sent, batch, seen, links, forgotten, interrupted, linkClock>>
  BY DEF FindCode
<1>2. CASE bot' = Waiting
  BY <1>1, <1>2, RestStep, CodesStay DEF ZaloInv, TablesInv, Known
<1>3. CASE bot' # Waiting
  <2>1. PICK c \in Pending(sent[bot.message].text) :
          bot' = [bot EXCEPT !.pc = "findChat", !.row = c]
    BY <1>3 DEF FindCode
  <2>2. c \in 1 .. Len(codes) /\ codes[c].there
    BY DEF Pending, ZaloInv, TablesInv
  <2>3. \A l \in links : l.row = c => l.row \in interrupted
    BY <1>1, <2>2 DEF ZaloInv, LinksInv, Spent
  <2>4. QED
    BY <1>1, <2>1, <2>2, <2>3, OnwardStep
<1>4. QED
  BY <1>2, <1>3

\* The chat is looked at.
LEMMA FindChatStep ==
    ASSUME ZaloInv, FindChat
    PROVE  ZaloInv'
<1>1. /\ bot.pc = "findChat"
      /\ UNCHANGED <<chatOf, codes, sent, batch, seen, links, forgotten, interrupted, linkClock>>
  BY DEF FindChat
<1>2. CASE ChatIsTaken(bot.row, bot.message)
  BY <1>1, <1>2, RestStep, CodesStay DEF FindChat, ZaloInv, TablesInv, Known
<1>3. CASE ~ChatIsTaken(bot.row, bot.message)
  <2>1. bot' = [bot EXCEPT !.pc = "upsert", !.row = bot.row]
    BY <1>3 DEF FindChat, ZaloInv, TablesInv
  <2>2. bot.row \in 1 .. Len(codes) /\ \A l \in links : l.row = bot.row => l.row \in interrupted
    BY <1>1 DEF ZaloInv, BotInv
  <2>3. QED
    BY <1>1, <1>3, <2>1, <2>2, OnwardStep
<1>4. QED
  BY <1>2, <1>3

\* The account is linked.
LEMMA UpsertStep ==
    ASSUME ZaloInv, UpsertAccount
    PROVE  ZaloInv'
<1>1. PICK new :
        /\ new = [row |-> bot.row, message |-> bot.message,
                  times |-> Cardinality({l \in links : l.row = bot.row})]
        /\ links' = links \cup {new}
  BY DEF UpsertAccount
<1>2. /\ bot.pc = "upsert" /\ bot' = [bot EXCEPT !.pc = "delete"]
      /\ UNCHANGED <<codes, sent, batch, seen, forgotten, interrupted, linkClock>>
      /\ chatOf' = [chatOf EXCEPT ![codes[bot.row].user] = sent[bot.message].chat]
  BY DEF UpsertAccount
<1>3. /\ bot.message \in 1 .. Len(sent) /\ bot.message \in Known
      /\ bot.row \in 1 .. Len(codes)
      /\ \A l \in links : l.message = bot.message => l.message \in forgotten
      /\ \A l \in links : l.row = bot.row => l.row \in interrupted
  BY <1>2 DEF ZaloInv, BotInv
<1>4. /\ bot' \in [pc : {"waiting", "findCode", "findChat", "upsert", "delete"},
                  message : Nat, row : Nat]
      /\ bot'.pc = "delete" /\ bot'.row = bot.row /\ bot'.message = bot.message
  BY <1>2 DEF ZaloInv, TablesInv
<1>5. Known' = Known
  BY <1>2 DEF Known
<1>6. TablesInv'
  <2>1. sent[bot.message] \in [chat : Chats, text : Codes]
    BY <1>3, SentIsTyped
  <2>2. chatOf' \in [Users -> Chats \cup {NoChat}]
    BY <1>2, <2>1 DEF ZaloInv, TablesInv
  <2>3. QED
    BY <1>2, <1>4, <2>2 DEF ZaloInv, TablesInv
<1>7. BotInv'
  BY <1>2, <1>3, <1>4, <1>5 DEF BotInv
<1>8. new.row = bot.row /\ new.message = bot.message
  BY <1>1
<1>9. new.times > 0 => new.row \in interrupted
  <2>1. CASE \E l \in links : l.row = bot.row
    BY <1>3, <1>8, <2>1
  <2>2. CASE \A l \in links : l.row # bot.row
    <3>1. {l \in links : l.row = bot.row} = {}
      BY <2>2
    <3>2. new.times = 0
      BY <1>1, <3>1, FS_EmptySet
    <3>3. QED
      BY <3>2
  <2>3. QED
    BY <2>1, <2>2
<1>10. LinksInv'
  <2>1. ASSUME NEW l \in links' PROVE Spent(l)'
    <3>1. CASE l = new
      BY <1>2, <1>3, <1>4, <1>5, <1>8, <1>9, <3>1 DEF Spent
    <3>2. CASE l \in links
      BY <1>2, <1>4, <1>5, <3>2 DEF ZaloInv, LinksInv, Spent
    <3>3. QED
      BY <1>1, <3>1, <3>2
  <2>2. MessageLinksOnce'
    BY <1>1, <1>2, <1>3, <1>8 DEF ZaloInv, LinksInv, MessageLinksOnce
  <2>3. QED
    BY <2>1, <2>2 DEF LinksInv
<1>11. QED
  BY <1>6, <1>7, <1>10 DEF ZaloInv

\* The code is deleted.
LEMMA DeleteCodeStep ==
    ASSUME ZaloInv, DeleteCode
    PROVE  ZaloInv'
<1>1. /\ bot.pc = "delete" /\ bot' = Waiting
      /\ codes' = [codes EXCEPT ![bot.row].there = FALSE]
      /\ batch' \in {batch, <<>>}
      /\ UNCHANGED <<chatOf, sent, seen, links, forgotten, interrupted, linkClock>>
  BY DEF DeleteCode
<1>2. bot.row \in 1 .. Len(codes) /\ codes \in Seq(CodeRow) /\ Len(codes) \in Nat
  BY <1>1 DEF ZaloInv, BotInv, TablesInv
<1> DEFINE gone == [codes[bot.row] EXCEPT !.there = FALSE]
<1>3. gone \in CodeRow /\ gone.user = codes[bot.row].user /\ ~gone.there
  <2>1. codes[bot.row] \in CodeRow
    BY <1>2
  <2>2. QED
    BY <2>1 DEF CodeRow
<1>4. codes' = [codes EXCEPT ![bot.row] = gone]
  BY <1>1
<1> HIDE DEF gone
<1>5. /\ codes' \in Seq(CodeRow) /\ Len(codes') = Len(codes)
      /\ \A c \in 1 .. Len(codes) : codes'[c] = IF c = bot.row THEN gone ELSE codes[c]
  BY <1>2, <1>3, <1>4
<1>6. CodesKept(codes, codes') /\ ~codes'[bot.row].there
  <2>1. ASSUME NEW c \in 1 .. Len(codes)
        PROVE  codes'[c].user = codes[c].user /\ (codes'[c].there => codes[c].there)
    BY <1>3, <1>5
  <2>2. ~codes'[bot.row].there
    BY <1>2, <1>3, <1>5
  <2>3. QED
    BY <1>2, <1>5, <2>1, <2>2 DEF CodesKept
<1>7. batch' \in Seq(1 .. Len(sent)) /\ seen' \in Seq(1 .. Len(sent)) /\ Known' = Known
  <2>1. batch \in Seq(1 .. Len(sent)) /\ seen \in Seq(1 .. Len(sent))
    BY DEF ZaloInv, TablesInv
  <2>2. QED
    BY <1>1, <2>1, EmptySeq DEF Known
<1>8. QED
  BY <1>1, <1>5, <1>6, <1>7, RestStep

\* Handling breaks off, or the process restarts and forgets what it has seen.
LEMMA BreakStep ==
    ASSUME ZaloInv, HandlingFails \/ BotRestarts
    PROVE  ZaloInv'
<1>1. /\ bot' = Waiting /\ batch' = <<>>
      /\ interrupted' = IF bot.pc = "delete" THEN interrupted \cup {bot.row} ELSE interrupted
      /\ UNCHANGED <<chatOf, codes, sent, links, linkClock>>
  BY DEF HandlingFails, BotRestarts
<1>2. \/ UNCHANGED <<seen, forgotten>>
      \/ seen' = <<>> /\ forgotten' = forgotten \cup ToSet(seen)
  BY DEF HandlingFails, BotRestarts
<1>3. /\ Known \subseteq Known' /\ forgotten \subseteq forgotten'
      /\ seen' \in Seq(1 .. Len(sent)) /\ batch' \in Seq(1 .. Len(sent))
  <2>1. seen \in Seq(1 .. Len(sent)) /\ <<>> \in Seq(1 .. Len(sent)) /\ ToSet(<<>>) = {}
    BY DEF ZaloInv, TablesInv, ToSet
  <2>2. QED
    BY <1>1, <1>2, <2>1 DEF Known
<1>4. CodesKept(codes, codes') /\ Len(codes') = Len(codes)
  BY <1>1, CodesStay DEF ZaloInv, TablesInv
<1>5. QED
  BY <1>1, <1>3, <1>4, RestStep

\* Every step keeps the invariant.
LEMMA ZaloStep == ZaloInv /\ [ZaloNext]_zaloVars => ZaloInv'
<1> SUFFICES ASSUME ZaloInv, [ZaloNext]_zaloVars PROVE ZaloInv'
  OBVIOUS
<1>1. CASE ZaloNext
  BY <1>1, CodesStep, OutsideStep, HandleStep, FindCodeStep, FindChatStep, UpsertStep,
     DeleteCodeStep, BreakStep DEF ZaloNext
<1>2. CASE UNCHANGED zaloVars
  <2>1. /\ UNCHANGED <<chatOf, codes, sent, batch, seen, bot, links, forgotten, interrupted,
                       linkClock>>
        /\ CodesKept(codes, codes')
    BY <1>2, CodesStay DEF zaloVars, ZaloInv, TablesInv
  <2>2. QED
    BY <2>1, BesideStep DEF ZaloInv, TablesInv
<1>3. QED
  BY <1>1, <1>2

\* Nobody is linked and no message was sent.
LEMMA ZaloStart == ZaloInit => ZaloInv
BY DEF ZaloInit, ZaloInv, TablesInv, BotInv, LinksInv, MessageLinksOnce, Waiting

-----------------------------------------------------------------------------
\* Between the query that finds the chat free and the upsert, no other user gets the chat: the
\* loop is the only writer of links, and users can only give one up.
THEOREM ConflictNeverSwallowed == ZaloSpec => []NoSwallowedConflict
<1>1. ZaloInv => NoSwallowedConflict
  BY DEF ZaloInv, BotInv, NoSwallowedConflict
<1>2. QED
  BY ZaloStart, ZaloStep, <1>1, PTL DEF ZaloSpec

\* Whoever sends a code again, and however often Zalo delivers it, it links once, unless
\* handling broke off between the link and the deletion.
THEOREM CodeSpentOnce == ZaloSpec => []CodeLinksOnce
<1>1. ZaloInv => CodeLinksOnce
  BY DEF ZaloInv, LinksInv, Spent, CodeLinksOnce
<1>2. QED
  BY ZaloStart, ZaloStep, <1>1, PTL DEF ZaloSpec

\* A message links one account at most until its id has left the set of those seen.
THEOREM MessageSpentOnce == ZaloSpec => []MessageLinksOnce
<1>1. ZaloInv => MessageLinksOnce
  BY DEF ZaloInv, LinksInv
<1>2. QED
  BY ZaloStart, ZaloStep, <1>1, PTL DEF ZaloSpec
=============================================================================
