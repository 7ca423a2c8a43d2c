----------------------------- MODULE ZaloLink -----------------------------
(***************************************************************************)
(* Linking a Zalo chat to an account: the link codes a user asks for over  *)
(* HTTP (zalo-link.service, zalo-accounts.controller), and the one poll    *)
(* loop that reads chat messages and confirms codes (zalo-bot.service).    *)
(* Zalo itself is outside: a poll may return any messages that were sent,  *)
(* in any order and again, or fail.                                        *)
(***************************************************************************)
EXTENDS Naturals, Sequences, FiniteSets, SequencesExt

CONSTANTS Users, Chats, NoChat,
          Codes,            \* the six-digit codes; randomInt may draw one again
          LinkCodeTtl,      \* LINK_CODE_TTL_MS, in ticks
          MaxSeen,          \* MAX_SEEN_MESSAGE_IDS
          BatchSize,        \* bound: updates in one answer of getUpdates
          MaxMessages, MaxRows, MaxCrashes, MaxLinkTime   \* bounds

ASSUME ZaloLinkAssumption ==
  /\ NoChat \notin Chats
  /\ LinkCodeTtl \in Nat \ {0} /\ MaxSeen \in Nat \ {0} /\ BatchSize \in Nat \ {0}
  /\ MaxMessages \in Nat /\ MaxRows \in Nat /\ MaxCrashes \in Nat /\ MaxLinkTime \in Nat

VARIABLES chatOf,           \* zalo_accounts: the chat of each user
          codes,            \* zalo_link_codes, in the order of creation
          asking,           \* users whose createLinkCode is past deleteExpired
          sent,             \* messages sent to the bot: chat and text
          batch,            \* updates of the current answer still to handle
          seen,             \* seenMessageIds, oldest first
          bot,              \* confirmLink under way
          links,            \* history: code, message and user of each upsert
          forgotten,        \* history: messages whose id left seen
          interrupted,      \* history: codes that were linked but not deleted
          crashes, linkClock

zaloVars == <<chatOf, codes, asking, sent, batch, seen, bot, links, forgotten,
              interrupted, crashes, linkClock>>

-----------------------------------------------------------------------------
Waiting == [pc |-> "waiting", message |-> 0, row |-> 0]

ZaloInit ==
  /\ chatOf = [u \in Users |-> NoChat]
  /\ codes = <<>> /\ asking = {}
  /\ sent = <<>> /\ batch = <<>> /\ seen = <<>>
  /\ bot = Waiting
  /\ links = {} /\ forgotten = {} /\ interrupted = {}
  /\ crashes = 0 /\ linkClock = 0

HasExpired(c) == codes[c].expires < linkClock
Pending(text) == {c \in DOMAIN codes : codes[c].there /\ codes[c].text = text}

-----------------------------------------------------------------------------
(* createLinkCode: two queries. *)
PurgeExpired(u) ==
  /\ u \notin asking
  /\ asking' = asking \cup {u}
  /\ codes' = [c \in DOMAIN codes |->
                 [codes[c] EXCEPT !.there = @ /\ ~HasExpired(c)]]
  /\ UNCHANGED <<chatOf, sent, batch, seen, bot, links, forgotten, interrupted,
                 crashes, linkClock>>

\* A code that is pending already is refused by the unique column: the call fails.
CreateLinkCode(u) ==
  /\ u \in asking /\ Len(codes) < MaxRows
  /\ asking' = asking \ {u}
  /\ \E text \in Codes :
       codes' = IF Pending(text) # {} THEN codes
                ELSE Append(codes, [text |-> text, user |-> u, there |-> TRUE,
                                    expires |-> linkClock + LinkCodeTtl])
  /\ UNCHANGED <<chatOf, sent, batch, seen, bot, links, forgotten, interrupted,
                 crashes, linkClock>>

\* DELETE /zalo-accounts/me
Unlink(u) ==
  /\ chatOf[u] # NoChat
  /\ chatOf' = [chatOf EXCEPT ![u] = NoChat]
  /\ UNCHANGED <<codes, asking, sent, batch, seen, bot, links, forgotten, interrupted,
                 crashes, linkClock>>

\* Anybody may send the bot any text.
UserSends(chat, text) ==
  /\ Len(sent) < MaxMessages
  /\ sent' = Append(sent, [chat |-> chat, text |-> text])
  /\ UNCHANGED <<chatOf, codes, asking, batch, seen, bot, links, forgotten, interrupted,
                 crashes, linkClock>>

-----------------------------------------------------------------------------
(* pollLoop: the next poll starts when every update of the last one is handled. *)
Poll ==
  /\ bot.pc = "waiting" /\ batch = <<>>
  /\ \E n \in 1 .. BatchSize : batch' \in [1 .. n -> DOMAIN sent]
  /\ UNCHANGED <<chatOf, codes, asking, sent, seen, bot, links, forgotten, interrupted,
                 crashes, linkClock>>

\* markSeen: the oldest id makes room.
Remembered(m) == IF Len(seen) < MaxSeen THEN Append(seen, m) ELSE Append(Tail(seen), m)

\* handleUpdate: a message that was seen is dropped, another is seen from now on.
HandleUpdate_Forgetful ==
  /\ bot.pc = "waiting" /\ batch # <<>>
  /\ batch' = Tail(batch)
  /\ bot' = [pc |-> "findCode", message |-> Head(batch), row |-> 0]
  /\ UNCHANGED <<chatOf, codes, asking, sent, seen, links, forgotten, interrupted, crashes,
                 linkClock>>
HandleUpdate ==
  /\ bot.pc = "waiting" /\ batch # <<>>
  /\ batch' = Tail(batch)
  /\ LET m == Head(batch)
     IN \/ /\ m \in ToSet(seen)
           /\ UNCHANGED <<seen, bot, forgotten>>
        \/ /\ m \notin ToSet(seen)
           /\ seen' = Remembered(m)
           /\ forgotten' = forgotten \cup (ToSet(seen) \ ToSet(Remembered(m)))
           /\ bot' = [pc |-> "findCode", message |-> m, row |-> 0]
  /\ UNCHANGED <<chatOf, codes, asking, sent, links, interrupted, crashes, linkClock>>

(* confirmLink: find the code, look at the chat, link, delete the code. *)
FindCode ==
  /\ bot.pc = "findCode"
  /\ \/ \E c \in Pending(sent[bot.message].text) :
          /\ ~HasExpired(c)
          /\ bot' = [bot EXCEPT !.pc = "findChat", !.row = c]
     \/ /\ \A c \in Pending(sent[bot.message].text) : HasExpired(c)
        /\ bot' = Waiting
  /\ UNCHANGED <<chatOf, codes, asking, sent, batch, seen, links, forgotten, interrupted,
                 crashes, linkClock>>

ChatIsTaken(c, m) == \E u \in Users \ {codes[c].user} : chatOf[u] = sent[m].chat

\* "already_linked" is answered in the chat, and changes nothing.
FindChat_Trusting ==
  /\ bot.pc = "findChat"
  /\ bot' = [bot EXCEPT !.pc = "upsert"]
  /\ UNCHANGED <<chatOf, codes, asking, sent, batch, seen, links, forgotten, interrupted,
                 crashes, linkClock>>
FindChat ==
  /\ bot.pc = "findChat"
  /\ bot' = IF ChatIsTaken(bot.row, bot.message) THEN Waiting
            ELSE [bot EXCEPT !.pc = "upsert"]
  /\ UNCHANGED <<chatOf, codes, asking, sent, batch, seen, links, forgotten, interrupted,
                 crashes, linkClock>>

\* Were the chat taken, the unique column would throw (HandlingFails).
UpsertAccount ==
  /\ bot.pc = "upsert" /\ ~ChatIsTaken(bot.row, bot.message)
  /\ LET u == codes[bot.row].user
     IN /\ chatOf' = [chatOf EXCEPT ![u] = sent[bot.message].chat]
        /\ links' = links \cup {[row |-> bot.row, message |-> bot.message,
                                 times |-> Cardinality({l \in links : l.row = bot.row})]}
  /\ bot' = [bot EXCEPT !.pc = "delete"]
  /\ UNCHANGED <<codes, asking, sent, batch, seen, forgotten, interrupted, crashes, linkClock>>

\* A code purged meanwhile makes the delete throw, and the loop drop the batch.
DeleteCode_Kept ==
  /\ bot.pc = "delete"
  /\ bot' = Waiting
  /\ UNCHANGED <<chatOf, codes, asking, sent, batch, seen, links, forgotten, interrupted,
                 crashes, linkClock>>
DeleteCode ==
  /\ bot.pc = "delete"
  /\ codes' = [codes EXCEPT ![bot.row].there = FALSE]
  /\ batch' = IF codes[bot.row].there THEN batch ELSE <<>>
  /\ bot' = Waiting
  /\ UNCHANGED <<chatOf, asking, sent, seen, links, forgotten, interrupted, crashes, linkClock>>

-----------------------------------------------------------------------------
\* A query throws: the catch of the loop drops the rest of the batch.
HandlingFails ==
  /\ bot.pc # "waiting" /\ crashes < MaxCrashes
  /\ crashes' = crashes + 1
  /\ interrupted' = IF bot.pc = "delete" THEN interrupted \cup {bot.row} ELSE interrupted
  /\ bot' = Waiting /\ batch' = <<>>
  /\ UNCHANGED <<chatOf, codes, asking, sent, seen, links, forgotten, linkClock>>

\* The process restarts: it forgets the messages it has seen.
BotRestarts ==
  /\ crashes < MaxCrashes
  /\ crashes' = crashes + 1
  /\ interrupted' = IF bot.pc = "delete" THEN interrupted \cup {bot.row} ELSE interrupted
  /\ bot' = Waiting /\ batch' = <<>> /\ seen' = <<>> /\ asking' = {}
  /\ forgotten' = forgotten \cup ToSet(seen)
  /\ UNCHANGED <<chatOf, codes, sent, links, linkClock>>

LinkTick ==
  /\ linkClock < MaxLinkTime
  /\ linkClock' = linkClock + 1
  /\ UNCHANGED <<chatOf, codes, asking, sent, batch, seen, bot, links, forgotten,
                 interrupted, crashes>>

ZaloNext ==
  \/ \E u \in Users : PurgeExpired(u) \/ CreateLinkCode(u) \/ Unlink(u)
  \/ \E chat \in Chats, text \in Codes : UserSends(chat, text)
  \/ Poll \/ HandleUpdate \/ FindCode \/ FindChat \/ UpsertAccount \/ DeleteCode
  \/ HandlingFails \/ BotRestarts \/ LinkTick

ZaloSpec == ZaloInit /\ [][ZaloNext]_zaloVars

-----------------------------------------------------------------------------
(* The chat that confirmLink is about to write is not the chat of another  *)
(* user, so the upsert is never "a swallowed P2002 from the poll loop's    *)
(* catch" (zalo-link.service.ts:30-32), although it looked a query ago.    *)
NoSwallowedConflict == bot.pc = "upsert" => ~ChatIsTaken(bot.row, bot.message)

(* A code links once, whatever is redelivered and whoever sends it again,  *)
(* unless handling broke off between the link and the deletion.            *)
CodeLinksOnce ==
  \A l \in links : l.times > 0 => l.row \in interrupted

(* A message links at most one account, although Zalo redelivers it and    *)
(* its code may have been drawn again for somebody else meanwhile, as long *)
(* as its id has not left the set of those seen.                           *)
MessageLinksOnce ==
  \A l, k \in links : (l.message = k.message /\ l # k) => l.message \in forgotten
=============================================================================
