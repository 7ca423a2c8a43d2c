----------------------------- MODULE Cron_proofs -----------------------------
(***************************************************************************)
(* Proofs about the three cron jobs: the daily digest, the reminders, and  *)
(* tasks from mail, for any number of runs that overlap, of subscribers,   *)
(* tasks, accounts and messages, and for all time zones and offsets.       *)
(***************************************************************************)
EXTENDS Digest, Reminders, MailIngestion, WellFoundedInduction, TLAPS

-----------------------------------------------------------------------------
(* The daily digest. *)

Days == Nat \cup {NoDay}
Candidate == [who : Subscribers, minute : Minutes, last : Days]
DigestRun == [pc : {"off", "next", "send", "mark"}, todo : SUBSET Candidate, at : Nat,
              who : SUBSET Subscribers]

DigestTables ==
  /\ preference \in [Subscribers -> [on : BOOLEAN, minute : Minutes, last : Days,
                                     linked : BOOLEAN]]
  /\ digested \in [Subscribers -> SUBSET Nat] /\ step \in Nat
  /\ run \in [Runs -> DigestRun] /\ \A s \in Runs : run[s].at <= step

Holding(q, u) == u \in q.who \/ \E c \in q.todo : c.who = u
UpTo(last, day) == last # NoDay => last <= day

\* A run that holds the subscriber knows the day that is marked, which is no later than its own.
Follows(q, u, last) ==
  /\ \A c \in q.todo : c.who = u => c.last = last /\ u \notin q.who
  /\ \A c, d \in q.todo : c.who = u /\ d.who = u => c = d
  /\ Holding(q, u) => UpTo(last, today(u, q.at))
  /\ u \in q.who /\ q.pc = "send" => last # today(u, q.at)

Marking(u, day) == \E s \in Runs : /\ run[s].pc = "mark" /\ u \in run[s].who
                                   /\ day <= today(u, run[s].at)

\* OneDigestADay alone does not say that the days digested are marked, or about to be.
OneRunEach(u) ==
  /\ \A r, s \in Runs : Holding(run[r], u) /\ Holding(run[s], u) => r = s
  /\ \A s \in Runs : Follows(run[s], u, preference[u].last)
  /\ UpTo(preference[u].last, today(u, step))
  /\ \A day \in digested[u] :
       (preference[u].last # NoDay /\ day <= preference[u].last) \/ Marking(u, day)

DigestInv == /\ DigestTables /\ OneDigestADay
             /\ \A u \in Subscribers \ caught : OneRunEach(u)

\* A later moment is not on an earlier day.
LEMMA DaysPass ==
    ASSUME NEW u \in Subscribers, NEW a \in Nat, NEW b \in Nat, a <= b
    PROVE  /\ today(u, a) \in Nat /\ today(u, b) \in Nat /\ today(u, a) <= today(u, b)
<1> DEFINE x == a + Zone[u]
           y == b + Zone[u]
<1>1. x \in Nat /\ y \in Nat /\ x <= y /\ DayLength \in Nat /\ DayLength > 0
  BY DigestAssumption
<1> HIDE DEF x, y
<1>2. x \div DayLength \in Nat /\ y \div DayLength \in Nat /\ x \div DayLength <= y \div DayLength
  BY <1>1
<1>3. QED
  BY <1>2 DEF today, x, y

\* What a run holds by Held, said without a set.
LEMMA HeldIsHolding ==
    ASSUME NEW s \in Runs, NEW u PROVE u \in Held(s) <=> Holding(run[s], u)
BY DEF Held, Holding

\* One run moves on to q, or a digest goes out: preferences and the time stay.
LEMMA RunMoves ==
    ASSUME DigestInv, NEW s \in Runs, NEW q \in DigestRun, run' = [run EXCEPT ![s] = q],
           q.at <= step, UNCHANGED <<preference, step>>, caught \subseteq caught',
           digested' \in [Subscribers -> SUBSET Nat], OneDigestADay',
           \A u \in Subscribers \ caught' :
             /\ Follows(q, u, preference[u].last)
             /\ \A r \in Runs : Holding(q, u) /\ Holding(run[r], u) => r = s
             /\ run[s].pc = "mark" => u \notin run[s].who
             /\ \A day \in digested'[u] :
                  day \in digested[u] \/ (q.pc = "mark" /\ u \in q.who /\ day <= today(u, q.at))
    PROVE  DigestInv'
<1>1. run \in [Runs -> DigestRun]
  BY DEF DigestInv, DigestTables
<1>2. \A r \in Runs : run'[r] = IF r = s THEN q ELSE run[r]
  BY <1>1
<1>3. DigestTables'
  BY <1>1, <1>2 DEF DigestInv, DigestTables
<1>4. ASSUME NEW u \in Subscribers \ caught' PROVE OneRunEach(u)'
  <2>1. OneRunEach(u)
    BY DEF DigestInv
  <2>2. \A r, t \in Runs : Holding(run[r], u)' /\ Holding(run[t], u)' => r = t
    BY <1>2, <2>1 DEF OneRunEach, Holding
  <2>3. \A t \in Runs : Follows(run[t], u, preference[u].last)'
    BY <1>2, <2>1 DEF OneRunEach, Follows, Holding, today
  <2>4. ASSUME NEW day \in digested'[u]
        PROVE  (preference[u].last # NoDay /\ day <= preference[u].last) \/ Marking(u, day)'
    <3>1. CASE day \in digested[u]
      <4>1. Marking(u, day) => Marking(u, day)'
        BY <1>2 DEF Marking, today
      <4>2. QED
        BY <2>1, <3>1, <4>1 DEF OneRunEach
    <3>2. CASE day \notin digested[u]
      BY <1>2, <3>2 DEF Marking, today
    <3>3. QED
      BY <3>1, <3>2
  <2>5. UpTo(preference[u].last, today(u, step))'
    BY <2>1 DEF OneRunEach, UpTo, today
  <2>6. QED
    BY <2>2, <2>3, <2>4, <2>5 DEF OneRunEach
<1>5. QED
  BY <1>3, <1>4 DEF DigestInv

\* A subscriber that some run holds already is caught by a run that starts.
LEMMA StartDigestsStep ==
    ASSUME DigestInv, NEW s \in Runs, StartDigests(s)
    PROVE  DigestInv'
<1> DEFINE q == [pc |-> "next", at |-> step, who |-> {},
                 todo |-> {Subscription(u) : u \in findDigestSubscribers}]
<1>1. /\ run[s].pc = "off" /\ run' = [run EXCEPT ![s] = q]
      /\ caught' = caught \cup (findDigestSubscribers \cap UNION {Held(r) : r \in Runs})
      /\ UNCHANGED <<preference, step, digested, twice>>
  BY DEF StartDigests
<1>2. /\ preference \in [Subscribers -> [on : BOOLEAN, minute : Minutes, last : Days,
                                         linked : BOOLEAN]]
      /\ step \in Nat /\ digested \in [Subscribers -> SUBSET Nat]
  BY DEF DigestInv, DigestTables
<1>3. \A u \in findDigestSubscribers : Subscription(u) \in Candidate
  BY <1>2 DEF findDigestSubscribers, Subscription, Candidate
<1>4. q \in DigestRun /\ q.at = step /\ q.pc = "next" /\ q.who = {}
  BY <1>2, <1>3 DEF DigestRun
<1>5. ASSUME NEW u \in Subscribers \ caught'
      PROVE  /\ Follows(q, u, preference[u].last)
             /\ \A r \in Runs : ~(Holding(q, u) /\ Holding(run[r], u))
  <2>1. \A c \in q.todo : c.who = u => c = Subscription(u) /\ u \in findDigestSubscribers
    BY DEF Subscription
  <2>2. UpTo(preference[u].last, today(u, step))
    BY <1>1 DEF DigestInv, OneRunEach
  <2>3. Subscription(u).last = preference[u].last
    BY DEF Subscription
  <2>4. Follows(q, u, preference[u].last)
    BY <2>1, <2>2, <2>3, <1>4 DEF Follows
  <2>5. ASSUME NEW r \in Runs, Holding(q, u), Holding(run[r], u) PROVE FALSE
    BY <1>1, <1>4, <2>1, <2>5, HeldIsHolding DEF Holding
  <2>6. QED
    BY <2>4, <2>5
<1>6. OneDigestADay' /\ caught \subseteq caught'
  BY <1>1 DEF DigestInv, OneDigestADay
<1> HIDE DEF q
<1>7. run[s].pc # "mark" /\ q.at <= step /\ digested' \in [Subscribers -> SUBSET Nat]
  BY <1>1, <1>2, <1>4
<1>8. QED
  BY <1>1, <1>4, <1>5, <1>6, <1>7, RunMoves

\* The next subscriber is taken up, when the digest is wanted.
LEMMA NextSubscriberStep ==
    ASSUME DigestInv, NEW s \in Runs, NextSubscriber(s)
    PROVE  DigestInv'
<1>1. /\ run[s] \in DigestRun /\ run[s].pc = "next" /\ run[s].at <= step
      /\ digested \in [Subscribers -> SUBSET Nat]
      /\ UNCHANGED <<preference, digested, twice, caught, step>>
  BY DEF NextSubscriber, DigestInv, DigestTables
<1>2. PICK c \in run[s].todo :
        run' = IF Wanted(c, c.who, run[s].at)
               THEN [run EXCEPT ![s].todo = @ \ {c}, ![s].pc = "send", ![s].who = {c.who}]
               ELSE [run EXCEPT ![s].todo = @ \ {c}]
  BY DEF NextSubscriber
<1>3. c \in Candidate
  BY <1>1 DEF DigestRun
<1>4. PICK q : /\ q \in {[run[s] EXCEPT !.todo = @ \ {c}, !.pc = "send", !.who = {c.who}],
                         [run[s] EXCEPT !.todo = @ \ {c}]}
               /\ run' = [run EXCEPT ![s] = q]
               /\ q.pc = "send" => Wanted(c, c.who, run[s].at)
  BY <1>1, <1>2 DEF DigestRun
<1>5. /\ q \in DigestRun /\ q.at = run[s].at /\ q.todo = run[s].todo \ {c}
      /\ \/ q.pc = "send" /\ q.who = {c.who}
         \/ q.pc = "next" /\ q.who = run[s].who
  <2>1. CASE q = [run[s] EXCEPT !.todo = @ \ {c}, !.pc = "send", !.who = {c.who}]
    <3>1. c.who \in Subscribers
      BY <1>3 DEF Candidate
    <3>2. QED
      BY <1>1, <2>1, <3>1 DEF DigestRun
  <2>2. CASE q = [run[s] EXCEPT !.todo = @ \ {c}]
    BY <1>1, <2>2 DEF DigestRun
  <2>3. QED
    BY <1>4, <2>1, <2>2
<1>6. ASSUME NEW u \in Subscribers \ caught
      PROVE  /\ Follows(q, u, preference[u].last)
             /\ \A r \in Runs : Holding(q, u) /\ Holding(run[r], u) => r = s
  <2>1. OneRunEach(u)
    BY DEF DigestInv
  <2>2. Holding(q, u) => Holding(run[s], u)
    BY <1>5 DEF Holding
  <2>3. Follows(q, u, preference[u].last)
    BY <1>4, <1>5, <2>1, <2>2 DEF OneRunEach, Follows, Wanted
  <2>4. QED
    BY <2>1, <2>2, <2>3 DEF OneRunEach
<1>7. OneDigestADay'
  BY <1>1 DEF DigestInv, OneDigestADay
<1>8. QED
  BY <1>1, <1>4, <1>5, <1>6, <1>7, RunMoves

\* A run ends, or breaks off: who it was about to mark is caught.
LEMMA RunEndsStep ==
    ASSUME DigestInv, NEW s \in Runs, EndDigests(s) \/ DigestBreaks(s)
    PROVE  DigestInv'
<1>1. /\ run' = [run EXCEPT ![s] = Off] /\ UNCHANGED <<preference, digested, twice, step>>
      /\ caught \subseteq caught' /\ (run[s].pc = "mark" => run[s].who \subseteq caught')
  BY DEF EndDigests, DigestBreaks
<1>2. Off \in DigestRun /\ Off.at <= step /\ \A u : ~Holding(Off, u)
  BY DEF Off, DigestRun, Holding, DigestInv, DigestTables
<1>3. \A u, last : Follows(Off, u, last)
  BY <1>2 DEF Follows, Off
<1>4. OneDigestADay' /\ digested \in [Subscribers -> SUBSET Nat]
  BY <1>1 DEF DigestInv, DigestTables, OneDigestADay
<1>5. QED
  BY <1>1, <1>2, <1>3, <1>4, RunMoves

\* A digest goes out, or does not: it is the first of its day, as the day is not marked and no
\* other run is about to mark it.
LEMMA SendDigestStep ==
    ASSUME DigestInv, NEW s \in Runs, SendDigest(s)
    PROVE  DigestInv'
<1>1. /\ run[s] \in DigestRun /\ run[s].pc = "send" /\ run[s].at <= step /\ run[s].at \in Nat
      /\ digested \in [Subscribers -> SUBSET Nat] /\ run \in [Runs -> DigestRun]
      /\ UNCHANGED <<preference, caught, step>> /\ run' = [run EXCEPT ![s].pc = "mark"]
  BY DEF SendDigest, DigestInv, DigestTables, DigestRun
<1> DEFINE q == [run[s] EXCEPT !.pc = "mark"]
<1>2. /\ q \in DigestRun /\ q.at = run[s].at /\ q.todo = run[s].todo /\ q.who = run[s].who
      /\ q.pc = "mark" /\ run' = [run EXCEPT ![s] = q]
  BY <1>1 DEF DigestRun
<1> HIDE DEF q
<1>3. ASSUME NEW u \in Subscribers \ caught
      PROVE  /\ Follows(q, u, preference[u].last)
             /\ \A r \in Runs : Holding(q, u) /\ Holding(run[r], u) => r = s
  BY <1>2 DEF DigestInv, OneRunEach, Follows, Holding
<1>4. CASE UNCHANGED <<digested, twice>>
  <2>1. OneDigestADay'
    BY <1>1, <1>4 DEF DigestInv, OneDigestADay
  <2>2. QED
    BY <1>1, <1>2, <1>3, <1>4, <2>1, RunMoves
<1>5. CASE ~UNCHANGED <<digested, twice>>
  <2> DEFINE day(u) == today(u, run[s].at)
  <2>1. PICK u \in run[s].who :
          /\ digested' = [digested EXCEPT ![u] = @ \cup {day(u)}]
          /\ twice' = IF day(u) \in digested[u] THEN twice \cup {u} ELSE twice
    BY <1>5 DEF SendDigest
  <2>2. u \in Subscribers /\ day(u) \in Nat
    BY <1>1, DaysPass DEF DigestRun
  <2>3. digested' \in [Subscribers -> SUBSET Nat]
    BY <1>1, <2>1, <2>2
  <2>4. day(u) \in digested[u] => u \in caught
    <3> SUFFICES ASSUME day(u) \in digested[u], u \notin caught PROVE FALSE
      OBVIOUS
    <3>1. OneRunEach(u) /\ Holding(run[s], u) /\ preference[u].last \in Days
      BY <2>2 DEF DigestInv, DigestTables, Holding
    <3>2. ~Marking(u, day(u))
      BY <1>1, <3>1 DEF Marking, OneRunEach, Holding
    <3>3. preference[u].last # NoDay /\ day(u) <= preference[u].last
      BY <3>1, <3>2 DEF OneRunEach
    <3>4. preference[u].last <= day(u) /\ preference[u].last # day(u)
      BY <1>1, <3>1, <3>3 DEF OneRunEach, Follows, UpTo
    <3>5. QED
      BY <2>2, <3>1, <3>3, <3>4 DEF Days
  <2>5. OneDigestADay'
    <3>1. twice' = twice \/ (twice' = twice \cup {u} /\ u \in caught)
      BY <2>1, <2>4
    <3>2. caught' = caught /\ twice \subseteq caught
      BY <1>1 DEF DigestInv, OneDigestADay
    <3>3. QED
      BY <3>1, <3>2 DEF OneDigestADay
  <2>6. \A v \in Subscribers : \A d \in digested'[v] :
           d \in digested[v] \/ (v \in q.who /\ d <= today(v, q.at))
    BY <1>1, <1>2, <2>1, <2>2
  <2> HIDE DEF day
  <2>7. QED
    BY <1>1, <1>2, <1>3, <2>3, <2>5, <2>6, RunMoves
<1>6. QED
  BY <1>4, <1>5

\* The day is marked: it is not before the one marked so far.
LEMMA MarkDigestStep ==
    ASSUME DigestInv, NEW s \in Runs, markDigestSent(s)
    PROVE  DigestInv'
<1>1. /\ run[s] \in DigestRun /\ run[s].pc = "mark" /\ run[s].at \in Nat /\ run[s].at <= step
      /\ run \in [Runs -> DigestRun] /\ step \in Nat
      /\ preference \in [Subscribers -> [on : BOOLEAN, minute : Minutes, last : Days,
                                         linked : BOOLEAN]]
      /\ UNCHANGED <<digested, twice, caught, step>>
  BY DEF markDigestSent, DigestInv, DigestTables, DigestRun
<1> DEFINE q == [run[s] EXCEPT !.pc = "next", !.who = {}]
<1>2. /\ q \in DigestRun /\ q.at = run[s].at /\ q.todo = run[s].todo /\ q.who = {} /\ q.pc = "next"
      /\ run' = [run EXCEPT ![s] = q]
  BY <1>1 DEF DigestRun, markDigestSent
<1> HIDE DEF q
<1>3. \A r \in Runs : run'[r] = IF r = s THEN q ELSE run[r]
  BY <1>1, <1>2
<1>4. ASSUME NEW u \in Subscribers
      PROVE  /\ preference'[u] \in [on : BOOLEAN, minute : Minutes, last : Days, linked : BOOLEAN]
             /\ preference'[u].last = IF u \in run[s].who THEN today(u, run[s].at)
                                      ELSE preference[u].last
  <2>1. preference[u] \in [on : BOOLEAN, minute : Minutes, last : Days, linked : BOOLEAN]
        /\ today(u, run[s].at) \in Days
    BY <1>1, DaysPass DEF Days
  <2>2. CASE u \in run[s].who
    <3>1. preference'[u] = [preference[u] EXCEPT !.last = today(u, run[s].at)]
      BY <2>2 DEF markDigestSent
    <3>2. QED
      BY <2>1, <2>2, <3>1
  <2>3. CASE u \notin run[s].who
    <3>1. preference'[u] = preference[u]
      BY <2>3 DEF markDigestSent
    <3>2. QED
      BY <2>1, <2>3, <3>1
  <2>4. QED
    BY <2>2, <2>3
<1>5. preference' \in [Subscribers -> [on : BOOLEAN, minute : Minutes, last : Days,
                                       linked : BOOLEAN]]
  <2>1. preference' = [u \in Subscribers |-> preference'[u]]
    BY DEF markDigestSent
  <2>2. QED
    BY <1>4, <2>1
<1>6. DigestTables'
  BY <1>1, <1>2, <1>3, <1>5 DEF DigestInv, DigestTables
<1>7. ASSUME NEW u \in Subscribers \ caught PROVE OneRunEach(u)'
  <2>1. OneRunEach(u) /\ preference[u].last \in Days
    BY <1>1 DEF DigestInv
  <2>2. \A r, t \in Runs : Holding(run[r], u)' /\ Holding(run[t], u)' => r = t
    BY <1>2, <1>3, <2>1 DEF OneRunEach, Holding
  <2>3. CASE u \in run[s].who
    <3>1. preference'[u].last = today(u, run[s].at) /\ today(u, run[s].at) \in Nat
          /\ today(u, run[s].at) <= today(u, step) /\ today(u, run[s].at) # NoDay
      BY <1>1, <1>4, <2>3, DaysPass, DigestAssumption
    <3>2. \A r \in Runs : ~Holding(run[r], u)'
      BY <1>2, <1>3, <2>1, <2>3 DEF OneRunEach, Follows, Holding
    <3>3. \A r \in Runs : Follows(run[r], u, preference[u].last)'
      BY <3>2 DEF Follows, Holding
    <3>4. ASSUME NEW day \in digested[u] PROVE day <= today(u, run[s].at)
      <4>1. UpTo(preference[u].last, today(u, run[s].at)) /\ day \in Nat
        BY <2>1, <2>3 DEF OneRunEach, Follows, Holding, DigestInv, DigestTables
      <4>2. CASE preference[u].last # NoDay /\ day <= preference[u].last
        BY <2>1, <3>1, <4>1, <4>2 DEF UpTo, Days
      <4>3. CASE Marking(u, day)
        BY <1>1, <2>1, <2>3, <4>3 DEF Marking, OneRunEach, Holding
      <4>4. QED
        BY <2>1, <4>2, <4>3 DEF OneRunEach
    <3>5. UpTo(preference[u].last, today(u, step))'
      BY <1>1, <3>1 DEF UpTo, today
    <3>6. QED
      BY <1>1, <2>2, <3>1, <3>3, <3>4, <3>5 DEF OneRunEach
  <2>4. CASE u \notin run[s].who
    <3>1. preference'[u].last = preference[u].last
      BY <1>4, <2>4
    <3>2. \A r \in Runs : Follows(run[r], u, preference[u].last)'
      BY <1>2, <1>3, <2>1, <2>4, <3>1 DEF OneRunEach, Follows, Holding, today
    <3>3. \A day : Marking(u, day) => Marking(u, day)'
      BY <1>3, <2>4 DEF Marking, today
    <3>4. UpTo(preference[u].last, today(u, step))'
      BY <1>1, <2>1, <3>1 DEF OneRunEach, UpTo, today
    <3>5. QED
      BY <1>1, <2>1, <2>2, <3>1, <3>2, <3>3, <3>4 DEF OneRunEach
  <2>5. QED
    BY <2>3, <2>4
<1>8. OneDigestADay'
  BY <1>1 DEF DigestInv, OneDigestADay
<1>9. QED
  BY <1>1, <1>6, <1>7, <1>8 DEF DigestInv

\* Preferences change but for the day marked, or time passes.
LEMMA DigestBesideStep ==
    ASSUME DigestInv,
           \/ \E u \in Subscribers :
                (\E on \in BOOLEAN, minute \in Minutes : PutDigest(u, on, minute)) \/ LinkOrUnlink(u)
           \/ DayPasses \/ UNCHANGED digestVars
    PROVE  DigestInv'
<1> DEFINE P == [on : BOOLEAN, minute : Minutes, last : Days, linked : BOOLEAN]
<1>1. /\ preference \in [Subscribers -> P] /\ step \in Nat
      /\ \A s \in Runs : run[s] \in DigestRun /\ run[s].at \in Nat /\ run[s].at <= step
  BY DEF DigestInv, DigestTables, DigestRun
<1>2. UNCHANGED <<run, digested, twice, caught>> /\ step' \in {step, step + 1}
  BY DEF PutDigest, LinkOrUnlink, DayPasses, digestVars
<1>3. /\ preference' \in [Subscribers -> P]
      /\ \A v \in Subscribers : preference'[v].last = preference[v].last
  <2>1. CASE preference' = preference
    BY <1>1, <2>1
  <2>2. CASE \E u \in Subscribers, on \in BOOLEAN, minute \in Minutes : PutDigest(u, on, minute)
    <3>1. PICK u \in Subscribers, on \in BOOLEAN, minute \in Minutes :
            preference' = [preference EXCEPT ![u].on = on, ![u].minute = minute]
      BY <2>2 DEF PutDigest
    <3>2. PICK p : /\ p = [preference[u] EXCEPT !.on = on, !.minute = minute]
                   /\ preference' = [preference EXCEPT ![u] = p]
      BY <3>1
    <3>3. preference[u] \in P
      BY <1>1
    <3>4. p \in P /\ p.last = preference[u].last
      BY <3>2, <3>3
    <3>5. QED
      BY <1>1, <3>2, <3>4
  <2>3. CASE \E u \in Subscribers : LinkOrUnlink(u)
    <3>1. PICK u \in Subscribers :
            preference' = [preference EXCEPT ![u].linked = ~preference[u].linked]
      BY <2>3 DEF LinkOrUnlink
    <3>2. PICK p : /\ p = [preference[u] EXCEPT !.linked = ~preference[u].linked]
                   /\ preference' = [preference EXCEPT ![u] = p]
      BY <3>1
    <3>3. preference[u] \in P
      BY <1>1
    <3>4. CASE preference[u].linked
      <4>1. p = [preference[u] EXCEPT !.linked = FALSE]
        BY <3>2, <3>4, Zenon
      <4>2. p \in P /\ p.last = preference[u].last
        BY <3>3, <4>1
      <4>3. QED
        BY <1>1, <3>2, <4>2
    <3>5. CASE ~preference[u].linked
      <4>1. p = [preference[u] EXCEPT !.linked = TRUE]
        BY <3>2, <3>5, Zenon
      <4>2. p \in P /\ p.last = preference[u].last
        BY <3>3, <4>1
      <4>3. QED
        BY <1>1, <3>2, <4>2
    <3>6. QED
      BY <3>4, <3>5
  <2>4. QED
    BY <2>1, <2>2, <2>3 DEF DayPasses, digestVars
<1>4. DigestTables'
  BY <1>1, <1>2, <1>3 DEF DigestInv, DigestTables
<1>5. ASSUME NEW u \in Subscribers \ caught PROVE OneRunEach(u)'
  <2>1. OneRunEach(u)
    BY DEF DigestInv
  <2>2. step <= step' /\ step' \in Nat
    BY <1>1, <1>2
  <2>3. today(u, step) \in Nat /\ today(u, step') \in Nat /\ today(u, step) <= today(u, step')
    BY <1>1, <2>2, DaysPass
  <2>4. preference[u].last \in Days
    BY <1>1
  <2>5. UpTo(preference[u].last, today(u, step))'
    BY <1>3, <2>1, <2>3, <2>4 DEF OneRunEach, UpTo, Days, today
  <2>6. \A s \in Runs : Follows(run[s], u, preference[u].last)'
    BY <1>2, <1>3, <2>1 DEF OneRunEach, Follows, Holding, today
  <2>7. \A day : Marking(u, day) => Marking(u, day)'
    BY <1>2 DEF Marking, today
  <2>8. QED
    BY <1>2, <1>3, <2>1, <2>5, <2>6, <2>7 DEF OneRunEach, Holding
<1>6. QED
  BY <1>2, <1>4, <1>5 DEF DigestInv, OneDigestADay

\* Every step keeps the invariant of the digest.
LEMMA DigestStep == DigestInv /\ [DigestNext]_digestVars => DigestInv'
<1> SUFFICES ASSUME DigestInv, [DigestNext]_digestVars PROVE DigestInv'
  OBVIOUS
<1>1. CASE \E s \in Runs : SendDigests(s) \/ DigestBreaks(s)
  BY <1>1, StartDigestsStep, NextSubscriberStep, RunEndsStep, SendDigestStep, MarkDigestStep
  DEF SendDigests
<1>2. CASE ~\E s \in Runs : SendDigests(s) \/ DigestBreaks(s)
  BY <1>2, DigestBesideStep DEF DigestNext
<1>3. QED
  BY <1>1, <1>2

\* Nothing was sent or marked at the start.
LEMMA DigestStart == DigestInit => DigestInv
<1> SUFFICES ASSUME DigestInit PROVE DigestInv
  OBVIOUS
<1>1. /\ preference \in [Subscribers -> [on : {TRUE}, minute : Minutes, last : {NoDay},
                                         linked : {TRUE}]]
      /\ run = [s \in Runs |-> Off] /\ digested = [u \in Subscribers |-> {}]
      /\ twice = {} /\ step = 0
  BY DEF DigestInit
<1>2. Off \in DigestRun /\ Off.at = 0 /\ \A u : ~Holding(Off, u)
  <2>1. Off \in DigestRun
    BY DEF Off, DigestRun
  <2>2. QED
    BY <2>1 DEF Off, Holding
<1>3. DigestTables
  <2>1. preference \in [Subscribers -> [on : BOOLEAN, minute : Minutes, last : Days,
                                        linked : BOOLEAN]]
    BY <1>1 DEF Days
  <2>2. run \in [Runs -> DigestRun] /\ \A s \in Runs : run[s].at <= step
    BY <1>1, <1>2
  <2>3. QED
    BY <1>1, <2>1, <2>2 DEF DigestTables
<1>4. ASSUME NEW u \in Subscribers PROVE OneRunEach(u)
  <2>1. preference[u].last = NoDay
    BY <1>1
  <2>2. \A s \in Runs : run[s] = Off
    BY <1>1
  <2>3. QED
    BY <1>1, <1>2, <2>1, <2>2 DEF OneRunEach, Follows, UpTo, Holding
<1>5. QED
  BY <1>1, <1>3, <1>4 DEF DigestInv, OneDigestADay

\* No subscriber gets two digests for one day, however often the minute asked for is moved and
\* whatever sends fail, unless two runs held the subscriber at once or one broke off unmarked.
THEOREM DigestOncePerDay == DigestSpec => []OneDigestADay
<1>1. DigestInv => OneDigestADay
  BY DEF DigestInv
<1>2. QED
  BY DigestStart, DigestStep, <1>1, PTL DEF DigestSpec

-----------------------------------------------------------------------------
(* The reminders. *)

Offset == 0 .. NoOffset
ReminderRow == [deadline : Nat, open : BOOLEAN, reminded : Offset]
SweptTask == [task : Tasks, deadline : Nat, reminded : Offset]
SweepRun == [pc : {"asleep", "prefs", "next", "send", "mark"}, todo : SUBSET SweptTask,
             offsets : SUBSET OffsetChoices, hour : Nat, task : Tasks \cup {SomeTask},
             offset : Offset]
PatchRun == [pc : {"none", "update", "clear"}, task : Tasks \cup {SomeTask}, old : Nat,
             reminded : BOOLEAN, new : Nat]

Sends(q, t) == q.pc \in {"send", "mark"} /\ q.task = t
Carries(q, t) == Sends(q, t) \/ \E c \in q.todo : c.task = t

ReminderTables ==
  /\ task \in [Tasks -> ReminderRow] /\ said \in [Tasks -> Offset]
  /\ offsets \in SUBSET OffsetChoices /\ hour \in Nat
  /\ sweep \in [Sweeps -> SweepRun]
  /\ \A s \in Sweeps : sweep[s].pc \in {"send", "mark"} => sweep[s].task \in Tasks
  /\ patch \in PatchRun /\ (patch.pc # "none" => patch.task \in Tasks)

\* A sweep that holds the task read no larger offset than was said last, and is about to say a
\* smaller one.
Knows(q, t, last) ==
  /\ \A c \in q.todo : c.task = t => c.reminded <= last /\ ~Sends(q, t)
  /\ \A c, d \in q.todo : c.task = t /\ d.task = t => c = d
  /\ q.pc = "send" /\ q.task = t => q.offset < last
  /\ q.pc = "mark" /\ q.task = t => q.offset <= last

\* EachOffsetOnce alone does not say that the offset marked is not above the one said last.
OneSweepEach(t) ==
  /\ \A r, s \in Sweeps : Carries(sweep[r], t) /\ Carries(sweep[s], t) => r = s
  /\ \A s \in Sweeps : Knows(sweep[s], t, said[t])
  /\ \/ task[t].reminded <= said[t]
     \/ \E s \in Sweeps : sweep[s].pc = "mark" /\ sweep[s].task = t

RemindersInv == /\ ReminderTables /\ EachOffsetOnce
                /\ \A t \in Tasks \ excused : OneSweepEach(t)

\* Natural numbers have a least one among them.
LEMMA SomeLeast ==
    ASSUME NEW S \in SUBSET Nat, S # {}
    PROVE  \E n \in S : \A m \in S : n <= m
<1> DEFINE Less == OpToRel(<, Nat)
<1>1. IsWellFoundedOn(Less, Nat)
  BY NatLessThanWellFounded
<1>2. \A n, m \in Nat : m < n => <<m, n>> \in Less
  BY DEF OpToRel
<1> HIDE DEF Less
<1>3. PICK n \in S : \A m \in S : ~(<<m, n>> \in Less)
  BY <1>1, WFMin
<1>4. ASSUME NEW m \in S PROVE n <= m
  <2>1. m \in Nat /\ n \in Nat
    OBVIOUS
  <2>2. ~(m < n)
    BY <1>2, <1>3, <2>1, Zenon
  <2>3. QED
    BY <2>1, <2>2
<1>5. QED
  BY <1>4

\* The offset picked is one that was chosen, and below the last one the user heard of.
LEMMA PickedIsBelow ==
    ASSUME NEW chosen \in SUBSET OffsetChoices, NEW left, NEW reminded \in Nat,
           pickReminderOffset(chosen, left, reminded) # NoOffset
    PROVE  /\ pickReminderOffset(chosen, left, reminded) \in Offset
           /\ pickReminderOffset(chosen, left, reminded) < reminded
<1> DEFINE due == {o \in chosen : left <= o}
<1>1. /\ due # {} /\ pickReminderOffset(chosen, left, reminded) = Min(due)
      /\ ~(Min(due) >= reminded)
  BY DEF pickReminderOffset
<1>2. due \subseteq OffsetChoices /\ due \subseteq Nat
  BY RemindersAssumption
<1>3. \E n \in due : \A m \in due : n <= m
  BY <1>1, <1>2, SomeLeast
<1>4. Min(due) \in due
  BY <1>3 DEF Min
<1>5. Min(due) \in Nat /\ Min(due) < NoOffset /\ NoOffset \in Nat
  BY <1>2, <1>4, RemindersAssumption
<1>6. QED
  BY <1>1, <1>5 DEF Offset

\* What a sweep holds by Holds.
LEMMA HoldsIsCarries ==
    ASSUME NEW s \in Sweeps, NEW t PROVE Holds(s, t) <=> Carries(sweep[s], t)
BY DEF Holds, Carries, Sends

\* A sweep at rest holds nothing.
LEMMA AsleepHoldsNothing ==
  /\ Asleep \in SweepRun /\ Asleep.pc = "asleep"
  /\ \A t, last : ~Carries(Asleep, t) /\ Knows(Asleep, t, last)
<1>1. NoOffset \in Nat
  BY RemindersAssumption
<1>2. Asleep \in SweepRun
  BY <1>1 DEF Asleep, SweepRun, Offset
<1>3. QED
  BY <1>2 DEF Asleep, Carries, Knows, Sends

\* One sweep moves on to q, and may say an offset for the task it sends.
LEMMA SweepMoves ==
    ASSUME RemindersInv, NEW s \in Sweeps, NEW q \in SweepRun, sweep' = [sweep EXCEPT ![s] = q],
           q.pc \in {"send", "mark"} => q.task \in Tasks,
           UNCHANGED <<task, offsets, patch, hour>>, excused \subseteq excused',
           said' \in [Tasks -> Offset], EachOffsetOnce',
           \A t \in Tasks \ excused' :
             /\ Knows(q, t, said'[t])
             /\ \A r \in Sweeps : Carries(q, t) /\ Carries(sweep[r], t) => r = s
             /\ ~(sweep[s].pc = "mark" /\ sweep[s].task = t)
             /\ said'[t] = said[t] \/ (q.pc = "mark" /\ q.task = t /\ Carries(sweep[s], t))
    PROVE  RemindersInv'
<1>1. sweep \in [Sweeps -> SweepRun]
  BY DEF RemindersInv, ReminderTables
<1>2. \A r \in Sweeps : sweep'[r] = IF r = s THEN q ELSE sweep[r]
  BY <1>1
<1>3. ReminderTables'
  BY <1>1, <1>2 DEF RemindersInv, ReminderTables
<1>4. ASSUME NEW t \in Tasks \ excused' PROVE OneSweepEach(t)'
  <2>1. OneSweepEach(t)
    BY DEF RemindersInv
  <2>2. \A r, w \in Sweeps : Carries(sweep'[r], t) /\ Carries(sweep'[w], t) => r = w
    BY <1>2, <2>1 DEF OneSweepEach
  <2>3. ASSUME NEW r \in Sweeps PROVE Knows(sweep'[r], t, said'[t])
    <3>1. CASE r = s
      BY <1>2, <3>1
    <3>2. CASE r # s /\ said'[t] = said[t]
      BY <1>2, <2>1, <3>2 DEF OneSweepEach
    <3>3. CASE r # s /\ said'[t] # said[t]
      <4>1. ~Carries(sweep[r], t)
        BY <2>1, <3>3 DEF OneSweepEach
      <4>2. QED
        BY <1>2, <3>3, <4>1 DEF Carries, Knows, Sends
    <3>4. QED
      BY <3>1, <3>2, <3>3
  <2>4. \/ task'[t].reminded <= said'[t]
        \/ \E r \in Sweeps : sweep'[r].pc = "mark" /\ sweep'[r].task = t
    BY <1>2, <2>1 DEF OneSweepEach
  <2>5. QED
    BY <2>2, <2>3, <2>4 DEF OneSweepEach, Carries, Knows, Sends
<1>5. QED
  BY <1>3, <1>4 DEF RemindersInv

\* A sweep starts: the tasks that another one holds are excused.
LEMMA StartSweepStep ==
    ASSUME RemindersInv, NEW s \in Sweeps, StartSweep(s)
    PROVE  RemindersInv'
<1>1. /\ sweep[s] \in SweepRun /\ sweep[s].pc = "asleep" /\ sweep \in [Sweeps -> SweepRun]
      /\ task \in [Tasks -> ReminderRow] /\ said \in [Tasks -> Offset]
      /\ excused' = excused \cup {t \in Candidates : \E r \in Sweeps : Holds(r, t)}
      /\ UNCHANGED <<again, task, offsets, patch, said, hour>>
  BY DEF StartSweep, RemindersInv, ReminderTables
<1> DEFINE Read(t) == [task |-> t, deadline |-> task[t].deadline, reminded |-> task[t].reminded]
           todo == {Read(t) : t \in Candidates}
           q == [sweep[s] EXCEPT !.pc = "prefs", !.todo = todo]
<1>2. sweep' = [sweep EXCEPT ![s] = q]
  BY <1>1 DEF StartSweep
<1>3. todo \subseteq SweptTask
  BY <1>1 DEF Candidates, ReminderRow, SweptTask
<1>4. \A c \in todo : c.task \in Candidates /\ c.reminded = task[c.task].reminded
                      /\ c = Read(c.task)
  OBVIOUS
<1> HIDE DEF todo, Read
<1>5. q \in SweepRun /\ q.pc = "prefs" /\ q.todo = todo
  BY <1>1, <1>3 DEF SweepRun
<1> HIDE DEF q
<1>6. ASSUME NEW t \in Tasks \ excused'
      PROVE  Knows(q, t, said[t]) /\ \A r \in Sweeps : ~(Carries(q, t) /\ Carries(sweep[r], t))
  <2>1. OneSweepEach(t)
    BY <1>1 DEF RemindersInv
  <2>2. ASSUME t \in Candidates PROVE \A r \in Sweeps : ~Carries(sweep[r], t)
    BY <1>1, <2>2, HoldsIsCarries
  <2>3. t \in Candidates => task[t].reminded <= said[t]
    BY <2>1, <2>2 DEF OneSweepEach, Carries, Sends
  <2>4. QED
    BY <1>4, <1>5, <2>2, <2>3 DEF Knows, Carries, Sends
<1>7. EachOffsetOnce' /\ excused \subseteq excused'
  BY <1>1 DEF RemindersInv, EachOffsetOnce
<1>8. QED
  BY <1>1, <1>2, <1>5, <1>6, <1>7, SweepMoves

\* The preferences are read, or the sweep ends or breaks off: nothing new is held.
LEMMA SweepRestsStep ==
    ASSUME RemindersInv, NEW s \in Sweeps, ReadPreferences(s) \/ EndSweep(s) \/ SweepFails(s)
    PROVE  RemindersInv'
<1>1. /\ sweep[s] \in SweepRun /\ said \in [Tasks -> Offset] /\ hour \in Nat
      /\ offsets \in SUBSET OffsetChoices
      /\ UNCHANGED <<again, task, offsets, patch, said, hour>> /\ excused \subseteq excused'
      /\ sweep[s].pc = "mark" => sweep[s].task \in excused'
  BY DEF ReadPreferences, EndSweep, SweepFails, RemindersInv, ReminderTables
<1>2. EachOffsetOnce'
  BY <1>1 DEF RemindersInv, EachOffsetOnce
<1>3. CASE ReadPreferences(s)
  <2> DEFINE q == [sweep[s] EXCEPT !.pc = "next", !.offsets = offsets, !.hour = hour]
  <2>1. sweep' = [sweep EXCEPT ![s] = q] /\ sweep[s].pc = "prefs"
    BY <1>3 DEF ReadPreferences
  <2>2. q \in SweepRun /\ q.pc = "next" /\ q.todo = sweep[s].todo
    BY <1>1 DEF SweepRun
  <2> HIDE DEF q
  <2>3. ASSUME NEW t \in Tasks \ excused'
        PROVE  /\ Knows(q, t, said[t])
               /\ \A r \in Sweeps : Carries(q, t) /\ Carries(sweep[r], t) => r = s
    <3>1. OneSweepEach(t)
      BY <1>1 DEF RemindersInv
    <3>2. QED
      BY <2>1, <2>2, <3>1 DEF OneSweepEach, Knows, Carries, Sends
  <2>4. QED
    BY <1>1, <1>2, <2>1, <2>2, <2>3, SweepMoves
<1>4. CASE EndSweep(s) \/ SweepFails(s)
  <2>1. sweep' = [sweep EXCEPT ![s] = Asleep]
    BY <1>4 DEF EndSweep, SweepFails
  <2>2. QED
    BY <1>1, <1>2, <2>1, AsleepHoldsNothing, SweepMoves
<1>5. QED
  BY <1>3, <1>4

\* A task is passed over, or its offset is picked: one below all that were said.
LEMMA NextCandidateStep ==
    ASSUME RemindersInv, NEW s \in Sweeps, NextCandidate(s)
    PROVE  RemindersInv'
<1>1. /\ sweep[s] \in SweepRun /\ sweep[s].pc = "next" /\ said \in [Tasks -> Offset]
      /\ UNCHANGED <<again, task, offsets, patch, said, excused, hour>> /\ NoOffset \in Nat
  BY RemindersAssumption DEF NextCandidate, RemindersInv, ReminderTables
<1>2. PICK c \in sweep[s].todo : \E o :
        /\ o = pickReminderOffset(sweep[s].offsets,
                 IF c.deadline > sweep[s].hour THEN c.deadline - sweep[s].hour ELSE 0, c.reminded)
        /\ sweep' = IF o = NoOffset \/ ~linked
                    THEN [sweep EXCEPT ![s].todo = @ \ {c}]
                    ELSE [sweep EXCEPT ![s].todo = @ \ {c}, ![s].pc = "send",
                                       ![s].task = c.task, ![s].offset = o]
  BY DEF NextCandidate
<1>3. PICK o :
        /\ o = pickReminderOffset(sweep[s].offsets,
                 IF c.deadline > sweep[s].hour THEN c.deadline - sweep[s].hour ELSE 0, c.reminded)
        /\ sweep' = IF o = NoOffset \/ ~linked
                    THEN [sweep EXCEPT ![s].todo = @ \ {c}]
                    ELSE [sweep EXCEPT ![s].todo = @ \ {c}, ![s].pc = "send",
                                       ![s].task = c.task, ![s].offset = o]
  BY <1>2
<1>4. c \in SweptTask /\ sweep[s].offsets \in SUBSET OffsetChoices
  BY <1>1 DEF SweepRun
<1>5. o # NoOffset => o \in Offset /\ o < c.reminded
  BY <1>1, <1>3, <1>4, PickedIsBelow DEF SweptTask, Offset
<1>6. PICK q : /\ sweep' = [sweep EXCEPT ![s] = q]
               /\ \/ q = [sweep[s] EXCEPT !.todo = @ \ {c}]
                  \/ /\ q = [sweep[s] EXCEPT !.todo = @ \ {c}, !.pc = "send", !.task = c.task,
                                             !.offset = o]
                     /\ o # NoOffset
  BY <1>1, <1>3
<1>7. /\ q \in SweepRun /\ q.todo = sweep[s].todo \ {c}
      /\ \/ q.pc = "next"
         \/ q.pc = "send" /\ q.task = c.task /\ q.offset = o /\ o # NoOffset
  <2>1. CASE q = [sweep[s] EXCEPT !.todo = @ \ {c}]
    BY <1>1, <2>1 DEF SweepRun
  <2>2. CASE q = [sweep[s] EXCEPT !.todo = @ \ {c}, !.pc = "send", !.task = c.task, !.offset = o]
             /\ o # NoOffset
    <3>1. c.task \in Tasks
      BY <1>4 DEF SweptTask
    <3>2. QED
      BY <1>1, <1>5, <2>2, <3>1 DEF SweepRun
  <2>3. QED
    BY <1>6, <2>1, <2>2
<1>8. c.task \in Tasks /\ c.reminded \in Nat /\ (o # NoOffset => o \in Nat)
  BY <1>1, <1>4, <1>5 DEF SweptTask, Offset
<1>9. ASSUME NEW t \in Tasks \ excused
      PROVE  /\ Knows(q, t, said[t])
             /\ \A r \in Sweeps : Carries(q, t) /\ Carries(sweep[r], t) => r = s
  <2>1. OneSweepEach(t) /\ said[t] \in Nat
    BY <1>1 DEF RemindersInv, Offset
  <2>2. Carries(q, t) => Carries(sweep[s], t)
    BY <1>7 DEF Carries, Sends
  <2>3. Knows(sweep[s], t, said[t])
    BY <2>1 DEF OneSweepEach
  <2>4. q.pc = "send" /\ q.task = t => q.offset < said[t]
    BY <1>5, <1>7, <1>8, <2>1, <2>3 DEF Knows
  <2>5. Knows(q, t, said[t])
    BY <1>7, <2>3, <2>4 DEF Knows, Sends
  <2>6. QED
    BY <2>1, <2>2, <2>5 DEF OneSweepEach
<1>10. EachOffsetOnce'
  BY <1>1 DEF RemindersInv, EachOffsetOnce
<1>11. QED
  BY <1>1, <1>6, <1>7, <1>8, <1>9, <1>10, SweepMoves

\* An offset is said, or not: it is below the last one said for the deadline.
LEMMA SendStep ==
    ASSUME RemindersInv, NEW s \in Sweeps, Send(s)
    PROVE  RemindersInv'
<1>1. /\ sweep[s] \in SweepRun /\ sweep[s].pc = "send" /\ sweep[s].task \in Tasks
      /\ said \in [Tasks -> Offset] /\ sweep[s].offset \in Offset
      /\ UNCHANGED <<task, offsets, patch, excused, hour>>
      /\ sweep' = [sweep EXCEPT ![s].pc = "mark"]
  BY DEF Send, RemindersInv, ReminderTables, SweepRun
<1> DEFINE q == [sweep[s] EXCEPT !.pc = "mark"]
           told == sweep[s].task
<1>2. sweep' = [sweep EXCEPT ![s] = q]
  BY <1>1
<1>3. /\ q \in SweepRun /\ q.pc = "mark" /\ q.task = told /\ q.todo = sweep[s].todo
      /\ q.offset = sweep[s].offset
  BY <1>1 DEF SweepRun
<1> HIDE DEF q
<1>4. \/ said' = [said EXCEPT ![told] = q.offset]
         /\ again' = IF q.offset >= said[told] THEN again \cup {told} ELSE again
      \/ UNCHANGED <<said, again>>
  BY <1>3 DEF Send, Says
<1>5. said' \in [Tasks -> Offset] /\ \A t \in Tasks : t # told => said'[t] = said[t]
  BY <1>1, <1>3, <1>4
<1>6. told \notin excused => q.offset < said[told] /\ q.offset <= said'[told]
  <2>1. told \notin excused => Knows(sweep[s], told, said[told])
    BY <1>1 DEF RemindersInv, OneSweepEach
  <2>2. told \notin excused => q.offset < said[told]
    BY <1>1, <1>3, <2>1 DEF Knows
  <2>3. q.offset \in Nat /\ said[told] \in Nat
    BY <1>1, <1>3 DEF Offset
  <2>4. QED
    BY <1>1, <1>4, <2>2, <2>3
<1>7. EachOffsetOnce'
  <2>1. q.offset \in Nat /\ said[told] \in Nat
    BY <1>1, <1>3 DEF Offset
  <2>2. told \in excused \/ again' = again
    BY <1>4, <1>6, <2>1
  <2>3. again' \subseteq again \cup {told}
    BY <1>4
  <2>4. QED
    BY <1>1, <2>2, <2>3 DEF RemindersInv, EachOffsetOnce
<1>8. ASSUME NEW t \in Tasks \ excused
      PROVE  /\ Knows(q, t, said'[t])
             /\ \A r \in Sweeps : Carries(q, t) /\ Carries(sweep[r], t) => r = s
             /\ said'[t] = said[t] \/ (q.pc = "mark" /\ q.task = t /\ Carries(sweep[s], t))
  <2>1. OneSweepEach(t) /\ Knows(sweep[s], t, said[t])
    BY DEF RemindersInv, OneSweepEach
  <2>2. Carries(q, t) => Carries(sweep[s], t)
    BY <1>1, <1>3 DEF Carries, Sends
  <2>3. CASE t = told
    BY <1>1, <1>3, <1>6, <2>1, <2>2, <2>3 DEF Knows, Carries, Sends, OneSweepEach
  <2>4. CASE t # told
    BY <1>1, <1>3, <1>5, <2>1, <2>2, <2>4 DEF Knows, Sends, OneSweepEach
  <2>5. QED
    BY <2>3, <2>4
<1>9. QED
  BY <1>1, <1>2, <1>3, <1>5, <1>7, <1>8, SweepMoves

\* The task is marked with the offset said, or one below.
LEMMA MarkRemindedStep ==
    ASSUME RemindersInv, NEW s \in Sweeps, markReminded(s)
    PROVE  RemindersInv'
<1>1. /\ sweep[s] \in SweepRun /\ sweep[s].pc = "mark" /\ sweep[s].task \in Tasks
      /\ task \in [Tasks -> ReminderRow] /\ sweep \in [Sweeps -> SweepRun]
      /\ sweep[s].offset \in Offset
      /\ task' = [task EXCEPT ![sweep[s].task].reminded = sweep[s].offset]
      /\ UNCHANGED <<offsets, patch, said, again, excused, hour>>
  BY DEF markReminded, RemindersInv, ReminderTables, SweepRun
<1> DEFINE q == [sweep[s] EXCEPT !.pc = "next", !.task = SomeTask, !.offset = 0]
           told == sweep[s].task
<1>2. sweep' = [sweep EXCEPT ![s] = q]
  BY <1>1 DEF markReminded
<1>3. q \in SweepRun /\ q.pc = "next" /\ q.todo = sweep[s].todo
  <2>1. 0 \in Offset
    BY RemindersAssumption DEF Offset
  <2>2. QED
    BY <1>1, <2>1 DEF SweepRun
<1> HIDE DEF q
<1>4. \A r \in Sweeps : sweep'[r] = IF r = s THEN q ELSE sweep[r]
  BY <1>1, <1>2
<1>5. task' \in [Tasks -> ReminderRow] /\ task'[told].reminded = sweep[s].offset
  <2>1. task[told] \in ReminderRow /\ task'[told] = [task[told] EXCEPT !.reminded = sweep[s].offset]
        /\ \A t \in Tasks : t # told => task'[t] = task[t]
    BY <1>1
  <2>2. [task[told] EXCEPT !.reminded = sweep[s].offset] \in ReminderRow
    BY <1>1, <2>1 DEF ReminderRow
  <2>3. QED
    BY <1>1, <2>1, <2>2 DEF ReminderRow
<1>6. \A t \in Tasks : t # told => task'[t] = task[t]
  BY <1>1
<1>7. ReminderTables'
  BY <1>1, <1>2, <1>3, <1>4, <1>5 DEF RemindersInv, ReminderTables
<1>8. ASSUME NEW t \in Tasks \ excused PROVE OneSweepEach(t)'
  <2>1. OneSweepEach(t) /\ Knows(sweep[s], t, said[t])
    BY DEF RemindersInv, OneSweepEach
  <2>2. \A r \in Sweeps : Carries(sweep'[r], t) => Carries(sweep[r], t)
    BY <1>3, <1>4 DEF Carries, Sends
  <2>3. \A r, w \in Sweeps : Carries(sweep'[r], t) /\ Carries(sweep'[w], t) => r = w
    BY <2>1, <2>2 DEF OneSweepEach
  <2>4. \A r \in Sweeps : Knows(sweep'[r], t, said[t])
    BY <1>1, <1>3, <1>4, <2>1 DEF OneSweepEach, Knows, Sends
  <2>5. \/ task'[t].reminded <= said[t]
        \/ \E r \in Sweeps : sweep'[r].pc = "mark" /\ sweep'[r].task = t
    <3>1. CASE t = told
      BY <1>1, <1>5, <2>1, <3>1 DEF Knows
    <3>2. CASE t # told
      BY <1>1, <1>4, <1>6, <2>1, <3>2 DEF OneSweepEach
    <3>3. QED
      BY <3>1, <3>2
  <2>6. QED
    BY <1>1, <2>3, <2>4, <2>5 DEF OneSweepEach, Carries, Knows, Sends
<1>9. QED
  BY <1>1, <1>7, <1>8 DEF RemindersInv, EachOffsetOnce

\* A user, or time, leaves the sweeps alone.  What was said of a task is kept with its mark, or
\* is forgotten when no sweep holds the task.
LEMMA BesideSweeps ==
    ASSUME RemindersInv, UNCHANGED <<sweep, again>>, excused \subseteq excused',
           task' \in [Tasks -> ReminderRow], said' \in [Tasks -> Offset],
           offsets' \in SUBSET OffsetChoices, hour' \in Nat,
           patch' \in PatchRun, patch'.pc # "none" => patch'.task \in Tasks,
           \A t \in Tasks \ excused' :
             \/ task'[t].reminded = task[t].reminded /\ said'[t] = said[t]
             \/ /\ said'[t] = NoOffset
                /\ said[t] = NoOffset \/ \A s \in Sweeps : ~Carries(sweep[s], t)
    PROVE  RemindersInv'
<1>1. ReminderTables'
  BY DEF RemindersInv, ReminderTables
<1>2. ASSUME NEW t \in Tasks \ excused' PROVE OneSweepEach(t)'
  <2>1. OneSweepEach(t)
    BY DEF RemindersInv
  <2>2. task'[t].reminded \in 0 .. NoOffset /\ said'[t] \in 0 .. NoOffset
    BY DEF ReminderRow, Offset
  <2>3. CASE task'[t].reminded = task[t].reminded /\ said'[t] = said[t]
    BY <2>1, <2>3 DEF OneSweepEach, Carries, Knows, Sends
  <2>4. CASE said'[t] = NoOffset /\ said[t] = NoOffset
    <3>1. task'[t].reminded <= said'[t]
      BY <2>2, <2>4, RemindersAssumption
    <3>2. QED
      BY <2>1, <2>4, <3>1 DEF OneSweepEach, Carries, Knows, Sends
  <2>5. CASE said'[t] = NoOffset /\ \A s \in Sweeps : ~Carries(sweep[s], t)
    <3>1. task'[t].reminded <= said'[t]
      BY <2>2, <2>5, RemindersAssumption
    <3>2. QED
      BY <2>1, <2>5, <3>1 DEF OneSweepEach, Carries, Knows, Sends
  <2>6. QED
    BY <2>3, <2>4, <2>5
<1>3. QED
  BY <1>1, <1>2 DEF RemindersInv, EachOffsetOnce

\* POST /cards/:id/snooze forgets what was marked and said, and excuses a task that is held.
LEMMA SnoozeStep ==
    ASSUME RemindersInv, NEW t \in Tasks, NEW d \in Deadlines, snooze(t, d)
    PROVE  RemindersInv'
<1>1. /\ task \in [Tasks -> ReminderRow] /\ said \in [Tasks -> Offset]
      /\ task' = [task EXCEPT ![t].deadline = d, ![t].reminded = NoOffset]
      /\ said' = [said EXCEPT ![t] = NoOffset]
      /\ excused' = IF \E s \in Sweeps : Holds(s, t) THEN excused \cup {t} ELSE excused
      /\ UNCHANGED <<again, offsets, sweep, patch, hour>>
  BY DEF snooze, RemindersInv, ReminderTables
<1>2. NoOffset \in Offset /\ d \in Nat
  BY RemindersAssumption DEF Offset, Deadlines
<1>3. task[t] \in ReminderRow
      /\ [task[t] EXCEPT !.deadline = d, !.reminded = NoOffset] \in ReminderRow
  BY <1>1, <1>2 DEF ReminderRow
<1>4. task' \in [Tasks -> ReminderRow] /\ \A u \in Tasks : u # t => task'[u] = task[u]
  BY <1>1, <1>3
<1>5. said' \in [Tasks -> Offset]
  BY <1>1, <1>2
<1>6. t \notin excused' => \A s \in Sweeps : ~Carries(sweep[s], t)
  BY <1>1, HoldsIsCarries
<1>7. excused \subseteq excused'
  BY <1>1
<1>8. QED
  BY <1>1, <1>4, <1>5, <1>6, <1>7, BesideSweeps DEF RemindersInv, ReminderTables

\* PATCH /tasks/:id reads the task, moves the deadline, and may clear the mark after that.
LEMMA PatchStep ==
    ASSUME RemindersInv,
           \/ \E t \in Tasks, d \in Deadlines : PatchReads(t, d)
           \/ PatchUpdates \/ clearDeadlineNotified
    PROVE  RemindersInv'
<1>1. /\ task \in [Tasks -> ReminderRow] /\ said \in [Tasks -> Offset]
      /\ offsets \in SUBSET OffsetChoices /\ hour \in Nat
      /\ patch \in PatchRun /\ (patch.pc # "none" => patch.task \in Tasks)
      /\ NoOffset \in Offset
  BY RemindersAssumption DEF RemindersInv, ReminderTables, Offset
<1>2. NoPatch \in PatchRun /\ NoPatch.pc = "none"
  BY DEF NoPatch, PatchRun
<1>3. CASE \E t \in Tasks, d \in Deadlines : PatchReads(t, d)
  <2>1. PICK t \in Tasks, d \in Deadlines : PatchReads(t, d)
    BY <1>3
  <2>2. task[t].deadline \in Nat /\ d \in Nat
    BY <1>1 DEF ReminderRow, Deadlines
  <2>3. (task[t].reminded # NoOffset) \in BOOLEAN
    OBVIOUS
  <2>4. patch' \in PatchRun /\ patch'.task \in Tasks
    BY <2>1, <2>2, <2>3 DEF PatchReads, PatchRun
  <2>5. UNCHANGED <<again, task, offsets, sweep, said, excused, hour>>
    BY <2>1 DEF PatchReads
  <2>6. QED
    BY <1>1, <2>4, <2>5, BesideSweeps
<1>4. CASE PatchUpdates
  <2> DEFINE t == patch.task
  <2>1. /\ patch.pc = "update" /\ t \in Tasks /\ patch.new \in Nat
        /\ task' = [task EXCEPT ![t].deadline = patch.new]
        /\ said' \in {said, [said EXCEPT ![t] = NoOffset]}
        /\ excused' = IF \E s \in Sweeps : Holds(s, t) THEN excused \cup {t} ELSE excused
        /\ UNCHANGED <<again, offsets, sweep, hour>>
    BY <1>1, <1>4 DEF PatchUpdates, PatchRun
  <2>2. patch' = [patch EXCEPT !.pc = "clear"] \/ patch' = NoPatch
    BY <1>4 DEF PatchUpdates
  <2>3. [patch EXCEPT !.pc = "clear"] \in PatchRun
        /\ [patch EXCEPT !.pc = "clear"].task = t
    BY <1>1 DEF PatchRun
  <2>4. task[t] \in ReminderRow /\ [task[t] EXCEPT !.deadline = patch.new] \in ReminderRow
        /\ [task[t] EXCEPT !.deadline = patch.new].reminded = task[t].reminded
    BY <1>1, <2>1 DEF ReminderRow
  <2>5. task' \in [Tasks -> ReminderRow]
        /\ \A u \in Tasks : task'[u].reminded = task[u].reminded
    BY <1>1, <2>1, <2>4
  <2>6. said' \in [Tasks -> Offset] /\ \A u \in Tasks : u # t => said'[u] = said[u]
    BY <1>1, <2>1
  <2>7. said'[t] = said[t] \/ said'[t] = NoOffset
    BY <1>1, <2>1
  <2>8. t \notin excused' => \A s \in Sweeps : ~Carries(sweep[s], t)
    BY <2>1, HoldsIsCarries
  <2>9. excused \subseteq excused'
    BY <2>1
  <2> HIDE DEF t
  <2>10. patch' \in PatchRun /\ (patch'.pc # "none" => patch'.task \in Tasks)
    BY <1>2, <2>1, <2>2, <2>3
  <2>11. QED
    BY <1>1, <2>1, <2>5, <2>6, <2>7, <2>8, <2>9, <2>10, BesideSweeps
<1>5. CASE clearDeadlineNotified
  <2> DEFINE t == patch.task
  <2>1. /\ t \in Tasks /\ patch' = NoPatch
        /\ task' = [task EXCEPT ![t].reminded = NoOffset]
        /\ excused' = IF said[t] # NoOffset THEN excused \cup {t} ELSE excused
        /\ UNCHANGED <<again, offsets, sweep, said, hour>>
    BY <1>1, <1>5 DEF clearDeadlineNotified
  <2>2. task[t] \in ReminderRow /\ [task[t] EXCEPT !.reminded = NoOffset] \in ReminderRow
    BY <1>1, <2>1 DEF ReminderRow
  <2>3. task' \in [Tasks -> ReminderRow] /\ \A u \in Tasks : u # t => task'[u] = task[u]
    BY <1>1, <2>1, <2>2
  <2>4. t \notin excused' => said[t] = NoOffset
    BY <2>1
  <2>5. excused \subseteq excused'
    BY <2>1
  <2> HIDE DEF t
  <2>6. QED
    BY <1>1, <1>2, <2>1, <2>3, <2>4, <2>5, BesideSweeps
<1>6. QED
  BY <1>3, <1>4, <1>5

\* Preferences, links, completions and time change nothing of what was said.
LEMMA RemindersBesideStep ==
    ASSUME RemindersInv,
           \/ \E chosen \in SUBSET OffsetChoices : PutPreferences(chosen)
           \/ ToggleLink \/ \E t \in Tasks : ToggleOpen(t)
           \/ HourPasses \/ UNCHANGED remindersVars
    PROVE  RemindersInv'
<1>1. /\ task \in [Tasks -> ReminderRow] /\ said \in [Tasks -> Offset]
      /\ offsets \in SUBSET OffsetChoices /\ hour \in Nat
      /\ patch \in PatchRun /\ (patch.pc # "none" => patch.task \in Tasks)
  BY DEF RemindersInv, ReminderTables
<1>2. UNCHANGED <<sweep, again, said, patch, excused>>
  BY DEF PutPreferences, ToggleLink, ToggleOpen, HourPasses, remindersVars
<1>3. CASE \E t \in Tasks : ToggleOpen(t)
  <2>1. PICK t \in Tasks : ToggleOpen(t)
    BY <1>3
  <2>2. PICK open \in BOOLEAN : open = ~task[t].open
    <3>1. (~task[t].open) \in BOOLEAN
      BY Zenon
    <3>2. QED
      BY <3>1, Zenon
  <2>3. task' = [task EXCEPT ![t].open = ~@] /\ UNCHANGED <<offsets, hour>>
    BY <2>1 DEF ToggleOpen
  <2>4. task' = [task EXCEPT ![t] = [task[t] EXCEPT !.open = open]]
    BY <1>1, <2>2, <2>3, Zenon
  <2>5. task[t] \in ReminderRow /\ [task[t] EXCEPT !.open = open] \in ReminderRow
        /\ [task[t] EXCEPT !.open = open].reminded = task[t].reminded
    BY <1>1 DEF ReminderRow
  <2>6. task' \in [Tasks -> ReminderRow]
        /\ \A u \in Tasks : task'[u].reminded = task[u].reminded
    BY <1>1, <2>4, <2>5
  <2>7. QED
    BY <1>1, <1>2, <2>3, <2>6, BesideSweeps
<1>4. CASE ~\E t \in Tasks : ToggleOpen(t)
  <2>1. task' = task /\ offsets' \in SUBSET OffsetChoices /\ hour' \in Nat
    BY <1>1, <1>4 DEF PutPreferences, ToggleLink, HourPasses, remindersVars
  <2>2. QED
    BY <1>1, <1>2, <2>1, BesideSweeps
<1>5. QED
  BY <1>3, <1>4

\* The process restarts: what was about to be marked is excused.
LEMMA RemindersRestartStep == RemindersInv /\ RemindersRestart => RemindersInv'
<1> SUFFICES ASSUME RemindersInv, RemindersRestart PROVE RemindersInv'
  OBVIOUS
<1>1. /\ sweep' = [s \in Sweeps |-> Asleep] /\ patch' = NoPatch
      /\ excused' = excused \cup {sweep[s].task : s \in {r \in Sweeps : sweep[r].pc = "mark"}}
      /\ UNCHANGED <<again, task, offsets, said, hour>>
  BY DEF RemindersRestart
<1>2. NoPatch \in PatchRun /\ NoPatch.pc = "none"
  BY DEF NoPatch, PatchRun
<1>3. \A s \in Sweeps : sweep'[s] = Asleep
  BY <1>1
<1>4. ReminderTables'
  BY <1>1, <1>2, <1>3, AsleepHoldsNothing DEF RemindersInv, ReminderTables
<1>5. ASSUME NEW t \in Tasks \ excused' PROVE OneSweepEach(t)'
  <2>1. OneSweepEach(t) /\ ~\E s \in Sweeps : sweep[s].pc = "mark" /\ sweep[s].task = t
    BY <1>1 DEF RemindersInv
  <2>2. task[t].reminded <= said[t]
    BY <2>1 DEF OneSweepEach
  <2>3. \A s \in Sweeps : ~Carries(sweep'[s], t) /\ Knows(sweep'[s], t, said[t])
    BY <1>3, AsleepHoldsNothing
  <2>4. QED
    BY <1>1, <2>2, <2>3 DEF OneSweepEach, Carries, Knows, Sends
<1>6. QED
  BY <1>1, <1>4, <1>5 DEF RemindersInv, EachOffsetOnce

\* Every step keeps the invariant of the reminders.
LEMMA RemindersStep == RemindersInv /\ [RemindersNext]_remindersVars => RemindersInv'
<1> SUFFICES ASSUME RemindersInv, [RemindersNext]_remindersVars PROVE RemindersInv'
  OBVIOUS
<1>1. CASE \E s \in Sweeps : Sweep(s) \/ SweepFails(s)
  BY <1>1, StartSweepStep, SweepRestsStep, NextCandidateStep, SendStep, MarkRemindedStep DEF Sweep
<1>2. CASE \/ \E t \in Tasks, d \in Deadlines : snooze(t, d) \/ PatchReads(t, d)
           \/ PatchUpdates \/ clearDeadlineNotified
  BY <1>2, SnoozeStep, PatchStep
<1>3. CASE \/ \E chosen \in SUBSET OffsetChoices : PutPreferences(chosen)
           \/ ToggleLink \/ \E t \in Tasks : ToggleOpen(t)
           \/ HourPasses \/ UNCHANGED remindersVars
  BY <1>3, RemindersBesideStep
<1>4. QED
  BY <1>1, <1>2, <1>3, RemindersRestartStep DEF RemindersNext

\* Nothing was said or marked at the start.
LEMMA RemindersStart == RemindersInit => RemindersInv
<1> SUFFICES ASSUME RemindersInit PROVE RemindersInv
  OBVIOUS
<1>1. /\ task \in [Tasks -> {[deadline |-> d, open |-> TRUE, reminded |-> NoOffset] :
                               d \in 1 .. MaxHours}]
      /\ offsets = OffsetChoices /\ sweep = [s \in Sweeps |-> Asleep] /\ patch = NoPatch
      /\ said = [t \in Tasks |-> NoOffset] /\ again = {} /\ excused = {} /\ hour = 0
  BY DEF RemindersInit
<1>2. NoOffset \in Offset /\ NoOffset \in Nat
  BY RemindersAssumption DEF Offset
<1>3. NoPatch \in PatchRun /\ NoPatch.pc = "none"
  BY DEF NoPatch, PatchRun
<1>4. ASSUME NEW t \in Tasks PROVE task[t] \in ReminderRow /\ task[t].reminded = NoOffset
  <2>1. PICK d \in 1 .. MaxHours :
          task[t] = [deadline |-> d, open |-> TRUE, reminded |-> NoOffset]
    BY <1>1
  <2>2. d \in Nat
    BY RemindersAssumption
  <2>3. QED
    BY <1>2, <2>1, <2>2 DEF ReminderRow
<1>5. \A s \in Sweeps : sweep[s] = Asleep
  BY <1>1
<1>6. ReminderTables
  BY <1>1, <1>2, <1>3, <1>4, <1>5, AsleepHoldsNothing DEF ReminderTables
<1>7. ASSUME NEW t \in Tasks PROVE OneSweepEach(t)
  <2>1. said[t] = NoOffset /\ task[t].reminded <= said[t]
    BY <1>1, <1>2, <1>4
  <2>2. QED
    BY <1>5, <2>1, AsleepHoldsNothing DEF OneSweepEach
<1>8. QED
  BY <1>1, <1>6, <1>7 DEF RemindersInv, EachOffsetOnce

\* No task is reminded of an offset twice, or of a larger after a smaller, for one deadline,
\* whatever offsets are chosen, unless sweeps met on it, one broke off between sending and
\* marking, or the deadline moved under a sweep.
THEOREM OffsetSaidOnce == RemindersSpec => []EachOffsetOnce
<1>1. RemindersInv => EachOffsetOnce
  BY DEF RemindersInv
<1>2. QED
  BY RemindersStart, RemindersStep, <1>1, PTL DEF RemindersSpec

-----------------------------------------------------------------------------
(* Tasks from mail. *)

MailGrant == [id : Nat, token : Nat]

\* The messages of a poll are left untyped.
IsPoll(q) ==
  /\ q \in [pc : {"idle", "next", "list", "prompt", "messages", "find", "create"},
            todo : SUBSET [account : MailAccounts, row : MailGrant],
            account : SUBSET MailAccounts, id : Nat, token : Nat,
            messages : {q.messages}, mail : {q.mail}]
  /\ q.pc = "idle" => q = NotPolling
  /\ (\A a, b \in q.account : a = b) /\ \A m, n \in q.mail : m = n

MailTables ==
  /\ mailRow \in [MailAccounts -> MailGrant]
  /\ granted \in [MailAccounts -> Nat] /\ revoked \in [MailAccounts -> Nat]
  /\ live \in [Mails -> Nat] /\ trash \in [Mails -> Nat] /\ prompts \in [MailAccounts -> Nat]
  /\ poll = [p \in Polls |-> poll[p]] /\ \A p \in Polls : IsPoll(poll[p])

\* The poll has found no task for the message, and makes one.
Making(q, m) == q.pc = "create" /\ m \in q.mail

\* OneTaskPerMail alone does not say that a message without a task is made one by one poll.
OneMaker(m) ==
  /\ live[m] <= 1
  /\ \A p \in Polls : Making(poll[p], m) => live[m] = 0
  /\ \A p, r \in Polls : Making(poll[p], m) /\ Making(poll[r], m) => p = r

\* The grant that was read is the one stored, once that row has been prompted for.
Current(id, token, row, n) == id # 0 /\ (n >= 1 /\ id = row.id => token = row.token)

\* A poll that has the account before it, or under way; grants up to rev are revoked.
Asks(q, a, row, rev, n, notified) ==
  /\ \A c \in q.todo : c.account = a => Current(c.row.id, c.row.token, row, n)
  /\ \A c, d \in q.todo : c.account = a /\ d.account = a => c = d
  /\ a \in q.account /\ q.pc \notin {"idle", "next"} =>
       /\ \A c \in q.todo : c.account # a
       /\ Current(q.id, q.token, row, n)
       /\ q.pc = "prompt" => <<a, q.id>> \in notified /\ (q.id = row.id => n = 0)
       /\ q.pc \in {"messages", "find", "create"} /\ n >= 1 /\ q.id = row.id => q.token > rev

\* OnePromptPerBreak alone does not say that an account prompted for is flagged until it works.
OneAsker(a) ==
  /\ \A p, r \in Polls : poll[p].pc # "idle" /\ poll[r].pc # "idle" => p = r
  /\ \A p \in Polls : Asks(poll[p], a, mailRow[a], revoked[a], prompts[a], reconnectNotified)
  /\ prompts[a] <= 1
  /\ prompts[a] >= 1 /\ mailRow[a].id # 0 =>
       <<a, mailRow[a].id>> \in reconnectNotified \/ Works(a, mailRow[a].token)

MailInv == /\ MailTables
           /\ \A m \in Mails \ crossed : OneMaker(m)
           /\ \A a \in MailAccounts \ crossed : OneAsker(a)

\* A poll at rest has nothing before it.
LEMMA IdlePollAsksNothing ==
  /\ IsPoll(NotPolling) /\ NotPolling.pc = "idle"
  /\ \A a, row, rev, n, notified : Asks(NotPolling, a, row, rev, n, notified)
  /\ \A m : ~Making(NotPolling, m)
<1>1. IsPoll(NotPolling)
  BY DEF NotPolling, IsPoll
<1>2. QED
  BY <1>1 DEF NotPolling, Asks, Making

\* For an account that no two polls held, the other polls are at rest.
LEMMA OthersRest ==
    ASSUME MailInv, NEW p \in Polls, poll[p].pc # "idle", NEW a \in MailAccounts \ crossed
    PROVE  \A r \in Polls \ {p} : poll[r] = NotPolling
BY DEF MailInv, MailTables, OneAsker, IsPoll

\* One poll moves on to q; it may make a task, flag an account or prompt for it.
LEMMA PollMoves ==
    ASSUME MailInv, NEW p \in Polls, NEW q, IsPoll(q), poll' = [poll EXCEPT ![p] = q],
           UNCHANGED <<mailRow, granted, revoked, trash>>, crossed \subseteq crossed',
           live' \in [Mails -> Nat], prompts' \in [MailAccounts -> Nat],
           \A m \in Mails \ crossed' :
             /\ Making(q, m) => live'[m] = 0 /\ \A r \in Polls : Making(poll[r], m) => r = p
             /\ \/ live'[m] = live[m]
                \/ live'[m] = 1 /\ Making(poll[p], m) /\ ~Making(q, m),
           \A a \in MailAccounts \ crossed' :
             /\ \A r \in Polls \ {p} : poll[r] = NotPolling
             /\ Asks(q, a, mailRow[a], revoked[a], prompts'[a], reconnectNotified')
             /\ prompts'[a] <= 1
             /\ prompts'[a] >= 1 /\ mailRow[a].id # 0 =>
                  <<a, mailRow[a].id>> \in reconnectNotified' \/ Works(a, mailRow[a].token)
    PROVE  MailInv'
<1>1. poll = [r \in Polls |-> poll[r]] /\ \A r \in Polls : IsPoll(poll[r])
  BY DEF MailInv, MailTables
<1>2. \A r \in Polls : poll'[r] = IF r = p THEN q ELSE poll[r]
  BY <1>1
<1>3. poll' = [r \in Polls |-> poll'[r]]
  BY <1>1
<1>4. MailTables'
  BY <1>1, <1>2, <1>3 DEF MailInv, MailTables, IsPoll
<1>5. ASSUME NEW m \in Mails \ crossed' PROVE OneMaker(m)'
  <2>1. OneMaker(m)
    BY DEF MailInv
  <2>2. live'[m] <= 1
    BY <2>1 DEF OneMaker
  <2>3. \A r \in Polls : Making(poll'[r], m) => live'[m] = 0
    BY <1>2, <2>1 DEF OneMaker
  <2>4. \A r, w \in Polls : Making(poll'[r], m) /\ Making(poll'[w], m) => r = w
    BY <1>2, <2>1 DEF OneMaker
  <2>5. QED
    BY <2>2, <2>3, <2>4 DEF OneMaker, Making
<1>6. ASSUME NEW a \in MailAccounts \ crossed' PROVE OneAsker(a)'
  <2>1. \A r \in Polls : r # p => poll'[r] = NotPolling
    BY <1>2
  <2>2. \A r, w \in Polls : poll'[r].pc # "idle" /\ poll'[w].pc # "idle" => r = w
    BY <2>1, IdlePollAsksNothing
  <2>3. ASSUME NEW r \in Polls
        PROVE  Asks(poll'[r], a, mailRow[a], revoked[a], prompts'[a], reconnectNotified')
    <3>1. CASE r = p
      <4>1. poll'[r] = q
        BY <1>2, <3>1
      <4>2. QED
        BY <4>1
    <3>2. CASE r # p
      <4>1. poll'[r] = NotPolling
        BY <2>1, <3>2
      <4>2. QED
        BY <4>1, IdlePollAsksNothing
    <3>3. QED
      BY <3>1, <3>2
  <2>4. QED
    BY <2>2, <2>3 DEF OneAsker, Works
<1>7. QED
  BY <1>4, <1>5, <1>6 DEF MailInv

\* What the tables hold, for the steps of one poll.
LEMMA MailTypes ==
    ASSUME MailInv, NEW p \in Polls
    PROVE  /\ IsPoll(poll[p]) /\ poll = [r \in Polls |-> poll[r]]
           /\ mailRow \in [MailAccounts -> MailGrant]
           /\ granted \in [MailAccounts -> Nat] /\ revoked \in [MailAccounts -> Nat]
           /\ live \in [Mails -> Nat] /\ trash \in [Mails -> Nat]
           /\ prompts \in [MailAccounts -> Nat]
           /\ \A a \in MailAccounts \ crossed : /\ OneAsker(a) /\ prompts[a] <= 1
                /\ Asks(poll[p], a, mailRow[a], revoked[a], prompts[a], reconnectNotified)
           /\ \A m \in Mails \ crossed : OneMaker(m)
BY DEF MailInv, MailTables, OneAsker

\* A poll moves on and only forgets: no task, no flag and no prompt is made.
LEMMA QuietPollStep ==
    ASSUME MailInv, NEW p \in Polls, NEW q, IsPoll(q), poll' = [poll EXCEPT ![p] = q],
           poll[p].pc # "idle",
           UNCHANGED <<mailRow, granted, revoked, trash, live, prompts, reconnectNotified, crossed>>,
           \A m \in Mails \ crossed : Making(q, m) => Making(poll[p], m),
           \A a \in MailAccounts \ crossed :
             Asks(poll[p], a, mailRow[a], revoked[a], prompts[a], reconnectNotified)
               => Asks(q, a, mailRow[a], revoked[a], prompts[a], reconnectNotified)
    PROVE  MailInv'
<1>1. live \in [Mails -> Nat] /\ prompts \in [MailAccounts -> Nat]
  BY DEF MailInv, MailTables
<1>2. ASSUME NEW m \in Mails \ crossed
      PROVE  Making(q, m) => live[m] = 0 /\ \A r \in Polls : Making(poll[r], m) => r = p
  BY MailTypes DEF OneMaker
<1>3. ASSUME NEW a \in MailAccounts \ crossed
      PROVE  /\ \A r \in Polls \ {p} : poll[r] = NotPolling
             /\ Asks(q, a, mailRow[a], revoked[a], prompts[a], reconnectNotified)
             /\ prompts[a] <= 1
             /\ prompts[a] >= 1 /\ mailRow[a].id # 0 =>
                  <<a, mailRow[a].id>> \in reconnectNotified \/ Works(a, mailRow[a].token)
  <2>1. OneAsker(a) /\ Asks(q, a, mailRow[a], revoked[a], prompts[a], reconnectNotified)
    BY MailTypes
  <2>2. QED
    BY <2>1, OthersRest DEF OneAsker
<1>4. QED
  BY <1>1, <1>2, <1>3, PollMoves

\* A poll that starts beside another takes every account off the promise.
LEMMA StartPollStep ==
    ASSUME MailInv, NEW p \in Polls, StartPoll(p)
    PROVE  MailInv'
<1> DEFINE Read(a) == [account |-> a, row |-> mailRow[a]]
           todo == {Read(a) : a \in Connected}
           q == [poll[p] EXCEPT !.pc = "next", !.todo = todo]
<1>1. /\ poll[p].pc = "idle" /\ poll' = [poll EXCEPT ![p] = q]
      /\ crossed' = IF \E r \in Polls \ {p} : poll[r].pc # "idle"
                    THEN crossed \cup MailAccounts ELSE crossed
      /\ UNCHANGED <<mailRow, granted, revoked, live, reconnectNotified, prompts, trash>>
  BY MailTypes DEF StartPoll
<1>2. todo \subseteq [account : MailAccounts, row : MailGrant]
  BY MailTypes DEF Connected
<1>3. \A c \in todo : c = Read(c.account) /\ c.row = mailRow[c.account] /\ c.row.id # 0
  BY DEF Connected
<1> HIDE DEF todo, Read
<1>4. IsPoll(q) /\ q.pc = "next" /\ q.todo = todo
  <2>1. IsPoll(poll[p])
    BY MailTypes
  <2>2. QED
    BY <1>2, <2>1 DEF IsPoll
<1> HIDE DEF q
<1>5. live \in [Mails -> Nat] /\ prompts \in [MailAccounts -> Nat] /\ crossed \subseteq crossed'
  BY <1>1, MailTypes
<1>6. \A m : ~Making(q, m)
  BY <1>4 DEF Making
<1>7. ASSUME NEW a \in MailAccounts \ crossed'
      PROVE  /\ \A r \in Polls \ {p} : poll[r] = NotPolling
             /\ Asks(q, a, mailRow[a], revoked[a], prompts[a], reconnectNotified)
  <2>1. \A r \in Polls \ {p} : poll[r].pc = "idle"
    BY <1>1
  <2>2. \A r \in Polls : IsPoll(poll[r])
    BY MailTypes
  <2>3. Asks(q, a, mailRow[a], revoked[a], prompts[a], reconnectNotified)
    BY <1>3, <1>4 DEF Asks, Current
  <2>4. QED
    BY <2>1, <2>2, <2>3 DEF IsPoll
<1>8. ASSUME NEW a \in MailAccounts \ crossed'
      PROVE  /\ prompts[a] <= 1
             /\ prompts[a] >= 1 /\ mailRow[a].id # 0 =>
                  <<a, mailRow[a].id>> \in reconnectNotified \/ Works(a, mailRow[a].token)
  BY <1>5, MailTypes DEF OneAsker
<1>9. QED
  BY <1>1, <1>4, <1>5, <1>6, <1>7, <1>8, PollMoves

\* The next account is taken up, or the poll ends.
LEMMA NextAccountStep ==
    ASSUME MailInv, NEW p \in Polls, NextAccount(p)
    PROVE  MailInv'
<1>1. /\ IsPoll(poll[p]) /\ poll[p].pc = "next"
      /\ UNCHANGED <<mailRow, granted, revoked, live, reconnectNotified, prompts, crossed, trash>>
  BY MailTypes DEF NextAccount
<1>2. CASE poll' = [poll EXCEPT ![p] = NotPolling]
  BY <1>1, <1>2, IdlePollAsksNothing, QuietPollStep
<1>3. CASE poll' # [poll EXCEPT ![p] = NotPolling]
  <2>1. PICK c \in poll[p].todo :
          poll' = [poll EXCEPT ![p].pc = "list", ![p].todo = @ \ {c}, ![p].account = {c.account},
                               ![p].id = c.row.id, ![p].token = c.row.token]
    BY <1>3 DEF NextAccount
  <2> DEFINE q == [poll[p] EXCEPT !.pc = "list", !.todo = @ \ {c}, !.account = {c.account},
                                  !.id = c.row.id, !.token = c.row.token]
  <2>2. poll' = [poll EXCEPT ![p] = q]
    BY <2>1, MailTypes
  <2>3. c.account \in MailAccounts /\ c.row.id \in Nat /\ c.row.token \in Nat
    BY <1>1 DEF IsPoll, MailGrant
  <2>4. /\ q.pc = "list" /\ q.todo = poll[p].todo \ {c} /\ q.account = {c.account}
        /\ q.id = c.row.id /\ q.token = c.row.token /\ IsPoll(q)
    BY <1>1, <2>3 DEF IsPoll
  <2> HIDE DEF q
  <2>5. ASSUME NEW a, NEW row, NEW rev, NEW n, NEW notified,
               Asks(poll[p], a, row, rev, n, notified)
        PROVE  Asks(q, a, row, rev, n, notified)
    BY <2>4, <2>5 DEF Asks
  <2>6. \A m : ~Making(q, m)
    BY <2>4 DEF Making
  <2>8. QED
    BY <1>1, <2>2, <2>4, <2>5, <2>6, QuietPollStep
<1>4. QED
  BY <1>2, <1>3

\* The messages are listed; or the account is refused, and flagged if it was not; or neither.
LEMMA ListMessagesStep ==
    ASSUME MailInv, NEW p \in Polls, ListMessages(p)
    PROVE  MailInv'
<1>1. /\ IsPoll(poll[p]) /\ poll[p].pc = "list" /\ live \in [Mails -> Nat]
      /\ prompts \in [MailAccounts -> Nat] /\ revoked \in [MailAccounts -> Nat]
      /\ UNCHANGED <<mailRow, granted, revoked, live, prompts, crossed, trash>>
  BY MailTypes DEF ListMessages
<1>2. PICK a \in poll[p].account :
        \/ /\ Works(a, poll[p].token)
           /\ poll' = [poll EXCEPT ![p].pc = "messages", ![p].messages = FirstPage(a)]
           /\ UNCHANGED reconnectNotified
        \/ /\ ~Works(a, poll[p].token)
           /\ Refused(p, a)
           /\ reconnectNotified' = reconnectNotified \cup {<<a, poll[p].id>>}
        \/ To(p, "next") /\ UNCHANGED reconnectNotified
  BY DEF ListMessages
<1>3. a \in MailAccounts /\ poll[p].account = {a}
  BY <1>1, <1>2 DEF IsPoll
<1>4. CASE /\ Works(a, poll[p].token)
           /\ poll' = [poll EXCEPT ![p].pc = "messages", ![p].messages = FirstPage(a)]
           /\ UNCHANGED reconnectNotified
  <2> DEFINE page == FirstPage(a)
             q == [poll[p] EXCEPT !.pc = "messages", !.messages = page]
  <2>1. poll' = [poll EXCEPT ![p] = q]
    BY <1>4, MailTypes
  <2> HIDE DEF page
  <2>2. /\ IsPoll(q) /\ q.pc = "messages" /\ q.account = {a} /\ q.todo = poll[p].todo
        /\ q.id = poll[p].id /\ q.token = poll[p].token
    BY <1>1, <1>3 DEF IsPoll
  <2> HIDE DEF q
  <2>3. ASSUME NEW b \in MailAccounts, NEW row, NEW n, NEW notified,
               Asks(poll[p], b, row, revoked[b], n, notified)
        PROVE  Asks(q, b, row, revoked[b], n, notified)
    BY <1>1, <1>3, <1>4, <2>2, <2>3 DEF Asks, Works
  <2>4. \A m : ~Making(q, m)
    BY <2>2 DEF Making
  <2>5. QED
    BY <1>1, <1>4, <2>1, <2>2, <2>3, <2>4, QuietPollStep
<1>5. CASE To(p, "next") /\ UNCHANGED reconnectNotified
  <2> DEFINE q == [poll[p] EXCEPT !.pc = "next"]
  <2>1. poll' = [poll EXCEPT ![p] = q]
    BY <1>5, MailTypes DEF To
  <2>2. IsPoll(q) /\ q.pc = "next" /\ q.todo = poll[p].todo
    BY <1>1 DEF IsPoll
  <2> HIDE DEF q
  <2>3. ASSUME NEW b, NEW row, NEW rev, NEW n, NEW notified,
               Asks(poll[p], b, row, rev, n, notified)
        PROVE  Asks(q, b, row, rev, n, notified)
    BY <2>2, <2>3 DEF Asks
  <2>4. \A m : ~Making(q, m)
    BY <2>2 DEF Making
  <2>5. QED
    BY <1>1, <1>5, <2>1, <2>2, <2>3, <2>4, QuietPollStep
<1>6. CASE /\ ~Works(a, poll[p].token)
           /\ Refused(p, a)
           /\ reconnectNotified' = reconnectNotified \cup {<<a, poll[p].id>>}
  <2> DEFINE flagged == <<a, poll[p].id>> \in reconnectNotified
             pc == IF flagged THEN "next" ELSE "prompt"
             q == [poll[p] EXCEPT !.pc = pc]
  <2>1. poll' = [poll EXCEPT ![p] = q]
    BY <1>6, MailTypes DEF Refused, To
  <2>2. pc \in {"next", "prompt"} /\ (pc = "prompt" => ~flagged)
    OBVIOUS
  <2> HIDE DEF pc
  <2>3. /\ IsPoll(q) /\ q.pc = pc /\ q.account = {a} /\ q.todo = poll[p].todo
        /\ q.id = poll[p].id /\ q.token = poll[p].token
    BY <1>1, <1>3, <2>2 DEF IsPoll
  <2> HIDE DEF q
  <2>4. \A m : ~Making(q, m)
    BY <2>2, <2>3 DEF Making
  <2>5. ASSUME NEW b \in MailAccounts \ crossed
        PROVE  /\ \A r \in Polls \ {p} : poll[r] = NotPolling
               /\ Asks(q, b, mailRow[b], revoked[b], prompts[b], reconnectNotified')
               /\ prompts[b] <= 1
               /\ prompts[b] >= 1 /\ mailRow[b].id # 0 =>
                    <<b, mailRow[b].id>> \in reconnectNotified' \/ Works(b, mailRow[b].token)
    <3>1. /\ OneAsker(b)
          /\ Asks(poll[p], b, mailRow[b], revoked[b], prompts[b], reconnectNotified)
      BY MailTypes
    <3>2. /\ prompts[b] <= 1
          /\ prompts[b] >= 1 /\ mailRow[b].id # 0 =>
               <<b, mailRow[b].id>> \in reconnectNotified \/ Works(b, mailRow[b].token)
      BY <3>1 DEF OneAsker
    <3>3. prompts[b] \in Nat
      BY <1>1
    <3>4. ASSUME b = a, pc = "prompt", q.id = mailRow[b].id PROVE prompts[b] = 0
      <4>1. poll[p].id # 0 /\ (prompts[b] >= 1 => poll[p].token = mailRow[b].token)
        BY <1>1, <1>3, <2>3, <3>1, <3>4 DEF Asks, Current
      <4>2. <<b, mailRow[b].id>> \notin reconnectNotified
        BY <2>2, <2>3, <3>4
      <4>3. QED
        BY <1>6, <2>3, <3>2, <3>3, <3>4, <4>1, <4>2
    <3>5. <<a, q.id>> \in reconnectNotified'
      BY <1>6, <2>3
    <3>6. Asks(q, b, mailRow[b], revoked[b], prompts[b], reconnectNotified')
      BY <1>1, <1>3, <2>2, <2>3, <3>1, <3>4, <3>5 DEF Asks
    <3>7. QED
      BY <1>1, <1>6, <3>2, <3>6, OthersRest
  <2>6. QED
    BY <1>1, <2>1, <2>3, <2>4, <2>5, PollMoves
<1>7. QED
  BY <1>2, <1>4, <1>5, <1>6

\* The prompt goes out, or is lost: the row has not been prompted for since its grant was good.
LEMMA PromptStep ==
    ASSUME MailInv, NEW p \in Polls, notifyReconnectRequired(p)
    PROVE  MailInv'
<1>1. /\ IsPoll(poll[p]) /\ poll[p].pc = "prompt" /\ live \in [Mails -> Nat]
      /\ prompts \in [MailAccounts -> Nat]
      /\ UNCHANGED <<mailRow, granted, revoked, live, reconnectNotified, crossed, trash>>
  BY MailTypes DEF notifyReconnectRequired
<1> DEFINE q == [poll[p] EXCEPT !.pc = "next"]
           Asked(a) == a \in poll[p].account /\ StillThere(p, a)
<1>2. poll' = [poll EXCEPT ![p] = q]
  BY MailTypes DEF notifyReconnectRequired, To
<1>3. IsPoll(q) /\ q.pc = "next" /\ q.todo = poll[p].todo
  BY <1>1 DEF IsPoll
<1> HIDE DEF q
<1>4. \/ prompts' = prompts
      \/ prompts' = [a \in MailAccounts |-> IF Asked(a) THEN prompts[a] + 1 ELSE prompts[a]]
  BY DEF notifyReconnectRequired
<1>5. /\ prompts' \in [MailAccounts -> Nat]
      /\ \A a \in MailAccounts : \/ prompts'[a] = prompts[a]
                                 \/ Asked(a) /\ prompts'[a] = prompts[a] + 1
  BY <1>1, <1>4
<1>6. \A m : ~Making(q, m)
  BY <1>3 DEF Making
<1>7. ASSUME NEW a \in MailAccounts \ crossed
      PROVE  /\ Asks(q, a, mailRow[a], revoked[a], prompts'[a], reconnectNotified)
             /\ prompts'[a] <= 1
             /\ prompts'[a] >= 1 /\ mailRow[a].id # 0 =>
                  <<a, mailRow[a].id>> \in reconnectNotified \/ Works(a, mailRow[a].token)
  <2>1. /\ OneAsker(a) /\ prompts[a] \in Nat
        /\ Asks(poll[p], a, mailRow[a], revoked[a], prompts[a], reconnectNotified)
    BY <1>1, MailTypes
  <2>2. CASE prompts'[a] = prompts[a]
    BY <1>3, <2>1, <2>2 DEF OneAsker, Asks
  <2>3. CASE Asked(a) /\ prompts'[a] = prompts[a] + 1
    <3>1. /\ \A c \in q.todo : c.account # a
          /\ <<a, mailRow[a].id>> \in reconnectNotified /\ prompts[a] = 0
      BY <1>1, <1>3, <2>1, <2>3 DEF Asks, StillThere
    <3>2. QED
      BY <1>3, <2>1, <2>3, <3>1 DEF Asks
  <2>4. QED
    BY <1>5, <2>2, <2>3
<1>8. \A a \in MailAccounts \ crossed : \A r \in Polls \ {p} : poll[r] = NotPolling
  BY <1>1, OthersRest
<1>9. QED
  BY <1>1, <1>2, <1>3, <1>5, <1>6, <1>7, <1>8, PollMoves

\* A message is read, or passed over.
LEMMA GetMessageStep ==
    ASSUME MailInv, NEW p \in Polls, GetMessage(p)
    PROVE  MailInv'
<1>1. /\ IsPoll(poll[p]) /\ poll[p].pc = "messages"
      /\ UNCHANGED <<mailRow, granted, revoked, live, reconnectNotified, prompts, crossed, trash>>
  BY MailTypes DEF GetMessage
<1>2. PICK m \in poll[p].messages :
        \/ poll' = [poll EXCEPT ![p].messages = @ \ {m}, ![p].pc = "find", ![p].mail = {m}]
        \/ poll' = [poll EXCEPT ![p].messages = @ \ {m}]
  BY DEF GetMessage
<1>3. PICK q : /\ poll' = [poll EXCEPT ![p] = q]
               /\ \/ q = [poll[p] EXCEPT !.messages = @ \ {m}, !.pc = "find", !.mail = {m}]
                  \/ q = [poll[p] EXCEPT !.messages = @ \ {m}]
  BY <1>2, MailTypes
<1>4. /\ IsPoll(q) /\ q.pc \in {"messages", "find"} /\ q.todo = poll[p].todo
      /\ q.account = poll[p].account /\ q.id = poll[p].id /\ q.token = poll[p].token
  <2>1. CASE q = [poll[p] EXCEPT !.messages = @ \ {m}, !.pc = "find", !.mail = {m}]
    BY <1>1, <2>1 DEF IsPoll
  <2>2. CASE q = [poll[p] EXCEPT !.messages = @ \ {m}]
    BY <1>1, <2>2 DEF IsPoll
  <2>3. QED
    BY <1>3, <2>1, <2>2
<1>5. ASSUME NEW a, NEW row, NEW rev, NEW n, NEW notified,
             Asks(poll[p], a, row, rev, n, notified)
      PROVE  Asks(q, a, row, rev, n, notified)
  BY <1>1, <1>4, <1>5 DEF Asks
<1>6. \A x : ~Making(q, x)
  BY <1>4 DEF Making
<1>7. QED
  BY <1>1, <1>3, <1>4, <1>5, <1>6, QuietPollStep

\* A task is found, or one is to be made; beside another poll about to make it, the message is
\* off the promise.
LEMMA FindExistingStep ==
    ASSUME MailInv, NEW p \in Polls, FindExisting(p)
    PROVE  MailInv'
<1>1. /\ IsPoll(poll[p]) /\ poll[p].pc = "find" /\ live \in [Mails -> Nat]
      /\ prompts \in [MailAccounts -> Nat]
      /\ UNCHANGED <<mailRow, granted, revoked, live, reconnectNotified, prompts, trash>>
  BY MailTypes DEF FindExisting
<1>2. PICK m \in poll[p].mail :
        /\ poll' = IF live[m] > 0
                   THEN [poll EXCEPT ![p].pc = "messages", ![p].mail = {}]
                   ELSE [poll EXCEPT ![p].pc = "create"]
        /\ crossed' = IF \E r \in Polls \ {p} : poll[r].pc = "create" /\ m \in poll[r].mail
                      THEN crossed \cup {m} ELSE crossed
  BY DEF FindExisting
<1>3. PICK q : /\ poll' = [poll EXCEPT ![p] = q]
               /\ \/ q = [poll[p] EXCEPT !.pc = "messages", !.mail = {}]
                  \/ q = [poll[p] EXCEPT !.pc = "create"] /\ ~(live[m] > 0)
  BY <1>2, MailTypes
<1>4. /\ IsPoll(q) /\ q.pc \in {"messages", "create"} /\ q.todo = poll[p].todo
      /\ q.account = poll[p].account /\ q.id = poll[p].id /\ q.token = poll[p].token
      /\ \A x \in q.mail : x = m
      /\ q.pc = "create" => ~(live[m] > 0)
  <2>1. \A x \in poll[p].mail : x = m
    BY <1>1 DEF IsPoll
  <2>2. CASE q = [poll[p] EXCEPT !.pc = "messages", !.mail = {}]
    BY <1>1, <2>2 DEF IsPoll
  <2>3. CASE q = [poll[p] EXCEPT !.pc = "create"] /\ ~(live[m] > 0)
    BY <1>1, <2>1, <2>3 DEF IsPoll
  <2>4. QED
    BY <1>3, <2>2, <2>3
<1>5. crossed \subseteq crossed'
  BY <1>2
<1>6. ASSUME NEW x \in Mails \ crossed', Making(q, x)
      PROVE  live[x] = 0 /\ \A r \in Polls : Making(poll[r], x) => r = p
  <2>1. x = m /\ ~(live[x] > 0) /\ live[x] \in Nat
    BY <1>1, <1>4, <1>6 DEF Making
  <2>2. QED
    BY <1>2, <2>1 DEF Making
<1>7. ASSUME NEW a \in MailAccounts \ crossed'
      PROVE  /\ \A r \in Polls \ {p} : poll[r] = NotPolling
             /\ Asks(q, a, mailRow[a], revoked[a], prompts[a], reconnectNotified)
             /\ prompts[a] <= 1
             /\ prompts[a] >= 1 /\ mailRow[a].id # 0 =>
                  <<a, mailRow[a].id>> \in reconnectNotified \/ Works(a, mailRow[a].token)
  <2>1. /\ a \in MailAccounts \ crossed /\ OneAsker(a)
        /\ Asks(poll[p], a, mailRow[a], revoked[a], prompts[a], reconnectNotified)
    BY <1>5, MailTypes
  <2>2. Asks(q, a, mailRow[a], revoked[a], prompts[a], reconnectNotified)
    BY <1>1, <1>4, <2>1 DEF Asks
  <2>3. QED
    BY <1>1, <2>1, <2>2, OthersRest DEF OneAsker
<1>8. QED
  BY <1>1, <1>3, <1>4, <1>5, <1>6, <1>7, PollMoves

\* The task is made, or the row has been deleted, or the insert fails.
LEMMA CreateTaskStep ==
    ASSUME MailInv, NEW p \in Polls, CreateTask(p)
    PROVE  MailInv'
<1>1. /\ IsPoll(poll[p]) /\ poll[p].pc = "create" /\ live \in [Mails -> Nat]
      /\ prompts \in [MailAccounts -> Nat]
      /\ UNCHANGED <<mailRow, granted, revoked, reconnectNotified, prompts, crossed, trash>>
  BY MailTypes DEF CreateTask
<1> DEFINE q == [poll[p] EXCEPT !.pc = "messages", !.mail = {}]
<1>2. poll' = [poll EXCEPT ![p] = q]
  BY MailTypes DEF CreateTask
<1>3. /\ IsPoll(q) /\ q.pc = "messages" /\ q.todo = poll[p].todo
      /\ q.account = poll[p].account /\ q.id = poll[p].id /\ q.token = poll[p].token
  BY <1>1 DEF IsPoll
<1> HIDE DEF q
<1>4. \/ live' = [m \in Mails |-> IF m \in poll[p].mail THEN live[m] + 1 ELSE live[m]]
      \/ live' = live
  BY DEF CreateTask
<1>5. live' \in [Mails -> Nat]
  BY <1>1, <1>4
<1>6. \A m : ~Making(q, m)
  BY <1>3 DEF Making
<1>7. ASSUME NEW m \in Mails \ crossed
      PROVE  live'[m] = live[m] \/ (live'[m] = 1 /\ Making(poll[p], m))
  <2>1. OneMaker(m) /\ live[m] \in Nat
    BY <1>1, MailTypes
  <2>2. CASE m \in poll[p].mail
    <3>1. Making(poll[p], m) /\ live[m] = 0
      BY <1>1, <2>1, <2>2 DEF OneMaker, Making
    <3>2. QED
      BY <1>4, <2>2, <3>1
  <2>3. CASE m \notin poll[p].mail
    BY <1>4, <2>3
  <2>4. QED
    BY <2>2, <2>3
<1>8. ASSUME NEW a \in MailAccounts \ crossed
      PROVE  /\ \A r \in Polls \ {p} : poll[r] = NotPolling
             /\ Asks(q, a, mailRow[a], revoked[a], prompts[a], reconnectNotified)
             /\ prompts[a] <= 1
             /\ prompts[a] >= 1 /\ mailRow[a].id # 0 =>
                  <<a, mailRow[a].id>> \in reconnectNotified \/ Works(a, mailRow[a].token)
  <2>1. /\ OneAsker(a)
        /\ Asks(poll[p], a, mailRow[a], revoked[a], prompts[a], reconnectNotified)
    BY MailTypes
  <2>2. Asks(q, a, mailRow[a], revoked[a], prompts[a], reconnectNotified)
    BY <1>1, <1>3, <2>1 DEF Asks
  <2>3. QED
    BY <1>1, <2>1, <2>2, OthersRest DEF OneAsker
<1>9. QED
  BY <1>1, <1>2, <1>3, <1>5, <1>6, <1>7, <1>8, PollMoves

\* The account is through: its flag is taken away, and its grant works.
LEMMA EndAccountStep ==
    ASSUME MailInv, NEW p \in Polls, EndAccount(p)
    PROVE  MailInv'
<1>1. /\ IsPoll(poll[p]) /\ poll[p].pc = "messages" /\ live \in [Mails -> Nat]
      /\ prompts \in [MailAccounts -> Nat]
      /\ UNCHANGED <<mailRow, granted, revoked, live, prompts, crossed, trash>>
      /\ reconnectNotified' = reconnectNotified \ {<<a, poll[p].id>> : a \in poll[p].account}
  BY MailTypes DEF EndAccount
<1> DEFINE q == [poll[p] EXCEPT !.pc = "next"]
<1>2. poll' = [poll EXCEPT ![p] = q]
  BY MailTypes DEF EndAccount
<1>3. IsPoll(q) /\ q.pc = "next" /\ q.todo = poll[p].todo
  BY <1>1 DEF IsPoll
<1> HIDE DEF q
<1>4. \A m : ~Making(q, m)
  BY <1>3 DEF Making
<1>5. ASSUME NEW a \in MailAccounts \ crossed
      PROVE  /\ \A r \in Polls \ {p} : poll[r] = NotPolling
             /\ Asks(q, a, mailRow[a], revoked[a], prompts[a], reconnectNotified')
             /\ prompts[a] <= 1
             /\ prompts[a] >= 1 /\ mailRow[a].id # 0 =>
                  <<a, mailRow[a].id>> \in reconnectNotified' \/ Works(a, mailRow[a].token)
  <2>1. /\ OneAsker(a)
        /\ Asks(poll[p], a, mailRow[a], revoked[a], prompts[a], reconnectNotified)
    BY MailTypes
  <2>2. Asks(q, a, mailRow[a], revoked[a], prompts[a], reconnectNotified')
    BY <1>3, <2>1 DEF Asks
  <2>3. ASSUME prompts[a] >= 1, mailRow[a].id # 0, ~Works(a, mailRow[a].token)
        PROVE  <<a, mailRow[a].id>> \in reconnectNotified'
    <3>1. <<a, mailRow[a].id>> \in reconnectNotified
      BY <2>1, <2>3 DEF OneAsker
    <3>2. ~(a \in poll[p].account /\ poll[p].id = mailRow[a].id)
      BY <1>1, <2>1, <2>3 DEF Asks, Current, Works
    <3>3. \A b \in poll[p].account : <<a, mailRow[a].id>> # <<b, poll[p].id>>
      BY <3>2
    <3>4. QED
      BY <1>1, <3>1, <3>3
  <2>4. QED
    BY <1>1, <2>1, <2>2, <2>3, OthersRest DEF OneAsker
<1>6. QED
  BY <1>1, <1>2, <1>3, <1>4, <1>5, PollMoves

\* The process restarts: no poll is under way, and no prompt was made in this life.
LEMMA MailRestartStep == MailInv /\ MailRestart => MailInv'
<1> SUFFICES ASSUME MailInv, MailRestart PROVE MailInv'
  OBVIOUS
<1>1. /\ poll' = [p \in Polls |-> NotPolling] /\ prompts' = [a \in MailAccounts |-> 0]
      /\ UNCHANGED <<mailRow, granted, revoked, live, crossed, trash>>
  BY DEF MailRestart
<1>2. \A p \in Polls : poll'[p] = NotPolling
  BY <1>1
<1>3. poll' = [p \in Polls |-> poll'[p]] /\ \A p \in Polls : IsPoll(poll'[p])
  BY <1>1, <1>2, IdlePollAsksNothing
<1>4. MailTables'
  BY <1>1, <1>3 DEF MailInv, MailTables
<1>5. ASSUME NEW m \in Mails \ crossed PROVE OneMaker(m)'
  <2>1. live[m] <= 1
    BY DEF MailInv, OneMaker
  <2>2. QED
    BY <1>1, <1>2, <2>1, IdlePollAsksNothing DEF OneMaker, Making
<1>6. ASSUME NEW a \in MailAccounts PROVE OneAsker(a)'
  <2>1. prompts'[a] = 0
    BY <1>1
  <2>2. QED
    BY <1>2, <2>1, IdlePollAsksNothing DEF OneAsker
<1>7. QED
  BY <1>1, <1>4, <1>5, <1>6 DEF MailInv

\* A task is deleted, or comes back: beside another one, its message is off the promise.
LEMMA TrashStep ==
    ASSUME MailInv, NEW m \in Mails, DeleteTask(m) \/ RestoreTask(m)
    PROVE  MailInv'
<1>1. /\ live \in [Mails -> Nat] /\ trash \in [Mails -> Nat]
      /\ UNCHANGED <<mailRow, granted, revoked, poll, reconnectNotified, prompts>>
      /\ crossed \subseteq crossed'
  BY DEF DeleteTask, RestoreTask, MailInv, MailTables
<1>2. /\ live' \in [Mails -> Nat] /\ trash' \in [Mails -> Nat]
      /\ \A n \in Mails : n # m => live'[n] = live[n]
  BY <1>1 DEF DeleteTask, RestoreTask
<1>3. MailTables'
  BY <1>1, <1>2 DEF MailInv, MailTables
<1>4. ASSUME NEW n \in Mails \ crossed' PROVE OneMaker(n)'
  <2>1. OneMaker(n) /\ live[n] \in Nat
    BY <1>1 DEF MailInv
  <2>2. CASE n # m
    BY <1>1, <1>2, <2>1, <2>2 DEF OneMaker, Making
  <2>3. CASE n = m /\ DeleteTask(m)
    <3>1. live[m] > 0 /\ live'[m] = live[m] - 1
      BY <1>1, <2>3 DEF DeleteTask
    <3>2. QED
      BY <1>1, <2>1, <2>3, <3>1 DEF OneMaker, Making
  <2>4. CASE n = m /\ RestoreTask(m)
    <3>1. /\ ~(live[m] > 0) /\ live'[m] = live[m] + 1
          /\ \A p \in Polls : ~Making(poll[p], m)
      BY <1>1, <2>4 DEF RestoreTask, Making
    <3>2. QED
      BY <1>1, <2>1, <2>4, <3>1 DEF OneMaker, Making
  <2>5. QED
    BY <2>2, <2>3, <2>4
<1>5. ASSUME NEW a \in MailAccounts \ crossed' PROVE OneAsker(a)'
  <2>1. OneAsker(a)
    BY <1>1 DEF MailInv
  <2>2. QED
    BY <1>1, <2>1 DEF OneAsker, Works
<1>6. QED
  BY <1>3, <1>4, <1>5 DEF MailInv

\* An account is connected, revoked or removed: its row is new, works no more, or is gone.
LEMMA GrantStep ==
    ASSUME MailInv, NEW a \in MailAccounts, Connect(a) \/ RevokeGrant(a) \/ RemoveAccount(a)
    PROVE  MailInv'
<1>1. /\ mailRow \in [MailAccounts -> MailGrant] /\ prompts \in [MailAccounts -> Nat]
      /\ granted \in [MailAccounts -> Nat] /\ revoked \in [MailAccounts -> Nat]
      /\ UNCHANGED <<live, poll, reconnectNotified, crossed, trash>>
  BY DEF Connect, RevokeGrant, RemoveAccount, MailInv, MailTables
<1>2. PICK row, n :
        /\ mailRow' = [mailRow EXCEPT ![a] = row] /\ row \in MailGrant
        /\ prompts' = [prompts EXCEPT ![a] = n] /\ n \in Nat
        /\ granted' \in [MailAccounts -> Nat] /\ revoked' \in [MailAccounts -> Nat]
        /\ \A b \in MailAccounts : b # a => revoked'[b] = revoked[b]
        /\ n = 0 \/ (n = prompts[a] /\ row.id = 0 /\ UNCHANGED revoked)
  <2>1. CASE Connect(a)
    <3> DEFINE next == granted[a] + 1
               id == IF mailRow[a].id = 0 THEN next ELSE mailRow[a].id
    <3>1. mailRow' = [mailRow EXCEPT ![a] = [id |-> id, token |-> next]]
      BY <1>1, <2>1 DEF Connect
    <3>2. id \in Nat /\ next \in Nat
      BY <1>1 DEF MailGrant
    <3>3. /\ prompts' = [prompts EXCEPT ![a] = 0] /\ UNCHANGED revoked
          /\ granted' = [granted EXCEPT ![a] = next]
      BY <1>1, <2>1 DEF Connect
    <3> HIDE DEF id, next
    <3>4. [id |-> id, token |-> next] \in MailGrant /\ granted' \in [MailAccounts -> Nat]
      BY <1>1, <3>2, <3>3 DEF MailGrant
    <3>5. QED
      BY <1>1, <3>1, <3>3, <3>4
  <2>2. CASE RevokeGrant(a)
    <3>1. /\ mailRow' = [mailRow EXCEPT ![a] = mailRow[a]] /\ mailRow[a] \in MailGrant
          /\ prompts' = [prompts EXCEPT ![a] = 0] /\ UNCHANGED granted
          /\ revoked' = [revoked EXCEPT ![a] = granted[a]]
      BY <1>1, <2>2 DEF RevokeGrant
    <3>2. revoked' \in [MailAccounts -> Nat]
          /\ \A b \in MailAccounts : b # a => revoked'[b] = revoked[b]
      BY <1>1, <3>1
    <3>3. QED
      BY <1>1, <3>1, <3>2
  <2>3. CASE RemoveAccount(a)
    <3>1. /\ mailRow' = [mailRow EXCEPT ![a] = NoMailRow]
          /\ prompts' = [prompts EXCEPT ![a] = prompts[a]] /\ UNCHANGED <<granted, revoked>>
      BY <1>1, <2>3 DEF RemoveAccount
    <3>2. NoMailRow \in MailGrant /\ NoMailRow.id = 0 /\ prompts[a] \in Nat
      BY <1>1 DEF NoMailRow, MailGrant
    <3>3. QED
      BY <1>1, <3>1, <3>2
  <2>4. QED
    BY <2>1, <2>2, <2>3
<1>3. /\ mailRow'[a] = row /\ prompts'[a] = n
      /\ \A b \in MailAccounts : b # a => /\ mailRow'[b] = mailRow[b] /\ prompts'[b] = prompts[b]
                                          /\ revoked'[b] = revoked[b]
  BY <1>1, <1>2
<1>4. MailTables'
  BY <1>1, <1>2 DEF MailInv, MailTables
<1>5. ASSUME NEW m \in Mails \ crossed PROVE OneMaker(m)'
  <2>1. OneMaker(m)
    BY DEF MailInv
  <2>2. QED
    BY <1>1, <2>1 DEF OneMaker, Making
<1>6. ASSUME NEW b \in MailAccounts \ crossed PROVE OneAsker(b)'
  <2>1. OneAsker(b) /\ prompts[b] \in Nat
    BY <1>1 DEF MailInv
  <2>2. CASE b # a
    BY <1>1, <1>3, <2>1, <2>2 DEF OneAsker, Works
  <2>3. CASE b = a /\ n = 0
    <3>1. ASSUME NEW p \in Polls
          PROVE  Asks(poll[p], a, row, revoked'[a], n, reconnectNotified)
      <4>1. Asks(poll[p], a, mailRow[a], revoked[a], prompts[a], reconnectNotified)
        BY <2>1, <2>3 DEF OneAsker
      <4>2. QED
        BY <2>3, <4>1 DEF Asks, Current
    <3>2. QED
      BY <1>1, <1>3, <2>1, <2>3, <3>1 DEF OneAsker
  <2>4. CASE b = a /\ n = prompts[a] /\ row.id = 0 /\ UNCHANGED revoked
    <3>1. ASSUME NEW p \in Polls
          PROVE  Asks(poll[p], a, row, revoked[a], n, reconnectNotified)
      <4>1. Asks(poll[p], a, mailRow[a], revoked[a], prompts[a], reconnectNotified)
        BY <2>1, <2>4 DEF OneAsker
      <4>2. QED
        BY <2>4, <4>1 DEF Asks, Current
    <3>2. QED
      BY <1>1, <1>3, <2>1, <2>4, <3>1 DEF OneAsker
  <2>5. QED
    BY <1>2, <2>2, <2>3, <2>4
<1>7. QED
  BY <1>1, <1>4, <1>5, <1>6 DEF MailInv

\* Mail comes and ages, which the polls see when they list it.
LEMMA MailBesideStep ==
    ASSUME MailInv, (\E m \in Mails : MailArrives(m)) \/ MailAges \/ UNCHANGED mailVars
    PROVE  MailInv'
<1>1. UNCHANGED <<mailRow, granted, revoked, live, poll, reconnectNotified, prompts, crossed,
                  trash>>
  BY DEF MailArrives, MailAges, mailVars
<1>2. MailTables'
  BY <1>1 DEF MailInv, MailTables
<1>3. \A m \in Mails \ crossed : OneMaker(m)'
  BY <1>1 DEF MailInv, OneMaker, Making
<1>4. \A a \in MailAccounts \ crossed : OneAsker(a)'
  BY <1>1 DEF MailInv, OneAsker, Works
<1>5. QED
  BY <1>1, <1>2, <1>3, <1>4 DEF MailInv

\* Every step keeps the invariant of mail ingestion.
LEMMA MailStep == MailInv /\ [MailNext]_mailVars => MailInv'
<1> SUFFICES ASSUME MailInv, [MailNext]_mailVars PROVE MailInv'
  OBVIOUS
<1>1. CASE \E p \in Polls : PollMailAccounts(p)
  BY <1>1, StartPollStep, NextAccountStep, ListMessagesStep, PromptStep, GetMessageStep,
     FindExistingStep, CreateTaskStep, EndAccountStep DEF PollMailAccounts
<1>2. CASE \/ \E m \in Mails : DeleteTask(m) \/ RestoreTask(m)
           \/ \E a \in MailAccounts : Connect(a) \/ RevokeGrant(a) \/ RemoveAccount(a)
  BY <1>2, TrashStep, GrantStep
<1>3. CASE (\E m \in Mails : MailArrives(m)) \/ MailAges \/ UNCHANGED mailVars
  BY <1>3, MailBesideStep
<1>4. QED
  BY <1>1, <1>2, <1>3, MailRestartStep DEF MailNext

\* Every account is connected, and no task was made, at the start.
LEMMA MailStart == MailInit => MailInv
<1> SUFFICES ASSUME MailInit PROVE MailInv
  OBVIOUS
<1>1. /\ mailRow = [a \in MailAccounts |-> [id |-> 1, token |-> 1]]
      /\ granted = [a \in MailAccounts |-> 1] /\ revoked = [a \in MailAccounts |-> 0]
      /\ live = [m \in Mails |-> 0] /\ trash = [m \in Mails |-> 0]
      /\ prompts = [a \in MailAccounts |-> 0] /\ poll = [p \in Polls |-> NotPolling]
  BY DEF MailInit
<1>2. \A p \in Polls : poll[p] = NotPolling
  BY <1>1
<1>3. [id |-> 1, token |-> 1] \in MailGrant
  BY DEF MailGrant
<1>4. MailTables
  BY <1>1, <1>2, <1>3, IdlePollAsksNothing DEF MailTables
<1>5. ASSUME NEW m \in Mails PROVE OneMaker(m)
  <2>1. live[m] = 0
    BY <1>1
  <2>2. QED
    BY <1>2, <2>1, IdlePollAsksNothing DEF OneMaker
<1>6. ASSUME NEW a \in MailAccounts PROVE OneAsker(a)
  <2>1. prompts[a] = 0
    BY <1>1
  <2>2. QED
    BY <1>2, <2>1, IdlePollAsksNothing DEF OneAsker
<1>7. QED
  BY <1>4, <1>5, <1>6 DEF MailInv

\* A mail becomes one task, however many mailboxes hold it, polls list it and calls fail, unless
\* two polls were making it at once or a deleted task of it was restored beside another.
THEOREM MailMakesOneTask == MailSpec => []OneTaskPerMail
<1>1. MailInv => OneTaskPerMail
  <2> SUFFICES ASSUME MailInv, NEW m \in Mails, live[m] > 1, m \notin crossed PROVE FALSE
    BY DEF OneTaskPerMail
  <2>1. live[m] <= 1 /\ live[m] \in Nat
    BY DEF MailInv, MailTables, OneMaker
  <2>2. QED
    BY <2>1
<1>2. QED
  BY MailStart, MailStep, <1>1, PTL DEF MailSpec

\* An account whose grant is refused is prompted for once until it works again or is replaced,
\* whatever is revoked, reconnected and removed under the poll, unless polls overlapped.
THEOREM ReconnectAskedOnce == MailSpec => []OnePromptPerBreak
<1>1. MailInv => OnePromptPerBreak
  <2> SUFFICES ASSUME MailInv, NEW a \in MailAccounts, prompts[a] > 1, a \notin crossed PROVE FALSE
    BY DEF OnePromptPerBreak
  <2>1. prompts[a] <= 1 /\ prompts[a] \in Nat
    BY DEF MailInv, MailTables, OneAsker
  <2>2. QED
    BY <2>1
<1>2. QED
  BY MailStart, MailStep, <1>1, PTL DEF MailSpec
=============================================================================
