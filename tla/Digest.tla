------------------------------- MODULE Digest -------------------------------
(***************************************************************************)
(* The daily digest over Zalo (zalo-notification.listener): a run of the   *)
(* five-minute cron reads the subscribers, and for each in turn sends the  *)
(* summary and marks the day.  Runs may overlap, and users change their    *)
(* preferences meanwhile.  A day is counted by its number, a time of day   *)
(* in steps of the cron.                                                   *)
(***************************************************************************)
EXTENDS Naturals, FiniteSets

CONSTANTS Subscribers,
          Zone,             \* offset of each subscriber's time zone, in steps
          DayLength,        \* steps in a day
          SendWindow,       \* DIGEST_SEND_WINDOW_MINUTES, in steps
          Runs,             \* runs of the cron that may overlap
          NoDay,            \* digestLastSentOn is null
          MaxPuts, MaxBreaks, MaxSteps   \* bounds

ASSUME DigestAssumption ==
  /\ Zone \in [Subscribers -> Nat]
  /\ DayLength \in Nat \ {0} /\ SendWindow \in Nat
  /\ NoDay \notin Nat
  /\ MaxPuts \in Nat /\ MaxBreaks \in Nat /\ MaxSteps \in Nat

VARIABLES preference,   \* rows: on, minute, last; and whether Zalo is linked
          run,          \* runs under way
          digested,     \* history: days for which a digest went out, by subscriber
          twice,        \* history: subscribers who had two digests for one day
          caught,       \* history: subscribers two runs held, or one broke off at
          puts, breaks, step

digestVars == <<preference, run, digested, twice, caught, puts, breaks, step>>

-----------------------------------------------------------------------------
Minutes == 0 .. DayLength - 1
Off == [pc |-> "off", todo |-> {}, at |-> 0, who |-> {}]

today(u, at) == (at + Zone[u]) \div DayLength
localMinuteOfDay(u, at) == (at + Zone[u]) % DayLength

DigestInit ==
  /\ preference \in [Subscribers -> [on : {TRUE}, minute : Minutes, last : {NoDay},
                                     linked : {TRUE}]]
  /\ run = [s \in Runs |-> Off]
  /\ digested = [u \in Subscribers |-> {}]
  /\ twice = {} /\ caught = {}
  /\ puts = 0 /\ breaks = 0 /\ step = 0

\* In the window after the minute asked for, on the same day, and not marked yet.
Wanted_Always(p, u, at) ==
  /\ localMinuteOfDay(u, at) >= p.minute
  /\ localMinuteOfDay(u, at) - p.minute < SendWindow
Wanted(p, u, at) ==
  /\ p.last # today(u, at)
  /\ localMinuteOfDay(u, at) >= p.minute
  /\ localMinuteOfDay(u, at) - p.minute < SendWindow

Subscription(u) == [who |-> u, minute |-> preference[u].minute, last |-> preference[u].last]
Held(s) == {c.who : c \in run[s].todo} \cup run[s].who

-----------------------------------------------------------------------------
(* sendDailyDigests *)
findDigestSubscribers == {u \in Subscribers : preference[u].on /\ preference[u].linked}

StartDigests(s) ==
  /\ run[s].pc = "off" /\ findDigestSubscribers # {}
  /\ run' = [run EXCEPT ![s] = [pc |-> "next", at |-> step, who |-> {},
                                todo |-> {Subscription(u) : u \in findDigestSubscribers}]]
  /\ caught' = caught \cup (findDigestSubscribers \cap UNION {Held(r) : r \in Runs})
  /\ UNCHANGED <<preference, digested, twice, puts, breaks, step>>

NextSubscriber(s) ==
  /\ run[s].pc = "next"
  /\ \E c \in run[s].todo :
       run' = IF Wanted(c, c.who, run[s].at)
              THEN [run EXCEPT ![s].todo = @ \ {c}, ![s].pc = "send", ![s].who = {c.who}]
              ELSE [run EXCEPT ![s].todo = @ \ {c}]
  /\ UNCHANGED <<preference, digested, twice, caught, puts, breaks, step>>

EndDigests(s) ==
  /\ run[s].pc = "next" /\ run[s].todo = {}
  /\ run' = [run EXCEPT ![s] = Off]
  /\ UNCHANGED <<preference, digested, twice, caught, puts, breaks, step>>

\* Nothing overdue or due today, a query or a send that fails: no digest.
SendDigest(s) ==
  /\ run[s].pc = "send"
  /\ \/ \E u \in run[s].who :
          LET day == today(u, run[s].at)
          IN /\ digested' = [digested EXCEPT ![u] = @ \cup {day}]
             /\ twice' = IF day \in digested[u] THEN twice \cup {u} ELSE twice
     \/ UNCHANGED <<digested, twice>>
  /\ run' = [run EXCEPT ![s].pc = "mark"]
  /\ UNCHANGED <<preference, caught, puts, breaks, step>>

\* finally: the day is done, whatever came of it.
markDigestSent_IfSent(s) ==
  /\ run[s].pc = "mark"
  /\ preference' = [u \in Subscribers |->
       IF u \in run[s].who /\ today(u, run[s].at) \in digested[u]
       THEN [preference[u] EXCEPT !.last = today(u, run[s].at)] ELSE preference[u]]
  /\ run' = [run EXCEPT ![s].pc = "next", ![s].who = {}]
  /\ UNCHANGED <<digested, twice, caught, puts, breaks, step>>
markDigestSent(s) ==
  /\ run[s].pc = "mark"
  /\ preference' = [u \in Subscribers |->
       IF u \in run[s].who
       THEN [preference[u] EXCEPT !.last = today(u, run[s].at)] ELSE preference[u]]
  /\ run' = [run EXCEPT ![s].pc = "next", ![s].who = {}]
  /\ UNCHANGED <<digested, twice, caught, puts, breaks, step>>

\* A query outside the try throws, or the process dies.
DigestBreaks(s) ==
  /\ run[s].pc # "off" /\ breaks < MaxBreaks
  /\ breaks' = breaks + 1
  /\ caught' = IF run[s].pc = "mark" THEN caught \cup run[s].who ELSE caught
  /\ run' = [run EXCEPT ![s] = Off]
  /\ UNCHANGED <<preference, digested, twice, puts, step>>

-----------------------------------------------------------------------------
\* PUT /preferences/notifications writes the minute and not the day; link and unlink.
PutDigest(u, on, minute) ==
  /\ puts < MaxPuts /\ puts' = puts + 1
  /\ preference' = [preference EXCEPT ![u].on = on, ![u].minute = minute]
  /\ UNCHANGED <<run, digested, twice, caught, breaks, step>>
LinkOrUnlink(u) ==
  /\ puts < MaxPuts /\ puts' = puts + 1
  /\ preference' = [preference EXCEPT ![u].linked = ~@]
  /\ UNCHANGED <<run, digested, twice, caught, breaks, step>>

DayPasses ==
  /\ step < MaxSteps
  /\ step' = step + 1
  /\ UNCHANGED <<preference, run, digested, twice, caught, puts, breaks>>

SendDigests(s) == \/ StartDigests(s) \/ NextSubscriber(s) \/ EndDigests(s)
                  \/ SendDigest(s) \/ markDigestSent(s)

DigestNext ==
  \/ \E s \in Runs : SendDigests(s) \/ DigestBreaks(s)
  \/ \E u \in Subscribers :
       (\E on \in BOOLEAN, minute \in Minutes : PutDigest(u, on, minute)) \/ LinkOrUnlink(u)
  \/ DayPasses

\* The cron fires again and again, and a run that can go on does.
DigestFairness == \A s \in Runs : WF_digestVars(SendDigests(s))

DigestSpec == DigestInit /\ [][DigestNext]_digestVars /\ DigestFairness

-----------------------------------------------------------------------------
(* One digest a day, however often the minute asked for is moved, unless   *)
(* two runs held the subscriber at once or one broke off before marking.   *)
OneDigestADay == twice \subseteq caught

(* A digest that is wanted does not stay so: the day is marked, or the     *)
(* window closes, even when every send fails.                              *)
DigestWanted(u) == /\ u \in findDigestSubscribers
                   /\ Wanted(preference[u], u, step)
WantedIsHandled == \A u \in Subscribers : DigestWanted(u) ~> ~DigestWanted(u)
=============================================================================
