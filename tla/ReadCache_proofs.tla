-------------------------- MODULE ReadCache_proofs --------------------------
(***************************************************************************)
(* ReadCache implements StaleReads, for any readers and writers in any     *)
(* number and for all values of the delays: MaxLoad < SecondDelete is the  *)
(* only relation between them that is used.                                *)
(***************************************************************************)
EXTENDS ReadCache, SequenceTheorems, TLAPS

Rows ==
  /\ writtenAt \in Seq(Nat) /\ Row >= 1 /\ now \in Nat /\ missed \in BOOLEAN
  /\ \A v \in 1 .. Row : writtenAt[v] <= now

\* A second delete never comes late.
Timers == timers \subseteq Nat /\ \A t \in timers : now <= t

Work == [pc : {"idle", "set", "delete"}, value : Nat, since : Nat]

\* What a reader loaded was current when it loaded it, MaxLoad ago at most.
Loaded(q) ==
  q.pc = "set" => /\ q.value \in 1 .. Row /\ q.since <= now /\ now <= q.since + MaxLoad
                  /\ \A v \in q.value + 1 .. Row : q.since <= writtenAt[v]
Deletes(q) == q.pc = "delete" => q.since <= now /\ now <= q.since + MaxDelete

Requests ==
  /\ reader \in [Readers -> Work] /\ \A r \in Readers : Loaded(reader[r])
  /\ writer \in [Writers -> Work] /\ \A w \in Writers : Deletes(writer[w])

\* An entry expires Ttl after it was stored, which is MaxLoad after it was current.
Entry(e) ==
  /\ e \in [value : Nat, expiresAt : Nat]
  /\ e.value # 0 =>
       /\ e.value \in 1 .. Row /\ e.expiresAt <= now + Ttl
       /\ \A v \in e.value + 1 .. Row : e.expiresAt <= writtenAt[v] + MaxLoad + Ttl

\* Version v replaced others: its writer has not deleted them yet, or the second delete is still
\* due, or nobody holds them any more.
DeletePending(v) == \E w \in Writers : writer[w].pc = "delete" /\ writer[w].since = writtenAt[v]
TimerPending(v) == \E t \in timers : /\ writtenAt[v] + SecondDelete <= t
                                     /\ t <= writtenAt[v] + MaxDelete + SecondDelete
Gone(v) == /\ entry.value # 0 => v <= entry.value
           /\ \A r \in Readers : reader[r].pc = "set" => v <= reader[r].value
Removed(v) == DeletePending(v) \/ TimerPending(v) \/ Gone(v)
EveryRemoved == ~missed => \A v \in 1 .. Row : Removed(v)

CacheInv == Rows /\ Timers /\ Requests /\ Entry(entry) /\ EveryRemoved

-----------------------------------------------------------------------------
\* The invariant holds at the start: one version, and nothing stored.
LEMMA CacheStart == CacheInit => CacheInv
<1> SUFFICES ASSUME CacheInit PROVE CacheInv
  OBVIOUS
<1>1. writtenAt \in Seq(Nat) /\ Row = 1 /\ \A v \in 1 .. Row : writtenAt[v] = 0
  BY DEF CacheInit, Row
<1>2. Rows /\ Timers /\ Entry(entry)
  <2>1. missed \in BOOLEAN /\ now = 0
    BY DEF CacheInit
  <2>2. Rows
    BY <1>1, <2>1 DEF Rows
  <2>3. QED
    BY <2>2 DEF CacheInit, Timers, Entry, NoEntry
<1>3. Requests
  BY DEF CacheInit, Requests, Loaded, Deletes, Resting, Work
<1>4. \A v \in 1 .. Row : Gone(v)
  BY DEF CacheInit, Gone, NoEntry, Resting
<1>5. QED
  BY <1>2, <1>3, <1>4 DEF CacheInv, EveryRemoved, Removed

\* A row is written: by a writer that will delete the key, or behind the cache's back.
LEMMA WriteStep ==
    ASSUME CacheInv, (\E w \in Writers : WriteRow(w)) \/ WriteBehind
    PROVE  CacheInv'
<1>1. /\ writtenAt \in Seq(Nat) /\ Row \in Nat /\ Row >= 1 /\ now \in Nat
      /\ \A v \in 1 .. Row : writtenAt[v] <= now
  BY DEF CacheInv, Rows, Row
<1>2. /\ writtenAt' \in Seq(Nat) /\ Row' = Row + 1 /\ writtenAt'[Row + 1] = now
      /\ \A v \in 1 .. Row : writtenAt'[v] = writtenAt[v]
  <2>1. writtenAt' = Append(writtenAt, now)
    BY DEF WriteRow, WriteBehind
  <2>2. QED
    BY <1>1, <2>1 DEF Row
<1>3. UNCHANGED <<entry, reader, timers, now>> /\ missed' \in {missed, TRUE}
  BY DEF WriteRow, WriteBehind
<1>4. \A v \in 1 .. Row' : v \in 1 .. Row \/ v = Row + 1
  BY <1>1, <1>2
<1>5. Rows'
  <2>1. ASSUME NEW v \in 1 .. Row' PROVE writtenAt'[v] <= now
    BY <1>1, <1>2, <1>4
  <2>2. missed' \in BOOLEAN
    BY <1>3, Zenon DEF CacheInv, Rows
  <2>3. Row' >= 1 /\ now' \in Nat
    BY <1>1, <1>2, <1>3
  <2>4. QED
    BY <1>2, <1>3, <2>1, <2>2, <2>3, Zenon DEF Rows
<1>6. Entry(entry)'
  <2> SUFFICES ASSUME entry.value # 0
               PROVE  /\ entry.value \in 1 .. Row' /\ entry.expiresAt <= now + Ttl
                      /\ \A v \in entry.value + 1 .. Row' :
                           entry.expiresAt <= writtenAt'[v] + MaxLoad + Ttl
    BY <1>3 DEF CacheInv, Entry
  <2>1. /\ entry.value \in 1 .. Row /\ entry.expiresAt <= now + Ttl
        /\ entry.expiresAt \in Nat /\ entry.value \in Nat
        /\ \A v \in entry.value + 1 .. Row : entry.expiresAt <= writtenAt[v] + MaxLoad + Ttl
    BY DEF CacheInv, Entry
  <2>2. ASSUME NEW v \in entry.value + 1 .. Row'
        PROVE  entry.expiresAt <= writtenAt'[v] + MaxLoad + Ttl
    <3>1. CASE v = Row + 1
      BY <1>1, <1>2, <2>1, <3>1, ReadCacheAssumption
    <3>2. CASE v # Row + 1
      <4>1. v \in entry.value + 1 .. Row /\ v \in 1 .. Row
        BY <1>1, <1>2, <2>1, <3>2
      <4>2. QED
        BY <1>2, <2>1, <4>1
    <3>3. QED
      BY <3>1, <3>2
  <2>3. QED
    BY <1>1, <1>2, <2>1, <2>2
<1>7. Requests'
  <2>1. ASSUME NEW r \in Readers PROVE Loaded(reader[r])'
    <3>1. reader[r] \in Work /\ Loaded(reader[r])
      BY DEF CacheInv, Requests
    <3>2. SUFFICES ASSUME reader[r].pc = "set"
                   PROVE  /\ reader[r].value \in 1 .. Row'
                          /\ \A v \in reader[r].value + 1 .. Row' : reader[r].since <= writtenAt'[v]
      BY <1>3, <3>1 DEF Loaded
    <3>3. /\ reader[r].value \in 1 .. Row /\ reader[r].since \in Nat /\ reader[r].since <= now
          /\ \A v \in reader[r].value + 1 .. Row : reader[r].since <= writtenAt[v]
      BY <3>1, <3>2 DEF Loaded, Work
    <3>4. ASSUME NEW v \in reader[r].value + 1 .. Row' PROVE reader[r].since <= writtenAt'[v]
      <4>1. CASE v = Row + 1
        BY <1>2, <3>3, <4>1
      <4>2. CASE v # Row + 1
        <5>1. v \in reader[r].value + 1 .. Row /\ v \in 1 .. Row
          BY <1>1, <1>2, <3>3, <4>2
        <5>2. QED
          BY <1>2, <3>3, <5>1
      <4>3. QED
        BY <4>1, <4>2
    <3>5. QED
      BY <1>1, <1>2, <3>3, <3>4
  <2>2. writer' \in [Writers -> Work] /\ \A w \in Writers : Deletes(writer[w])'
    <3>1. CASE WriteBehind
      BY <1>3, <3>1 DEF WriteBehind, CacheInv, Requests, Deletes
    <3>2. CASE \E w \in Writers : WriteRow(w)
      <4>1. PICK w \in Writers :
              writer' = [writer EXCEPT ![w] = [pc |-> "delete", value |-> 0, since |-> now]]
        BY <3>2 DEF WriteRow
      <4>2. [pc |-> "delete", value |-> 0, since |-> now] \in Work
        BY <1>1 DEF Work
      <4>3. QED
        BY <1>1, <1>3, <4>1, <4>2, ReadCacheAssumption DEF CacheInv, Requests, Deletes
    <3>3. QED
      BY <3>1, <3>2
  <2>3. QED
    BY <1>3, <2>1, <2>2 DEF CacheInv, Requests
<1>8. EveryRemoved'
  <2> SUFFICES ASSUME ~missed', NEW v \in 1 .. Row' PROVE Removed(v)'
    BY DEF EveryRemoved
  <2>1. PICK w \in Writers : WriteRow(w)
    BY DEF WriteBehind
  <2>2. /\ writer \in [Writers -> Work] /\ writer[w].pc = "idle" /\ ~missed
        /\ writer' = [writer EXCEPT ![w] = [pc |-> "delete", value |-> 0, since |-> now]]
    BY <1>3, <2>1 DEF WriteRow, CacheInv, Requests
  <2>3. CASE v = Row + 1
    <3>1. DeletePending(v)'
      BY <1>2, <2>2, <2>3 DEF DeletePending
    <3>2. QED
      BY <3>1 DEF Removed
  <2>4. CASE v \in 1 .. Row
    <3>1. Removed(v)
      BY <2>2, <2>4 DEF CacheInv, EveryRemoved
    <3>2. DeletePending(v) => DeletePending(v)'
      BY <1>2, <2>2, <2>4 DEF DeletePending
    <3>3. TimerPending(v) => TimerPending(v)'
      BY <1>2, <1>3, <2>4 DEF TimerPending
    <3>4. Gone(v) => Gone(v)'
      BY <1>3 DEF Gone
    <3>5. QED
      BY <3>1, <3>2, <3>3, <3>4 DEF Removed
  <2>5. QED
    BY <1>4, <2>3, <2>4
<1>9. QED
  BY <1>3, <1>5, <1>6, <1>7, <1>8 DEF CacheInv, Timers

\* A value is loaded, or stored: nobody comes to hold an older one.
LEMMA ReaderStep ==
    ASSUME CacheInv, NEW r \in Readers, Load(r) \/ StoreLoaded(r)
    PROVE  CacheInv'
<1>1. UNCHANGED <<writtenAt, writer, timers, missed, now>>
  BY DEF Load, StoreLoaded
<1>2. /\ now \in Nat /\ Row \in Nat /\ Row >= 1 /\ Row' = Row
      /\ reader \in [Readers -> Work] /\ reader[r] \in Work
      /\ \A v \in 1 .. Row : writtenAt[v] \in Nat /\ writtenAt[v] <= now
  BY <1>1, ElementOfSeq DEF CacheInv, Rows, Row, Requests
<1>3. CASE Load(r)
  <2>1. /\ reader' = [reader EXCEPT ![r] = [pc |-> "set", value |-> Row, since |-> now]]
        /\ entry' = entry
    BY <1>3 DEF Load
  <2>2. [pc |-> "set", value |-> Row, since |-> now] \in Work
    BY <1>2 DEF Work
  <2>3. Requests'
    <3>1. ASSUME NEW q \in Readers PROVE Loaded(reader[q])'
      <4>1. CASE q = r
        BY <1>1, <1>2, <2>1, <4>1, ReadCacheAssumption DEF Loaded
      <4>2. CASE q # r
        BY <1>1, <1>2, <2>1, <4>2 DEF Loaded, CacheInv, Requests
      <4>3. QED
        BY <4>1, <4>2
    <3>2. QED
      BY <1>1, <2>1, <2>2, <3>1 DEF CacheInv, Requests, Deletes
  <2>4. ASSUME NEW v \in 1 .. Row, Gone(v) PROVE Gone(v)'
    BY <1>2, <2>1, <2>4 DEF Gone
  <2>5. QED
    BY <1>1, <1>2, <2>1, <2>3, <2>4
    DEF CacheInv, Rows, Timers, Entry, EveryRemoved, Removed, DeletePending, TimerPending
<1>4. CASE StoreLoaded(r)
  <2>1. /\ reader' = [reader EXCEPT ![r] = Resting] /\ reader[r].pc = "set"
        /\ entry' \in {Stored(reader[r].value), entry}
    BY <1>4 DEF StoreLoaded
  <2>2. Requests'
    <3>1. Resting \in Work
      BY DEF Resting, Work
    <3>2. ASSUME NEW q \in Readers PROVE Loaded(reader[q])'
      BY <1>1, <1>2, <2>1 DEF Loaded, CacheInv, Requests, Resting
    <3>3. QED
      BY <1>1, <2>1, <3>1, <3>2 DEF CacheInv, Requests, Deletes
  <2>3. Entry(entry)'
    <3>1. CASE entry' = entry
      BY <1>1, <1>2, <3>1 DEF CacheInv, Entry
    <3>2. CASE entry' = Stored(reader[r].value)
      <4>1. Loaded(reader[r])
        BY DEF CacheInv, Requests
      <4>2. QED
        BY <1>1, <1>2, <2>1, <3>2, <4>1, ReadCacheAssumption DEF Entry, Stored, Loaded, Work
    <3>3. QED
      BY <2>1, <3>1, <3>2
  <2>4. ASSUME NEW v \in 1 .. Row, Gone(v) PROVE Gone(v)'
    <3>1. entry'.value \in {reader[r].value, entry.value}
      BY <2>1 DEF Stored
    <3>2. QED
      BY <1>2, <2>1, <2>4, <3>1 DEF Gone, Resting
  <2>5. QED
    BY <1>1, <1>2, <2>2, <2>3, <2>4
    DEF CacheInv, Rows, Timers, EveryRemoved, Removed, DeletePending, TimerPending
<1>5. QED
  BY <1>3, <1>4

\* The key is deleted, now or later, or the delete fails and a removal is missed.
LEMMA DeleteStep ==
    ASSUME CacheInv, (\E w \in Writers : Invalidate(w)) \/ DeleteAgain
    PROVE  CacheInv'
<1>1. UNCHANGED <<writtenAt, reader, now>> /\ Delete
  BY DEF Invalidate, DeleteAgain
<1>2. /\ now \in Nat /\ Row' = Row /\ missed' \in BOOLEAN /\ (~missed' => ~missed /\ entry' = NoEntry)
      /\ reader \in [Readers -> Work] /\ writer \in [Writers -> Work]
      /\ \A v \in 1 .. Row : writtenAt[v] \in Nat /\ writtenAt[v] <= now
  BY <1>1, ElementOfSeq DEF CacheInv, Rows, Row, Requests, Delete
<1>3. Rows' /\ Entry(entry)'
  BY <1>1, <1>2 DEF CacheInv, Rows, Entry, Delete, NoEntry
<1>4. (\A r \in Readers : Loaded(reader[r])') /\ (\A v : Gone(v) /\ ~missed' => Gone(v)')
  BY <1>1, <1>2 DEF CacheInv, Requests, Loaded, Gone, NoEntry
<1>5. CASE \E w \in Writers : Invalidate(w)
  <2>1. PICK w \in Writers : /\ timers' = timers \cup {now + SecondDelete}
                             /\ writer' = [writer EXCEPT ![w] = Resting]
                             /\ writer[w].pc = "delete"
    BY <1>5 DEF Invalidate
  <2>2. Resting \in Work /\ Resting.pc = "idle"
    BY DEF Resting, Work
  <2>3. Timers' /\ Requests'
    BY <1>1, <1>2, <1>4, <2>1, <2>2, ReadCacheAssumption DEF CacheInv, Timers, Requests, Deletes
  <2>4. EveryRemoved'
    <3> SUFFICES ASSUME ~missed', NEW v \in 1 .. Row PROVE Removed(v)'
      BY <1>2 DEF EveryRemoved
    <3>1. Removed(v)
      BY <1>2 DEF CacheInv, EveryRemoved
    <3>2. CASE writer[w].since = writtenAt[v]
      <4>1. Deletes(writer[w]) /\ writer[w].since \in Nat
        BY <1>2 DEF CacheInv, Requests, Work
      <4>2. TimerPending(v)'
        BY <1>1, <1>2, <2>1, <3>2, <4>1, ReadCacheAssumption DEF Deletes, TimerPending
      <4>3. QED
        BY <4>2 DEF Removed
    <3>3. CASE writer[w].since # writtenAt[v]
      <4>1. DeletePending(v) => DeletePending(v)'
        BY <1>1, <1>2, <2>1, <3>3 DEF DeletePending
      <4>2. TimerPending(v) => TimerPending(v)'
        BY <1>1, <2>1 DEF TimerPending
      <4>3. QED
        BY <1>4, <3>1, <4>1, <4>2 DEF Removed
    <3>4. QED
      BY <3>2, <3>3
  <2>5. QED
    BY <1>3, <2>3, <2>4 DEF CacheInv
<1>6. CASE DeleteAgain
  <2>1. timers' = timers \ {now} /\ writer' = writer
    BY <1>6 DEF DeleteAgain
  <2>2. Timers' /\ Requests'
    BY <1>1, <1>4, <2>1 DEF CacheInv, Timers, Requests, Deletes
  <2>3. EveryRemoved'
    <3> SUFFICES ASSUME ~missed', NEW v \in 1 .. Row PROVE Removed(v)'
      BY <1>2 DEF EveryRemoved
    <3>1. Removed(v)
      BY <1>2 DEF CacheInv, EveryRemoved
    <3>2. DeletePending(v) => DeletePending(v)'
      BY <1>1, <2>1 DEF DeletePending
    <3>3. ASSUME TimerPending(v) PROVE TimerPending(v)' \/ Gone(v)'
      <4>1. PICK t \in timers : /\ writtenAt[v] + SecondDelete <= t
                                /\ t <= writtenAt[v] + MaxDelete + SecondDelete
        BY <3>3 DEF TimerPending
      <4>2. CASE t # now
        BY <1>1, <2>1, <4>1, <4>2 DEF TimerPending
      <4>3. CASE t = now
        <5>1. ASSUME NEW r \in Readers, reader[r].pc = "set" PROVE v <= reader[r].value
          <6>1. Loaded(reader[r]) /\ reader[r] \in Work
            BY <1>2 DEF CacheInv, Requests
          <6>2. SUFFICES ASSUME reader[r].value < v PROVE FALSE
            BY <6>1 DEF Work
          <6>3. reader[r].since <= writtenAt[v] /\ now <= reader[r].since + MaxLoad
            BY <5>1, <6>1, <6>2 DEF Loaded, Work
          <6>4. QED
            BY <1>2, <4>1, <4>3, <6>1, <6>3, ReadCacheAssumption DEF Work
        <5>2. Gone(v)'
          BY <1>1, <1>2, <5>1 DEF Gone, NoEntry
        <5>3. QED
          BY <5>2
      <4>4. QED
        BY <4>2, <4>3
    <3>4. QED
      BY <1>4, <3>1, <3>2, <3>3 DEF Removed
  <2>4. QED
    BY <1>3, <2>2, <2>3 DEF CacheInv
<1>7. QED
  BY <1>5, <1>6

\* The process restarts: no removal was missed only if none was due.
LEMMA RestartStep ==
    ASSUME CacheInv, CacheRestart
    PROVE  CacheInv'
<1>1. /\ UNCHANGED <<writtenAt, now>> /\ entry' \in {entry, NoEntry} /\ timers' = {}
      /\ reader' = [r \in Readers |-> Resting] /\ writer' = [w \in Writers |-> Resting]
  BY DEF CacheRestart
<1>2. missed' \in BOOLEAN
      /\ (~missed' => ~missed /\ timers = {} /\ \A w \in Writers : writer[w].pc # "delete")
  BY DEF CacheRestart
<1>3. Rows' /\ Timers' /\ Row' = Row
  BY <1>1, <1>2 DEF CacheInv, Rows, Timers, Row
<1>4. Entry(entry)'
  BY <1>1, <1>3 DEF CacheInv, Entry, NoEntry
<1>5. Requests'
  BY <1>1 DEF Requests, Loaded, Deletes, Resting, Work
<1>6. ASSUME ~missed', NEW v \in 1 .. Row PROVE Gone(v)'
  <2>1. Gone(v)
    BY <1>2, <1>6 DEF CacheInv, EveryRemoved, Removed, DeletePending, TimerPending
  <2>2. QED
    BY <1>1, <2>1 DEF Gone, NoEntry, Resting
<1>7. QED
  BY <1>3, <1>4, <1>5, <1>6 DEF CacheInv, EveryRemoved, Removed

\* Time passes, no further than the bounds allow.
LEMMA TickStep ==
    ASSUME CacheInv, CacheTick
    PROVE  CacheInv'
<1>1. now' = now + 1 /\ UNCHANGED <<writtenAt, entry, reader, writer, timers, missed>>
  BY DEF CacheTick
<1>2. /\ now \in Nat /\ Row' = Row /\ timers \subseteq Nat
      /\ \A v \in 1 .. Row : writtenAt[v] \in Nat /\ writtenAt[v] <= now
  BY <1>1, ElementOfSeq DEF CacheInv, Rows, Timers, Row
<1>3. Rows' /\ Timers'
  BY <1>1, <1>2 DEF CacheInv, Rows, Timers, CacheTick
<1>4. Entry(entry)'
  BY <1>1, <1>2, ReadCacheAssumption DEF CacheInv, Entry
<1>5. Requests'
  <2>1. ASSUME NEW r \in Readers PROVE Loaded(reader[r])'
    <3>1. /\ Loaded(reader[r]) /\ reader[r] \in Work
          /\ reader[r].pc = "set" => now < reader[r].since + MaxLoad
      BY DEF CacheInv, Requests, CacheTick
    <3>2. QED
      BY <1>1, <1>2, <3>1, ReadCacheAssumption DEF Loaded, Work
  <2>2. ASSUME NEW w \in Writers PROVE Deletes(writer[w])'
    <3>1. /\ Deletes(writer[w]) /\ writer[w] \in Work
          /\ writer[w].pc = "delete" => now < writer[w].since + MaxDelete
      BY DEF CacheInv, Requests, CacheTick
    <3>2. QED
      BY <1>1, <1>2, <3>1, ReadCacheAssumption DEF Deletes, Work
  <2>3. QED
    BY <1>1, <2>1, <2>2 DEF CacheInv, Requests
<1>6. EveryRemoved'
  BY <1>1, <1>2 DEF CacheInv, EveryRemoved, Removed, DeletePending, TimerPending, Gone
<1>7. QED
  BY <1>3, <1>4, <1>5, <1>6 DEF CacheInv

\* An answer, or nothing: no row, entry or request is touched.
LEMMA QuietStep ==
    ASSUME CacheInv, UNCHANGED <<writtenAt, entry, reader, writer, timers, missed, now>>
    PROVE  CacheInv'
BY DEF CacheInv, Rows, Timers, Requests, Loaded, Deletes, Entry, EveryRemoved, Removed,
       DeletePending, TimerPending, Gone, Row

\* Every step keeps the invariant.
LEMMA CacheStep == CacheInv /\ [CacheNext]_cacheVars => CacheInv'
<1> SUFFICES ASSUME CacheInv, [CacheNext]_cacheVars PROVE CacheInv'
  OBVIOUS
<1>1. CASE \E r \in Readers : AnswerFromCache(r)
  BY <1>1, QuietStep DEF AnswerFromCache
<1>2. CASE \E r \in Readers : Load(r) \/ StoreLoaded(r)
  BY <1>2, ReaderStep
<1>3. CASE (\E w \in Writers : WriteRow(w)) \/ WriteBehind
  BY <1>3, WriteStep
<1>4. CASE (\E w \in Writers : Invalidate(w)) \/ DeleteAgain
  BY <1>4, DeleteStep
<1>5. CASE UNCHANGED cacheVars
  BY <1>5, QuietStep DEF cacheVars
<1>6. QED
  BY <1>1, <1>2, <1>3, <1>4, <1>5, RestartStep, TickStep DEF CacheNext

-----------------------------------------------------------------------------
\* What the invariant says of an entry that is answered with.
LEMMA HitIsFresh ==
    ASSUME CacheInv, Hit
    PROVE  /\ entry.value \in 1 .. Row
           /\ entry.value < Row =>
                now - writtenAt[entry.value + 1]
                  <= IF missed THEN Ttl + MaxLoad ELSE MaxDelete + SecondDelete
<1>1. /\ entry \in [value : Nat, expiresAt : Nat] /\ entry.value \in 1 .. Row
      /\ \A v \in entry.value + 1 .. Row : entry.expiresAt <= writtenAt[v] + MaxLoad + Ttl
      /\ now < entry.expiresAt /\ now \in Nat /\ Row \in Nat
  BY DEF CacheInv, Entry, Hit, Rows, Row
<1> SUFFICES ASSUME entry.value < Row
             PROVE  now - writtenAt[entry.value + 1]
                      <= IF missed THEN Ttl + MaxLoad ELSE MaxDelete + SecondDelete
  BY <1>1
<1> DEFINE v == entry.value + 1
<1>2. v \in 1 .. Row /\ v \in entry.value + 1 .. Row /\ ~(v <= entry.value)
  BY <1>1
<1>3. writtenAt[v] \in Nat
  BY <1>2, ElementOfSeq DEF CacheInv, Rows, Row
<1>4. CASE missed
  BY <1>1, <1>2, <1>3, <1>4, ReadCacheAssumption
<1>5. CASE ~missed
  <2>1. DeletePending(v) \/ TimerPending(v)
    BY <1>1, <1>2, <1>5 DEF CacheInv, EveryRemoved, Removed, Gone
  <2>2. CASE DeletePending(v)
    <3>1. PICK w \in Writers : writer[w].pc = "delete" /\ writer[w].since = writtenAt[v]
      BY <2>2 DEF DeletePending
    <3>2. now <= writtenAt[v] + MaxDelete
      BY <3>1 DEF CacheInv, Requests, Deletes
    <3>3. QED
      BY <1>1, <1>3, <1>5, <3>2, ReadCacheAssumption
  <2>3. CASE TimerPending(v)
    <3>1. PICK t \in timers : t <= writtenAt[v] + MaxDelete + SecondDelete
      BY <2>3 DEF TimerPending
    <3>2. t \in Nat /\ now <= t
      BY DEF CacheInv, Timers
    <3>3. QED
      BY <1>1, <1>3, <1>5, <3>1, <3>2, ReadCacheAssumption
  <2>4. QED
    BY <2>1, <2>2, <2>3
<1>6. QED
  BY <1>4, <1>5

\* An answer is one that StaleReads gives.
LEMMA AnswerRefines ==
    ASSUME CacheInv, NEW r \in Readers, AnswerFromCache(r) \/ Load(r)
    PROVE  Promise!Answer
<1>1. Row \in Nat /\ Row >= 1 /\ UNCHANGED <<writtenAt, missed, now>>
  BY DEF CacheInv, Rows, Row, AnswerFromCache, Load
<1>2. CASE AnswerFromCache(r)
  <2>1. Hit /\ answer' = [value |-> entry.value, at |-> now]
    BY <1>2 DEF AnswerFromCache
  <2>2. QED
    BY <1>1, <2>1, HitIsFresh DEF Promise!Answer, Promise!Current, Row
<1>3. CASE Load(r)
  <2>1. answer' = [value |-> Row, at |-> now]
    BY <1>3 DEF Load
  <2>2. QED
    BY <1>1, <2>1 DEF Promise!Answer, Promise!Current, Row
<1>4. QED
  BY <1>2, <1>3

\* Every step is one of StaleReads or changes nothing that it speaks of.
LEMMA StepRefines == CacheInv /\ [CacheNext]_cacheVars => [Promise!Next]_(Promise!abstractVars)
<1> SUFFICES ASSUME CacheInv, [CacheNext]_cacheVars
             PROVE  Promise!Next \/ UNCHANGED <<writtenAt, answer, missed, now>>
  BY DEF Promise!abstractVars
<1>1. CASE \E r \in Readers : AnswerFromCache(r) \/ Load(r)
  BY <1>1, AnswerRefines DEF Promise!Next
<1>2. CASE \E w \in Writers : WriteRow(w)
  BY <1>2 DEF WriteRow, Promise!Next, Promise!Write
<1>3. CASE WriteBehind
  BY <1>3 DEF WriteBehind, Promise!Next, Promise!Write
<1>4. CASE (\E w \in Writers : Invalidate(w)) \/ DeleteAgain
  BY <1>4 DEF Invalidate, DeleteAgain, Delete, Promise!Next, Promise!Miss
<1>5. CASE CacheRestart
  <2>1. missed' = TRUE \/ missed' = missed
    BY <1>5 DEF CacheRestart, CacheInv, Rows
  <2>2. QED
    BY <1>5, <2>1 DEF CacheRestart, Promise!Next, Promise!Miss
<1>6. CASE CacheTick
  BY <1>6 DEF CacheTick, Promise!Next, Promise!Tick
<1>7. CASE (\E r \in Readers : StoreLoaded(r)) \/ UNCHANGED cacheVars
  BY <1>7 DEF StoreLoaded, cacheVars
<1>8. QED
  BY <1>1, <1>2, <1>3, <1>4, <1>5, <1>6, <1>7 DEF CacheNext

\* The cache keeps the promise of StaleReads: while no removal of the key was missed an answer is
\* out of date by at most the first delete and SECOND_DELETE_MS, and by at most the lifetime of an
\* entry and its load otherwise, whatever readers, writers, failing deletes and restarts do.
THEOREM CacheKeepsPromise == CacheSpec => ReadsAreFresh
<1>1. CacheInit => Promise!Init
  BY DEF CacheInit, Promise!Init
<1>2. QED
  BY <1>1, CacheStart, CacheStep, StepRefines, PTL DEF CacheSpec, ReadsAreFresh, Promise!Spec
=============================================================================
