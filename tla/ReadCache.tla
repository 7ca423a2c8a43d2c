----------------------------- MODULE ReadCache ------------------------------
(***************************************************************************)
(* CacheService over its store, for one key: task types, the labels of a   *)
(* board, or the list of projects of a user.  Readers call wrap, writers   *)
(* change the row and call invalidate.  A row is its version number.       *)
(* The store may fail each command, and the process may restart.           *)
(***************************************************************************)
EXTENDS Naturals, Sequences, FiniteSets

CONSTANTS Readers, Writers,
          Ttl,            \* CACHE_TTL of the key, in ticks
          SecondDelete,   \* SECOND_DELETE_MS
          MaxLoad,        \* longest time from a load to the end of its set
          MaxDelete,      \* longest time from a write to the end of its first delete
          MaxVersions, MaxNow   \* bounds

\* "Longer than the slowest read under way when the write deletes the key."
ASSUME ReadCacheAssumption ==
  /\ Ttl \in Nat \ {0} /\ SecondDelete \in Nat /\ MaxLoad \in Nat /\ MaxDelete \in Nat
  /\ MaxLoad < SecondDelete

VARIABLES writtenAt,      \* the row: when each of its versions was written
          entry,          \* the entry of the key in the store
          reader,         \* wrap under way
          writer,         \* invalidate under way
          timers,         \* when the second deletes are due
          answer, missed, \* history: last answer given, a removal was missed
          now

cacheVars == <<writtenAt, entry, reader, writer, timers, answer, missed, now>>

-----------------------------------------------------------------------------
NoEntry == [value |-> 0, expiresAt |-> 0]
Resting == [pc |-> "idle", value |-> 0, since |-> 0]
Row == Len(writtenAt)

CacheInit ==
  /\ writtenAt = <<0>>
  /\ entry = NoEntry
  /\ reader = [r \in Readers |-> Resting]
  /\ writer = [w \in Writers |-> Resting]
  /\ timers = {}
  /\ answer = [value |-> 1, at |-> 0]
  /\ missed = FALSE
  /\ now = 0

Hit == entry.value # 0 /\ entry.expiresAt > now

-----------------------------------------------------------------------------
(* wrap: read, else load and answer, and store without being awaited. *)
AnswerFromCache(r) ==
  /\ reader[r].pc = "idle" /\ Hit
  /\ answer' = [value |-> entry.value, at |-> now]
  /\ UNCHANGED <<writtenAt, entry, reader, writer, timers, missed, now>>

\* A miss, or a get that failed: the request reads the database.
Load(r) ==
  /\ reader[r].pc = "idle"
  /\ answer' = [value |-> Row, at |-> now]
  /\ reader' = [reader EXCEPT ![r] = [pc |-> "set", value |-> Row, since |-> now]]
  /\ UNCHANGED <<writtenAt, entry, writer, timers, missed, now>>

Stored(value) == [value |-> value, expiresAt |-> now + Ttl]

\* The set arrives, or fails and is only logged.
StoreLoaded(r) ==
  /\ reader[r].pc = "set"
  /\ entry' \in {Stored(reader[r].value), entry}
  /\ reader' = [reader EXCEPT ![r] = Resting]
  /\ UNCHANGED <<writtenAt, writer, timers, answer, missed, now>>

(* The repositories write the row, then call invalidate. *)
WriteRow(w) ==
  /\ writer[w].pc = "idle" /\ Row < MaxVersions
  /\ writtenAt' = Append(writtenAt, now)
  /\ writer' = [writer EXCEPT ![w] = [pc |-> "delete", value |-> 0, since |-> now]]
  /\ UNCHANGED <<entry, reader, timers, answer, missed, now>>

\* Statistics in the list of projects: a write to tasks removes no key.
WriteBehind ==
  /\ Row < MaxVersions
  /\ writtenAt' = Append(writtenAt, now)
  /\ missed' = TRUE
  /\ UNCHANGED <<entry, reader, writer, timers, answer, now>>

\* delete() swallows the error of the store.
Delete == \/ entry' = NoEntry /\ UNCHANGED missed
          \/ missed' = TRUE /\ UNCHANGED entry

\* invalidate: delete now, and again later.
Invalidate_Once(w) ==
  /\ writer[w].pc = "delete"
  /\ Delete
  /\ writer' = [writer EXCEPT ![w] = Resting]
  /\ UNCHANGED <<writtenAt, reader, timers, answer, now>>
Invalidate(w) ==
  /\ writer[w].pc = "delete"
  /\ Delete
  /\ timers' = timers \cup {now + SecondDelete}
  /\ writer' = [writer EXCEPT ![w] = Resting]
  /\ UNCHANGED <<writtenAt, reader, answer, now>>

DeleteAgain ==
  /\ now \in timers
  /\ Delete
  /\ timers' = timers \ {now}
  /\ UNCHANGED <<writtenAt, reader, writer, answer, now>>

\* The process restarts: requests and timers are gone, and with MemoryCacheStore the
\* entries too.
CacheRestart ==
  /\ entry' \in {entry, NoEntry}
  /\ reader' = [r \in Readers |-> Resting]
  /\ writer' = [w \in Writers |-> Resting]
  /\ timers' = {}
  /\ missed' = (missed \/ timers # {} \/ \E w \in Writers : writer[w].pc = "delete")
  /\ UNCHANGED <<writtenAt, answer, now>>

\* Time passes as far as the bounds on loads, deletes and timers allow.
CacheTick ==
  /\ now < MaxNow
  /\ now \notin timers
  /\ \A r \in Readers : reader[r].pc = "set" => now < reader[r].since + MaxLoad
  /\ \A w \in Writers : writer[w].pc = "delete" => now < writer[w].since + MaxDelete
  /\ now' = now + 1
  /\ UNCHANGED <<writtenAt, entry, reader, writer, timers, answer, missed>>

CacheNext ==
  \/ \E r \in Readers : AnswerFromCache(r) \/ Load(r) \/ StoreLoaded(r)
  \/ \E w \in Writers : WriteRow(w) \/ Invalidate(w)
  \/ WriteBehind \/ DeleteAgain \/ CacheRestart \/ CacheTick

CacheSpec == CacheInit /\ [][CacheNext]_cacheVars

-----------------------------------------------------------------------------
(* The cache implements StaleReads: an answer is out of date by at most    *)
(* the first delete plus SECOND_DELETE_MS when no removal was missed, and  *)
(* by at most the lifetime of the entry plus its load otherwise.  The      *)
(* stale copy that a slow reader stores after the first delete is the case *)
(* the second delete is for (comment of cache.service.ts:48-53).           *)
Promise == INSTANCE StaleReads WITH
  Short <- MaxDelete + SecondDelete,
  Long <- Ttl + MaxLoad

ReadsAreFresh == Promise!Spec
=============================================================================
