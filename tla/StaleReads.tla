----------------------------- MODULE StaleReads -----------------------------
(***************************************************************************)
(* What the read-through cache promises to whoever reads through it: a     *)
(* value that is current, or that was until a bounded time ago.  The bound *)
(* is short as long as every write has removed the key, and the lifetime   *)
(* of an entry ("TTL chỉ là lưới an toàn") once some removal was missed.   *)
(***************************************************************************)
EXTENDS Naturals, Sequences

CONSTANTS Short,        \* delay when every write removed the key
          Long          \* delay when a removal may have been missed

VARIABLES writtenAt,    \* when each version of the value was written
          answer,       \* the last answer: a version and the time it was given
          missed,       \* a removal was missed
          now

abstractVars == <<writtenAt, answer, missed, now>>

Current == Len(writtenAt)

Init == /\ writtenAt = <<0>>
        /\ answer = [value |-> 1, at |-> 0]
        /\ missed = FALSE
        /\ now = 0

Write == /\ writtenAt' = Append(writtenAt, now)
         /\ missed' \in {missed, TRUE}
         /\ UNCHANGED <<answer, now>>

Miss == missed' = TRUE /\ UNCHANGED <<writtenAt, answer, now>>

Answer == \E v \in 1 .. Current :
  /\ v < Current => now - writtenAt[v + 1] <= (IF missed THEN Long ELSE Short)
  /\ answer' = [value |-> v, at |-> now]
  /\ UNCHANGED <<writtenAt, missed, now>>

Tick == now' = now + 1 /\ UNCHANGED <<writtenAt, answer, missed>>

Next == Write \/ Miss \/ Answer \/ Tick

Spec == Init /\ [][Next]_abstractVars
=============================================================================
