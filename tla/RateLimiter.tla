----------------------------- MODULE RateLimiter -----------------------------
(***************************************************************************)
(* The token bucket in front of the expensive release endpoints            *)
(* (middleware/ratelimit.go), for the callers of one entry of the map.     *)
(*                                                                         *)
(* allow() reads the clock before it takes the mutex, so callers can enter *)
(* with a time older than the bucket's: the elapsed time is then negative  *)
(* and the bucket's clock goes back.                                       *)
(*                                                                         *)
(* Tokens are counted in the time they take to come back: one token costs  *)
(* Cost = 1/rps ticks and the bucket holds at most Full = burst/rps ticks, *)
(* so that the refill of an elapsed time is that time.                     *)
(***************************************************************************)
EXTENDS Integers

CONSTANTS
  Callers,      \* goroutines calling allow with the key
  Cost,         \* ticks until one token is back (1/rps)
  Full,         \* ticks until an empty bucket is full (burst/rps)
  MaxClock      \* bound: last instant the model reaches

ASSUME BucketAssumption == Cost \in Nat \ {0} /\ Full \in Nat /\ Cost <= Full
ASSUME ClockAssumption == MaxClock \in Nat

VARIABLES
  now,          \* the clock
  known,        \* the map has an entry for the key
  tokens,       \* bucket.tokens
  last,         \* bucket.last
  pc,           \* "idle", or "lock": the clock is read, the mutex not yet held
  sample,       \* the time each caller read
  verdict,      \* what the call returned last: "none", "yes", "no"
  peak,         \* latest sample the bucket has seen (ghost)
  opened,       \* start of the observed window (ghost)
  spent         \* tokens handed out in the observed window (ghost)

bucket == <<known, tokens, last>>
vars == <<now, bucket, pc, sample, verdict, peak, opened, spent>>

Init ==
  /\ now = 0 /\ known = FALSE /\ tokens = 0 /\ last = 0
  /\ pc = [c \in Callers |-> "idle"]
  /\ sample = [c \in Callers |-> 0]
  /\ verdict = [c \in Callers |-> "none"]
  /\ peak = 0 /\ opened = 0 /\ spent = 0

LesserOf(a, b) == IF a <= b THEN a ELSE b
LaterOf(a, b) == IF a <= b THEN b ELSE a

\* now := time.Now(), before r.mu.Lock().
Call(c) ==
  /\ pc[c] = "idle"
  /\ pc' = [pc EXCEPT ![c] = "lock"]
  /\ sample' = [sample EXCEPT ![c] = now]
  /\ verdict' = [verdict EXCEPT ![c] = "none"]
  /\ UNCHANGED <<now, bucket, peak, opened, spent>>

Return(c, v) ==
  /\ pc' = [pc EXCEPT ![c] = "idle"]
  /\ verdict' = [verdict EXCEPT ![c] = v]
  /\ last' = sample[c]
  /\ peak' = IF known THEN LaterOf(peak, sample[c]) ELSE sample[c]
  /\ spent' = IF v = "yes" THEN spent + Cost ELSE spent
  /\ UNCHANGED <<now, sample, opened>>

\* The key is new: a full bucket less this call's token.
FirstCall(c) ==
  /\ pc[c] = "lock" /\ ~known
  /\ known' = TRUE /\ tokens' = Full - Cost
  /\ Return(c, "yes")

(* Planted faults: no part of Next. *)

\* No cap at burst.
RefilledUncapped(c) == tokens + (sample[c] - last)

\* A negative elapsed time taken for none, although bucket.last still goes back.
RefilledClamped(c) == LesserOf(Full, tokens + LaterOf(0, sample[c] - last))

\* A refused call is charged as well.
DenyCharging(c) ==
  /\ pc[c] = "lock" /\ known /\ tokens + (sample[c] - last) < Cost
  /\ tokens' = tokens + (sample[c] - last) - 1
  /\ Return(c, "no")
  /\ UNCHANGED known

\* The bucket after the elapsed time, which may be negative, is credited.
Refilled(c) == LesserOf(Full, tokens + (sample[c] - last))

Admit(c) ==
  /\ pc[c] = "lock" /\ known /\ Refilled(c) >= Cost
  /\ tokens' = Refilled(c) - Cost
  /\ Return(c, "yes")
  /\ UNCHANGED known

Deny(c) ==
  /\ pc[c] = "lock" /\ known /\ Refilled(c) < Cost
  /\ tokens' = Refilled(c)
  /\ Return(c, "no")
  /\ UNCHANGED known

\* An observer starts counting.  Calls whose clock reading is older than this
\* instant may still be waiting for the mutex: the window begins with the
\* oldest of them.
OpenWindow ==
  /\ \E t \in 0 .. now :
       /\ t = now \/ \E c \in Callers : pc[c] = "lock" /\ sample[c] = t
       /\ \A c \in Callers : pc[c] = "lock" => t <= sample[c]
       /\ opened' = t
  /\ spent' = 0
  /\ UNCHANGED <<now, bucket, pc, sample, verdict, peak>>

Tick ==
  /\ now < MaxClock /\ now' = now + 1
  /\ UNCHANGED <<bucket, pc, sample, verdict, peak, opened, spent>>

Next ==
  \/ \E c \in Callers : Call(c) \/ FirstCall(c) \/ Admit(c) \/ Deny(c)
  \/ OpenWindow \/ Tick

Spec == Init /\ [][Next]_vars

---------------------------------------------------------------------------
(* Properties *)

(***************************************************************************)
(* The type of every variable; the bucket is never above burst, and below  *)
(* zero only by the time its clock went back.                              *)
(***************************************************************************)
TypeOK ==
  /\ now \in 0 .. MaxClock
  /\ known \in BOOLEAN
  /\ tokens \in Int /\ tokens <= Full
  /\ last \in 0 .. MaxClock
  /\ pc \in [Callers -> {"idle", "lock"}]
  /\ sample \in [Callers -> 0 .. MaxClock]
  /\ verdict \in [Callers -> {"none", "yes", "no"}]
  /\ peak \in 0 .. MaxClock /\ opened \in 0 .. MaxClock
  /\ spent \in Nat

(***************************************************************************)
(* The limit the limiter is there for, over every window of time: calls    *)
(* allowed since the window opened cost at most one full bucket and what   *)
(* flowed in since, in whatever order callers that read the clock early    *)
(* get the mutex (ratelimit.go:42 reads it before line 43 locks).          *)
(***************************************************************************)
WindowBound == spent <= Full + (now - opened)

(***************************************************************************)
(* Nobody who waits long enough is refused: a call whose clock reading is  *)
(* one token's refill time after every earlier one is allowed, however     *)
(* often the bucket was asked in between and however its clock went back.  *)
(***************************************************************************)
PatientCallerAdmitted ==
  [][\A c \in Callers :
       verdict[c] = "none" /\ verdict'[c] = "no" => sample[c] < peak + Cost]_vars
=============================================================================
