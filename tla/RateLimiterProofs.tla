-------------------------- MODULE RateLimiterProofs --------------------------
(***************************************************************************)
(* Proofs about RateLimiter, for any callers, rate, burst and clock.       *)
(*                                                                         *)
(* The bucket's own clock (last) may go back, but what it holds plus the   *)
(* time it went back,                                                      *)
(*     Level = tokens + (peak - last),                                     *)
(* behaves like the tokens of a bucket whose clock only goes forward: a    *)
(* late caller leaves it alone, a caller with a new peak refills it.       *)
(***************************************************************************)
EXTENDS RateLimiter, TLAPS

Level == tokens + (peak - last)

\* The ghosts keep to the clock.
ClockInv ==
  /\ peak <= now /\ opened <= now /\ last <= peak
  /\ \A c \in Callers : sample[c] <= now /\ (pc[c] = "lock" => opened <= sample[c])

\* A bucket holds between nothing and burst.
LevelInv == known => 0 <= Level /\ Level <= Full

\* What was handed out in the window and what is left came from one full
\* bucket and the time that flowed in.
WindowInv ==
  /\ peak < opened \/ ~known => spent = 0
  /\ known => spent + Level <= Full + (LaterOf(peak, opened) - opened)

IInv == TypeOK /\ ClockInv /\ LevelInv /\ WindowInv

USE BucketAssumption, ClockAssumption

---------------------------------------------------------------------------
(* One call of allow(), by what it does to Level *)

\* The level caller c finds: refilled if its sample is the newest one.
Found(c) ==
  IF sample[c] <= peak THEN Level ELSE LesserOf(Full, Level + (sample[c] - peak))

(***************************************************************************)
(* The credit allow() computes is the level found, less the time the       *)
(* caller's clock reading is behind the newest one.                        *)
(***************************************************************************)
LEMMA RefilledLevel ==
  ASSUME IInv, known, NEW c \in Callers
  PROVE  /\ Refilled(c) \in Int /\ Found(c) \in Int
         /\ 0 <= Found(c) /\ Found(c) <= Full
         /\ Refilled(c) = Found(c) - (LaterOf(peak, sample[c]) - sample[c])
  BY DEF IInv, TypeOK, ClockInv, LevelInv, Level, Refilled, Found, LesserOf, LaterOf

(***************************************************************************)
(* A call that finds an entry takes paid = 0 or Cost out of the credit.    *)
(***************************************************************************)
LEMMA CallStep ==
  ASSUME IInv, NEW c \in Callers, Admit(c) \/ Deny(c)
  PROVE  \E paid \in {0, Cost} :
           /\ paid <= Refilled(c) \/ paid = 0
           /\ tokens' = Refilled(c) - paid /\ spent' = spent + paid
<1>1. tokens \in Int /\ spent \in Nat /\ Refilled(c) \in Int
  BY RefilledLevel DEF IInv, TypeOK, Admit, Deny
<1>2. CASE Admit(c)
  BY <1>1, <1>2 DEF Admit, Return
<1>3. CASE Deny(c)
  BY <1>1, <1>3 DEF Deny, Return
<1>4. QED
  BY <1>2, <1>3

(***************************************************************************)
(* The arithmetic of a call: after paying, the level is between nothing    *)
(* and burst, and the window's account still balances.                     *)
(***************************************************************************)
LEMMA CallArithmetic ==
  ASSUME IInv, known, NEW c \in Callers, pc[c] = "lock",
         NEW paid \in {0, Cost}, paid <= Refilled(c) \/ paid = 0
  PROVE  LET top == LaterOf(peak, sample[c])
             left == Refilled(c) - paid
         IN  /\ left \in Int /\ left <= Full /\ top \in Int /\ ~(top < opened)
             /\ 0 <= left + (top - sample[c]) /\ left + (top - sample[c]) <= Full
             /\ (spent + paid) + (left + (top - sample[c]))
                  <= Full + (LaterOf(top, opened) - opened)
<1>1. /\ Refilled(c) \in Int /\ Found(c) \in Int
      /\ 0 <= Found(c) /\ Found(c) <= Full
      /\ Refilled(c) = Found(c) - (LaterOf(peak, sample[c]) - sample[c])
  BY RefilledLevel
<1>2. /\ peak \in Nat /\ opened \in Nat /\ sample[c] \in Nat /\ opened <= sample[c]
      /\ spent \in Nat /\ tokens \in Int /\ last \in Nat
  BY DEF IInv, TypeOK, ClockInv
<1>3. /\ peak < opened => spent = 0
      /\ spent + Level <= Full + (LaterOf(peak, opened) - opened)
      /\ Level \in Int /\ 0 <= Level /\ Level <= Full
  BY <1>2 DEF IInv, WindowInv, LevelInv, Level
<1>4. CASE sample[c] <= peak
  <2>1. Found(c) = Level /\ LaterOf(peak, sample[c]) = peak /\ LaterOf(peak, opened) = peak
    BY <1>2, <1>4 DEF Found, LaterOf
  <2>2. QED
    BY <1>1, <1>2, <1>3, <1>4, <2>1
<1>5. CASE sample[c] > peak
  <2>1. /\ Found(c) <= Level + (sample[c] - peak)
        /\ LaterOf(peak, sample[c]) = sample[c] /\ LaterOf(sample[c], opened) = sample[c]
    BY <1>2, <1>3, <1>5 DEF Found, LesserOf, LaterOf
  <2>2. CASE peak < opened
    BY <1>1, <1>2, <1>3, <1>5, <2>1, <2>2
  <2>3. CASE opened <= peak
    <3>1. LaterOf(peak, opened) = peak
      BY <1>2, <2>3 DEF LaterOf
    <3>2. QED
      BY <1>1, <1>2, <1>3, <1>5, <2>1, <2>3, <3>1
  <2>4. QED
    BY <1>2, <2>2, <2>3
<1>6. QED
  BY <1>2, <1>4, <1>5

---------------------------------------------------------------------------
(* The inductive invariant *)

(***************************************************************************)
(* A call under the mutex keeps the whole invariant.                       *)
(***************************************************************************)
LEMMA CallKeepsInv ==
  ASSUME IInv, NEW c \in Callers, Admit(c) \/ Deny(c)
  PROVE  IInv'
<1>1. PICK paid \in {0, Cost} :
        /\ paid <= Refilled(c) \/ paid = 0
        /\ tokens' = Refilled(c) - paid /\ spent' = spent + paid
  BY CallStep
<1>2. /\ pc[c] = "lock" /\ known /\ known' = known /\ now' = now /\ opened' = opened
      /\ sample' = sample /\ last' = sample[c] /\ peak' = LaterOf(peak, sample[c])
      /\ pc' = [pc EXCEPT ![c] = "idle"]
      /\ verdict' \in [Callers -> {"none", "yes", "no"}]
  BY DEF Admit, Deny, Return, IInv, TypeOK
<1> DEFINE top == LaterOf(peak, sample[c])
           left == Refilled(c) - paid
           due == spent + paid
<1>3. /\ left \in Int /\ left <= Full /\ top \in Int /\ ~(top < opened)
      /\ 0 <= left + (top - sample[c]) /\ left + (top - sample[c]) <= Full
      /\ due + (left + (top - sample[c])) <= Full + (LaterOf(top, opened) - opened)
  BY <1>1, <1>2, CallArithmetic
<1>4. /\ top \in 0 .. MaxClock /\ top <= now /\ sample[c] <= top /\ due \in Nat
      /\ sample[c] \in 0 .. MaxClock
  BY DEF IInv, TypeOK, ClockInv, LaterOf
<1>5. tokens' = left /\ spent' = due /\ peak' = top
  BY <1>1, <1>2
<1> HIDE DEF top, left, due
<1>6. TypeOK'
  BY <1>2, <1>3, <1>4, <1>5 DEF IInv, TypeOK
<1>7. ClockInv'
  BY <1>2, <1>4, <1>5 DEF IInv, TypeOK, ClockInv
<1>8. LevelInv'
  BY <1>2, <1>3, <1>5 DEF LevelInv, Level
<1>9. WindowInv'
  BY <1>2, <1>3, <1>5 DEF WindowInv, Level, LaterOf
<1>10. QED
  BY <1>6, <1>7, <1>8, <1>9 DEF IInv

(***************************************************************************)
(* A new key starts with a full bucket less one token.                     *)
(***************************************************************************)
LEMMA FirstCallKeepsInv ==
  ASSUME IInv, NEW c \in Callers, FirstCall(c)
  PROVE  IInv'
<1>1. /\ pc[c] = "lock" /\ ~known /\ known' = TRUE /\ now' = now /\ opened' = opened
      /\ sample' = sample /\ last' = sample[c] /\ peak' = sample[c]
      /\ tokens' = Full - Cost /\ spent' = spent + Cost
      /\ pc' = [pc EXCEPT ![c] = "idle"]
      /\ verdict' \in [Callers -> {"none", "yes", "no"}]
  BY DEF FirstCall, Return, IInv, TypeOK
<1>2. /\ sample[c] \in 0 .. MaxClock /\ sample[c] <= now /\ opened <= sample[c]
      /\ opened \in Nat /\ spent = 0 /\ now \in Nat
  BY <1>1 DEF IInv, TypeOK, ClockInv, WindowInv
<1>3. spent' = Cost
  BY <1>1, <1>2
<1>4. TypeOK'
  BY <1>1, <1>2, <1>3 DEF IInv, TypeOK
<1>5. ClockInv'
  BY <1>1, <1>2 DEF IInv, TypeOK, ClockInv
<1>6. LevelInv'
  <2>1. /\ (Full - Cost) + (sample[c] - sample[c]) = Full - Cost
        /\ 0 <= Full - Cost /\ Full - Cost <= Full
    BY <1>2
  <2>2. QED
    BY <1>1, <2>1 DEF LevelInv, Level
<1>7. WindowInv'
  <2>1. /\ Cost + ((Full - Cost) + (sample[c] - sample[c]))
             <= Full + (LaterOf(sample[c], opened) - opened)
        /\ ~(sample[c] < opened)
    BY <1>2 DEF LaterOf
  <2>2. QED
    BY <1>1, <1>3, <2>1 DEF WindowInv, Level, LaterOf
<1>8. QED
  BY <1>4, <1>5, <1>6, <1>7 DEF IInv

(***************************************************************************)
(* A new window starts with nothing spent.                                 *)
(***************************************************************************)
LEMMA OpenKeepsInv ==
  ASSUME IInv, OpenWindow
  PROVE  IInv'
<1>1. PICK t \in 0 .. now : /\ opened' = t
                            /\ \A c \in Callers : pc[c] = "lock" => t <= sample[c]
  BY DEF OpenWindow
<1>2. spent' = 0 /\ UNCHANGED <<now, bucket, pc, sample, verdict, peak>>
  BY DEF OpenWindow
<1>3. known => 0 + Level <= Full + (LaterOf(peak, t) - t)
  BY DEF IInv, LevelInv, LaterOf, TypeOK, Level
<1>4. TypeOK' /\ ClockInv' /\ LevelInv'
  BY <1>1, <1>2 DEF IInv, TypeOK, ClockInv, LevelInv, Level, bucket
<1>5. WindowInv'
  BY <1>1, <1>2, <1>3 DEF WindowInv, Level, LaterOf, bucket
<1>6. QED
  BY <1>4, <1>5 DEF IInv

(***************************************************************************)
(* The invariant of the bucket holds in every reachable state.             *)
(***************************************************************************)
THEOREM Invariance == Spec => []IInv
<1>1. Init => IInv
  <2> SUFFICES ASSUME Init PROVE IInv
    OBVIOUS
  <2>1. TypeOK
    <3>1. known \in BOOLEAN
      BY Zenon DEF Init
    <3>2. 0 \in 0 .. MaxClock /\ 0 \in Int /\ 0 <= Full
      OBVIOUS
    <3>3. QED
      BY <3>1, <3>2 DEF Init, TypeOK
  <2>2. ClockInv /\ LevelInv /\ WindowInv
    BY DEF Init, ClockInv, LevelInv, WindowInv
  <2>3. QED
    BY <2>1, <2>2 DEF IInv
<1>2. IInv /\ [Next]_vars => IInv'
  <2> SUFFICES ASSUME IInv, [Next]_vars PROVE IInv'
    OBVIOUS
  <2>1. ASSUME NEW c \in Callers, Call(c)
        PROVE  IInv'
    BY <2>1 DEF Call, IInv, TypeOK, ClockInv, LevelInv, WindowInv, Level, LaterOf, bucket
  <2>2. ASSUME NEW c \in Callers, FirstCall(c)
        PROVE  IInv'
    BY <2>2, FirstCallKeepsInv
  <2>3. ASSUME NEW c \in Callers, Admit(c) \/ Deny(c)
        PROVE  IInv'
    BY <2>3, CallKeepsInv
  <2>4. CASE OpenWindow
    BY <2>4, OpenKeepsInv
  <2>5. CASE Tick
    BY <2>5 DEF Tick, IInv, TypeOK, ClockInv, LevelInv, WindowInv, Level, LaterOf, bucket
  <2>6. CASE UNCHANGED vars
    BY <2>6 DEF vars, IInv, TypeOK, ClockInv, LevelInv, WindowInv, Level, LaterOf, bucket
  <2>7. QED
    BY <2>1, <2>2, <2>3, <2>4, <2>5, <2>6 DEF Next
<1>3. QED
  BY <1>1, <1>2, PTL DEF Spec

(***************************************************************************)
(* The variables have their types; the bucket never holds more than burst. *)
(***************************************************************************)
THEOREM TypeCorrect == Spec => []TypeOK
<1>1. IInv => TypeOK
  BY DEF IInv
<1>2. QED
  BY Invariance, <1>1, PTL

(***************************************************************************)
(* In every window the calls allowed cost at most one full bucket and the  *)
(* time since the window opened, for any rate, burst and number of         *)
(* callers, and whatever order they get the mutex in.                      *)
(***************************************************************************)
THEOREM WindowIsBounded == Spec => []WindowBound
<1>1. IInv => WindowBound
  BY DEF IInv, TypeOK, ClockInv, LevelInv, WindowInv, WindowBound, Level, LaterOf
<1>2. QED
  BY Invariance, <1>1, PTL

(***************************************************************************)
(* A call whose clock reading is a token's refill time after all earlier   *)
(* ones is allowed.                                                        *)
(***************************************************************************)
THEOREM PatienceIsRewarded == Spec => PatientCallerAdmitted
<1>1. ASSUME IInv, [Next]_vars, NEW c \in Callers, verdict[c] = "none", verdict'[c] = "no"
      PROVE  sample[c] < peak + Cost
  <2>1. Deny(c)
    BY <1>1 DEF Next, vars, Call, FirstCall, Admit, Deny, Return, OpenWindow, Tick, IInv, TypeOK
  <2>2. known /\ Refilled(c) < Cost
    BY <2>1 DEF Deny
  <2>3. QED
    BY <1>1, <2>2 DEF Refilled, LesserOf, IInv, TypeOK, ClockInv, LevelInv, Level
<1>2. IInv /\ [Next]_vars =>
        [\A c \in Callers :
           verdict[c] = "none" /\ verdict'[c] = "no" => sample[c] < peak + Cost]_vars
  BY <1>1
<1>3. QED
  BY Invariance, <1>2, PTL DEF Spec, PatientCallerAdmitted
=============================================================================
