------------------------- MODULE RateLimiterProofs -------------------------
(***************************************************************************)
(* What the rate limiter lets through and what it promises, proved for     *)
(* every number of requests, rate, burst, lag and skew of the clocks.      *)
(***************************************************************************)
EXTENDS RateLimiter, TLAPS

(* A reading under way is one of the clock's, not too old and not too far  *)
(* ahead.                                                                  *)
ReadingsAreRecent ==
  /\ now >= MaxLag
  /\ \A c \in Calls : call[c] = "sent" =>
       reading[c] >= now - MaxLag /\ reading[c] <= now + MaxAhead

(* A key lives long enough after its last reading to be full again, by     *)
(* any clock, when it expires.                                             *)
KeyOutlivesRefill == expires > 0 => ts + Ttl <= expires + MaxAhead

(* What was granted and what is left came from the burst and the refill.   *)
Budget ==
  /\ expires > 0 => spent + tokens <= Capacity + (ts - origin) + rewound + lent
  /\ expires = 0 => spent = 0

RateInv == TypeOK /\ ReadingsAreRecent /\ KeyOutlivesRefill /\ Budget

USE BucketAssumption DEF bucketVars, historyVars

(* The refill of a bucket never exceeds its capacity.                      *)
LEMMA RefilledType ==
  ASSUME TypeOK, NEW n \in Nat
  PROVE  Refilled(n) \in 0..Capacity
BY DEF TypeOK, Refilled, Elapsed

(* A reading that finds the key expired is a whole refill later than the   *)
(* last one, but for what the slack does not cover of its lateness.        *)
LEMMA ExpiredIsRefilled ==
  ASSUME RateInv, NEW c \in Calls, call[c] = "sent", expires > 0, ~Live
  PROVE  /\ Overdue(reading[c]) \in 0..Capacity
         /\ Overdue(reading[c]) < Capacity => reading[c] + Overdue(reading[c]) >= ts + Capacity
<1> DEFINE n == reading[c]
<1>1. /\ n \in Nat /\ now \in Nat /\ ts \in Nat /\ expires \in Nat
      /\ now >= expires /\ ts + Capacity + Slack <= expires + MaxAhead
  BY DEF RateInv, TypeOK, KeyOutlivesRefill, Live, Ttl
<1>2. Elapsed(now + MaxAhead, n + Slack) >= (now + MaxAhead) - (n + Slack)
  BY <1>1 DEF Elapsed
<1>3. Elapsed(now + MaxAhead, n + Slack) \in Nat
  BY <1>1 DEF Elapsed
<1> QED
  BY <1>1, <1>2, <1>3 DEF Overdue

(* What the script finds is paid for by the time since its last reading,   *)
(* or was lent to a reading that came too late.                            *)
LEMMA RefillIsPaid ==
  ASSUME RateInv, NEW c \in Calls, call[c] = "sent", Touch(reading[c])
  PROVE  /\ rewound' \in Nat /\ lent' \in Nat
         /\ spent + Refilled(reading[c]) <= Capacity + (ts' - origin') + rewound' + lent'
<1> DEFINE n == reading[c]
<1>1. n \in Nat /\ ts' = n /\ ts \in Nat /\ rewound' = rewound + Elapsed(ts, n)
  BY DEF RateInv, TypeOK, Touch
<1>2. CASE expires = 0
  <2>1. spent = 0 /\ origin' = n /\ rewound' \in Nat /\ lent' = lent /\ lent \in Nat
    BY <1>1, <1>2 DEF RateInv, Budget, Touch, TypeOK, Elapsed
  <2> QED
    BY <1>1, <2>1, RefilledType DEF RateInv
<1>3. CASE expires > 0 /\ Live
  <2>1. lent' = lent /\ origin' = origin
    BY <1>3 DEF RateInv, TypeOK, Touch
  <2> QED
    BY <1>1, <1>3, <2>1 DEF RateInv, TypeOK, Budget, Refilled, Elapsed
<1>4. CASE expires > 0 /\ ~Live
  <2>1. /\ Overdue(n) \in 0..Capacity
        /\ Overdue(n) < Capacity => n + Overdue(n) >= ts + Capacity
    BY <1>4, ExpiredIsRefilled
  <2>2. origin' = origin /\ lent' = lent + Overdue(n) /\ Refilled(n) = Capacity
    BY <1>4 DEF RateInv, TypeOK, Touch, Refilled
  <2>3. /\ spent + tokens <= Capacity + (ts - origin) + rewound + lent
        /\ {spent, tokens, origin, rewound, lent} \subseteq Nat
    BY <1>4 DEF RateInv, TypeOK, Budget
  <2>4. Elapsed(ts, n) \in Nat /\ n + Elapsed(ts, n) >= ts
    BY <1>1 DEF Elapsed
  <2>5. n + Elapsed(ts, n) + Overdue(n) >= ts + Capacity
    BY <1>1, <2>1, <2>4
  <2>6. spent + Capacity <= Capacity + (n - origin) + (rewound + Elapsed(ts, n)) + (lent + Overdue(n))
    BY <1>1, <2>1, <2>3, <2>4, <2>5
  <2> QED
    BY <1>1, <2>1, <2>2, <2>3, <2>4, <2>6
<1> QED
  BY <1>2, <1>3, <1>4 DEF RateInv, TypeOK

LEMMA RateInit == Init => RateInv
BY DEF Init, RateInv, TypeOK, ReadingsAreRecent, KeyOutlivesRefill, Budget

(* What Touch writes, whatever the script answers.                         *)
LEMMA TouchKeeps ==
  ASSUME RateInv, NEW c \in Calls, call[c] = "sent", Touch(reading[c]),
         now' = now
  PROVE  /\ ts' \in Nat /\ expires' \in Nat /\ origin' \in Nat
         /\ expires' > 0
         /\ KeyOutlivesRefill'
<1>1. reading[c] \in Nat /\ reading[c] <= now + MaxAhead
  BY DEF RateInv, TypeOK, ReadingsAreRecent
<1> QED
  BY <1>1 DEF RateInv, TypeOK, Touch, Elapsed, Ttl, KeyOutlivesRefill

LEMMA RateScript ==
  ASSUME RateInv, NEW c \in Calls, Grant(c) \/ Deny(c)
  PROVE  RateInv'
<1> DEFINE n == reading[c]
<1>1. /\ call[c] = "sent" /\ Touch(n) /\ now' = now /\ reading' = reading
      /\ \E o \in Outcomes : call' = [call EXCEPT ![c] = o]
  BY DEF Grant, Deny, Outcomes
<1>2. n \in Nat /\ Refilled(n) \in 0..Capacity
  BY RefilledType DEF RateInv, TypeOK
<1>3. /\ ts' \in Nat /\ expires' \in Nat /\ origin' \in Nat
      /\ expires' > 0 /\ KeyOutlivesRefill'
  BY <1>1, TouchKeeps
<1>4. /\ rewound' \in Nat /\ lent' \in Nat
      /\ spent + Refilled(n) <= Capacity + (ts' - origin') + rewound' + lent'
  BY <1>1, RefillIsPaid
<1>5. ReadingsAreRecent'
  BY <1>1 DEF RateInv, TypeOK, ReadingsAreRecent, Outcomes
<1>6. CASE Grant(c)
  <2>1. tokens' = Refilled(n) - Cost /\ spent' = spent + Cost /\ promises' = {}
        /\ Refilled(n) >= Cost
    BY <1>6 DEF Grant
  <2>2. tokens' \in 0..Capacity /\ spent' \in Nat /\ promises' \subseteq Nat
    BY <1>2, <2>1 DEF RateInv, TypeOK
  <2>3. spent' + tokens' = spent + Refilled(n)
    BY <1>2, <2>1 DEF RateInv, TypeOK
  <2>4. TypeOK'
    BY <1>1, <1>3, <1>4, <2>2 DEF RateInv, TypeOK, Outcomes
  <2>5. Budget'
    BY <1>3, <1>4, <2>3 DEF Budget
  <2> QED
    BY <1>3, <1>5, <2>4, <2>5 DEF RateInv
<1>7. CASE Deny(c)
  <2>1. tokens' = Refilled(n) /\ spent' = spent /\ Refilled(n) < Cost
        /\ promises' = promises \cup {n + (Cost - Refilled(n))}
    BY <1>7 DEF Deny
  <2>2. n + (Cost - Refilled(n)) \in Nat
    BY <1>2, <2>1
  <2>3. tokens' \in 0..Capacity /\ spent' \in Nat /\ promises' \subseteq Nat
    BY <1>2, <2>1, <2>2 DEF RateInv, TypeOK
  <2> QED
    BY <1>1, <1>3, <1>4, <1>5, <2>1, <2>3 DEF RateInv, TypeOK, Outcomes, Budget
<1> QED
  BY <1>6, <1>7

LEMMA RateStep == RateInv /\ [Next]_vars => RateInv'
<1> SUFFICES ASSUME RateInv, [Next]_vars PROVE RateInv'
  OBVIOUS
<1>1. ASSUME NEW c \in Calls, Request(c) PROVE RateInv'
  <2>1. \A n \in (now - MaxLag)..(now + MaxAhead) : n \in Nat
    BY DEF RateInv, TypeOK, ReadingsAreRecent
  <2> QED
    BY <1>1, <2>1
       DEF Request, RateInv, TypeOK, ReadingsAreRecent, KeyOutlivesRefill, Budget
<1>2. ASSUME NEW c \in Calls, Grant(c) \/ Deny(c) PROVE RateInv'
  BY <1>2, RateScript
<1>3. ASSUME NEW c \in Calls, FailOpen(c) PROVE RateInv'
  BY <1>3 DEF FailOpen, RateInv, TypeOK, ReadingsAreRecent, KeyOutlivesRefill,
              Budget, Outcomes
<1>4. CASE Tick
  BY <1>4 DEF Tick, RateInv, TypeOK, ReadingsAreRecent, KeyOutlivesRefill, Budget
<1>5. CASE UNCHANGED vars
  BY <1>5 DEF vars, RateInv, TypeOK, ReadingsAreRecent, KeyOutlivesRefill, Budget, Ttl
<1> QED
  BY <1>1, <1>2, <1>3, <1>4, <1>5 DEF Next

(* Every reachable state of the limiter has the type of its variables.     *)
THEOREM TypeCorrect == Spec => []TypeOK
<1>1. RateInv => TypeOK
  BY DEF RateInv
<1> QED
  BY RateInit, RateStep, <1>1, PTL DEF Spec

(* For every rate, burst and number of requests, however late, early or    *)
(* out of order their readings: grants stay within burst, refill, rewound  *)
(* time and what expiry lent to readings later than the slack.             *)
THEOREM GrantsAreBounded == Spec => []RateHolds
<1>1. RateInv => RateHolds
  BY DEF RateInv, Budget, RateHolds, TypeOK
<1> QED
  BY RateInit, RateStep, <1>1, PTL DEF Spec

(* Readings that the slack covers are lent nothing.                        *)
SlackCovers == MaxLag + MaxAhead <= Slack => lent = 0

LEMMA SlackStep == RateInv /\ SlackCovers /\ [Next]_vars => SlackCovers'
<1> SUFFICES ASSUME RateInv, SlackCovers, [Next]_vars, MaxLag + MaxAhead <= Slack
             PROVE  lent' = 0
  BY DEF SlackCovers
<1>1. lent = 0
  BY DEF SlackCovers
<1>2. ASSUME NEW c \in Calls, Grant(c) \/ Deny(c) PROVE lent' = 0
  <2>1. call[c] = "sent" /\ Touch(reading[c])
    BY <1>2 DEF Grant, Deny
  <2>2. Overdue(reading[c]) = 0
    BY <2>1 DEF RateInv, TypeOK, ReadingsAreRecent, Overdue, Elapsed
  <2> QED
    BY <1>1, <2>1, <2>2 DEF Touch
<1>3. ASSUME NEW c \in Calls, Request(c) \/ FailOpen(c) PROVE lent' = 0
  BY <1>1, <1>3 DEF Request, FailOpen
<1>4. CASE Tick \/ UNCHANGED vars
  BY <1>1, <1>4 DEF Tick, vars
<1> QED
  BY <1>2, <1>3, <1>4 DEF Next

(* Where lag and skew of the clocks stay within the slack of the key's     *)
(* time to live, expiry lends nothing: grants stay within burst, refill    *)
(* and rewound time alone.                                                 *)
THEOREM SlackSuffices ==
  Spec => [](MaxLag + MaxAhead <= Slack /\ expires > 0
               => spent <= Capacity + (ts - origin) + rewound)
<1>1. Init => SlackCovers
  BY DEF Init, SlackCovers
<1>2. RateInv /\ SlackCovers => (MaxLag + MaxAhead <= Slack /\ expires > 0
                                  => spent <= Capacity + (ts - origin) + rewound)
  BY DEF RateInv, Budget, SlackCovers, TypeOK
<1> QED
  BY RateInit, RateStep, SlackStep, <1>1, <1>2, PTL DEF Spec

-----------------------------------------------------------------------------
(* A refusal leaves every promise made before it kept.                     *)
LEMMA DenyKeepsPromises ==
  ASSUME RateInv, RetryAfterIsEnough, NEW c \in Calls, Deny(c)
  PROVE  RetryAfterIsEnough'
<1> DEFINE n == reading[c]
<1>1. n \in Nat /\ Refilled(n) \in 0..Capacity /\ Refilled(n) < Cost
  BY RefilledType DEF RateInv, TypeOK, Deny
<1>2. tokens' = Refilled(n) /\ ts' = n /\ now' = now /\ expires' = now + Ttl
  BY DEF Deny, Touch
<1>3. Live'
  BY <1>2 DEF Live, Ttl, RateInv, TypeOK
<1>4. Live /\ Refilled(n) = tokens + Elapsed(n, ts)
  BY <1>1 DEF Refilled
<1>5. ASSUME NEW p \in promises PROVE Refilled(p)' >= Cost
  <2>1. p \in Nat /\ Refilled(p) >= Cost
    BY DEF RateInv, TypeOK, RetryAfterIsEnough
  <2>2. Refilled(n) + Elapsed(p, n) >= Cost
    BY <1>1, <1>4, <2>1 DEF Refilled, Elapsed, RateInv, TypeOK
  <2>3. Refilled(p)' = IF Refilled(n) + Elapsed(p, n) < Capacity
                       THEN Refilled(n) + Elapsed(p, n) ELSE Capacity
    BY <1>2, <1>3 DEF Refilled, Elapsed
  <2> QED
    BY <2>2, <2>3
<1>6. ASSUME NEW p, p = n + (Cost - Refilled(n)) PROVE Refilled(p)' >= Cost
  <2>1. p > n /\ p \in Nat
    BY <1>1, <1>6
  <2>2. Refilled(n) + Elapsed(p, n) = Cost
    BY <1>1, <1>6, <2>1 DEF Elapsed
  <2>3. Refilled(p)' = IF Refilled(n) + Elapsed(p, n) < Capacity
                       THEN Refilled(n) + Elapsed(p, n) ELSE Capacity
    BY <1>2, <1>3 DEF Refilled, Elapsed
  <2> QED
    BY <2>2, <2>3
<1>7. promises' = promises \cup {n + (Cost - Refilled(n))}
  BY DEF Deny
<1> QED
  BY <1>5, <1>6, <1>7 DEF RetryAfterIsEnough

LEMMA PromisesStep ==
  RateInv /\ RetryAfterIsEnough /\ [Next]_vars => RetryAfterIsEnough'
<1> SUFFICES ASSUME RateInv, RetryAfterIsEnough, [Next]_vars
             PROVE  RetryAfterIsEnough'
  OBVIOUS
<1>1. ASSUME NEW c \in Calls, Grant(c) PROVE RetryAfterIsEnough'
  BY <1>1 DEF Grant, RetryAfterIsEnough
<1>2. ASSUME NEW c \in Calls, Deny(c) PROVE RetryAfterIsEnough'
  BY <1>2, DenyKeepsPromises
<1>3. ASSUME NEW c \in Calls, Request(c) \/ FailOpen(c) PROVE RetryAfterIsEnough'
  BY <1>3 DEF Request, FailOpen, RetryAfterIsEnough, Refilled, Live
<1>4. CASE Tick
  BY <1>4 DEF Tick, RetryAfterIsEnough, Refilled, Live, RateInv, TypeOK
<1>5. CASE UNCHANGED vars
  BY <1>5 DEF vars, RetryAfterIsEnough, Refilled, Live
<1> QED
  BY <1>1, <1>2, <1>3, <1>4, <1>5 DEF Next

(* Retry-After is always long enough, for callers refused in any order.    *)
THEOREM PromisesAreKept == Spec => []RetryAfterIsEnough
<1>1. Init => RetryAfterIsEnough
  BY DEF Init, RetryAfterIsEnough
<1> QED
  BY RateInit, RateStep, PromisesStep, <1>1, PTL DEF Spec
=============================================================================
