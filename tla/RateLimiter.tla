---------------------------- MODULE RateLimiter ----------------------------
(***************************************************************************)
(* The chat rate limiter of one tenant: a token bucket in Redis, read and  *)
(* written by one atomic script, and the middleware of the API processes   *)
(* that call it.  A caller reads its own clock, and the script runs with   *)
(* that reading later and in any order.                                    *)
(*                                                                         *)
(* Tokens are measured in the time it takes to refill them: a request      *)
(* costs Cost, one unit of time refills one unit, and a full bucket holds  *)
(* Capacity (a multiple of Cost in the code: CHAT_RATE_CAPACITY requests). *)
(***************************************************************************)
EXTENDS Integers

CONSTANTS
  Calls,     \* requests that reach the middleware
  Cost,      \* time that refills one request
  Capacity,  \* time that refills an empty bucket
  Slack,     \* added to an idle bucket's time to live (1 s)
  MaxLag,    \* bound: age of a clock reading when the script runs with it
  MaxAhead,  \* bound: how far a caller's clock is ahead
  MaxTime    \* bound: time that is explored

ASSUME BucketAssumption ==
  /\ Cost \in Nat \ {0} /\ Capacity \in Nat /\ Capacity >= Cost
  /\ Slack \in Nat /\ MaxLag \in Nat /\ MaxAhead \in Nat /\ MaxTime \in Nat

VARIABLES
  now,      \* the time, on Redis's clock
  call,     \* each request: not made, waiting for the script, or answered
  reading,  \* nowMs it read
  tokens,   \* bucket: tokens
  ts,       \* bucket: ts
  expires,  \* when the key expires
  spent,    \* history: cost of everything granted
  rewound,  \* history: how far ts has moved backwards, in total
  lent,     \* history: what expiry gave to readings later than the slack
  origin,   \* history: the first reading the script ran with
  promises  \* history: when the callers refused since the last grant may retry

bucketVars == <<tokens, ts, expires>>
historyVars == <<spent, rewound, lent, origin, promises>>
vars == <<now, call, reading, bucketVars, historyVars>>

Outcomes == {"allowed", "denied", "open"}

TypeOK ==
  /\ now \in Nat
  /\ call \in [Calls -> {"none", "sent"} \cup Outcomes]
  /\ reading \in [Calls -> Nat]
  /\ tokens \in 0..Capacity
  /\ ts \in Nat
  /\ expires \in Nat
  /\ spent \in Nat
  /\ rewound \in Nat /\ lent \in Nat
  /\ origin \in Nat
  /\ promises \subseteq Nat

Init ==
  /\ now = MaxLag
  /\ call = [c \in Calls |-> "none"]
  /\ reading = [c \in Calls |-> 0]
  /\ tokens = Capacity /\ ts = 0 /\ expires = 0
  /\ spent = 0 /\ rewound = 0 /\ lent = 0 /\ origin = 0 /\ promises = {}

(* math.max(0, a - b)                                                      *)
Elapsed(a, b) == IF a > b THEN a - b ELSE 0

Live == now < expires

(* Variant: an idle key lives just long enough.                            *)
TtlExact == Capacity

(* The tokens a reading n finds: a missing key counts as full.             *)
Refilled(n) ==
  LET sum == tokens + Elapsed(n, ts) IN
  IF Live /\ sum < Capacity THEN sum ELSE Capacity

Ttl == Capacity + Slack

(* A request reads the clock of its process and sends the script.          *)
Request(c) ==
  /\ call[c] = "none"
  /\ call' = [call EXCEPT ![c] = "sent"]
  /\ \E n \in (now - MaxLag)..(now + MaxAhead) : reading' = [reading EXCEPT ![c] = n]
  /\ UNCHANGED <<now, bucketVars, historyVars>>

(* History: by how much a reading is later than the slack covers, at most  *)
(* a burst.                                                                *)
Overdue(n) ==
  LET beyond == Elapsed(now + MaxAhead, n + Slack) IN
  IF beyond < Capacity THEN beyond ELSE Capacity

(* What every run of the script writes.                                    *)
Touch(n) ==
  /\ ts' = n
  /\ expires' = now + Ttl
  /\ rewound' = rewound + Elapsed(ts, n)
  /\ lent' = lent + (IF expires > 0 /\ ~Live THEN Overdue(n) ELSE 0)
  /\ origin' = IF expires = 0 THEN n ELSE origin

Grant(c) ==
  /\ call[c] = "sent"
  /\ Refilled(reading[c]) >= Cost
  /\ tokens' = Refilled(reading[c]) - Cost
  /\ Touch(reading[c])
  /\ call' = [call EXCEPT ![c] = "allowed"]
  /\ spent' = spent + Cost
  /\ promises' = {}
  /\ UNCHANGED <<now, reading>>

(* Variant: a refusal stores the time but not what was refilled.           *)
DenyForgetting(c) ==
  /\ call[c] = "sent"
  /\ Refilled(reading[c]) < Cost
  /\ Touch(reading[c])
  /\ call' = [call EXCEPT ![c] = "denied"]
  /\ promises' = promises \cup {reading[c] + (Cost - Refilled(reading[c]))}
  /\ UNCHANGED <<now, reading, tokens, spent>>

(* 429, and Retry-After tells when the missing tokens will be there.       *)
Deny(c) ==
  /\ call[c] = "sent"
  /\ Refilled(reading[c]) < Cost
  /\ tokens' = Refilled(reading[c])
  /\ Touch(reading[c])
  /\ call' = [call EXCEPT ![c] = "denied"]
  /\ promises' = promises \cup {reading[c] + (Cost - Refilled(reading[c]))}
  /\ UNCHANGED <<now, reading, spent>>

(* The script's call rejects: the middleware fails open.                   *)
FailOpen(c) ==
  /\ call[c] = "sent"
  /\ call' = [call EXCEPT ![c] = "open"]
  /\ UNCHANGED <<now, reading, bucketVars, historyVars>>

Tick ==
  /\ now < MaxTime
  /\ \A c \in Calls : call[c] = "sent" => now + 1 - reading[c] <= MaxLag
  /\ now' = now + 1
  /\ UNCHANGED <<call, reading, bucketVars, historyVars>>

Next ==
  \/ \E c \in Calls : Request(c) \/ Grant(c) \/ Deny(c) \/ FailOpen(c)
  \/ Tick

Spec == Init /\ [][Next]_vars

-----------------------------------------------------------------------------
(* "Capacity = burst; refill/sec = sustained rate" (config.ts), as far as  *)
(* it is true: all that was granted fits the burst, the refill from the    *)
(* first reading to the last, and the time by which the readings ran       *)
(* backwards (the script stores every reading, so a late one makes the     *)
(* same second count twice).  Expiry of an idle key gives nothing away to  *)
(* a reading that the slack of the key covers, and to a later one, of a    *)
(* command that waited for Redis, no more than it is late, nor than a      *)
(* burst.                                                                  *)
RateHolds == expires > 0 => spent <= Capacity + (ts - origin) + rewound + lent

(* A caller that waits for the time it was told is let in, unless another  *)
(* was let in meanwhile: calls refused in between, in any order of their   *)
(* readings, and expiry of the key take nothing from it.                   *)
RetryAfterIsEnough == \A p \in promises : Refilled(p) >= Cost
=============================================================================
