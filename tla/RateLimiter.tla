----------------------------- MODULE RateLimiter -----------------------------
(***************************************************************************)
(* The token bucket per caller in front of the demo's API                  *)
(* (demo/ratelimit.go), one limiter for reads and one for writes.          *)
(*                                                                         *)
(* A request reads the clock before it waits for the mutex, so requests    *)
(* reach allow out of the order of their times: a refill may be negative   *)
(* and lastSeen may go back.  allow runs whole under the mutex and is one  *)
(* step.  Tokens and times are integers: the unit of time is one in which  *)
(* a whole number of tokens is earned.                                     *)
(***************************************************************************)
EXTENDS Integers, FiniteSets

CONSTANTS
  Procs,       \* slots for requests in flight at one time
  Callers,     \* client addresses
  Burst,       \* tokens of a full bucket
  Rate,        \* tokens earned in a unit of time
  Cost,        \* tokens a request takes
  MaxBuckets,  \* buckets kept before a new one makes the map look for old ones
  MaxAge,      \* the age from which a bucket is old
  MaxWait,     \* the longest a request waits for the mutex
  MaxTime,     \* bound: the clock
  NoCaller     \* the caller of a slot that waits for no mutex

ASSUME BucketAssumption ==
  /\ Burst \in Nat /\ Rate \in Nat /\ Cost \in Nat \ {0}
  /\ MaxBuckets \in Nat /\ MaxAge \in Nat /\ MaxWait \in Nat /\ MaxTime \in Nat

\* An old bucket is full again: ten minutes earn what ten seconds earn, and more.
ASSUME AgeAssumption == Burst + 2 * (Rate * MaxWait) <= Rate * MaxAge

VARIABLES
  clock,    \* the time
  buckets,  \* the map: caller -> bucket
  pc,       \* what each request does: idle, waits for the mutex, is served
  caller,   \* who sent it
  stamp,    \* the time it read
  watched,  \* history: a caller, and a window of its requests:
  opened,   \* history:   when it was opened,
  dropped,  \* history:   whether a bucket made for it was dropped at once,
  spent     \* history:   if not, the tokens the caller was given since

window == <<watched, opened, dropped, spent>>
rvars == <<clock, buckets, pc, caller, stamp, window>>

\* The zero time.Time of a bucket nobody has dated yet: older than any age.
Never == -(MaxAge + 1)

Bucket == [tokens: Int, last: Int]

Init ==
  /\ clock = 0
  /\ buckets = [c \in {} |-> [tokens |-> Burst, last |-> Never]]
  /\ pc = [q \in Procs |-> "idle"]
  /\ caller = [q \in Procs |-> NoCaller]
  /\ stamp = [q \in Procs |-> 0]
  /\ watched \in Callers
  /\ opened = 0 /\ spent = 0 /\ dropped = FALSE

\* Time passes, but not beyond what a request waits for the mutex.
Tick ==
  /\ clock < MaxTime
  /\ \A q \in Procs : pc[q] = "limit" => clock < stamp[q] + MaxWait
  /\ clock' = clock + 1
  /\ UNCHANGED <<buckets, pc, caller, stamp, window>>

Arrive(q) ==
  /\ pc[q] = "idle"
  /\ pc' = [pc EXCEPT ![q] = "limit"]
  /\ \E c \in Callers : caller' = [caller EXCEPT ![q] = c]
  /\ stamp' = [stamp EXCEPT ![q] = clock]
  /\ UNCHANGED <<clock, buckets, window>>

-----------------------------------------------------------------------------
(* allow. *)

\* Mutant: a bucket earns beyond its burst.
Overfilled(bucket, now) == bucket.tokens + Rate * (now - bucket.last)

Refilled(bucket, now) ==
  LET tokens == bucket.tokens + Rate * (now - bucket.last)
  IN  IF tokens > Burst THEN Burst ELSE tokens

\* The buckets kept when one for c has been added at time now: only a map that
\* is too large loses its old ones, and the new one has no date yet.
LastSeen(k) == IF k \in DOMAIN buckets THEN buckets[k].last ELSE Never

Kept(c, now) ==
  IF c \notin DOMAIN buckets /\ Cardinality(DOMAIN buckets) + 1 > MaxBuckets
  THEN {k \in DOMAIN buckets \cup {c} : now - LastSeen(k) <= MaxAge}
  ELSE DOMAIN buckets \cup {c}

Tokens(c, now) ==
  IF c \in DOMAIN buckets THEN Refilled(buckets[c], now) ELSE Burst

Admits(c, now) == Tokens(c, now) >= Cost

Left(c, now) == IF Admits(c, now) THEN Tokens(c, now) - Cost ELSE Tokens(c, now)

\* Mutant: a request that is refused leaves the date as it was.
DatedIfAdmitted(c, now) ==
  [tokens |-> Left(c, now),
   last |-> IF Admits(c, now) \/ c \notin DOMAIN buckets THEN now ELSE buckets[c].last]

After(c, now) == [tokens |-> Left(c, now), last |-> now]

Allow(q) ==
  LET c == caller[q] IN
  /\ pc[q] = "limit"
  /\ pc' = [pc EXCEPT ![q] = IF Admits(c, stamp[q]) THEN "serve" ELSE "idle"]
  /\ buckets' = [k \in Kept(c, stamp[q]) |->
                   IF k = c THEN After(c, stamp[q]) ELSE buckets[k]]
  /\ dropped' = (dropped \/ (c = watched /\ c \notin Kept(c, stamp[q])))
  /\ spent' = IF dropped' THEN 0
              ELSE IF c = watched /\ Admits(c, stamp[q]) THEN spent + Cost ELSE spent
  /\ caller' = [caller EXCEPT ![q] = NoCaller]
  /\ stamp' = [stamp EXCEPT ![q] = 0]
  /\ UNCHANGED <<clock, watched, opened>>

\* The handler behind the limiter answers.
Serve(q) ==
  /\ pc[q] = "serve"
  /\ pc' = [pc EXCEPT ![q] = "idle"]
  /\ UNCHANGED <<clock, buckets, caller, stamp, window>>

\* History: the window is opened anew, at any time.
OpenWindow ==
  /\ opened < clock
  /\ opened' = clock /\ spent' = 0 /\ dropped' = FALSE
  /\ UNCHANGED <<clock, buckets, pc, caller, stamp, watched>>

Next ==
  \/ Tick
  \/ OpenWindow
  \/ \E q \in Procs : Arrive(q) \/ Allow(q) \/ Serve(q)

Spec == Init /\ [][Next]_rvars

-----------------------------------------------------------------------------
(* Properties. *)

\* The clock is ahead of every date, no bucket is fuller than its burst, a
\* request that waits has waited no longer than MaxWait, and every variable has
\* the shape its comment gives it.
TypeOK ==
  /\ clock \in 0..MaxTime
  /\ DOMAIN buckets \subseteq Callers
  /\ buckets \in [DOMAIN buckets -> Bucket]
  /\ \A c \in DOMAIN buckets :
       buckets[c].tokens <= Burst /\ buckets[c].last \in 0..clock
  /\ pc \in [Procs -> {"idle", "limit", "serve", "probe"}]
  /\ caller \in [Procs -> Callers \cup {NoCaller}]
  /\ stamp \in [Procs -> 0..clock]
  /\ \A q \in Procs : pc[q] = "limit" =>
       caller[q] \in Callers /\ clock <= stamp[q] + MaxWait
  /\ watched \in Callers
  /\ opened \in 0..clock
  /\ spent \in Nat
  /\ dropped \in BOOLEAN

\* In any stretch of time a caller is given no more than its burst and what it
\* earns in that time, give or take the wait for the mutex: although requests
\* reach allow with times that go back, and although its bucket may be pruned as
\* old and made again.  Only a caller whose new bucket the prune drops at once,
\* because it has no date yet, is not held to it.
WithinRate == dropped \/ spent <= Burst + Rate * (clock - opened + MaxWait)
=============================================================================
