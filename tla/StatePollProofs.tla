-------------------------- MODULE StatePollProofs ---------------------------
(***************************************************************************)
(* What holds of the limiter and of the probe behind it, for any callers   *)
(* and requests, any rate, burst and cap, and any clock.                   *)
(*                                                                         *)
(*   TypeCorrect             PollSpec => []TypeOK                          *)
(*   WithinRateAlways        PollSpec => []WithinRate                      *)
(*   OneProbeAlways          PollSpec => []OneProbe                        *)
(*   OldOnlyWhileProbingAlways   PollSpec => OldOnlyWhileProbing           *)
(*                                                                         *)
(* The bound on what a caller is given is not inductive: what it may still *)
(* take is in its bucket.  A bucket is worth what it holds and would have  *)
(* earned by now; a request takes its cost from that, a request that comes *)
(* late adds nothing to it, and no bucket that is as good as new is worth  *)
(* more than the ceiling, Burst + Rate * MaxWait.                          *)
(***************************************************************************)
EXTENDS StatePoll, TLAPS

Worth(bucket, t) == bucket.tokens + Rate * (t - bucket.last)

Ceiling == Burst + Rate * MaxWait

\* What a bucket holds may be negative, but it has earned that since.
BucketsSound ==
  \A c \in DOMAIN buckets :
    /\ buckets[c].tokens >= -(Rate * MaxWait)
    /\ Worth(buckets[c], clock) >= 0

\* What the watched caller was given and what its bucket is worth, the ceiling
\* at most, stays under what it had and earned; without a bucket it is worth
\* the ceiling.
Budget ==
  \/ dropped
  \/ spent <= Rate * (clock - opened)
  \/ /\ watched \in DOMAIN buckets
     /\ spent + Worth(buckets[watched], clock) <= Ceiling + Rate * (clock - opened)

LimiterInv == TypeOK /\ BucketsSound /\ Budget

-----------------------------------------------------------------------------
(* Earnings. *)

LEMMA EarnsInt == \A x \in Int : Rate * x \in Int
  BY BucketAssumption

LEMMA EarnsSum == \A x, y \in Int : Rate * (x + y) = Rate * x + Rate * y
  BY BucketAssumption

LEMMA EarnsNext == \A x \in Int : Rate * (x + 1) = Rate * x + Rate
  BY BucketAssumption

LEMMA EarnsMore == \A x, y \in Int : x <= y => Rate * x <= Rate * y
<1> SUFFICES ASSUME NEW x \in Int, NEW y \in Int, x <= y PROVE Rate * x <= Rate * y
  OBVIOUS
<1>1. y = x + (y - x) /\ y - x \in Nat
  OBVIOUS
<1>2. Rate * (y - x) >= 0
  BY <1>1, BucketAssumption
<1>3. Rate * y = Rate * x + Rate * (y - x)
  BY <1>1, EarnsSum
<1> QED
  BY <1>2, <1>3, EarnsInt

LEMMA CeilingInt == Rate * MaxWait \in Nat /\ Ceiling \in Nat /\ Ceiling >= Burst
  BY BucketAssumption DEF Ceiling

\* Waiting for the mutex earns no more than MaxWait does.
LEMMA WaitEarns ==
  ASSUME NEW t \in Int, NEW s \in Int, s <= t, t <= s + MaxWait
  PROVE  Rate * (t - s) >= 0 /\ Rate * (t - s) <= Rate * MaxWait
<1>1. 0 <= t - s /\ t - s <= MaxWait /\ MaxWait \in Int /\ t - s \in Int
  BY BucketAssumption
<1>2. Rate * 0 = 0
  BY BucketAssumption
<1> QED
  BY <1>1, <1>2, EarnsMore

\* As time passes a bucket is worth what it was and the earnings.
LEMMA WorthGrows ==
  ASSUME NEW b \in Bucket, NEW t \in Int
  PROVE  Worth(b, t) \in Int /\ Worth(b, t + 1) = Worth(b, t) + Rate
<1> DEFINE age == t - b.last
<1>1. b.tokens \in Int /\ age \in Int /\ (t + 1) - b.last = age + 1
  BY DEF Bucket
<1>2. Worth(b, t) = b.tokens + Rate * age
  BY DEF Worth
<1>3. Worth(b, t + 1) = b.tokens + Rate * (age + 1)
  BY <1>1 DEF Worth
<1> HIDE DEF age
<1>4. Rate * (age + 1) = Rate * age + Rate
  BY <1>1, EarnsNext
<1>5. Rate * age \in Int /\ Rate \in Int
  BY <1>1, EarnsInt, BucketAssumption
<1> QED
  BY <1>1, <1>2, <1>3, <1>4, <1>5

-----------------------------------------------------------------------------
(* One request in allow. *)

\* What a request takes.
Taken(c, s) == IF Admits(c, s) THEN Cost ELSE 0

\* A refill at time s: no more than the burst, and worth no more than before.
LEMMA RefillSound ==
  ASSUME NEW b \in Bucket, NEW t \in Nat, NEW s \in Nat,
         s <= t, t <= s + MaxWait,
         b.tokens <= Burst, Worth(b, t) >= 0
  PROVE  /\ Refilled(b, s) \in Int /\ Refilled(b, s) <= Burst
         /\ Refilled(b, s) + Rate * (t - s) <= Worth(b, t)
         /\ Refilled(b, s) + Rate * (t - s) >= 0
         /\ Refilled(b, s) >= -(Rate * MaxWait)
<1> DEFINE earned == b.tokens + Rate * (s - b.last)
<1>1. b.tokens \in Int /\ b.last \in Int
  BY DEF Bucket
<1>2. Rate * (t - b.last) = Rate * (s - b.last) + Rate * (t - s)
  <2>1. t - b.last = (s - b.last) + (t - s) /\ s - b.last \in Int /\ t - s \in Int
    BY <1>1
  <2> QED
    BY <2>1, EarnsSum
<1>3. /\ Rate * (s - b.last) \in Int /\ Rate * (t - s) \in Int
      /\ Rate * (t - b.last) \in Int
  BY <1>1, EarnsInt
<1>4. earned + Rate * (t - s) = Worth(b, t) /\ earned \in Int
  BY <1>1, <1>2, <1>3 DEF Worth
<1>5. Rate * (t - s) >= 0 /\ Rate * (t - s) <= Rate * MaxWait
  BY WaitEarns
<1>6. Refilled(b, s) = IF earned > Burst THEN Burst ELSE earned
  BY DEF Refilled
<1>7. Burst \in Nat /\ Rate * MaxWait \in Nat
  BY BucketAssumption, CeilingInt
<1> HIDE DEF earned
<1> QED
  BY <1>3, <1>4, <1>5, <1>6, <1>7

LEMMA AfterSound ==
  ASSUME TypeOK, BucketsSound, NEW c \in Callers, NEW s \in 0..clock,
         clock <= s + MaxWait
  PROVE  /\ After(c, s) \in Bucket
         /\ After(c, s).tokens <= Burst /\ After(c, s).last = s
         /\ After(c, s).tokens >= -(Rate * MaxWait)
         /\ Worth(After(c, s), clock) >= 0
         /\ Taken(c, s) \in Nat
         /\ Worth(After(c, s), clock) + Taken(c, s) <= Ceiling
         /\ c \in DOMAIN buckets =>
              Worth(After(c, s), clock) + Taken(c, s) <= Worth(buckets[c], clock)
<1>1. clock \in Nat /\ s \in Nat /\ s <= clock
  BY DEF TypeOK
<1>2. Rate * (clock - s) \in Int
  BY <1>1, EarnsInt
<1>3. Rate * (clock - s) >= 0 /\ Rate * (clock - s) <= Rate * MaxWait
  BY <1>1, WaitEarns
<1>4. Burst \in Nat /\ Cost \in Nat /\ Rate * MaxWait \in Nat
  BY BucketAssumption, CeilingInt
<1>5. /\ Tokens(c, s) \in Int /\ Tokens(c, s) <= Burst
      /\ Tokens(c, s) + Rate * (clock - s) >= 0
      /\ Tokens(c, s) >= -(Rate * MaxWait)
      /\ c \in DOMAIN buckets =>
           Tokens(c, s) + Rate * (clock - s) <= Worth(buckets[c], clock)
  <2>1. CASE c \in DOMAIN buckets
    <3>1. buckets[c] \in Bucket /\ buckets[c].tokens <= Burst /\ Worth(buckets[c], clock) >= 0
      BY <2>1 DEF TypeOK, BucketsSound
    <3>2. Tokens(c, s) = Refilled(buckets[c], s)
      BY <2>1 DEF Tokens
    <3> QED
      BY <1>1, <3>1, <3>2, RefillSound
  <2>2. CASE c \notin DOMAIN buckets
    BY <2>2, <1>2, <1>3, <1>4 DEF Tokens
  <2> QED
    BY <2>1, <2>2
<1>6. /\ After(c, s).tokens = Tokens(c, s) - Taken(c, s) /\ After(c, s).last = s
      /\ After(c, s) = [tokens |-> Left(c, s), last |-> s]
  BY <1>4, <1>5 DEF After, Left, Taken
<1>7. Taken(c, s) \in Nat /\ (Taken(c, s) = 0 \/ Tokens(c, s) - Taken(c, s) >= 0)
  BY <1>4, <1>5 DEF Taken, Admits
<1>8. Worth(After(c, s), clock) = Tokens(c, s) - Taken(c, s) + Rate * (clock - s)
  BY <1>6 DEF Worth
<1>9. After(c, s) \in Bucket
  BY <1>1, <1>4, <1>5, <1>6 DEF Bucket, Left
<1> QED
  BY <1>2, <1>3, <1>4, <1>5, <1>6, <1>7, <1>8, <1>9 DEF Ceiling

-----------------------------------------------------------------------------
(* The limiter's invariant. *)

\* A bucket the prune takes is as good as new.
LEMMA PrunedIsFull ==
  ASSUME TypeOK, BucketsSound, NEW c \in Callers, NEW s \in 0..clock,
         clock <= s + MaxWait, NEW k \in DOMAIN buckets, k \notin Kept(c, s)
  PROVE  Worth(buckets[k], clock) >= Ceiling
<1> DEFINE age == clock - buckets[k].last
<1>1. buckets[k] \in Bucket /\ buckets[k].tokens >= -(Rate * MaxWait)
  BY DEF TypeOK, BucketsSound
<1>2. s - buckets[k].last > MaxAge
  BY <1>1, BucketAssumption DEF Kept, LastSeen, Bucket
<1>3. age \in Int /\ MaxAge \in Int /\ MaxAge <= age
  BY <1>1, <1>2, BucketAssumption DEF Bucket, TypeOK
<1>4. Worth(buckets[k], clock) = buckets[k].tokens + Rate * age /\ buckets[k].tokens \in Int
  BY <1>1 DEF Worth, Bucket
<1> HIDE DEF age
<1>5. Rate * age >= Rate * MaxAge /\ Rate * age \in Int /\ Rate * MaxAge \in Int
  BY <1>3, EarnsMore, EarnsInt
<1> QED
  BY <1>1, <1>4, <1>5, CeilingInt, AgeAssumption, BucketAssumption DEF Ceiling

LEMMA AllowKeeps ==
  ASSUME LimiterInv, NEW q \in Procs, Allow(q)
  PROVE  LimiterInv'
<1> DEFINE c == caller[q]
           s == stamp[q]
<1>1. c \in Callers /\ s \in 0..clock /\ clock <= s + MaxWait /\ clock \in Nat
  BY DEF LimiterInv, TypeOK, Allow
<1>2. /\ After(c, s) \in Bucket
      /\ After(c, s).tokens <= Burst /\ After(c, s).last = s
      /\ After(c, s).tokens >= -(Rate * MaxWait)
      /\ Worth(After(c, s), clock) >= 0
      /\ Taken(c, s) \in Nat
      /\ Worth(After(c, s), clock) + Taken(c, s) <= Ceiling
      /\ c \in DOMAIN buckets =>
           Worth(After(c, s), clock) + Taken(c, s) <= Worth(buckets[c], clock)
  BY <1>1, AfterSound DEF LimiterInv
<1>3. Kept(c, s) \subseteq DOMAIN buckets \cup {c}
  BY DEF Kept
<1>4. buckets' = [k \in Kept(c, s) |-> IF k = c THEN After(c, s) ELSE buckets[k]]
  BY DEF Allow
<1>5. clock' = clock /\ watched' = watched /\ opened' = opened
  BY DEF Allow
<1> HIDE DEF c, s
<1>6. BucketsSound'
  BY <1>1, <1>2, <1>3, <1>4, <1>5 DEF LimiterInv, BucketsSound, Worth
<1>7. TypeOK'
  <2>1. /\ DOMAIN buckets' \subseteq Callers
        /\ buckets' \in [DOMAIN buckets' -> Bucket]
        /\ \A k \in DOMAIN buckets' : buckets'[k].tokens <= Burst /\ buckets'[k].last \in 0..clock'
    BY <1>1, <1>2, <1>3, <1>4, <1>5 DEF LimiterInv, TypeOK
  <2>2. /\ pc' \in [Procs -> {"idle", "limit", "serve", "probe"}]
        /\ caller' \in [Procs -> Callers \cup {NoCaller}]
        /\ stamp' \in [Procs -> 0..clock']
    BY <1>5 DEF LimiterInv, TypeOK, Allow
  <2>3. \A r \in Procs : pc'[r] = "limit" =>
          caller'[r] \in Callers /\ clock' <= stamp'[r] + MaxWait
    <3> SUFFICES ASSUME NEW r \in Procs, pc'[r] = "limit"
                 PROVE  caller'[r] \in Callers /\ clock' <= stamp'[r] + MaxWait
      OBVIOUS
    <3>1. r # q /\ pc[r] = "limit"
      BY DEF LimiterInv, TypeOK, Allow
    <3> QED
      BY <3>1, <1>5 DEF LimiterInv, TypeOK, Allow
  <2>4. dropped' \in BOOLEAN
    BY DEF LimiterInv, TypeOK, Allow
  <2>5. spent' \in Nat
    BY BucketAssumption DEF LimiterInv, TypeOK, Allow
  <2> QED
    BY <2>1, <2>2, <2>3, <2>4, <2>5, <1>5 DEF LimiterInv, TypeOK
<1>8. Budget'
  <2> SUFFICES ASSUME ~dropped'
               PROVE  \/ spent' <= Rate * (clock - opened)
                      \/ /\ watched \in DOMAIN buckets'
                         /\ spent' + Worth(buckets'[watched], clock)
                              <= Ceiling + Rate * (clock - opened)
    BY <1>5 DEF Budget, Worth
  <2>1. ~dropped /\ (c = watched => c \in Kept(c, s))
    BY DEF Allow, c, s
  <2>2. spent' = spent + (IF c = watched THEN Taken(c, s) ELSE 0)
    <3>1. spent \in Nat
      BY DEF LimiterInv, TypeOK
    <3> QED
      BY <3>1 DEF Allow, Taken, c, s
  <2>3. /\ spent \in Nat /\ Rate * (clock - opened) \in Int
        /\ Ceiling \in Nat
    BY <1>1, EarnsInt, CeilingInt DEF LimiterInv, TypeOK
  <2>4. \A k \in DOMAIN buckets : Worth(buckets[k], clock) \in Int
    BY <1>1, WorthGrows DEF LimiterInv, TypeOK
  <2>5. Worth(After(c, s), clock) \in Int
    BY <1>1, <1>2, WorthGrows
  <2>6. \/ spent <= Rate * (clock - opened)
        \/ /\ watched \in DOMAIN buckets
           /\ spent + Worth(buckets[watched], clock) <= Ceiling + Rate * (clock - opened)
    BY <2>1 DEF LimiterInv, Budget
  <2>7. CASE c = watched
    <3>1. watched \in DOMAIN buckets' /\ buckets'[watched] = After(c, s)
      BY <2>1, <2>7, <1>4
    <3>2. spent' + Worth(After(c, s), clock) <= Ceiling + Rate * (clock - opened)
      BY <2>2, <2>3, <2>4, <2>5, <2>6, <2>7, <1>2
    <3> QED
      BY <3>1, <3>2
  <2>8. CASE c # watched /\ spent <= Rate * (clock - opened)
    BY <2>2, <2>3, <2>8
  <2>9. CASE /\ c # watched /\ watched \in DOMAIN buckets
             /\ spent + Worth(buckets[watched], clock) <= Ceiling + Rate * (clock - opened)
    <3>1. CASE watched \in Kept(c, s)
      BY <3>1, <2>2, <2>3, <2>9, <1>4
    <3>2. CASE watched \notin Kept(c, s)
      <4>1. Worth(buckets[watched], clock) >= Ceiling
        BY <3>2, <2>9, <1>1, PrunedIsFull DEF LimiterInv
      <4> QED
        BY <4>1, <2>2, <2>3, <2>4, <2>9
    <3> QED
      BY <3>1, <3>2
  <2> QED
    BY <2>6, <2>7, <2>8, <2>9
<1> QED
  BY <1>6, <1>7, <1>8 DEF LimiterInv

LEMMA TickKeeps ==
  ASSUME LimiterInv, Tick
  PROVE  LimiterInv'
<1>1. /\ clock \in Nat /\ clock' = clock + 1 /\ clock < MaxTime
      /\ UNCHANGED <<buckets, pc, caller, stamp, watched, opened, dropped, spent>>
  BY DEF Tick, LimiterInv, TypeOK, window
<1>2. TypeOK'
  BY <1>1, BucketAssumption DEF Tick, LimiterInv, TypeOK
<1>3. Rate \in Nat /\ Rate * MaxWait \in Nat /\ Ceiling \in Nat
  BY BucketAssumption, CeilingInt
<1>4. \A k \in DOMAIN buckets :
        /\ Worth(buckets[k], clock) \in Int
        /\ Worth(buckets[k], clock') = Worth(buckets[k], clock) + Rate
  BY <1>1, WorthGrows DEF LimiterInv, TypeOK
<1>5. BucketsSound'
  <2>1. \A k \in DOMAIN buckets :
          buckets[k].tokens >= -(Rate * MaxWait) /\ Worth(buckets[k], clock') >= 0
    BY <1>3, <1>4 DEF LimiterInv, BucketsSound
  <2> QED
    BY <1>1, <2>1 DEF BucketsSound, Worth
<1>6. Budget'
  <2> DEFINE open == clock - opened
  <2>1. open \in Int /\ clock' - opened = open + 1 /\ spent \in Nat
    BY <1>1 DEF LimiterInv, TypeOK
  <2>2. \/ dropped
        \/ spent <= Rate * open
        \/ /\ watched \in DOMAIN buckets
           /\ spent + Worth(buckets[watched], clock) <= Ceiling + Rate * open
    BY DEF LimiterInv, Budget
  <2> HIDE DEF open
  <2>3. Rate * (open + 1) = Rate * open + Rate /\ Rate * open \in Int
    BY <2>1, EarnsNext, EarnsInt
  <2>4. \/ dropped
        \/ spent <= Rate * (clock' - opened)
        \/ /\ watched \in DOMAIN buckets
           /\ spent + Worth(buckets[watched], clock') <= Ceiling + Rate * (clock' - opened)
    BY <1>3, <1>4, <2>1, <2>2, <2>3
  <2> QED
    BY <1>1, <2>4 DEF Budget, Worth
<1> QED
  BY <1>2, <1>5, <1>6 DEF LimiterInv

LEMMA OpenWindowKeeps ==
  ASSUME LimiterInv, OpenWindow
  PROVE  LimiterInv'
<1>1. TypeOK'
  <2>1. clock \in Nat /\ clock' = clock /\ opened' = clock /\ spent' = 0
    BY DEF OpenWindow, LimiterInv, TypeOK
  <2>2. opened' \in 0..clock' /\ spent' \in Nat
    BY <2>1
  <2>3. dropped' \in BOOLEAN
    BY DEF OpenWindow
  <2>4. UNCHANGED <<clock, buckets, pc, caller, stamp, watched>>
    BY DEF OpenWindow
  <2> QED
    BY <2>2, <2>3, <2>4 DEF LimiterInv, TypeOK
<1>2. BucketsSound'
  BY DEF OpenWindow, LimiterInv, BucketsSound, Worth
<1>3. Budget'
  <2>1. clock' - opened' = 0 /\ spent' = 0
    BY DEF OpenWindow, LimiterInv, TypeOK
  <2>2. Rate * 0 = 0
    BY BucketAssumption
  <2> QED
    BY <2>1, <2>2 DEF Budget
<1> QED
  BY <1>1, <1>2, <1>3 DEF LimiterInv

\* Steps that leave the buckets and the window alone.
LEMMA AsideKeeps ==
  ASSUME LimiterInv, UNCHANGED <<clock, buckets, window>>, TypeOK'
  PROVE  LimiterInv'
  BY DEF LimiterInv, BucketsSound, Budget, Worth, window

LEMMA ArriveKeeps ==
  ASSUME LimiterInv, NEW q \in Procs, Arrive(q)
  PROVE  LimiterInv'
<1>1. PICK c \in Callers : caller' = [caller EXCEPT ![q] = c]
  BY DEF Arrive
<1>2. TypeOK'
  BY <1>1, BucketAssumption DEF Arrive, LimiterInv, TypeOK, window
<1> QED
  BY <1>2, AsideKeeps DEF Arrive

\* A request that is through goes on, or is answered.
LEMMA PollKeeps ==
  ASSUME LimiterInv, NEW q \in Procs, NEW label \in {"idle", "probe"},
         pc' = [pc EXCEPT ![q] = label],
         UNCHANGED <<clock, buckets, caller, stamp, window>>
  PROVE  LimiterInv'
<1>1. TypeOK'
  BY DEF LimiterInv, TypeOK, window
<1> QED
  BY <1>1, AsideKeeps

LEMMA LimiterInvStep == LimiterInv /\ [PollNext]_pvars => LimiterInv'
<1> SUFFICES ASSUME LimiterInv, [PollNext]_pvars PROVE LimiterInv'
  OBVIOUS
<1>1. CASE PollTick
  BY <1>1, TickKeeps DEF PollTick
<1>2. CASE OpenWindow
  BY <1>2, OpenWindowKeeps
<1>3. ASSUME NEW q \in Procs, Arrive(q) PROVE LimiterInv'
  BY <1>3, ArriveKeeps
<1>4. ASSUME NEW q \in Procs, Allow(q) PROVE LimiterInv'
  BY <1>4, AllowKeeps
<1>5. ASSUME NEW q \in Procs, Cached(q) PROVE LimiterInv'
  BY <1>5, PollKeeps DEF Cached, Serve
<1>6. ASSUME NEW q \in Procs, StartProbe(q) PROVE LimiterInv'
  BY <1>6, PollKeeps DEF StartProbe
<1>7. ASSUME NEW q \in Procs, EndProbe(q) PROVE LimiterInv'
  BY <1>7, PollKeeps DEF EndProbe
<1>8. CASE UNCHANGED pvars
  <2>1. UNCHANGED rvars
    BY <1>8 DEF pvars
  <2>2. TypeOK'
    BY <2>1 DEF LimiterInv, TypeOK, rvars, window
  <2> QED
    BY <2>1, <2>2, AsideKeeps DEF rvars
<1> QED
  BY <1>1, <1>2, <1>3, <1>4, <1>5, <1>6, <1>7, <1>8 DEF PollNext

LEMMA LimiterInvInit == Init => LimiterInv
<1> SUFFICES ASSUME Init PROVE LimiterInv
  OBVIOUS
<1>1. TypeOK
  <2>1. clock \in 0..MaxTime /\ opened \in 0..clock
    BY BucketAssumption DEF Init
  <2>2. watched \in Callers /\ spent \in Nat /\ dropped \in BOOLEAN
    BY DEF Init
  <2>3. /\ pc = [q \in Procs |-> "idle"] /\ caller = [q \in Procs |-> NoCaller]
        /\ stamp = [q \in Procs |-> 0] /\ clock = 0
    BY DEF Init
  <2>4. /\ pc \in [Procs -> {"idle", "limit", "serve", "probe"}]
        /\ caller \in [Procs -> Callers \cup {NoCaller}]
        /\ stamp \in [Procs -> 0..clock]
        /\ \A q \in Procs : pc[q] # "limit"
    BY <2>3
  <2>5. DOMAIN buckets = {} /\ buckets \in [DOMAIN buckets -> Bucket]
    BY DEF Init
  <2> QED
    BY <2>1, <2>2, <2>4, <2>5 DEF TypeOK
<1>2. BucketsSound
  BY DEF Init, BucketsSound
<1>3. Budget
  <2>1. clock - opened = 0 /\ spent = 0
    BY DEF Init
  <2>2. Rate * 0 = 0
    BY BucketAssumption
  <2> QED
    BY <2>1, <2>2 DEF Budget
<1> QED
  BY <1>1, <1>2, <1>3 DEF LimiterInv

\* The bound: a bucket is worth nothing at least.
LEMMA BudgetBounds == LimiterInv => WithinRate
<1> SUFFICES ASSUME LimiterInv, ~dropped PROVE WithinRate
  BY DEF WithinRate
<1> DEFINE open == clock - opened
<1>1. open \in Int /\ spent \in Nat /\ clock - opened + MaxWait = open + MaxWait
  BY DEF LimiterInv, TypeOK
<1>2. \/ spent <= Rate * open
      \/ /\ watched \in DOMAIN buckets
         /\ spent + Worth(buckets[watched], clock) <= Ceiling + Rate * open
  BY DEF LimiterInv, Budget
<1>3. \A k \in DOMAIN buckets : Worth(buckets[k], clock) \in Int /\ Worth(buckets[k], clock) >= 0
  BY WorthGrows DEF LimiterInv, TypeOK, BucketsSound
<1> HIDE DEF open
<1>4. /\ Rate * (open + MaxWait) = Rate * open + Rate * MaxWait
      /\ Rate * open \in Int
  BY <1>1, EarnsSum, EarnsInt, BucketAssumption
<1>5. Rate * MaxWait \in Nat /\ Burst \in Nat
  BY BucketAssumption, CeilingInt
<1>6. spent <= Burst + Rate * (open + MaxWait)
  BY <1>1, <1>2, <1>3, <1>4, <1>5 DEF Ceiling
<1> QED
  BY <1>1, <1>6 DEF WithinRate

-----------------------------------------------------------------------------
(* The probe. *)

\* A poll that probes is the one that set the time, not longer than the timeout
\* ago; and with no probe on its way the answer is the one of that time.
ProbeInv ==
  /\ clock \in Int /\ checked \in Int /\ began \in Int
  /\ pc \in [Procs -> {"idle", "limit", "serve", "probe"}]
  /\ since \in [Procs -> Int]
  /\ \A q \in Procs : pc[q] = "probe" => checked = since[q] /\ clock <= since[q] + Timeout
  /\ began = checked \/ \E q \in Procs : pc[q] = "probe"
  /\ OneProbe

LEMMA ProbeInvInit == PollInit => ProbeInv
<1> SUFFICES ASSUME PollInit PROVE ProbeInv
  OBVIOUS
<1>1. pc = [q \in Procs |-> "idle"] /\ clock = 0
  BY DEF PollInit, Init
<1>2. checked = -Fresh /\ began = -Fresh /\ since = [q \in Procs |-> 0] /\ -Fresh \in Int
  BY ProbeAssumption DEF PollInit
<1> QED
  BY <1>1, <1>2 DEF ProbeInv, OneProbe

\* A poll that is not probing changes neither the time of the probe nor who
\* probes.
LEMMA NoProbeKeeps ==
  ASSUME ProbeInv, UNCHANGED <<clock, probe>>,
         pc' \in [Procs -> {"idle", "limit", "serve", "probe"}],
         \A q \in Procs : pc'[q] = "probe" <=> pc[q] = "probe"
  PROVE  ProbeInv'
  BY DEF ProbeInv, OneProbe, probe

LEMMA ProbeTickKeeps ==
  ASSUME ProbeInv, PollTick
  PROVE  ProbeInv'
<1>1. clock' = clock + 1 /\ UNCHANGED <<pc, checked, ok, began, since>>
  BY DEF PollTick, Tick, probe
<1>2. \A q \in Procs : pc[q] = "probe" => clock < since[q] + Timeout
  BY DEF PollTick
<1>3. \A q \in Procs : pc[q] = "probe" => clock + 1 <= since[q] + Timeout
  BY <1>2, ProbeAssumption DEF ProbeInv
<1> QED
  BY <1>1, <1>3 DEF ProbeInv, OneProbe

\* A poll starts a probe only when no other is on its way: that one would have
\* run into its timeout.
LEMMA StartProbeKeeps ==
  ASSUME ProbeInv, NEW q \in Procs, StartProbe(q)
  PROVE  ProbeInv'
<1>1. \A r \in Procs : pc[r] # "probe"
  <2> SUFFICES ASSUME NEW r \in Procs, pc[r] = "probe" PROVE FALSE
    OBVIOUS
  <2>1. checked = since[r] /\ clock <= since[r] + Timeout /\ clock \in Int /\ checked \in Int
    BY DEF ProbeInv
  <2>2. clock - checked >= Fresh
    BY DEF StartProbe
  <2> QED
    BY <2>1, <2>2, ProbeAssumption
<1>2. /\ pc' = [pc EXCEPT ![q] = "probe"] /\ since' = [since EXCEPT ![q] = clock]
      /\ checked' = clock /\ clock' = clock /\ began' = began
  BY DEF StartProbe
<1>3. /\ pc' \in [Procs -> {"idle", "limit", "serve", "probe"}]
      /\ since' \in [Procs -> Int]
      /\ pc'[q] = "probe" /\ since'[q] = clock
      /\ \A r \in Procs : pc'[r] = "probe" => r = q
  BY <1>1, <1>2 DEF ProbeInv
<1>4. clock \in Int /\ clock <= clock + Timeout
  BY ProbeAssumption DEF ProbeInv
<1> QED
  BY <1>2, <1>3, <1>4 DEF ProbeInv, OneProbe

LEMMA EndProbeKeeps ==
  ASSUME ProbeInv, NEW q \in Procs, EndProbe(q)
  PROVE  ProbeInv'
<1>1. /\ pc[q] = "probe"
      /\ pc' = [pc EXCEPT ![q] = "idle"] /\ since' = [since EXCEPT ![q] = 0]
      /\ checked' = checked /\ clock' = clock /\ began' = since[q]
  BY DEF EndProbe
<1>2. checked = since[q]
  BY <1>1 DEF ProbeInv
<1>3. /\ pc' \in [Procs -> {"idle", "limit", "serve", "probe"}]
      /\ since' \in [Procs -> Int]
      /\ \A r \in Procs : pc'[r] # "probe"
  BY <1>1 DEF ProbeInv, OneProbe
<1> QED
  BY <1>1, <1>2, <1>3 DEF ProbeInv, OneProbe

LEMMA ProbeInvStep == ProbeInv /\ [PollNext]_pvars => ProbeInv'
<1> SUFFICES ASSUME ProbeInv, [PollNext]_pvars PROVE ProbeInv'
  OBVIOUS
<1>1. CASE PollTick
  BY <1>1, ProbeTickKeeps
<1>2. CASE OpenWindow /\ UNCHANGED probe
  BY <1>2, NoProbeKeeps DEF OpenWindow, ProbeInv
<1>3. ASSUME NEW q \in Procs, NEW label \in {"idle", "limit", "serve"},
             pc[q] # "probe", pc' = [pc EXCEPT ![q] = label],
             UNCHANGED <<clock, probe>>
      PROVE  ProbeInv'
  <2>1. /\ pc' \in [Procs -> {"idle", "limit", "serve", "probe"}]
        /\ \A r \in Procs : pc'[r] = "probe" <=> pc[r] = "probe"
    BY <1>3 DEF ProbeInv
  <2> QED
    BY <1>3, <2>1, NoProbeKeeps
<1>4. ASSUME NEW q \in Procs, Arrive(q) /\ UNCHANGED probe PROVE ProbeInv'
  BY <1>3, <1>4 DEF Arrive
<1>5. ASSUME NEW q \in Procs, Allow(q) /\ UNCHANGED probe PROVE ProbeInv'
  <2>1. PICK label \in {"idle", "limit", "serve"} : pc' = [pc EXCEPT ![q] = label]
    BY <1>5 DEF Allow
  <2> QED
    BY <1>3, <1>5, <2>1 DEF Allow
<1>6. ASSUME NEW q \in Procs, Cached(q) PROVE ProbeInv'
  BY <1>3, <1>6 DEF Cached, Serve
<1>7. ASSUME NEW q \in Procs, StartProbe(q) PROVE ProbeInv'
  BY <1>7, StartProbeKeeps
<1>8. ASSUME NEW q \in Procs, EndProbe(q) PROVE ProbeInv'
  BY <1>8, EndProbeKeeps
<1>9. CASE UNCHANGED pvars
  BY <1>9, NoProbeKeeps DEF pvars, rvars, ProbeInv
<1> QED
  BY <1>1, <1>2, <1>4, <1>5, <1>6, <1>7, <1>8, <1>9 DEF PollNext

\* A poll that is answered without probing found the time recent.
LEMMA AnswerStep ==
  ASSUME ProbeInv, [PollNext]_pvars,
         NEW q \in Procs, pc[q] = "serve", pc'[q] = "idle"
  PROVE  clock - began < Fresh \/ \E r \in Procs : pc[r] = "probe"
<1>1. \E r \in Procs : Cached(r)
  <2>1. \A r \in Procs : ~Arrive(r) /\ ~Allow(r) /\ ~StartProbe(r) /\ ~EndProbe(r)
    BY DEF Arrive, Allow, StartProbe, EndProbe, ProbeInv
  <2>2. ~PollTick /\ ~OpenWindow /\ ~UNCHANGED pvars
    BY DEF PollTick, Tick, OpenWindow, pvars, rvars
  <2> QED
    BY <2>1, <2>2 DEF PollNext
<1>2. clock - checked < Fresh
  BY <1>1 DEF Cached
<1> QED
  BY <1>2 DEF ProbeInv

-----------------------------------------------------------------------------
(* The theorems. *)

\* Type correctness: whatever the order in which requests reach allow, no bucket
\* is fuller than its burst and none is dated after the clock.
THEOREM TypeCorrect == PollSpec => []TypeOK
<1>1. PollInit => LimiterInv
  BY LimiterInvInit DEF PollInit
<1>2. LimiterInv => TypeOK
  BY DEF LimiterInv
<1> QED
  BY <1>1, <1>2, LimiterInvStep, PTL DEF PollSpec

\* In any stretch of time a caller is given its burst, what it earns in that time
\* and what MaxWait earns at most, for every number of callers and of requests in
\* flight, unless the prune drops the bucket just made for it.
THEOREM WithinRateAlways == PollSpec => []WithinRate
<1>1. PollInit => LimiterInv
  BY LimiterInvInit DEF PollInit
<1> QED
  BY <1>1, LimiterInvStep, BudgetBounds, PTL DEF PollSpec

\* However many polls find the answer of Reachable too old, one probes: the time
\* is refreshed first, and the probe ends before that time is too old again.
THEOREM OneProbeAlways == PollSpec => []OneProbe
<1>1. ProbeInv => OneProbe
  BY DEF ProbeInv
<1> QED
  BY <1>1, ProbeInvInit, ProbeInvStep, PTL DEF PollSpec

\* The screen is shown an answer older than Fresh only while a probe is on its
\* way.
THEOREM OldOnlyWhileProbingAlways == PollSpec => OldOnlyWhileProbing
<1> DEFINE Answered ==
      \A q \in Procs : (pc[q] = "serve" /\ pc'[q] = "idle") =>
        clock - began < Fresh \/ \E r \in Procs : pc[r] = "probe"
<1>1. ProbeInv /\ [PollNext]_pvars => [Answered]_pvars
  BY AnswerStep
<1>2. PollSpec => [][Answered]_pvars
  BY <1>1, ProbeInvInit, ProbeInvStep, PTL DEF PollSpec
<1> QED
  BY <1>2 DEF OldOnlyWhileProbing
=============================================================================
